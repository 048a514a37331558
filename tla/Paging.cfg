SPECIFICATION PagingSpec
CONSTANTS
  ENTRIES = 2
  UserPages = {0, 2}
  KernelPages = {8, 9}
  PageFrames = {100}
  MaxTables = 12
  MaxSpaces = 2
  MaxMaps = 2
INVARIANT CacheCoherent
INVARIANT KernelHalfKept
PROPERTY ImplementsAddressSpace
PROPERTY ElfImage
PROPERTY ProgramsStarted
CHECK_DEADLOCK FALSE
