SPECIFICATION MemorySpec
CONSTANTS
  PAGE_SIZE = 4
  HHDM = 1000
  ZONE_SIZE = 3
  BUDDY_SIZE = 1
  mmap <- PagesMmap
  Sizes = {4, 8}
  REGION = 16
CHECK_DEADLOCK FALSE
INVARIANT PagesSound
INVARIANT AnswersUntilExhausted
 
 
 
PROPERTY UserDataUntouched
 
 
INVARIANT NumbersExact
