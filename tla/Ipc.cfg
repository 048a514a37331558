SPECIFICATION MessageSpec
CONSTANTS
  MAX_PIDS = 3
  Ports = {0, 5}
  Sizes = {0, 12}
  Buffers = {"b1", "b2"}
  NULL = "NULL"
  MaxPending = 2
  MaxSends = 3
 
PROPERTY DeliversOldest
 
PROPERTY ImplementsMailbox
 
 
CHECK_DEADLOCK FALSE
