CONSTANTS
  MAX_PIDS = 3
  UserPoints = 2
  MaxCreates = 2
  MaxExits = 2
SPECIFICATION Spec
INVARIANT ExitPanicNeverReached
CHECK_DEADLOCK FALSE
