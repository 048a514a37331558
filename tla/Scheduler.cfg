CONSTANTS
  MAX_PIDS = 4
  UserPoints = 2
  MaxCreates = 4
  MaxExits = 3
SPECIFICATION FairSpec
CHECK_DEADLOCK FALSE
INVARIANT RunningIsCurrent
INVARIANT ResumesWhereParked
INVARIANT RingThree
PROPERTY NoStarvation
 
