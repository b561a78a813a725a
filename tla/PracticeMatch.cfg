SPECIFICATION FairSpec
CHECK_DEADLOCK FALSE
CONSTANTS
  n = 2
  Offset <- OneThenThree
  StartTimeout = 2
  Grace = 2
  Buffer = 1
  ResultDelay = 1
  MaxStarts = 3
  MaxDrops = 1
INVARIANTS PicksHidden VerdictEarned
PROPERTIES EventuallyOver
