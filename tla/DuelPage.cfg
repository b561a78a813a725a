SPECIFICATION FairSpec
CHECK_DEADLOCK FALSE
CONSTANTS
  cardCount = 2
  MaxTries = 1
  MaxFaults = 2
INVARIANTS TypeOK
PROPERTIES NeverAhead EventuallyMovesOn
