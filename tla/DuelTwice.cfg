SPECIFICATION Spec
CHECK_DEADLOCK FALSE
CONSTANTS
  cardCount = 1
  MaxTries = 0
  MaxFaults = 1
INVARIANT OneDuelPerMatch
