SPECIFICATION Spec
CONSTANTS
  MaxU64 = 20
  Fees = {0, 30, 5000, 9999, 10000}
INVARIANTS PoolBacked SqrtIsFloor
PROPERTIES ShareNeverDiluted
