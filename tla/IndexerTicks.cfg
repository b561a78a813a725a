SPECIFICATION FairSpec
CONSTANTS
  Duels <- OneDuel
  Markets = {"m1", "m2"}
  Winners = {"p0"}
  PageSize = 1
  MaxPages = 2
  MaxFaults = 2
INVARIANTS RatedOnce WinnerStays
PROPERTIES OutcomesStay EventuallyIndexed ImplementsMirror
