SPECIFICATION SpecFromBoot
CONSTANTS
  Duels <- OneDuel
  Markets = {"m1"}
  Winners = {"p0"}
  PageSize = 1
  MaxPages = 2
  MaxFaults = 0
INVARIANTS RatesBoth
