SPECIFICATION Spec
CONSTANTS
  Sockets = {s1, s2}
  Addresses = {a1, a2}
  Tiers = {"starter"}
  Duels = {}
  Calls = {c1, c2}
  None = None
SYMMETRY Perms
INVARIANTS TypeOK TablesAgree MarketsPicked ShuffleIsFair CardsDiffer 
PROPERTIES PushesOnlySearching FailureKeepsPlayers RetryTakesWaiting
