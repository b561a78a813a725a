SPECIFICATION FairSpec
CONSTANTS
  Sockets = {s1, s2}
  Addresses = {a1, a2}
  Tiers = {"starter"}
  Duels = {d1}
  Calls = {c1}
  None = None
INVARIANTS RoomsMatch
PROPERTIES ForfeitArmedByLastTab PairingsEnd
