SPECIFICATION Spec
CONSTANTS
  Sockets = {s1, s2}
  Addresses = {a1, a2}
  Tiers = {"starter", "casual"}
  Duels = {}
  Calls = {c1, c2}
  None = None
SYMMETRY Perms
INVARIANTS NoGhostInQueue
