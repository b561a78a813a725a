SPECIFICATION Spec
CONSTANTS
  Users = {alice, bob}
  NoUser = NoUser
  Stakes = {0, 2}
  DeckSizes = {0, 1, 2}
  Strikes = {1}
  Prices = {1, 2}
  Premiums = {0, 1}
  Quantities = {1}
  PROB_SCALE = 1
  MIN_DECK_SIZE = 1
  MAX_DECK_SIZE = 2
  SWIPE_WINDOW_MS = 1
  REVEAL_TIMEOUT_MS = 1
  REFUND_TIMEOUT_MS = 2
  MAX_U64 = 3
  MaxIdle = 1
SYMMETRY Perms
INVARIANTS FundsConserved EscrowAllOrNothing PotEarned RecordsAgree
PROPERTIES ImplementsEscrow ImplementsLifecycle NoReplayedPosition NoPrematureEnd LoserCannotDodge RecordIsAppendOnly
