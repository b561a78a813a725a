SPECIFICATION FairSpec
CONSTANTS
  Sizes = {2}
  Markets <- MarketNames
  MarketOf <- TwoMarkets
  Outsiders = TRUE
  AccountsFound = TRUE
  RedeemBlocks = TRUE
  LooseText = FALSE
  MaxFaults = 2
INVARIANTS FinalizedIsComplete RevealedIsRevealed
PROPERTIES LastBatchCloses EventuallyDone
