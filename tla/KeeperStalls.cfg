SPECIFICATION FairSpec
CONSTANTS
  Sizes = {2}
  Markets <- MarketNames
  MarketOf <- TwoMarkets
  Outsiders = FALSE
  AccountsFound = TRUE
  RedeemBlocks = FALSE
  LooseText = FALSE
  MaxFaults = 2
PROPERTIES EventuallyClosed
