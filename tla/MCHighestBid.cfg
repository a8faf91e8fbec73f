CONSTANTS
  Apps = {"AuctionUnfixedPrice"}
  Accounts = {deployer, user, contract}
  Users = {deployer, user}
  Deployer = deployer
  None = None
  This = contract
  Approved = {contract}
  Supply = 5
  MaxTotal = 5
  Values = {2}
  Assets = {0}
  MaxTime = 0
  Prices = {1}
  Durations = {1}
  Bids = {1, 2, 3}
  MaxAuctions = 1
  MaxCalls = 0
  Numbers = {0}
  MaxRequests = 0
  Amounts = {1}
  MaxPlayers = 0
  MaxLotteries = 0
  CatsSpecies <- MCNoSpecies
SPECIFICATION Spec
INVARIANTS HighestBidWins
CHECK_DEADLOCK FALSE
