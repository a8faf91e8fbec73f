CONSTANTS
  Apps = {"BAC001", "BAC002", "AuctionFixedPrice", "AuctionUnfixedPrice", "Lottery", "CatBlindbox"}
  Accounts = {deployer, user, contract}
  Users = {deployer, user}
  Deployer = deployer
  None = None
  This = contract
  Approved = {contract}
  Supply = 2
  MaxTotal = 2
  Values = {1}
  Assets = {0, 1}
  MaxTime = 1
  Prices = {1}
  Durations = {1}
  Bids = {1, 2}
  MaxAuctions = 2
  MaxCalls = 1
  Numbers = {0, 1}
  MaxRequests = 2
  Amounts = {1}
  MaxPlayers = 2
  MaxLotteries = 2
  CatsSpecies <- MCCatsSpecies
SPECIFICATION Spec
INVARIANTS MarketTypeOK BooksBalance EnumerationOK ActiveAssetIsHeld DepositsAreHeld WinnerPaysHisBid DrawnOnce SpeciesDrawnOnce
PROPERTIES PotStays ApprovalsEndWithOwnership
CHECK_DEADLOCK FALSE
