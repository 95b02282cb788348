SPECIFICATION PartsSpec
CONSTANTS
  Markets = {"m1", "m2", "m3"}
  Keys = {"k1", "k2", "k3"}
  Countries = {"US", "IR"}
  WhitelistMarkets = {"m1", "m2"}
  AllowedCountries = {"US"}
  MarketCluster <- MCCluster
  PerMarketExposureCap = 4
  PerClusterExposureCap <- MCClusterCaps
  DailyLossCap = 3
  StaleCutoff = 1
  ComplianceRejects = {}
  Orders <- MCOrders
  PnLs <- MCPnLs
  MaxPnL = 4
  Operators = {"a", "b"}
  Stream <- MCStream
  MaxSequence = 4
  Bases = {1, 2}
  MaxRecoveries = 1
  Venue <- MCVenue
  CoreCategories = {"sports"}
  CoreTopPct = 70
  OtherTopPct = 50
  PageSize = 2
  MaxFetch = 5
  MaxSelected = 2
  MaxAssetIDs = 4
  Tier1Only = FALSE
  MaxChanges = 1
INVARIANTS TypesOK Parity ReplayAgrees GapsClosed PairIsSubscribed
CHECK_DEADLOCK FALSE
