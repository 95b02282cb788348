SPECIFICATION FairSpec
CONSTANTS
  Markets <- OneMarket
  Keys = {"s1", "s2"}
  Countries <- OneCountry
  WhitelistMarkets <- OneMarket
  AllowedCountries <- OneCountry
  MarketCluster <- NoClusters
  PerMarketExposureCap = 2
  PerClusterExposureCap <- NoClusterCaps
  DailyLossCap = 5
  StaleCutoff = 5
  ComplianceRejects <- Nothing
  Signals = {"s1", "s2"}
  Orders = {"s1", "s2"}
  OrderFor <- MCOrderFor
  PostStatuses <- JustLive
  ReconcileMaxAttempts = 1
  ReconcileSweepLimit = 1
  MaxFaults = 0
PROPERTY
  OutcomesArrive
