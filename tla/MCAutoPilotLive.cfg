SPECIFICATION FairSpec
CONSTANTS
  Markets <- OneMarket
  Keys = {s1, s2}
  Countries <- OneCountry
  WhitelistMarkets <- OneMarket
  AllowedCountries <- OneCountry
  MarketCluster <- NoClusters
  PerMarketExposureCap = 1
  PerClusterExposureCap <- NoClusterCaps
  DailyLossCap = 5
  StaleCutoff = 5
  ComplianceRejects <- Nothing
  Signals = {s1, s2}
  Orders = {s1, s2}
  OrderFor <- MCOrderFor
  PostStatuses <- Spellings
  ReconcileMaxAttempts = 2
  ReconcileSweepLimit = 2
  MaxFaults = 2
PROPERTIES
  LearnsOutcomes
  LoopReturns
