SPECIFICATION Spec
CONSTANTS
  Markets <- OneMarket
  Keys = {s1, s2, s3}
  Countries <- OneCountry
  WhitelistMarkets <- OneMarket
  AllowedCountries <- OneCountry
  MarketCluster <- NoClusters
  PerMarketExposureCap = 2
  PerClusterExposureCap <- NoClusterCaps
  DailyLossCap = 5
  StaleCutoff = 5
  ComplianceRejects <- Nothing
  Signals = {s1, s2, s3}
  Orders = {s1, s2, s3}
  OrderFor <- MCOrderFor
  PostStatuses <- Spellings
  ReconcileMaxAttempts = 2
  ReconcileSweepLimit = 2
  MaxFaults = 1
SYMMETRY SignalSymmetry
INVARIANTS
  TypeOK
  AuditTrail
  ExposureCoversExchange
  RowsPerReconcile
PROPERTY
  TracksOrders
