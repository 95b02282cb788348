SPECIFICATION Spec
CONSTANTS
  Markets <- MCMarkets
  Keys <- MCKeys
  Countries = {"US", "IR"}
  WhitelistMarkets <- MCWhitelist
  AllowedCountries <- MCCountries
  MarketCluster <- MCCluster
  PerMarketExposureCap = 2
  PerClusterExposureCap <- MCClusterCap
  DailyLossCap = 1
  StaleCutoff = 1
  ComplianceRejects <- MCComplianceRejects
  Threads = {t1, t2}
  LiveOrders <- MCLiveOrders
  Ages = {0, 2}
  PnLs <- MCPnLs
  PnLRange <- MCPnLRange
  Reasons = {"manual_incident", ""}
  Nobody = Nobody
INVARIANTS
  TypeOK
  CapsHold
  ExposureAccounted
  AcceptedOnce
  AtMostOneLeak
  LossLatched
PROPERTIES
  NoAcceptUnderLossCap
