SPECIFICATION PartsSpec
CONSTANTS
  w1 = w1
  w2 = w2
  Workers = {w1, w2}
  Addresses <- MCAddresses
  AddressOf <- MCAddressOf
  Seeds <- MCSeeds
  MaxInt4 = 2
  MaxInt8 = 4
  MaxEdits = 1
  Ticks = 10
  OffsetScale = 10
  Prices <- MCPrices
  Mins <- MCMins
  Maxs <- MCMaxs
  Offsets <- MCOffsets
  Sides = {"BUY", " sell", "HOLD"}
  Notionals = {0, 1, 2, 30}
  Books <- MCBooks
  Assets = {"a"}
  Tokens = {"a", "t", "no_token"}
  MaxBuilds = 2
  AssetA = "a"
  AssetB = "b"
  OtherAsset = "c"
  Payloads <- MCPayloads
  FlipSpread = 2
  Cooldown = 2
  MaxTime = 5
  MaxFlips = 3
  Spreads = {0, 4}
  Confidences = {4}
  MediumSetting = 2
  HighSetting = 1
  DefaultHigh = 2
  HighMargin = 2
  MinSeverity = "medium"
  AlertCooldown = 2
  NotifyCooldown = 3
  MaxRetries = 1
  Timeout = 0
  RetryAfter = 1
  BookTimeout = 1
  QueryTime = 1
  MaxSignals = 2
INVARIANTS
  TypesOK
  NoncesUnique
  PriceInRange
  GateSeesTheOrder
  
  CancelIsPrompt
PROPERTIES
  SignalsApart
  SignalIsReal
  LostFlipsShow
  NotificationsNearlyApart
  OnlyDeliveredAlertsSilence
  HandlersReturn
CHECK_DEADLOCK FALSE
