SPECIFICATION FairSpec
CONSTANTS
  Conns = {c1, c2}
  None = None
  UpdatesCap = 1
  ErrsCap = 1
  Limits = {0, 2}
  StaleCutoff = 1
  AttemptBound = 2
  UpdateBound = 2
  FrameSizes = {1, 2}
  ClockBound = 1
INVARIANTS
  TypeOK
  OneConnection
  NothingLost
  DrainedBeforeReturn
  StreamSurvives
PROPERTIES
  PingersStop
  Reconnects
  CancelEndsStream
  RunReturns
CHECK_DEADLOCK FALSE
