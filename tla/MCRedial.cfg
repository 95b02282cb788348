SPECIFICATION Spec
CONSTANTS
  Conns = {c1, c2}
  None = None
  UpdatesCap = 1
  ErrsCap = 1
  Limits = {0}
  StaleCutoff = 0
  AttemptBound = 40
  UpdateBound = 0
  FrameSizes = {1, 2}
  ClockBound = 0
SYMMETRY ConnSymmetry
INVARIANT
  RedialsAreSpaced
CHECK_DEADLOCK FALSE
