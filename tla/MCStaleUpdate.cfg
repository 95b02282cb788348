SPECIFICATION Spec
CONSTANTS
  Conns = {c1, c2}
  None = None
  UpdatesCap = 1
  ErrsCap = 1
  Limits = {0}
  StaleCutoff = 1
  AttemptBound = 2
  UpdateBound = 3
  FrameSizes = {1, 2}
  ClockBound = 2
SYMMETRY ConnSymmetry
INVARIANT
  StaleNeverExecuted
CHECK_DEADLOCK FALSE
