SPECIFICATION Spec
CONSTANTS
  Row = {r1, r2}
  App = {a1, a2}
  Value = {v1, v2}
  NULL = NULL
  Unwritten = Unwritten
  BatchSize = 1
  Paused = FALSE
CHECK_DEADLOCK FALSE
INVARIANT NoUpdateLost
