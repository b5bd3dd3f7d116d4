SPECIFICATION FairSpec
CONSTANTS
  Row = {r1, r2, r3}
  App = {a1, a2}
  Value = {v1, v2}
  NULL = NULL
  Unwritten = Unwritten
  BatchSize = 1
  Paused = TRUE
CHECK_DEADLOCK FALSE
INVARIANTS TypeOK NotNullHolds NoUpdateLost
PROPERTY BackfillEnds
