SPECIFICATION StoreSpec
CONSTANTS
  Process = {p1}
  Query = {q1}
  Plan <- MCPlan
  NoPlan = NoPlan
  Torn = Torn
  Batches <- MCBatches
  HighDanger <- MCHighDanger
CHECK_DEADLOCK FALSE
INVARIANT LockedChangeFails
