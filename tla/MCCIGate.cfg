SPECIFICATION StoreSpec
CONSTANTS
  Process = {p1, p2}
  Query = {q1, q2}
  Plan <- MCPlan
  NoPlan = NoPlan
  Torn = Torn
  Batches <- MCBatches
  HighDanger <- MCHighDanger
SYMMETRY MCSymmetry
CHECK_DEADLOCK FALSE
INVARIANTS StoreTypeOK KeepsWhatWasSaved GateGuardsWhatWasSaved UndisturbedLosesNothing UpgradeGuardsLocks
