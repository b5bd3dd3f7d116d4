SPECIFICATION Spec
CONSTANTS
  Logger = {l1}
  Outcomes = {"whole"}
  MaxEvents = 3
CHECK_DEADLOCK FALSE
INVARIANT MemoryVerifies
