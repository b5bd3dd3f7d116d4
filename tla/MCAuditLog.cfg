SPECIFICATION Spec
CONSTANTS
  Logger = {l1, l2}
  Outcomes = {"whole", "unterminated", "part", "none"}
  MaxEvents = 4
CHECK_DEADLOCK FALSE
INVARIANTS TypeOK LossIsReported VerifiedIsOrdered ChainUnbroken
PROPERTIES LinesStay ImplementsTrail
