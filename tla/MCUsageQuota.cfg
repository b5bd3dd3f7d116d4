SPECIFICATION FairSpec
CONSTANTS
  Worker = {w1, w2}
  Limits <- MCLimits
  LastDay = 2
  MonthLength = 2
  MaxUses = 2
CHECK_DEADLOCK FALSE
INVARIANTS TypeOK NeverOvercharged ExactUnlessOverlapping
PROPERTY RequestsEnd
