SPECIFICATION FairSpec
CONSTANTS
  Thread = {t1, t2}
  Key = {k1, k2, k3, k4}
  MaxSize = 2
  Nobody = Nobody
  MaxCalls = 5
CHECK_DEADLOCK FALSE
INVARIANTS TypeOK SizeBounded NoCallCountedTwice SerialCallNeverRaises
PROPERTIES SerialCallsAreLRU EvictionsArePaid CallsEndOnceNoneBegin
