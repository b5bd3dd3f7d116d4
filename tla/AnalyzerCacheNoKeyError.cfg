SPECIFICATION Spec
CONSTANTS
  Thread = {t1, t2}
  Key = {k1, k2}
  MaxSize = 1
  Nobody = Nobody
  MaxCalls = 3
CHECK_DEADLOCK FALSE
INVARIANT NoKeyError
