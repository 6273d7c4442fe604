SPECIFICATION Spec
CONSTANTS
  None = None
  Threads = {t1, t2}
  Ids = {c1}
  Retries = 10
  PurgeTimeout = 2
  MaxTables = 2
  MaxCalls = 2
  MaxTime = 1
INVARIANT AtMostOnce
CHECK_DEADLOCK FALSE
