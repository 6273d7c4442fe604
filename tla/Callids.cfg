SPECIFICATION ManagerSpec
CONSTANTS
  None = None
  Threads = {t1, t2}
  Ids = {c1, c2}
  Retries = 2
  PurgeTimeout = 2
  MaxTables = 2
  MaxCalls = 4
  MaxTime = 2
  Nil = Nil
  Readers = {r1, r2}
  Ttl = 1
  Patience = 1
  MaxLists = 2
  MaxChanges = 1
  Asked = {"all", "leases"}
  MaxClock = 4
  s1 = s1
  s2 = s2
  n1 = n1
  n2 = n2
  Slices = {s1, s2}
  Home = {s1}
  Hosts = {n1, n2}
  Persons = {p1}
  Questions <- MCQuestions
  Nowhere = Nowhere
  MaxQuestions = 1
  MaxMoves = 1
SYMMETRY Symmetry
INVARIANTS TypeOK OncePerTable RememberedInTime AnswersFollowTestbed
PROPERTY LockGivenBack
CHECK_DEADLOCK FALSE
