SPECIFICATION PlSlicesSpec
CONSTANTS
  None = None
  Default = Default
  Nodes = {n1, n2}
  Reservable = {n1}
  Times = {e1}
  Workers = {w1, w2}
  MaxRequests = 3
  MaxFailures = 1
  Nothing = Nothing
  a = a
  b = b
  k1 = k1
  s1 = s1
  s2 = s2
  g1 = g1
  g2 = g2
  l1 = l1
  Threads = {t1, t2}
  Slices = {s1, s2}
  People = {a, b}
  PubKeys = {k1}
  Tags = {g1, g2, l1}
  Managed = {g1}
  EgreKeys = {1, 2}
  Demands <- MCDemands
  MaxDemands = 3
  MaxMishaps = 1
SYMMETRY Symmetry
VIEW View
INVARIANTS PlSlicesTypeOK AsAnswered SliversExpire  EgreKeysApart
CHECK_DEADLOCK FALSE
