SPECIFICATION Spec
CONSTANTS
  None = None
  Absent = Absent
  Empty = Empty
  root = root
  hub = hub
  site = site
  Auths = {root, hub, site}
  Parent <- MCParent
  Interface = hub
  Procs = {p1, p2}
  Exclusive = FALSE
  MaxAsks = 2
  MaxCrashes = 0
SYMMETRY Symmetry
INVARIANT GidMatchesKeys
CHECK_DEADLOCK FALSE
