SPECIFICATION Spec
CONSTANTS
  None = None
  Default = Default
  Nodes = {n1, n2}
  Reservable = {n1}
  Times = {e1}
  Workers = {w1}
  MaxRequests = 3
  MaxFailures = 0
INVARIANT DeleteFrees
CHECK_DEADLOCK FALSE
