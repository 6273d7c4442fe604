SPECIFICATION Updates
CONSTANTS
  None = None
  Slices = {s1}
  Users = {u1, u2}
  Keys = {k1}
  Called <- MCCalled
  Workers = {w1, w2}
  Exclusive = FALSE
  MaxRequests = 2
  MaxFailures = 0
SYMMETRY Symmetry
INVARIANT LinkedFromNowOn
CHECK_DEADLOCK FALSE
