SPECIFICATION Spec
CONSTANTS
  None = None
  Slices = {s1}
  Users = {u1, u2}
  Keys = {k1}
  Called <- MCCalled
  Workers = {w1, w2}
  Exclusive = TRUE
  MaxRequests = 3
  MaxFailures = 1
SYMMETRY Symmetry
INVARIANTS TypeOK OneRecordPerName RecordsMatchTestbed LinkedFromNowOn
PROPERTY ImplementsDirectory
CHECK_DEADLOCK FALSE
