SPECIFICATION ImportersSpec
CONSTANTS
  None = None
  u1 = u1
  s1 = s1
  s2 = s2
  d1 = d1
  Slices = {s1}
  Users = {u1}
  Keys = {k1, k2}
  Called <- MCCalled
  Workers = {w1}
  Exclusive = TRUE
  MaxRequests = 2
  MaxFailures = 1
  MaxChanges = 1
  MaxImports = 2
  Void = Void
  Accounts = {u1}
  Projects = {s1, s2}
  PublicKeys = {d2}
  Hrns <- MCHrns
  FirstAccounts <- MCAccounts
  FirstProjects <- MCProjects
  MaxCalls = 2
  MaxFaults = 1
  MaxRuns = 2
SYMMETRY Symmetry
VIEW View
INVARIANTS ImportersTypeOK 
PROPERTY RecordsKept
CHECK_DEADLOCK FALSE
