SPECIFICATION ServerSpec
CONSTANTS
  None = None
  Slices = {s1}
  Users = {u1, u2}
  Keys = {k1, k2}
  Called <- MCCalled
  Workers = {w1, w2}
  Exclusive = FALSE
  MaxRequests = 2
  MaxFailures = 1
  Servers = {"registry"}
  Home <- MCHome
  Peers <- MCPeers
  NoFile = NoFile
  NoText = NoText
  NoVerdict = NoVerdict
  Life = 1
  MaxClock = 2
  MaxResets = 1
  MaxKills = 1
INVARIANTS KeysOnTestbed ResearchersExist TrustHolds
PROPERTY Answered
CHECK_DEADLOCK FALSE
