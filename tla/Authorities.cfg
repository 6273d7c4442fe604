SPECIFICATION AuthoritiesSpec
CONSTANTS
  None = None
  Nobody = Nobody
  Absent = Absent
  Empty = Empty
  root = root
  hub = hub
  site = site
  Auths = {root, hub, site}
  Parent <- MCParent
  Interface = hub
  Procs = {p1, p2}
  Exclusive = TRUE
  MaxAsks = 4
  MaxCrashes = 1
  Registries <- MCRegistries
  Neighbours <- MCNeighbours
  Requests <- MCRequests
  Directories <- MCDirectories
  PoolSize = 2
  MaxLookups = 2
  MaxStops = 1
  Nothing = Nothing
  Users <- MCUsers
  SliceHrn = "slice"
  SiteHrn = "site"
  Pointer <- MCPointer
  AskedFor <- MCAskedFor
  MaxUpdates = 2
INVARIANTS AuthoritiesTypeOK GidMatchesKeys IssuedVerifies FoundAtHome DetailsAgree
PROPERTIES KeysAreKept LookupsEnd
CHECK_DEADLOCK FALSE
