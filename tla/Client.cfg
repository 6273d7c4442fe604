SPECIFICATION MCSpec
CONSTANTS
  alice = alice
  portal = portal
  slice = slice
  authority = authority
  k1 = k1
  Users <- MCUsers
  Clients <- MCClients
  Slices <- MCSlices
  Auths <- MCAuths
  AuthorityOf <- MCAuthorityOf
  Targets <- MCTargets
  Keys = {k1, k2}
  MaxTime = 2
  Lifetime = 1
  MaxMade = 1
  MaxSwaps = 1
  MaxCommands = 2
  MaxChanges = 1
  None = None
  Registry = Registry
  TextOutput = TRUE
INVARIANTS ClientTypeOK CredentialsFollowRights GrantsFollowRights
CHECK_DEADLOCK FALSE
