------------------------------ MODULE Methods ------------------------------
(* What each method of the API asks of the credential it is called with: the  *)
(* operation that must be among its rights, and how its object must relate to *)
(* the target: not at all, be the target, or be above it (src/sfa/methods).   *)
Method == [name : STRING, op : STRING, target : {"none", "exact", "under"}]

\* The registry's methods.
Register        == [name |-> "Register",          op |-> "register",        target |-> "under"]
Update          == [name |-> "Update",            op |-> "update",          target |-> "under"]
Remove          == [name |-> "Remove",            op |-> "remove",          target |-> "under"]
CreateGid       == [name |-> "CreateGid",         op |-> "update",          target |-> "under"]
GetCredential   == [name |-> "GetCredential",     op |-> "getcredential",   target |-> "none"]
Resolve         == [name |-> "Resolve",           op |-> "resolve",         target |-> "none"]
List            == [name |-> "List",              op |-> "list",            target |-> "none"]
GetTrustedCerts == [name |-> "get_trusted_certs", op |-> "gettrustedcerts", target |-> "none"]

\* The aggregate's methods.
ListResources   == [name |-> "ListResources",     op |-> "listnodes",       target |-> "none"]
Describe        == [name |-> "Describe",          op |-> "listnodes",       target |-> "exact"]
Allocate        == [name |-> "Allocate",          op |-> "createsliver",    target |-> "exact"]
Provision       == [name |-> "Provision",         op |-> "createsliver",    target |-> "exact"]
PerformOperationalAction ==
                   [name |-> "PerformOperationalAction", op |-> "createsliver", target |-> "exact"]
Renew           == [name |-> "Renew",             op |-> "renewsliver",     target |-> "exact"]
Status          == [name |-> "Status",            op |-> "sliverstatus",    target |-> "exact"]
Delete          == [name |-> "Delete",            op |-> "deletesliver",    target |-> "exact"]
Shutdown        == [name |-> "Shutdown",          op |-> "stopslice",       target |-> "exact"]
=============================================================================
