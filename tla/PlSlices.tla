------------------------------ MODULE PlSlices ------------------------------
(* PlDriver's allocate and provision work through PlSlices on two things     *)
(* that none of its steps relates: the slice's nodes, leases and expiration  *)
(* (Slivers), its persons, keys and tags (SliceUsers).  A failure in one     *)
(* ends the request for the other as well: there it is a call that fails.    *)
(* So a behaviour is about one of them.                                      *)
EXTENDS Slivers, SliceUsers

VARIABLE concern     \* what the behaviour is about

PlSlicesInit ==
  /\ Init /\ UsersInit /\ concern \in {"slivers", "users"}
  /\ concern = "users" => expires = None
  /\ concern = "slivers" => theSite = "there" /\ topology = "empty"

OnNodes == concern = "slivers" /\ Next /\ UNCHANGED usersVars
OnUsers == concern = "users" /\ UsersNext /\ UNCHANGED vars
PlSlicesNext == UNCHANGED concern /\ (OnNodes \/ OnUsers)

plSlicesVars == <<vars, usersVars, concern>>
PlSlicesSpec == PlSlicesInit /\ [][PlSlicesNext]_plSlicesVars

\* What the testbed, the aggregate's database and a request may hold.
PlSlicesTypeOK == TypeOK /\ UsersTypeOK
=============================================================================
