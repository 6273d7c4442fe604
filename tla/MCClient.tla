------------------------------ MODULE MCClient ------------------------------
(* Model checking of Client: alice runs sfi, portal acts on what she          *)
(* delegates; one slice of one authority.  She starts as a researcher of the  *)
(* slice and PI of its authority, with the first of two keys, which stands    *)
(* for either of them.                                                        *)
EXTENDS Client, TLC
CONSTANTS alice, portal, slice, authority, k1
MCUsers == {alice, portal}
MCClients == {alice}
MCSlices == {slice}
MCAuths == {authority}
MCAuthorityOf == [o \in MCUsers \cup MCSlices |-> authority]
MCTargets == {alice, slice}
MCInit ==
  /\ Init
  /\ members = [o \in {slice, authority} |-> {alice}]
  /\ \A u \in Users : gid[u].key = k1
MCSpec == MCInit /\ [][Next]_vars
=============================================================================
