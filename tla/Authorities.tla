---------------------------- MODULE Authorities ----------------------------
(* What may go wrong in a registry besides its writes, each on its own: its  *)
(* processes share the tree of keys and gids on disk (Hierarchy), registries *)
(* pass lookups on to one another (Federation), and a lookup with details    *)
(* reads records and testbed while they change (Details).  None of these     *)
(* waits for another one, so a behaviour is about one.                       *)
EXTENDS Hierarchy, Federation, Details

VARIABLE subject     \* what the behaviour is about

AuthoritiesInit ==
  /\ Init /\ PeersInit /\ DetailsInit /\ subject \in {"tree", "peers", "details"}
  /\ subject # "peers" => registered = CHOOSE d \in Directories : TRUE
  /\ subject # "details" => bed = "planetlab" /\ ~onNodes /\ used = {} /\ pis = {}

OnDisk == subject = "tree" /\ Next /\ UNCHANGED <<peerVars, detailVars>>
Abroad == subject = "peers" /\ PeersNext /\ UNCHANGED <<vars, detailVars>>
InDetail == subject = "details" /\ DetailsNext /\ UNCHANGED <<vars, peerVars>>
AuthoritiesNext == UNCHANGED subject /\ (OnDisk \/ Abroad \/ InDetail)

allVars == <<vars, peerVars, detailVars, subject>>
Work == UNCHANGED <<vars, detailVars, subject>> /\ subject = "peers" /\ PeersWork

AuthoritiesSpec == AuthoritiesInit /\ [][AuthoritiesNext]_allVars /\ WF_allVars(Work)

\* What the variables of both may hold; a thread that waits has a call somewhere.
AuthoritiesTypeOK == TypeOK /\ FederationTypeOK
=============================================================================
