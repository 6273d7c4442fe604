--------------------------- MODULE RegistryServer ---------------------------
(* Two things that the servers of one interface depend on, each on its own:  *)
(* the records and the testbed that requests write (Registry), and the       *)
(* trusted roots that each request is verified against (Trust).              *)
EXTENDS Registry, Trust

VARIABLE concern     \* what the behaviour is about

ServerInit ==
  /\ Init /\ TrustInit /\ concern \in {"records", "trust"}
  /\ concern # "records" => db = [i \in Id |-> None]

OnRecords == concern = "records" /\ Next /\ UNCHANGED trustVars
OnTrust == concern = "trust" /\ TrustNext /\ UNCHANGED vars
ServerNext == UNCHANGED concern /\ (OnRecords \/ OnTrust)

serverVars == <<vars, trustVars, concern>>
\* The threads of the server's pool keep working.
ThreadWorks(w) == UNCHANGED <<trustVars, concern>> /\ concern = "records" /\ Step(w)
ServerSpec == ServerInit /\ [][ServerNext]_serverVars /\ \A w \in Workers : WF_serverVars(ThreadWorks(w))
=============================================================================
