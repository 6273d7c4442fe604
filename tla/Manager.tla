------------------------------ MODULE Manager ------------------------------
(* What the threads of an aggregate's server share in memory, the table of   *)
(* call ids (Callids) and the cache of advertisements, and what the driver   *)
(* of a PlanetLab aggregate answers its requests (PlAggregate).  None of the *)
(* steps relates two of them, so a behaviour is about one.                   *)
EXTENDS Callids, PlAggregate

VARIABLE shared     \* what this behaviour is about

ManagerInit ==
  /\ Init /\ PlAggregateInit /\ shared \in {"call ids", "answers"}
  /\ shared = "call ids" => wanted = "advertisement" /\ entries = <<>>

ManagerNext ==
  /\ UNCHANGED shared
  /\ \/ shared = "call ids" /\ Next /\ UNCHANGED plAggregateVars
     \/ shared = "answers" /\ PlAggregateNext /\ UNCHANGED vars

managerVars == <<vars, plAggregateVars, shared>>
Serve(w) == shared = "call ids" /\ Step(w) /\ UNCHANGED <<plAggregateVars, shared>>

\* A thread that has a call is scheduled until it has answered.
ManagerSpec ==
  ManagerInit /\ [][ManagerNext]_managerVars /\ \A w \in Threads : WF_managerVars(Serve(w))
=============================================================================
