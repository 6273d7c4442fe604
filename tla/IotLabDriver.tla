---------------------------- MODULE IotLabDriver ----------------------------
(* The driver of an IoT-LAB testbed (iotlabdriver.py, iotlabaggregate.py and *)
(* iotlabshell.py): jobs that its scheduler runs, one user's account, and    *)
(* the lease table of the aggregate, that says which jobs are the slice's.   *)
EXTENDS Aggregate

VARIABLES
  jobs, ended,    \* at the testbed: how many jobs were submitted, which of them have ended
  account,        \* ... does the caller have an account
  leases,         \* lease_table: the jobs of the slice
  live, mine,     \* a worker's variables: the jobs at the testbed, the slice's
  stray           \* history: jobs whose row was never saved, or saved too late for a
                  \* Describe, as long as they last

iotTables == <<jobs, ended, account, leases>>
iotLocals == <<live, mine>>
iotVars == <<iotTables, iotLocals, stray>>

\* What a client asks.  Nodes make no difference to the steps of an Allocate;
\* provision and status are no more than describe; delete is not implemented, no
\* more than renew, perform_operational_action and shutdown, and list_resources
\* reads without a consequence.  An Allocate may lack the caller among its users,
\* or any lease in its rspec.
IotRequest ==
  [kind : {"Status", "Delete"}, target : {Whole}, complete : {TRUE}]
  \cup [kind : {"Allocate"}, target : {Whole}, complete : BOOLEAN]

ASSUME IotRequestAssumption == None \notin IotRequest /\ None \notin Transmissions(IotRequest)

NoIotLocals ==
  /\ live = [w \in Workers |-> {}]
  /\ mine = [w \in Workers |-> {}]

\* The slice has no job yet, and its user no account.
IotInit ==
  /\ jobs = 0 /\ leases = {} /\ ended = {}
  /\ account = FALSE
  /\ NoIotLocals /\ stray = {}

------------------------------------------------------------------------------
(* The driver, a call of the testbed, a query or a commit at a time.          *)

IotForget(w) ==
  /\ live' = [live EXCEPT ![w] = {}]
  /\ mine' = [mine EXCEPT ![w] = {}]

IotDone(w) == Reply(w) /\ IotForget(w) /\ UNCHANGED <<jobs, ended, account>>

NotImplemented(w) ==
  /\ pc[w] = "Delete"
  /\ IotDone(w) /\ UNCHANGED <<leases, stray>>

Complete(w) == job[w].request.complete

\* allocate: the caller is looked for among the users of the request, where the
\* first one found fails without any, and at the testbed.
GetLogin(w) ==
  /\ pc[w] = "Allocate"
  /\ \/ ~Complete(w) /\ Raise(w) /\ UNCHANGED <<troubles, alone, jobs, ended, account, iotLocals>>
     \/ On(w, IF account THEN "reserve" ELSE "add user") /\ UNCHANGED <<jobs, ended, account, iotLocals>>
  /\ UNCHANGED <<leases, stray>>

AddUser(w) ==
  /\ pc[w] = "add user"
  /\ account' = TRUE
  /\ On(w, "ask again")
  /\ UNCHANGED <<jobs, ended, leases, iotLocals, stray>>

AskAgain(w) ==
  /\ pc[w] = "ask again"
  /\ On(w, IF account THEN "reserve" ELSE "describe")
  /\ UNCHANGED iotVars

\* _get_experiment: whatever nodes and times the rspec has, they make one job;
\* of no leases there is no first.
Experiment == jobs + 1

NoExperiment(w) ==
  /\ pc[w] = "reserve" /\ ~Complete(w)
  /\ Raise(w) /\ UNCHANGED <<troubles, alone, iotVars>>

ReserveNodes(w) ==
  /\ pc[w] = "reserve" /\ Complete(w)
  /\ jobs' = Experiment
  /\ mine' = [mine EXCEPT ![w] = {Experiment}]
  /\ On(w, "save lease")
  /\ UNCHANGED <<ended, account, leases, live, stray>>

SaveLease(w) ==
  /\ pc[w] = "save lease"
  /\ leases' = leases \cup mine[w]
  /\ stray' = IF \E v \in Workers : pc[v] = "leases" /\ ~(mine[w] \subseteq live[v])
              THEN stray \cup (mine[w] \ ended) ELSE stray
  /\ mine' = [mine EXCEPT ![w] = {}]
  /\ On(w, "describe")
  /\ UNCHANGED <<jobs, ended, account, live>>

\* describe: the jobs that have not ended are asked for, then the rows read.
GetReservedNodes == (1 .. jobs) \ ended

AskJobs(w) ==
  /\ pc[w] \in {"describe", "Status"}
  /\ live' = [live EXCEPT ![w] = GetReservedNodes]
  /\ On(w, "leases")
  /\ UNCHANGED <<iotTables, mine, stray>>

ReadLeases(w) ==
  /\ pc[w] = "leases"
  /\ mine' = [mine EXCEPT ![w] = leases]
  /\ On(w, "clean")
  /\ UNCHANGED <<iotTables, live, stray>>

\* The row of a job that was not among the others is deleted, one by one.
CleanLeases(w) ==
  /\ pc[w] = "clean"
  /\ UNCHANGED stray
  /\ IF mine[w] \subseteq live[w]
     THEN IotDone(w) /\ UNCHANGED leases
     ELSE LET j == CHOOSE j \in mine[w] \ live[w] : TRUE
          IN  /\ leases' = leases \ {j}
              /\ mine' = [mine EXCEPT ![w] = @ \ {j}]
              /\ On(w, "clean")
              /\ UNCHANGED <<jobs, ended, account, live>>

IotStep(w) ==
  \/ NotImplemented(w)
  \/ GetLogin(w) \/ AddUser(w) \/ AskAgain(w) \/ NoExperiment(w) \/ ReserveNodes(w) \/ SaveLease(w)
  \/ AskJobs(w) \/ ReadLeases(w) \/ CleanLeases(w)
  \/ Take(w) /\ UNCHANGED iotVars
  \/ Handle(w) /\ IotForget(w) /\ UNCHANGED <<iotTables, stray>>

------------------------------------------------------------------------------
(* The testbed and its failures.                                              *)

\* A job that waits or runs comes to its end, or its owner stops it.
JobEnds ==
  /\ \E j \in GetReservedNodes : ended' = ended \cup {j} /\ stray' = stray \ {j}
  /\ UNCHANGED <<manager, jobs, account, leases, iotLocals>>

\* It may be submitted all the same.
Unrecorded == jobs' = Experiment /\ stray' = stray \cup {Experiment}

\* Where a Describe goes on to that got no jobs: there is nothing to clean.
UnansweredReadsOn == "leases"
Unanswered == "clean"

\* A call fails with an HTTP error, which the shell returns as a value, before
\* or after it took effect.  Only the first question for the user trips over it.
HttpError(w) ==
  \/ /\ pc[w] \in {"add user", "ask again"}
     /\ account' \in {account, account \/ pc[w] = "add user"}
     /\ Go(w, IF pc[w] = "add user" THEN "ask again" ELSE "describe")
     /\ UNCHANGED <<jobs, iotLocals, stray>>
  \/ /\ pc[w] = "reserve" /\ Complete(w)
     /\ \/ UNCHANGED <<jobs, stray>>
        \/ Unrecorded
     /\ Go(w, "describe")
     /\ UNCHANGED <<account, iotLocals>>
  \/ /\ pc[w] \in {"describe", "Status"}
     /\ Go(w, Unanswered)
     /\ UNCHANGED <<jobs, account, iotLocals, stray>>

\* A call fails otherwise.
CallFails(w) ==
  /\ pc[w] \in {"Allocate", "add user", "ask again", "reserve", "describe", "Status"}
  /\ pc[w] = "reserve" => Complete(w)
  /\ Go(w, "raised")
  /\ \/ UNCHANGED <<jobs, account, stray>>
     \/ pc[w] = "add user" /\ account' = TRUE /\ UNCHANGED <<jobs, stray>>
     \/ pc[w] = "reserve" /\ Unrecorded /\ UNCHANGED account
  /\ UNCHANGED iotLocals

IotLabFails(w) ==
  /\ troubles < MaxTroubles /\ troubles' = troubles + 1
  /\ alone' = [alone EXCEPT ![w] = FALSE]
  /\ HttpError(w) \/ CallFails(w)
  /\ UNCHANGED <<ended, leases, clients, queue, handled, job, crossed>>

IotRestart ==
  /\ Restart
  /\ live' = [w \in Workers |-> {}] /\ mine' = [w \in Workers |-> {}]
  /\ stray' = stray \cup ((UNION {mine[w] : w \in {v \in Workers : pc[v] = "save lease"}}) \ ended)
  /\ UNCHANGED iotTables

IotNext ==
  \/ \E c \in Calls : Client(c, IotRequest) /\ UNCHANGED iotVars
  \/ \E w \in Workers : IotStep(w) \/ IotLabFails(w)
  \/ JobEnds
  \/ IotRestart

------------------------------------------------------------------------------
(* Properties.                                                                *)

\* What the driver's variables may hold.
IotTypeOK ==
  /\ jobs \in Nat /\ ended \cup leases \cup stray \subseteq 1 .. jobs
  /\ \A w \in Workers : live[w] \cup mine[w] \subseteq 1 .. jobs

\* A job that has not ended keeps its row in the lease table, by which the
\* slice's owner sees it and others see that it is his, whatever Allocates and
\* Describes do at the same time, and whatever calls of the testbed fail: unless
\* the Allocate was cut short before the row was saved, or it was saved between a
\* Describe's question for the jobs and its reading of the rows.
JobsKept ==
  \A j \in GetReservedNodes :
    j \in leases \cup stray \/ \E w \in Workers : pc[w] = "save lease" /\ j \in mine[w]
=============================================================================
