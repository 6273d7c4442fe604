------------------------------- MODULE Slivers -------------------------------
(***************************************************************************)
(* The slivers of one slice at a PlanetLab aggregate: Allocate, Provision, *)
(* Renew and Delete as the worker threads of the aggregate run them.  The  *)
(* testbed holds the slice, the nodes it is on and its leases; the         *)
(* aggregate's database holds a row with an allocation state per sliver.   *)
(* Each call of the testbed and each commit is a step, nothing is undone   *)
(* when a later one fails, and some failures are logged and forgotten.     *)
(*                                                                         *)
(* A sliver is named by its node, a lease (of one fixed time slot) by the  *)
(* node it reserves.  Requests carry neither links nor slice tags, and the *)
(* persons of the slice are a call that may fail.                          *)
(***************************************************************************)
EXTENDS Naturals, FiniteSets

CONSTANTS
    Nodes,          \* the nodes of the testbed
    Reservable,     \* those that can be leased
    Times,          \* expiration times
    Default,        \* what the testbed gives a new slice for an expiration
    Workers,        \* the threads of the aggregate's server
    None,
    MaxRequests,    \* bound: requests that reach the driver
    MaxFailures     \* bound: testbed calls that fail, and restarts

ASSUME NodesAssumption == Reservable \subseteq Nodes /\ None \notin Nodes
ASSUME TimesAssumption == Default \notin Times /\ None \notin Times /\ None # Default
ASSUME BoundsAssumption == MaxRequests \in Nat /\ MaxFailures \in Nat

State == {"allocated", "provisioned"}
\* named: the slivers whose urns the client gives, all nodes for a slice urn.
Job == [op : {"Allocate", "Provision", "Renew", "Delete"}, named : SUBSET Nodes,
        leased : SUBSET Reservable, until : Times \cup {None}]
ASSUME JobAssumption == None \notin Job \cup State

VARIABLES
    expires,   \* testbed: expiration of the slice, None when there is no slice
    on,        \* testbed: nodes the slice is on
    leases,    \* testbed: nodes leased to the slice
    row,       \* database: allocation_state of each sliver's row, or None
    pc, job,
    have,      \* worker's slivers, as the testbed told it; in an Allocate, at the
               \* end, those whose rows are still to be written
    cur,       \* worker's node whose row is being written, or None
    seen,      \* worker's rows, as its session read them
    free, book, \* worker's pending leases to delete and to add
    requests, failures,
    unsure,    \* history: a failure of the worker's request was forgotten, or
               \* another request was on the same slivers
    torn,      \* history: slivers whose last request did not do all it should
    promised,  \* history: allocation state the last answer on a sliver means
    booked,    \* history: leases the last answers mean
    freed      \* history: slivers that a Delete was answered on last

Unread == [n \in Nodes |-> None]

testbed == <<expires, on, leases>>
locals == <<have, cur, seen, free, book>>
history == <<unsure, torn, promised, booked, freed>>
vars == <<testbed, row, pc, job, locals, requests, failures, history>>

Init ==
    /\ expires \in {None, Default}
    /\ on = {} /\ leases = {}
    /\ row = [n \in Nodes |-> None]
    /\ pc = [w \in Workers |-> "idle"]
    /\ job = [w \in Workers |-> None]
    /\ have = [w \in Workers |-> {}]
    /\ cur = [w \in Workers |-> None] /\ seen = [w \in Workers |-> Unread]
    /\ free = [w \in Workers |-> {}] /\ book = [w \in Workers |-> {}]
    /\ requests = 0 /\ failures = 0
    /\ unsure = [w \in Workers |-> FALSE]
    /\ torn = {} /\ promised = [n \in Nodes |-> None] /\ booked = {} /\ freed = {}

At(w, label) == pc[w] = label
Goto(w, label) == pc' = [pc EXCEPT ![w] = label]

\* The slivers a request may change: an Allocate rewrites the whole slice, a
\* Renew only the slice's expiration.
Claim(j) == CASE j = None -> {}
              [] j # None /\ j.op = "Allocate" -> Nodes
              [] j # None /\ j.op = "Renew" -> {}
              [] OTHER -> j.named
Busy(n) == \E w \in Workers : n \in Claim(job[w])

Idle(w) ==
    /\ Goto(w, "idle")
    /\ job' = [job EXCEPT ![w] = None]
    /\ have' = [have EXCEPT ![w] = {}]
    /\ cur' = [cur EXCEPT ![w] = None] /\ seen' = [seen EXCEPT ![w] = Unread]
    /\ free' = [free EXCEPT ![w] = {}] /\ book' = [book EXCEPT ![w] = {}]
    /\ unsure' = [unsure EXCEPT ![w] = FALSE]

\* The request is answered with a fault; what it did before stays done.
Abort(w) ==
    /\ Idle(w)
    /\ torn' = torn \cup Claim(job[w])
    /\ UNCHANGED <<testbed, row, requests, failures, promised, booked, freed>>

\* A testbed failure that is logged and forgotten.
Forget(w, label) ==
    /\ Goto(w, label)
    /\ unsure' = [unsure EXCEPT ![w] = TRUE]
    /\ UNCHANGED <<testbed, row, job, locals, torn, promised, booked, freed>>

Request(w) ==
    /\ At(w, "idle") /\ requests < MaxRequests
    /\ \E j \in Job :
         /\ j.op # "Allocate" => j.named # {} /\ j.leased = {}
         /\ (j.op \in {"Allocate", "Renew"}) = (j.until # None)
         /\ job' = [job EXCEPT ![w] = j]
         /\ Goto(w, IF j.op = "Allocate" THEN "slice" ELSE "slivers")
         /\ unsure' = [v \in Workers |->
                          \/ unsure[v]
                          \/ v = w /\ \E n \in Claim(j) : Busy(n)
                          \/ Claim(job[v]) \cap Claim(j) # {}]
         /\ freed' = IF j.op = "Allocate" THEN {} ELSE freed
    /\ requests' = requests + 1
    /\ UNCHANGED <<testbed, row, locals, failures, torn, promised, booked>>

-----------------------------------------------------------------------------
(* Allocate: verify_slice *)

FindSlice(w) ==
    /\ At(w, "slice")
    /\ Goto(w, IF expires = None THEN "addslice"
               ELSE IF expires = job[w].until THEN "read" ELSE "expire")
    /\ UNCHANGED <<testbed, row, job, locals, requests, failures, history>>

\* Mutation: the expiration of a new slice is not set.
AddSliceOnly(w) ==
    /\ At(w, "addslice")
    /\ IF expires # None
         THEN Abort(w)
         ELSE /\ expires' = Default
              /\ Goto(w, "read")
              /\ UNCHANGED <<on, leases, row, job, locals, requests, failures, history>>

\* The testbed refuses a slice it has already.  SetSliceHrn comes next and writes
\* the hrn again that AddSlice was given: a testbed that changes it in between,
\* so that verify_slice does not find the slice, is not modelled.
AddSlice(w) ==
    /\ At(w, "addslice")
    /\ IF expires # None
         THEN Abort(w)
         ELSE /\ expires' = Default
              /\ Goto(w, "expire")
              /\ UNCHANGED <<on, leases, row, job, locals, requests, failures, history>>

\* UpdateSlice, in verify_slice and at the end of renew.
SetExpires(w) ==
    /\ At(w, "expire")
    /\ expires' = job[w].until
    /\ Goto(w, IF job[w].op = "Renew" THEN "answer" ELSE "read")
    /\ UNCHANGED <<on, leases, row, job, locals, requests, failures, history>>

\* The slice as verify_slice returns it; verify_slice_nodes works from it
\* after the persons of the slice were dealt with.
ReadSlice(w) ==
    /\ At(w, "read")
    /\ have' = [have EXCEPT ![w] = on]
    /\ Goto(w, "add")
    /\ UNCHANGED <<testbed, row, job, cur, seen, free, book, requests, failures, history>>

-----------------------------------------------------------------------------
(* Allocate: verify_slice_nodes *)

AddNodes(w) ==
    /\ At(w, "add")
    /\ on' = on \cup (job[w].named \ have[w])
    /\ Goto(w, "drop")
    /\ UNCHANGED <<expires, leases, row, job, locals, requests, failures, history>>

DropNodes(w) ==
    /\ At(w, "drop")
    /\ on' = on \ (have[w] \ job[w].named)
    /\ Goto(w, "result")
    /\ UNCHANGED <<expires, leases, row, job, locals, requests, failures, history>>

\* The nodes the slice has by now.
ReadNodes(w) ==
    /\ At(w, "result")
    /\ have' = [have EXCEPT ![w] = on]
    /\ Goto(w, "sync")
    /\ UNCHANGED <<testbed, row, job, cur, seen, free, book, requests, failures, history>>

\* SliverAllocation.sync: is there a row?  A node that was not requested is a
\* KeyError.
FindRow(w) ==
    /\ At(w, "sync")
    /\ \/ /\ have[w] = {}
          /\ Goto(w, "leases")
          /\ UNCHANGED <<testbed, row, job, locals, requests, failures, history>>
       \/ \E n \in have[w] :
            IF n \notin job[w].named
              THEN Abort(w)
              ELSE /\ cur' = [cur EXCEPT ![w] = n]
                   /\ have' = [have EXCEPT ![w] = @ \ {n}]
                   /\ seen' = [seen EXCEPT ![w] = [Unread EXCEPT ![n] = row[n]]]
                   /\ Goto(w, "write")
                   /\ UNCHANGED <<testbed, row, job, free, book, requests, failures, history>>

\* A session inserts the rows it did not find and updates, of those it found,
\* what differs from what it read; a commit that would insert a row that has
\* appeared, or update one that has vanished, fails.
Refused(w, n, state) ==
    \/ seen[w][n] = None /\ row[n] # None
    \/ seen[w][n] \notin {None, state} /\ row[n] = None

Written(w, ns, state) ==
    [n \in Nodes |-> IF n \in ns /\ seen[w][n] # state THEN state ELSE row[n]]

\* Mutation: a row that exists is left as it is.
WriteRowOnce(w) ==
    /\ At(w, "write")
    /\ row' = [row EXCEPT ![cur[w]] = IF @ = None THEN "allocated" ELSE @]
    /\ Goto(w, "sync")
    /\ cur' = [cur EXCEPT ![w] = None] /\ seen' = [seen EXCEPT ![w] = Unread]
    /\ UNCHANGED <<testbed, job, have, free, book, requests, failures, history>>

\* The commit of sync, which may update the client's name of the sliver too.
WriteRow(w) ==
    /\ At(w, "write")
    /\ \/ /\ \/ Refused(w, cur[w], "allocated")
             \/ seen[w][cur[w]] # None /\ row[cur[w]] = None
          /\ Abort(w)
       \/ /\ ~Refused(w, cur[w], "allocated")
          /\ row' = Written(w, {cur[w]}, "allocated")
          /\ Goto(w, "sync")
          /\ cur' = [cur EXCEPT ![w] = None] /\ seen' = [seen EXCEPT ![w] = Unread]
          /\ UNCHANGED <<testbed, job, have, free, book, requests, failures, history>>

-----------------------------------------------------------------------------
(* Leases *)

\* Mutation: a lease is asked for on every requested node.
FindLeasesOfNodes(w) ==
    /\ At(w, "leases")
    /\ free' = [free EXCEPT ![w] = leases \cap have[w]]
    /\ book' = [book EXCEPT ![w] = job[w].named \ leases]
    /\ Goto(w, IF job[w].op = "Delete" THEN "undo" ELSE "unlease")
    /\ UNCHANGED <<testbed, row, job, have, cur, seen, requests, failures, history>>

\* verify_slice_leases, and delete for the nodes it takes the slice from.
FindLeases(w) ==
    /\ At(w, "leases")
    /\ IF job[w].op = "Delete"
         THEN /\ free' = [free EXCEPT ![w] = leases \cap have[w]]
              /\ Goto(w, "undo")
              /\ UNCHANGED book
         ELSE /\ free' = [free EXCEPT ![w] = leases \ job[w].leased]
              /\ book' = [book EXCEPT ![w] = job[w].leased \ leases]
              /\ Goto(w, "unlease")
    /\ UNCHANGED <<testbed, row, job, have, cur, seen, requests, failures, history>>

DeleteLeases(w) ==
    /\ At(w, "unlease")
    /\ leases' = leases \ free[w]
    /\ Goto(w, IF job[w].op = "Delete" THEN "query" ELSE "lease")
    /\ UNCHANGED <<expires, on, row, job, locals, requests, failures, history>>

\* One AddLeases; the testbed refuses a slot that is taken.
AddLease(w) ==
    /\ At(w, "lease")
    /\ IF book[w] = {}
         THEN Goto(w, "answer") /\ UNCHANGED <<testbed, row, job, locals, history>>
         ELSE \E n \in book[w] :
                IF n \in leases
                  THEN Forget(w, "answer")
                  ELSE /\ leases' = leases \cup {n}
                       /\ book' = [book EXCEPT ![w] = @ \ {n}]
                       /\ UNCHANGED <<expires, on, row, pc, job, have, cur, seen, free, history>>
    /\ UNCHANGED <<requests, failures>>

-----------------------------------------------------------------------------
(* Provision, Renew, Delete *)

\* get_slivers: those of the named nodes the slice is on.  Without any,
\* Provision and Delete have nothing to do and Renew finds nothing.
GetSlivers(w) ==
    /\ At(w, "slivers")
    /\ LET found == on \cap job[w].named
       IN IF found = {} /\ job[w].op = "Renew"
            THEN Abort(w)
            ELSE /\ have' = [have EXCEPT ![w] = found]
                 /\ Goto(w, IF found = {} THEN "answer"
                            ELSE CASE job[w].op = "Provision" -> "query"
                                   [] job[w].op = "Renew" -> "expire"
                                   [] job[w].op = "Delete" -> "leases")
                 /\ UNCHANGED <<testbed, row, job, cur, seen, free, book,
                                requests, failures, history>>

\* set_allocations and delete_allocations: the rows there are ...
QueryRows(w) ==
    /\ At(w, "query")
    /\ seen' = [seen EXCEPT ![w] = [n \in Nodes |-> IF n \in have[w] THEN row[n] ELSE None]]
    /\ Goto(w, IF job[w].op = "Delete" THEN "forget" ELSE "commit")
    /\ UNCHANGED <<testbed, row, job, have, cur, free, book, requests, failures, history>>

\* ... then one for each sliver, in one commit, ...
CommitRows(w) ==
    /\ At(w, "commit")
    /\ IF \E n \in have[w] : Refused(w, n, "provisioned")
         THEN Abort(w)
         ELSE /\ row' = Written(w, have[w], "provisioned")
              /\ Goto(w, "answer")
              /\ UNCHANGED <<testbed, job, locals, requests, failures, history>>

\* ... or none of those that were read.
DropRows(w) ==
    /\ At(w, "forget")
    /\ row' = [n \in Nodes |-> IF seen[w][n] # None THEN None ELSE row[n]]
    /\ Goto(w, "answer")
    /\ UNCHANGED <<testbed, job, locals, requests, failures, history>>

\* DeleteSliceFromNodes; DeleteLeases only when there are some.
TakeOff(w) ==
    /\ At(w, "undo")
    /\ on' = on \ have[w]
    /\ Goto(w, IF free[w] = {} THEN "query" ELSE "unlease")
    /\ UNCHANGED <<expires, leases, row, job, locals, requests, failures, history>>

\* The answer, and what it means to the client.  After a failure that was
\* forgotten it means less than it says.
Answer(w) ==
    /\ At(w, "answer")
    /\ Idle(w)
    /\ LET j == job[w] IN
       /\ promised' = [n \in Nodes |->
            CASE j.op = "Allocate" -> IF n \in j.named THEN "allocated" ELSE None
              [] j.op = "Provision" /\ n \in have[w] -> "provisioned"
              [] j.op = "Delete" /\ n \in have[w] -> None
              [] OTHER -> promised[n]]
       /\ booked' = CASE j.op = "Allocate" -> j.leased
                      [] j.op = "Delete" -> booked \ have[w]
                      [] OTHER -> booked
       /\ freed' = IF j.op = "Delete" THEN freed \cup j.named ELSE freed
       /\ torn' = CASE unsure[w] -> torn \cup Claim(j)
                    [] ~unsure[w] /\ j.op = "Allocate" -> torn \ Claim(j)
                    [] ~unsure[w] /\ j.op = "Delete" -> torn \ have[w]
                    [] OTHER -> torn
    /\ UNCHANGED <<testbed, row, requests, failures>>

-----------------------------------------------------------------------------
(* Failures *)

\* A testbed call fails: verify_slice_nodes and verify_slice_leases go on when
\* one of their changes does, everything else faults.
TestbedFault(w) ==
    /\ failures < MaxFailures
    /\ failures' = failures + 1
    /\ \/ /\ \/ pc[w] \in {"slice", "addslice", "expire", "read", "add", "result",
                           "leases", "slivers", "undo"}
             \/ pc[w] \in {"query", "answer"} /\ job[w].op # "Delete"
             \/ At(w, "unlease") /\ job[w].op = "Delete"
          /\ Idle(w)
          /\ torn' = torn \cup Claim(job[w])
          /\ UNCHANGED <<testbed, row, promised, booked, freed>>
       \/ /\ pc[w] \in {"add", "drop"}
          /\ Forget(w, "result")
       \/ /\ \/ At(w, "unlease") /\ job[w].op = "Allocate"
             \/ At(w, "lease") /\ book[w] # {}
          /\ Forget(w, "answer")
    /\ UNCHANGED requests

\* The server stops and restarts.
Crash ==
    /\ failures < MaxFailures
    /\ failures' = failures + 1
    /\ \E w \in Workers : ~At(w, "idle")
    /\ torn' = torn \cup {n \in Nodes : Busy(n)}
    /\ pc' = [w \in Workers |-> "idle"]
    /\ job' = [w \in Workers |-> None]
    /\ have' = [w \in Workers |-> {}]
    /\ cur' = [w \in Workers |-> None] /\ seen' = [w \in Workers |-> Unread]
    /\ free' = [w \in Workers |-> {}] /\ book' = [w \in Workers |-> {}]
    /\ unsure' = [w \in Workers |-> FALSE]
    /\ UNCHANGED <<testbed, row, requests, promised, booked, freed>>

Step(w) ==
    \/ FindSlice(w) \/ AddSlice(w) \/ SetExpires(w) \/ ReadSlice(w)
    \/ AddNodes(w) \/ DropNodes(w) \/ ReadNodes(w) \/ FindRow(w) \/ WriteRow(w)
    \/ FindLeases(w) \/ DeleteLeases(w) \/ AddLease(w)
    \/ GetSlivers(w) \/ QueryRows(w) \/ CommitRows(w) \/ TakeOff(w) \/ DropRows(w)
    \/ Answer(w)

Next == Crash \/ \E w \in Workers : Request(w) \/ Step(w) \/ TestbedFault(w)

Spec == Init /\ [][Next]_vars

-----------------------------------------------------------------------------
(* Correctness *)

TypeOK ==
    /\ expires \in Times \cup {None, Default}
    /\ on \subseteq Nodes /\ leases \subseteq Reservable
    /\ row \in [Nodes -> State \cup {None}]
    /\ pc \in [Workers -> {"idle", "slice", "addslice", "expire", "read", "add", "drop",
                           "result", "sync", "write", "leases", "unlease", "lease",
                           "slivers", "query", "commit", "undo", "forget", "answer"}]
    /\ job \in [Workers -> Job \cup {None}]
    /\ have \in [Workers -> SUBSET Nodes]
    /\ cur \in [Workers -> Nodes \cup {None}] /\ seen \in [Workers -> [Nodes -> State \cup {None}]]
    /\ free \in [Workers -> SUBSET Reservable] /\ book \in [Workers -> SUBSET Reservable]
    /\ unsure \in [Workers -> BOOLEAN]
    /\ requests \in 0 .. MaxRequests /\ failures \in 0 .. MaxFailures
    /\ torn \subseteq Nodes /\ freed \subseteq Nodes
    /\ promised \in [Nodes -> State \cup {None}] /\ booked \subseteq Reservable

Settled(n) == ~Busy(n) /\ n \notin torn

\* What Describe and Status say of a sliver.
Reported(n) == IF n \in on THEN row[n] ELSE None

\* A sliver that no request is changing, and whose last one failed nowhere, is
\* in the state the last answers meant: on the testbed exactly if it should be
\* and with a row that says so, whatever other slivers went through meanwhile;
\* and it is leased exactly if the last Allocate asked for it.
AsAnswered ==
    \A n \in Nodes : Settled(n) =>
        /\ Reported(n) = promised[n]
        /\ n \in on => row[n] # None
        /\ n \in Reservable => (n \in leases <=> n \in booked)

\* No sliver is on a slice that still has the testbed's default expiration,
\* even when the creation of the slice was cut short.
SliversExpire == on # {} => expires \in Times

\* "Remove the slice or slivers and free the allocated resources": a Delete
\* that is answered leaves neither sliver nor lease nor row.
DeleteFrees ==
    \A n \in freed : ~Busy(n) => n \notin on /\ n \notin leases /\ row[n] = None

=============================================================================
