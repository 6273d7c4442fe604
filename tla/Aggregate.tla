------------------------------ MODULE Aggregate ------------------------------
(* An aggregate up to its driver: clients, connections that break, the queue  *)
(* and the pool of threads (threadedserver.py), the manager with its call ids *)
(* (aggregate_manager.py), and what becomes of answers and exceptions.  Locks *)
(* and purges of the call ids are in Callids, the drivers in DummyDriver and  *)
(* IotLabDriver, which a thread enters at the place named for its request.    *)
EXTENDS Integers, Sequences, FiniteSets, TLC

CONSTANTS
  Nodes,       \* of the testbed
  None,        \* no request
  MaxCalls,    \* bound on the calls of all clients
  Workers,     \* the threads of the pool
  Targets,     \* what calls may name: Whole, or sets of nodes
  Whole,       \* the urn of the slice
  MaxTroubles  \* bound on the failures: of the testbed, of connections, of the aggregate

ASSUME AggregateAssumption ==
  /\ Targets \ {Whole} \subseteq SUBSET Nodes
  /\ MaxCalls \in Nat /\ MaxTroubles \in Nat

\* The call ids, one per call, in the order in which clients make them.
Calls == 1 .. MaxCalls

\* What a client sends: with the id of its call, for the first or the second time.
Transmissions(requests) == [id : Calls, time : {"sent", "resent"}, request : requests]

VARIABLES
  call, status, line,   \* the client: an open call's request, how far it is, is its connection up
  queue,                \* the server's queue of transmissions
  handled,              \* the call ids served since the aggregate started
  job, pc,              \* a worker: its transmission and place
  troubles,             \* counter of the failures
  alone, crossed        \* history: is a worker's call so far undisturbed; did two Allocates ever overlap

clients == <<call, status, line>>
history == <<alone, crossed>>
manager == <<clients, queue, handled, job, pc, troubles, history>>

\* A request changes slivers, or only reads them.
Changes == {"Allocate", "Provision", "Delete"}

Kind(w) == job[w].request.kind
Target(w) == job[w].request.target
Idle(w) == pc[w] = "idle"
Busy(w) == pc[w] \notin {"idle", "raised"}
Changing(w) == Busy(w) /\ Kind(w) \in Changes

ManagerInit ==
  /\ call = [c \in Calls |-> None] /\ status = [c \in Calls |-> "unsent"]
  /\ line = [c \in Calls |-> FALSE]
  /\ queue = <<>> /\ handled = {}
  /\ job = [w \in Workers |-> None] /\ pc = [w \in Workers |-> "idle"]
  /\ troubles = 0
  /\ alone = [w \in Workers |-> FALSE] /\ crossed = FALSE

------------------------------------------------------------------------------
(* Clients.                                                                   *)

Transmit(c, request, time) ==
  /\ status' = [status EXCEPT ![c] = time]
  /\ line' = [line EXCEPT ![c] = TRUE]
  /\ queue' = Append(queue, [id |-> c, time |-> time, request |-> request])
  /\ UNCHANGED <<handled, job, pc, troubles, history>>

Send(c, requests) ==
  /\ status[c] = "unsent" /\ \A d \in 1 .. (c - 1) : status[d] # "unsent"
  /\ \E r \in requests : call' = [call EXCEPT ![c] = r] /\ Transmit(c, r, "sent")

End(c) ==
  /\ call' = [call EXCEPT ![c] = None]
  /\ status' = [status EXCEPT ![c] = "ended"]
  /\ line' = [line EXCEPT ![c] = FALSE]

Break(c) ==
  /\ troubles < MaxTroubles /\ troubles' = troubles + 1
  /\ line[c]
  /\ IF status[c] = "sent" THEN line' = [line EXCEPT ![c] = FALSE] /\ UNCHANGED <<call, status>>
                           ELSE End(c)
  /\ UNCHANGED <<queue, handled, job, pc, history>>

\* A connection was reset: the XML-RPC library sends once more, with the same
\* call id.  Any other failure, a timeout among them, ends the call.
LineIsDown(c) ==
  /\ status[c] = "sent" /\ ~line[c]
  /\ \/ Transmit(c, call[c], "resent") /\ UNCHANGED call
     \/ End(c) /\ UNCHANGED <<queue, handled, job, pc, troubles, history>>

Client(c, requests) == Send(c, requests) \/ Break(c) \/ LineIsDown(c)

------------------------------------------------------------------------------
(* Threads.                                                                   *)

Go(w, place) == pc' = [pc EXCEPT ![w] = place]

\* A step of a thread that goes on to another place.
On(w, place) == Go(w, place) /\ UNCHANGED <<clients, queue, handled, job, troubles, history>>

\* A transmission is answered if the connection it came on is still up.
Up(t) == line[t.id] /\ status[t.id] = t.time
Answer(t) == IF Up(t) THEN End(t.id) ELSE UNCHANGED clients

\* The end of a request.
Reply(w) ==
  /\ Answer(job[w])
  /\ Go(w, "idle")
  /\ job' = [job EXCEPT ![w] = None]
  /\ alone' = [alone EXCEPT ![w] = FALSE]
  /\ UNCHANGED <<queue, handled, troubles, crossed>>

\* An exception that the driver does not expect, and where it is caught: it is
\* answered as a fault, and the thread lives on.
Raise(w) ==
  /\ Go(w, "raised")
  /\ UNCHANGED <<clients, queue, handled, job, crossed>>

HandleUncaught(w) ==
  /\ pc[w] = "raised" /\ Go(w, "dead")
  /\ UNCHANGED <<clients, queue, handled, job, troubles, history>>
Handle(w) == pc[w] = "raised" /\ Reply(w)

Undisturbed(w) == alone[w] /\ ~crossed

AlreadyHandled(c) == c \in handled

Overlapped(w) == \E v \in Workers \ {w} : Changing(v)

\* A thread takes the next transmission off the queue.  On a connection that is
\* down it may find no request.  The manager looks the call id up and stores it
\* before the driver runs.  An id that is known may go through all the same: it
\* was looked up before it was stored, in another table, or the lock was given
\* up (Callids).
Take(w) ==
  LET next == Head(queue)
      kind == next.request.kind
      nothing == UNCHANGED <<handled, job, pc, history>>
  IN  /\ Idle(w) /\ queue # <<>>
      /\ queue' = Tail(queue)
      /\ UNCHANGED troubles
      /\ \/ ~Up(next) /\ nothing /\ UNCHANGED clients
         \/ AlreadyHandled(next.id) /\ nothing /\ Answer(next)
         \/ /\ handled' = handled \cup {next.id}
            /\ job' = [job EXCEPT ![w] = next]
            /\ Go(w, kind)
            /\ alone' = [v \in Workers |-> IF v = w THEN ~Overlapped(w)
                                           ELSE alone[v] /\ kind \notin Changes]
            /\ crossed' = (crossed \/ \E v \in Workers \ {w} :
                               kind = "Allocate" /\ Busy(v) /\ Kind(v) = "Allocate")
            /\ UNCHANGED clients

\* The aggregate stops and starts again: its queue and its call ids are gone.
Restart ==
  /\ troubles < MaxTroubles /\ troubles' = troubles + 1
  /\ queue' = <<>> /\ handled' = {}
  /\ line' = [c \in Calls |-> FALSE]
  /\ status' = [c \in Calls |-> IF status[c] = "resent" THEN "ended" ELSE status[c]]
  /\ call' = [c \in Calls |-> IF status[c] = "resent" THEN None ELSE call[c]]
  /\ job' = [w \in Workers |-> None] /\ pc' = [w \in Workers |-> "idle"]
  /\ alone' = [w \in Workers |-> FALSE]
  /\ UNCHANGED crossed

------------------------------------------------------------------------------
(* Properties.                                                                *)

\* What the manager's variables may hold.
ManagerTypeOK ==
  /\ \A c \in Calls : (call[c] = None <=> status[c] \in {"unsent", "ended"}) /\ (line[c] => call[c] # None)
  /\ handled \subseteq Calls
  /\ \A w \in Workers : Idle(w) <=> job[w] = None

\* Every call ends, with an answer or with an error of its connection, whatever
\* exceptions the threads of the pool meet on the way: again and again none is open.
EveryCallEnds == []<>(\A c \in Calls : status[c] \in {"unsent", "ended"})
=============================================================================
