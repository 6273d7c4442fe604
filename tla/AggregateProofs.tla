-------------------------- MODULE AggregateProofs --------------------------
(***************************************************************************)
(* Theorems about an aggregate with either of its drivers, for any nodes,  *)
(* calls, threads and failures: the manager's and the drivers' variables   *)
(* hold what they may, an IoT-LAB job keeps its row in the lease table, a  *)
(* request that nothing disturbs ends in an exception of the driver's only *)
(* if the driver has no answer to such a request, and the dummy testbed's  *)
(* slice is as was asked for.                                              *)
(***************************************************************************)
EXTENDS Testbeds, SequenceTheorems, TLAPS

-----------------------------------------------------------------------------
(* Jobs and leases of IoT-LAB *)

Places == {"idle", "raised", "Allocate", "Status", "Delete", "add user", "ask again", "reserve",
           "save lease", "describe", "leases", "clean"}
Transmission == [id : Calls, time : {"sent", "resent"}, request : IotRequest]

\* What is asked is something that the driver serves, at the place named for it.
Asked ==
  /\ call \in [Calls -> IotRequest \cup {None}]
  /\ status \in [Calls -> {"unsent", "sent", "resent", "ended"}]
  /\ \A c \in Calls : status[c] = "sent" => call[c] \in IotRequest
  /\ queue \in Seq(Transmission)
  /\ pc \in [Workers -> Places]

JobsOK ==
  /\ jobs \in Nat /\ ended \in SUBSET (1 .. jobs)
  /\ leases \in SUBSET (1 .. jobs) /\ stray \in SUBSET (1 .. jobs)
  /\ live \in [Workers -> SUBSET (1 .. jobs)] /\ mine \in [Workers -> SUBSET (1 .. jobs)]

\* Which rows a thread is about to save or to go through; of those that a
\* Describe would delete, the job has ended or is one that JobsKept leaves out.
Doomed(w) == IF pc[w] = "leases" THEN leases \ live[w] ELSE mine[w] \ live[w]
InHand(w) ==
  /\ pc[w] \notin {"save lease", "clean"} => mine[w] = {}
  /\ pc[w] \in {"leases", "clean"} => Doomed(w) \subseteq ended \cup stray

LeasesIInv == JobsOK /\ JobsKept /\ \A w \in Workers : InHand(w)
IotIInv == Asked /\ LeasesIInv

\* With the driver of the dummy testbed, there are no jobs.
FlavourIInv ==
  /\ flavour \in {"dummy", "iotlab"}
  /\ flavour = "dummy" => jobs = 0
  /\ flavour = "iotlab" => IotIInv

-----------------------------------------------------------------------------
(* Requests *)

LEMMA ClientAsks ==
  ASSUME Asked, NEW c \in Calls, Client(c, IotRequest)
  PROVE  Asked' /\ pc' = pc
  <1>1. ASSUME NEW r \in IotRequest, NEW time \in {"sent", "resent"}, Transmit(c, r, time),
               call' = [call EXCEPT ![c] = r] \/ (call' = call /\ call[c] = r)
        PROVE  Asked' /\ pc' = pc
    <2>1. [id |-> c, time |-> time, request |-> r] \in Transmission
      BY DEF Transmission
    <2>2. queue' \in Seq(Transmission)
      BY <1>1, <2>1 DEF Asked, Transmit
    <2> QED BY <1>1, <2>2 DEF Asked, Transmit
  <1>2. ASSUME UNCHANGED <<queue, pc>>, End(c) \/ UNCHANGED <<call, status>>
        PROVE  Asked' /\ pc' = pc
    BY <1>2 DEF Asked, End
  <1>3. CASE Send(c, IotRequest)
    BY <1>1, <1>3 DEF Send
  <1>4. CASE Break(c)
    BY <1>2, <1>4 DEF Break
  <1>5. CASE LineIsDown(c)
    <2>1. call[c] \in IotRequest
      BY <1>5 DEF LineIsDown, Asked
    <2> QED BY <1>1, <1>2, <1>5, <2>1 DEF LineIsDown
  <1> QED BY <1>3, <1>4, <1>5 DEF Client

LEMMA AnswerAsks ==
  ASSUME Asked, NEW w \in Workers, Reply(w)
  PROVE  Asked' /\ pc' = [pc EXCEPT ![w] = "idle"]
  <1>1. End(job[w].id) \/ UNCHANGED <<call, status>>
    BY DEF Reply, Answer, clients
  <1>2. pc' = [pc EXCEPT ![w] = "idle"] /\ queue' = queue
    BY DEF Reply, Go
  <1>3. PICK c : c = job[w].id
    OBVIOUS
  <1>4. /\ call' \in [Calls -> IotRequest \cup {None}]
        /\ status' \in [Calls -> {"unsent", "sent", "resent", "ended"}]
        /\ \A d \in Calls : status'[d] = "sent" => call'[d] \in IotRequest
    BY <1>1, <1>3 DEF Asked, End
  <1>5. pc' \in [Workers -> Places]
    BY <1>2 DEF Asked, Places
  <1> QED BY <1>2, <1>4, <1>5 DEF Asked

LEMMA TakeAsks ==
  ASSUME Asked, NEW w \in Workers, Take(w)
  PROVE  /\ Asked'
         /\ \/ pc' = pc
            \/ \E kind \in {"Allocate", "Status", "Delete"} : pc' = [pc EXCEPT ![w] = kind]
  <1>1. queue # <<>> /\ Head(queue) \in Transmission /\ queue' = Tail(queue)
        /\ Tail(queue) \in Seq(Transmission)
    BY DEF Take, Asked
  <1>2. PICK t \in Transmission : t = Head(queue)
    BY <1>1
  <1>3. t.id \in Calls /\ t.request.kind \in {"Allocate", "Status", "Delete"}
    BY DEF Transmission, IotRequest
  <1>4. /\ UNCHANGED <<call, status>> \/ End(t.id)
        /\ pc' = pc \/ pc' = [pc EXCEPT ![w] = t.request.kind]
    BY <1>2 DEF Take, Answer, clients, Go
  <1>5. /\ call' \in [Calls -> IotRequest \cup {None}]
        /\ status' \in [Calls -> {"unsent", "sent", "resent", "ended"}]
        /\ \A d \in Calls : status'[d] = "sent" => call'[d] \in IotRequest
    BY <1>3, <1>4 DEF Asked, End
  <1>6. pc' \in [Workers -> Places]
    BY <1>3, <1>4 DEF Asked, Places
  <1> QED BY <1>1, <1>3, <1>4, <1>5, <1>6 DEF Asked

\* A step of the driver goes to one of its places and leaves the rest alone.
LEMMA PlaceAsks ==
  ASSUME Asked, NEW w \in Workers, NEW place \in Places, pc' = [pc EXCEPT ![w] = place],
         UNCHANGED <<call, status, queue>>
  PROVE  Asked'
  BY DEF Asked

-----------------------------------------------------------------------------
(* Jobs, leases and what Describes have read *)

\* A step of one thread that touches neither jobs nor rows.
LEMMA OneGoesOn ==
  ASSUME LeasesIInv, pc \in [Workers -> Places], NEW w \in Workers, NEW place \in Places,
         pc' = [pc EXCEPT ![w] = place], pc[w] # "save lease",
         UNCHANGED <<jobs, ended, leases, stray>>,
         live' \in [Workers -> SUBSET (1 .. jobs)], mine' \in [Workers -> SUBSET (1 .. jobs)],
         \A v \in Workers \ {w} : live'[v] = live[v] /\ mine'[v] = mine[v],
         InHand(w)'
  PROVE  LeasesIInv'
  <1>1. JobsOK'
    BY DEF LeasesIInv, JobsOK
  <1>2. \A v \in Workers \ {w} : pc'[v] = pc[v]
    OBVIOUS
  <1>3. JobsKept'
    BY <1>2 DEF LeasesIInv, JobsKept, GetReservedNodes
  <1>4. ASSUME NEW v \in Workers PROVE InHand(v)'
    <2>1. CASE v # w
      BY <1>2, <2>1 DEF LeasesIInv, InHand, Doomed
    <2> QED BY <2>1
  <1> QED BY <1>1, <1>3, <1>4 DEF LeasesIInv

LEMMA StartsEmpty ==
  ASSUME LeasesIInv, pc \in [Workers -> Places], NEW w \in Workers, NEW place \in Places,
         pc[w] \notin {"save lease", "clean"}, pc' = [pc EXCEPT ![w] = place],
         place \notin {"save lease", "leases"},
         UNCHANGED <<jobs, ended, leases, live, mine, stray>>
  PROVE  LeasesIInv'
  <1>1. mine[w] = {} /\ pc'[w] = place
    BY DEF LeasesIInv, InHand
  <1>2. InHand(w)'
    BY <1>1 DEF InHand, Doomed
  <1> QED BY <1>2, OneGoesOn DEF LeasesIInv, JobsOK

LEMMA DoneKeeps ==
  ASSUME LeasesIInv, pc \in [Workers -> Places], NEW w \in Workers, pc[w] # "save lease",
         pc' = [pc EXCEPT ![w] = "idle"], IotForget(w), UNCHANGED <<jobs, ended, leases, stray>>
  PROVE  LeasesIInv'
  <1>1. live' \in [Workers -> SUBSET (1 .. jobs)] /\ mine' \in [Workers -> SUBSET (1 .. jobs)]
        /\ mine'[w] = {} /\ pc'[w] = "idle"
        /\ \A v \in Workers \ {w} : live'[v] = live[v] /\ mine'[v] = mine[v]
    BY DEF IotForget, LeasesIInv, JobsOK
  <1>2. InHand(w)'
    BY <1>1 DEF InHand
  <1> QED BY <1>1, <1>2, OneGoesOn DEF Places

LEMMA OneMore ==
  ASSUME JobsOK
  PROVE  /\ jobs \in Nat /\ jobs + 1 \in Nat /\ 1 .. (jobs + 1) = (1 .. jobs) \cup {jobs + 1}
         /\ ended \in SUBSET (1 .. (jobs + 1)) /\ leases \in SUBSET (1 .. (jobs + 1))
         /\ stray \in SUBSET (1 .. (jobs + 1))
         /\ live \in [Workers -> SUBSET (1 .. (jobs + 1))]
         /\ mine \in [Workers -> SUBSET (1 .. (jobs + 1))]
  <1>1. jobs \in Nat
    BY DEF JobsOK
  <1>2. 1 .. (jobs + 1) = (1 .. jobs) \cup {jobs + 1}
    BY <1>1
  <1>3. SUBSET (1 .. jobs) \subseteq SUBSET (1 .. (jobs + 1))
    BY <1>2
  <1> QED BY <1>1, <1>2, <1>3 DEF JobsOK

LEMMA ReserveKeeps ==
  ASSUME LeasesIInv, pc \in [Workers -> Places], NEW w \in Workers, ReserveNodes(w)
  PROVE  LeasesIInv'
  <1>1. /\ pc[w] = "reserve" /\ pc' = [pc EXCEPT ![w] = "save lease"]
        /\ jobs' = jobs + 1 /\ mine' = [mine EXCEPT ![w] = {jobs + 1}]
        /\ UNCHANGED <<ended, leases, live, stray>>
    BY DEF ReserveNodes, On, Go, Experiment
  <1>2. /\ pc'[w] = "save lease" /\ mine'[w] = {jobs + 1}
        /\ \A v \in Workers \ {w} : pc'[v] = pc[v] /\ mine'[v] = mine[v]
        /\ mine[w] = {}
    BY <1>1 DEF LeasesIInv, JobsOK, InHand
  <1>3. JobsOK
    BY DEF LeasesIInv
  <1>4. mine' \in [Workers -> SUBSET (1 .. (jobs + 1))]
    BY <1>1, <1>3, OneMore
  <1>5. jobs + 1 \in Nat
    BY <1>3, OneMore
  <1>6. JobsOK'
    BY <1>1, <1>3, <1>4, <1>5, OneMore DEF JobsOK
  <1>7. JobsKept'
    <2>1. ASSUME NEW j \in 1 .. (jobs + 1), j \notin ended
          PROVE  j \in leases \cup stray \/ \E v \in Workers : pc'[v] = "save lease" /\ j \in mine'[v]
      <3>1. CASE j = jobs + 1
        BY <1>2, <3>1
      <3>2. CASE j # jobs + 1
        <4>1. j \in 1 .. jobs
          BY <1>3, <3>2, OneMore
        <4> QED BY <1>1, <1>2, <2>1, <4>1 DEF LeasesIInv, JobsKept, GetReservedNodes
      <3> QED BY <3>1, <3>2
    <2> QED BY <1>1, <2>1 DEF JobsKept, GetReservedNodes
  <1>8. ASSUME NEW v \in Workers PROVE InHand(v)'
    <2>1. CASE v = w
      BY <1>2, <2>1 DEF InHand
    <2>2. CASE v # w
      BY <1>1, <1>2, <2>2 DEF LeasesIInv, InHand, Doomed
    <2> QED BY <2>1, <2>2
  <1> QED BY <1>6, <1>7, <1>8 DEF LeasesIInv

\* The case on account of which SaveLease counts jobs as stray.
LEMMA SaveKeeps ==
  ASSUME LeasesIInv, pc \in [Workers -> Places], NEW w \in Workers, SaveLease(w)
  PROVE  LeasesIInv'
  <1>1. /\ pc[w] = "save lease" /\ pc' = [pc EXCEPT ![w] = "describe"]
        /\ leases' = leases \cup mine[w] /\ mine' = [mine EXCEPT ![w] = {}]
        /\ UNCHANGED <<jobs, ended, live>>
        /\ stray' = IF \E v \in Workers : pc[v] = "leases" /\ ~(mine[w] \subseteq live[v])
                    THEN stray \cup (mine[w] \ ended) ELSE stray
    BY DEF SaveLease, On, Go
  <1>2. /\ pc'[w] = "describe" /\ mine'[w] = {}
        /\ \A v \in Workers \ {w} : pc'[v] = pc[v] /\ mine'[v] = mine[v]
    BY <1>1 DEF LeasesIInv, JobsOK
  <1>3. mine[w] \subseteq 1 .. jobs
    BY DEF LeasesIInv, JobsOK
  <1>4. mine' \in [Workers -> SUBSET (1 .. jobs)]
    BY <1>1 DEF LeasesIInv, JobsOK
  <1>5. stray \subseteq stray' /\ stray' \subseteq 1 .. jobs
    BY <1>1, <1>3 DEF LeasesIInv, JobsOK
  <1>6. JobsOK'
    BY <1>1, <1>3, <1>4, <1>5 DEF LeasesIInv, JobsOK
  <1>7. JobsKept'
    BY <1>1, <1>2, <1>5 DEF LeasesIInv, JobsKept, GetReservedNodes
  <1>8. ASSUME NEW v \in Workers PROVE InHand(v)'
    <2>1. CASE v = w
      BY <1>2, <2>1 DEF InHand
    <2>2. CASE v # w /\ pc[v] = "leases"
      <3>1. leases \ live[v] \subseteq ended \cup stray /\ mine[v] = {}
        BY <2>2 DEF LeasesIInv, InHand, Doomed
      <3>2. mine[w] \ live[v] \subseteq ended \cup stray'
        BY <1>1, <2>2
      <3>3. leases' \ live'[v] \subseteq ended \cup stray'
        BY <1>1, <1>5, <3>1, <3>2
      <3> QED BY <1>1, <1>2, <2>2, <3>1, <3>3 DEF InHand, Doomed
    <2>3. CASE v # w /\ pc[v] # "leases"
      BY <1>1, <1>2, <1>5, <2>3 DEF LeasesIInv, InHand, Doomed
    <2> QED BY <2>1, <2>2, <2>3
  <1> QED BY <1>6, <1>7, <1>8 DEF LeasesIInv

LEMMA DescribeKeeps ==
  ASSUME LeasesIInv, pc \in [Workers -> Places], NEW w \in Workers, AskJobs(w) \/ ReadLeases(w)
  PROVE  LeasesIInv'
  <1>1. CASE AskJobs(w)
    <2>1. /\ pc' = [pc EXCEPT ![w] = "leases"] /\ live' = [live EXCEPT ![w] = (1 .. jobs) \ ended]
          /\ pc[w] \in {"describe", "Status"}
          /\ UNCHANGED <<jobs, ended, leases, mine, stray>>
      BY <1>1 DEF AskJobs, GetReservedNodes, On, Go, iotTables
    <2>2. /\ live' \in [Workers -> SUBSET (1 .. jobs)] /\ mine' \in [Workers -> SUBSET (1 .. jobs)]
          /\ live'[w] = (1 .. jobs) \ ended /\ pc'[w] = "leases"
          /\ \A v \in Workers \ {w} : live'[v] = live[v]
      BY <2>1 DEF LeasesIInv, JobsOK
    <2>3. InHand(w)'
      BY <2>1, <2>2 DEF LeasesIInv, JobsOK, InHand, Doomed
    <2> QED BY <2>1, <2>2, <2>3, OneGoesOn DEF Places
  <1>2. CASE ReadLeases(w)
    <2>1. /\ pc' = [pc EXCEPT ![w] = "clean"] /\ mine' = [mine EXCEPT ![w] = leases]
          /\ pc[w] = "leases"
          /\ UNCHANGED <<jobs, ended, leases, live, stray>>
      BY <1>2 DEF ReadLeases, On, Go, iotTables
    <2>2. /\ live' \in [Workers -> SUBSET (1 .. jobs)] /\ mine' \in [Workers -> SUBSET (1 .. jobs)]
          /\ mine'[w] = leases /\ pc'[w] = "clean"
          /\ \A v \in Workers \ {w} : mine'[v] = mine[v]
      BY <2>1 DEF LeasesIInv, JobsOK
    <2>3. InHand(w)'
      BY <2>1, <2>2 DEF LeasesIInv, JobsOK, InHand, Doomed
    <2> QED BY <2>1, <2>2, <2>3, OneGoesOn DEF Places
  <1> QED BY <1>1, <1>2

\* The row that goes is that of a job that has ended, or is stray.
LEMMA CleanKeeps ==
  ASSUME LeasesIInv, pc \in [Workers -> Places], NEW w \in Workers, NEW j \in mine[w] \ live[w],
         pc[w] = "clean", pc' = [pc EXCEPT ![w] = "clean"], leases' = leases \ {j},
         mine' = [mine EXCEPT ![w] = @ \ {j}], UNCHANGED <<jobs, ended, live, stray>>
  PROVE  LeasesIInv'
  <1>1. j \in ended \cup stray /\ pc' = pc
    BY DEF LeasesIInv, InHand, Doomed
  <1>2. mine' \in [Workers -> SUBSET (1 .. jobs)] /\ mine'[w] = mine[w] \ {j}
        /\ \A v \in Workers \ {w} : mine'[v] = mine[v]
    BY DEF LeasesIInv, JobsOK
  <1>3. JobsOK'
    BY <1>2 DEF LeasesIInv, JobsOK
  <1>4. JobsKept'
    BY <1>1, <1>2 DEF LeasesIInv, JobsKept, GetReservedNodes
  <1>5. ASSUME NEW v \in Workers PROVE InHand(v)'
    <2>1. CASE v = w
      BY <1>1, <1>2, <2>1 DEF LeasesIInv, InHand, Doomed
    <2>2. CASE v # w
      BY <1>1, <1>2, <2>2 DEF LeasesIInv, InHand, Doomed
    <2> QED BY <2>1, <2>2
  <1> QED BY <1>3, <1>4, <1>5 DEF LeasesIInv

LEMMA JobEndKeeps ==
  ASSUME LeasesIInv, JobEnds
  PROVE  LeasesIInv'
  <1>1. PICK j \in (1 .. jobs) \ ended : ended' = ended \cup {j} /\ stray' = stray \ {j}
    BY DEF JobEnds, GetReservedNodes
  <1>2. UNCHANGED <<pc, jobs, leases, live, mine>>
    BY DEF JobEnds, manager, iotLocals
  <1> QED BY <1>1, <1>2 DEF LeasesIInv, JobsOK, JobsKept, GetReservedNodes, InHand, Doomed

\* A job that the testbed took without an answer is stray from the beginning.
LEMMA UnrecordedKeeps ==
  ASSUME LeasesIInv, pc \in [Workers -> Places], NEW w \in Workers,
         NEW place \in Places \ {"save lease", "leases"}, pc[w] \notin {"save lease", "clean"},
         pc' = [pc EXCEPT ![w] = place], Unrecorded, UNCHANGED <<ended, leases, iotLocals>>
  PROVE  LeasesIInv'
  <1>1. JobsOK /\ jobs + 1 \in Nat /\ 1 .. (jobs + 1) = (1 .. jobs) \cup {jobs + 1}
    <2>1. JobsOK
      BY DEF LeasesIInv
    <2> QED BY <2>1, OneMore
  <1>2. jobs' = jobs + 1 /\ stray' = stray \cup {jobs + 1} /\ UNCHANGED <<live, mine>>
    BY DEF Unrecorded, Experiment, iotLocals
  <1>3. pc'[w] = place /\ mine[w] = {} /\ \A v \in Workers \ {w} : pc'[v] = pc[v]
    BY DEF LeasesIInv, InHand
  <1>4. JobsOK'
    <2>1. stray' \in SUBSET (1 .. (jobs + 1))
      BY <1>1, <1>2, OneMore
    <2> QED BY <1>1, <1>2, <2>1, OneMore DEF JobsOK
  <1>5. JobsKept'
    BY <1>1, <1>2, <1>3 DEF LeasesIInv, JobsKept, GetReservedNodes
  <1>6. ASSUME NEW v \in Workers PROVE InHand(v)'
    <2>1. CASE v = w
      BY <1>2, <1>3, <2>1 DEF InHand, Doomed
    <2>2. CASE v # w
      BY <1>2, <1>3, <2>2 DEF LeasesIInv, InHand, Doomed
    <2> QED BY <2>1, <2>2
  <1> QED BY <1>4, <1>5, <1>6 DEF LeasesIInv

LEMMA IotRestartKeeps ==
  ASSUME LeasesIInv, pc \in [Workers -> Places], IotRestart
  PROVE  LeasesIInv'
  <1> DEFINE saved == UNION {mine[w] : w \in {v \in Workers : pc[v] = "save lease"}}
  <1>1. /\ pc' = [w \in Workers |-> "idle"] /\ live' = [w \in Workers |-> {}]
        /\ mine' = [w \in Workers |-> {}] /\ UNCHANGED <<jobs, ended, leases>>
    BY DEF IotRestart, Restart, iotTables
  <1>7. stray' = stray \cup (saved \ ended)
    BY DEF IotRestart
  <1>2. \A w \in Workers : mine[w] \subseteq 1 .. jobs
    BY DEF LeasesIInv, JobsOK
  <1>3. stray' \in SUBSET (1 .. jobs)
    BY <1>2, <1>7 DEF LeasesIInv, JobsOK
  <1>4. JobsOK'
    BY <1>1, <1>3 DEF LeasesIInv, JobsOK
  <1>5. JobsKept'
    <2>1. ASSUME NEW j \in (1 .. jobs) \ ended, j \notin leases PROVE j \in stray'
      <3>1. CASE j \in stray
        BY <1>7, <3>1
      <3>2. CASE j \notin stray
        <4>1. PICK w \in Workers : pc[w] = "save lease" /\ j \in mine[w]
          BY <2>1, <3>2 DEF LeasesIInv, JobsKept, GetReservedNodes
        <4>2. w \in {v \in Workers : pc[v] = "save lease"}
          BY <4>1
        <4>3. j \in saved
          BY <4>1, <4>2
        <4> HIDE DEF saved
        <4>4. j \notin ended
          BY Zenon
        <4> QED BY <1>7, <4>3, <4>4
      <3> QED BY <3>1, <3>2
    <2> QED BY <1>1, <2>1 DEF JobsKept, GetReservedNodes
  <1>6. \A w \in Workers : InHand(w)'
    BY <1>1 DEF InHand
  <1> QED BY <1>4, <1>5, <1>6 DEF LeasesIInv

LEMMA RestartAsks ==
  ASSUME Asked, Restart
  PROVE  Asked'
  <1>1. queue' \in Seq(Transmission)
    BY DEF Restart
  <1> QED BY <1>1 DEF Asked, Restart, Places

LEMMA IotStepKeeps ==
  ASSUME IotIInv, NEW w \in Workers, IotStep(w)
  PROVE  IotIInv'
  <1> USE DEF IotIInv
  <1>1. pc \in [Workers -> Places]
    BY DEF Asked
  <1>2. ASSUME NEW place \in Places, On(w, place) PROVE Asked' /\ pc' = [pc EXCEPT ![w] = place]
    BY <1>2, PlaceAsks DEF On, Go, clients
  <1>3. ASSUME IotDone(w), UNCHANGED <<leases, stray>>, pc[w] # "save lease" PROVE IotIInv'
    BY <1>1, <1>3, AnswerAsks, DoneKeeps DEF IotDone
  <1>4. ASSUME NEW place \in Places \ {"save lease", "leases"}, On(w, place),
               pc[w] \notin {"save lease", "clean"},
               UNCHANGED <<jobs, ended, leases, live, mine, stray>>
        PROVE  IotIInv'
    BY <1>1, <1>2, <1>4, StartsEmpty
  <1>5. CASE NotImplemented(w)
    BY <1>3, <1>5 DEF NotImplemented
  <1>6. CASE GetLogin(w) \/ NoExperiment(w)
    <2>1. ASSUME Raise(w), pc[w] \notin {"save lease", "clean"},
                 UNCHANGED <<jobs, ended, leases, live, mine, stray>>
          PROVE  IotIInv'
      <3>1. Asked' /\ pc' = [pc EXCEPT ![w] = "raised"]
        BY <2>1, PlaceAsks DEF Raise, Go, clients, Places
      <3> QED
        BY <1>1, <2>1, <3>1, StartsEmpty DEF Places
    <2> QED
      BY <1>4, <1>6, <2>1 DEF GetLogin, NoExperiment, iotVars, iotTables, iotLocals, Places
  <1>7. CASE AddUser(w)
    BY <1>4, <1>7 DEF AddUser, iotLocals, Places
  <1>8. CASE AskAgain(w)
    BY <1>4, <1>8 DEF AskAgain, iotVars, iotTables, iotLocals, Places
  <1>9. CASE ReserveNodes(w)
    BY <1>1, <1>2, <1>9, ReserveKeeps DEF ReserveNodes, Places
  <1>10. CASE SaveLease(w)
    BY <1>1, <1>2, <1>10, SaveKeeps DEF SaveLease, Places
  <1>11. CASE AskJobs(w) \/ ReadLeases(w)
    BY <1>1, <1>2, <1>11, DescribeKeeps DEF AskJobs, ReadLeases, Places
  <1>12. CASE CleanLeases(w)
    <2>1. CASE mine[w] \subseteq live[w]
      BY <1>3, <1>12, <2>1 DEF CleanLeases
    <2>2. CASE ~(mine[w] \subseteq live[w])
      <3>1. PICK j \in mine[w] \ live[w] : j = CHOOSE i \in mine[w] \ live[w] : TRUE
        BY <2>2
      <3>2. /\ pc[w] = "clean" /\ leases' = leases \ {j} /\ mine' = [mine EXCEPT ![w] = @ \ {j}]
            /\ On(w, "clean") /\ UNCHANGED <<jobs, ended, live, stray>>
        BY <1>12, <2>2, <3>1 DEF CleanLeases
      <3> QED BY <1>1, <1>2, <3>2, CleanKeeps DEF Places
    <2> QED BY <2>1, <2>2
  <1>13. CASE Take(w) /\ UNCHANGED iotVars
    <2>1. pc[w] = "idle" /\ UNCHANGED <<jobs, ended, leases, live, mine, stray>>
      BY <1>13 DEF Take, Idle, iotVars, iotTables, iotLocals
    <2>2. CASE pc' = pc
      BY <1>13, <2>1, <2>2, TakeAsks DEF LeasesIInv, JobsOK, JobsKept, GetReservedNodes, InHand, Doomed
    <2>3. ASSUME NEW kind \in {"Allocate", "Status", "Delete"}, pc' = [pc EXCEPT ![w] = kind]
          PROVE  LeasesIInv'
      BY <1>1, <2>1, <2>3, StartsEmpty DEF Places
    <2> QED BY <1>13, <2>2, <2>3, TakeAsks
  <1>14. CASE Handle(w) /\ IotForget(w) /\ UNCHANGED <<iotTables, stray>>
    BY <1>1, <1>14, AnswerAsks, DoneKeeps DEF Handle, iotTables
  <1> QED BY <1>5, <1>6, <1>7, <1>8, <1>9, <1>10, <1>11, <1>12, <1>13, <1>14 DEF IotStep

LEMMA IotFailKeeps ==
  ASSUME IotIInv, NEW w \in Workers, IotLabFails(w)
  PROVE  IotIInv'
  <1> USE DEF IotIInv
  <1>1. pc \in [Workers -> Places] /\ UNCHANGED <<ended, leases, call, status, queue>>
    BY DEF Asked, IotLabFails, clients
  <1>2. ASSUME NEW place \in Places, Go(w, place) PROVE Asked' /\ pc' = [pc EXCEPT ![w] = place]
    BY <1>1, <1>2, PlaceAsks DEF Go
  <1>3. ASSUME NEW place \in Places \ {"save lease", "leases"}, Go(w, place),
               pc[w] \notin {"save lease", "clean"}, UNCHANGED <<jobs, live, mine, stray>>
        PROVE  IotIInv'
    BY <1>1, <1>2, <1>3, StartsEmpty
  <1>4. ASSUME NEW place \in Places \ {"save lease", "leases"}, Go(w, place),
               pc[w] \notin {"save lease", "clean"}, Unrecorded, UNCHANGED iotLocals
        PROVE  IotIInv'
    BY <1>1, <1>2, <1>4, UnrecordedKeeps
  <1>5. CASE HttpError(w)
    BY <1>3, <1>4, <1>5 DEF HttpError, Unanswered, iotLocals, Places
  <1>6. CASE CallFails(w)
    BY <1>3, <1>4, <1>6 DEF CallFails, iotLocals, Places
  <1> QED BY <1>5, <1>6 DEF IotLabFails

-----------------------------------------------------------------------------
(* The theorem of the jobs *)

LEMMA FlavourInit == Init => FlavourIInv
  <1> SUFFICES ASSUME Init PROVE FlavourIInv
    OBVIOUS
  <1>1. Asked
    BY DEF Init, ManagerInit, Asked, Places
  <1>2. LeasesIInv
    BY DEF Init, IotInit, NoIotLocals, LeasesIInv, JobsOK, JobsKept, GetReservedNodes, InHand, Doomed,
           ManagerInit
  <1> QED BY <1>1, <1>2 DEF FlavourIInv, IotIInv, Init, IotInit

LEMMA FlavourNext == FlavourIInv /\ [Next]_vars => FlavourIInv'
  <1> SUFFICES ASSUME FlavourIInv, [Next]_vars PROVE FlavourIInv'
    OBVIOUS
  <1>1. CASE flavour = "dummy"
    BY <1>1 DEF FlavourIInv, Next, vars, iotVars, iotTables
  <1>2. CASE flavour = "iotlab"
    <2>1. IotIInv /\ flavour' = flavour
      BY <1>2 DEF FlavourIInv, Next, vars
    <2>2. CASE UNCHANGED vars
      BY <2>1, <2>2 DEF vars, manager, clients, iotVars, iotTables, iotLocals, IotIInv, Asked, LeasesIInv,
         JobsOK, JobsKept, GetReservedNodes, InHand, Doomed, FlavourIInv
    <2>3. CASE IotNext
      <3>1. ASSUME NEW c \in Calls, Client(c, IotRequest), UNCHANGED iotVars PROVE IotIInv'
        BY <2>1, <3>1, ClientAsks DEF IotIInv, LeasesIInv, JobsOK, JobsKept, GetReservedNodes, InHand,
           Doomed, iotVars, iotTables, iotLocals
      <3>2. ASSUME JobEnds PROVE IotIInv'
        <4>1. Asked'
          BY <2>1, <3>2 DEF IotIInv, Asked, JobEnds, manager, clients
        <4>2. LeasesIInv'
          BY <2>1, <3>2, JobEndKeeps DEF IotIInv
        <4> QED BY <4>1, <4>2 DEF IotIInv
      <3>3. ASSUME IotRestart PROVE IotIInv'
        <4>1. Asked'
          BY <2>1, <3>3, RestartAsks DEF IotIInv, IotRestart
        <4>2. LeasesIInv'
          BY <2>1, <3>3, IotRestartKeeps DEF IotIInv, Asked
        <4> QED BY <4>1, <4>2 DEF IotIInv
      <3>4. IotIInv'
        <4>1. ASSUME NEW w \in Workers, IotStep(w) \/ IotLabFails(w) PROVE IotIInv'
          BY <2>1, <4>1, IotStepKeeps, IotFailKeeps
        <4> QED BY <2>3, <3>1, <3>2, <3>3, <4>1 DEF IotNext
      <3> QED BY <1>2, <2>1, <3>4 DEF FlavourIInv
    <2> QED BY <1>2, <2>1, <2>2, <2>3 DEF Next
  <1> QED BY <1>1, <1>2 DEF FlavourIInv

\* A job that has not ended keeps its row in the lease table, whatever Allocates
\* and Describes overlap, whatever calls fail and wherever the aggregate stops:
\* but for those never saved, or saved under a Describe's eyes (SaveLease).
THEOREM LeasesAreKept == Spec => []JobsKept
  <1>1. FlavourIInv => JobsKept
    <2>1. ASSUME jobs = 0 PROVE JobsKept
      <3>1. 1 .. jobs = {}
        BY <2>1
      <3> QED BY <3>1 DEF JobsKept, GetReservedNodes
    <2> QED BY <2>1 DEF FlavourIInv, IotIInv, LeasesIInv
  <1> QED BY <1>1, FlavourInit, FlavourNext, PTL DEF Spec

-----------------------------------------------------------------------------
(* Types of the manager, with either driver *)

\* For the requests that clients may send, and the places of the driver.
CallsOK(requests) ==
  /\ call \in [Calls -> requests \cup {None}]
  /\ status \in [Calls -> {"unsent", "sent", "resent", "ended"}]
  /\ line \in [Calls -> BOOLEAN]
  /\ \A c \in Calls : (call[c] = None <=> status[c] \in {"unsent", "ended"}) /\ (line[c] => call[c] # None)

ThreadsOK(requests, places) ==
  /\ queue \in Seq(Transmissions(requests)) /\ handled \subseteq Calls
  /\ job \in [Workers -> Transmissions(requests) \cup {None}]
  /\ pc \in [Workers -> places]
  /\ \A w \in Workers : Idle(w) <=> job[w] = None

ManagerOK(requests, places) == CallsOK(requests) /\ ThreadsOK(requests, places)

LEMMA ManagerTyped ==
  ASSUME NEW R, NEW P, ManagerOK(R, P)
  PROVE  ManagerTypeOK
  BY DEF ManagerOK, CallsOK, ThreadsOK, ManagerTypeOK

LEMMA MoreRequests ==
  ASSUME NEW R, NEW Q, NEW P, R \subseteq Q, ManagerOK(R, P)
  PROVE  ManagerOK(Q, P)
  <1>1. Transmissions(R) \subseteq Transmissions(Q)
    BY DEF Transmissions
  <1>2. Seq(Transmissions(R)) \subseteq Seq(Transmissions(Q))
    BY <1>1
  <1>3. CallsOK(Q)
    BY DEF ManagerOK, CallsOK
  <1>4. ThreadsOK(Q, P)
    BY <1>1, <1>2 DEF ManagerOK, ThreadsOK
  <1> QED
    BY <1>3, <1>4 DEF ManagerOK

LEMMA EndTyped ==
  ASSUME NEW R, CallsOK(R), NEW c, End(c)
  PROVE  CallsOK(R)'
  <1>1. \A d \in Calls : /\ call'[d] = IF d = c THEN None ELSE call[d]
                         /\ status'[d] = IF d = c THEN "ended" ELSE status[d]
                         /\ line'[d] = IF d = c THEN FALSE ELSE line[d]
    BY DEF End, CallsOK
  <1>2. call' \in [Calls -> R \cup {None}] /\ line' \in [Calls -> BOOLEAN]
        /\ status' \in [Calls -> {"unsent", "sent", "resent", "ended"}]
    BY DEF End, CallsOK
  <1>3. ASSUME NEW d \in Calls
        PROVE  (call'[d] = None <=> status'[d] \in {"unsent", "ended"}) /\ (line'[d] => call'[d] # None)
    <2>1. CASE d = c
      <3>1. call'[d] = None /\ status'[d] = "ended"
        BY <1>1, <2>1
      <3>2. ~line'[d]
        BY <1>1, <2>1
      <3> QED
        BY <3>1, <3>2
    <2>2. CASE d # c
      <3>1. call'[d] = call[d] /\ status'[d] = status[d]
        BY <1>1, <2>2
      <3>2. line'[d] = line[d]
        BY <1>1, <2>2
      <3> QED
        BY <3>1, <3>2 DEF CallsOK
    <2> QED
      BY <2>1, <2>2
  <1> QED
    BY <1>2, <1>3 DEF CallsOK

LEMMA AnswerTyped ==
  ASSUME NEW R, CallsOK(R), NEW t, Answer(t)
  PROVE  CallsOK(R)'
  <1>1. CASE End(t.id)
    BY <1>1, EndTyped
  <1>2. CASE UNCHANGED clients
    BY <1>2 DEF clients, CallsOK
  <1> QED
    BY <1>1, <1>2 DEF Answer

LEMMA SameThreads ==
  ASSUME NEW R, NEW P, ThreadsOK(R, P), UNCHANGED <<queue, handled, job, pc>>
  PROVE  ThreadsOK(R, P)'
  BY DEF ThreadsOK, Idle

LEMMA TransmitTyped ==
  ASSUME NEW R, NEW P, None \notin R, ManagerOK(R, P), NEW c \in Calls, NEW r \in R,
         NEW time \in {"sent", "resent"}, Transmit(c, r, time),
         call' = [call EXCEPT ![c] = r] \/ (call' = call /\ call[c] = r)
  PROVE  ManagerOK(R, P)'
  <1>1. [id |-> c, time |-> time, request |-> r] \in Transmissions(R)
    BY DEF Transmissions
  <1>2. queue' \in Seq(Transmissions(R))
    BY <1>1, AppendProperties DEF Transmit, ManagerOK, ThreadsOK
  <1>3. ThreadsOK(R, P)'
    BY <1>2 DEF Transmit, ManagerOK, ThreadsOK, Idle
  <1>4. \A d \in Calls : /\ call'[d] = IF d = c THEN r ELSE call[d]
                         /\ status'[d] = IF d = c THEN time ELSE status[d]
                         /\ line'[d] = IF d = c THEN TRUE ELSE line[d]
    BY DEF Transmit, ManagerOK, CallsOK
  <1>5. call' \in [Calls -> R \cup {None}] /\ line' \in [Calls -> BOOLEAN]
        /\ status' \in [Calls -> {"unsent", "sent", "resent", "ended"}]
    BY DEF Transmit, ManagerOK, CallsOK
  <1>6. CallsOK(R)'
    BY <1>4, <1>5 DEF ManagerOK, CallsOK
  <1> QED
    BY <1>3, <1>6 DEF ManagerOK

LEMMA ClientTyped ==
  ASSUME NEW R, NEW P, None \notin R, ManagerOK(R, P), NEW c \in Calls, Client(c, R)
  PROVE  ManagerOK(R, P)'
  <1>1. CASE Send(c, R)
    BY <1>1, TransmitTyped DEF Send
  <1>2. CASE Break(c)
    <2>1. ThreadsOK(R, P)'
      BY <1>2, SameThreads DEF Break, ManagerOK
    <2>2. ASSUME line' = [line EXCEPT ![c] = FALSE], UNCHANGED <<call, status>>
          PROVE  CallsOK(R)'
      BY <2>2 DEF ManagerOK, CallsOK
    <2>3. CallsOK(R)'
      BY <1>2, <2>2, EndTyped DEF Break, ManagerOK
    <2> QED
      BY <2>1, <2>3 DEF ManagerOK
  <1>3. CASE LineIsDown(c)
    <2>1. call[c] \in R /\ status[c] = "sent"
      BY <1>3 DEF LineIsDown, ManagerOK, CallsOK
    <2>2. ASSUME Transmit(c, call[c], "resent"), UNCHANGED call PROVE ManagerOK(R, P)'
      BY <2>1, <2>2, TransmitTyped
    <2>3. ASSUME End(c), UNCHANGED <<queue, handled, job, pc>> PROVE ManagerOK(R, P)'
      BY <2>3, EndTyped, SameThreads DEF ManagerOK
    <2> QED
      BY <1>3, <2>2, <2>3 DEF LineIsDown
  <1> QED
    BY <1>1, <1>2, <1>3 DEF Client

\* A step of a thread from one place of the driver to another.
LEMMA GoTyped ==
  ASSUME NEW R, NEW P, ManagerOK(R, P), NEW w \in Workers, pc[w] # "idle",
         NEW place \in P \ {"idle"}, Go(w, place), UNCHANGED <<clients, queue, handled, job>>
  PROVE  ManagerOK(R, P)'
  <1>1. CallsOK(R)'
    BY DEF ManagerOK, CallsOK, clients
  <1>2. ThreadsOK(R, P)'
    BY DEF ManagerOK, ThreadsOK, Go, Idle
  <1> QED
    BY <1>1, <1>2 DEF ManagerOK

LEMMA ReplyTyped ==
  ASSUME NEW R, NEW P, "idle" \in P, ManagerOK(R, P), NEW w \in Workers, Reply(w)
  PROVE  ManagerOK(R, P)'
  <1>1. CallsOK(R)'
    BY AnswerTyped DEF ManagerOK, Reply
  <1>2. ThreadsOK(R, P)'
    BY DEF ManagerOK, ThreadsOK, Reply, Go, Idle
  <1> QED
    BY <1>1, <1>2 DEF ManagerOK

\* What a thread takes off the queue.
LEMMA NextIs ==
  ASSUME NEW R, NEW P, ManagerOK(R, P), queue # <<>>
  PROVE  Head(queue) \in Transmissions(R) /\ Tail(queue) \in Seq(Transmissions(R))
  BY HeadTailProperties DEF ManagerOK, ThreadsOK

LEMMA TakeTyped ==
  ASSUME NEW R, NEW P, None \notin Transmissions(R), \A r \in R : r.kind \in P \ {"idle"},
         ManagerOK(R, P), NEW w \in Workers, Take(w)
  PROVE  ManagerOK(R, P)'
  <1>1. PICK t \in Transmissions(R) : t = Head(queue)
    BY NextIs DEF Take
  <1>2. queue' \in Seq(Transmissions(R))
    BY NextIs DEF Take
  <1>3. t.id \in Calls /\ t.request \in R /\ t # None
    BY DEF Transmissions
  <1>4. UNCHANGED clients \/ Answer(t)
    BY <1>1 DEF Take
  <1>5. CallsOK(R)'
    <2>1. ASSUME UNCHANGED clients PROVE CallsOK(R)'
      BY <2>1 DEF ManagerOK, CallsOK, clients
    <2> QED
      BY <1>4, <2>1, AnswerTyped DEF ManagerOK
  <1>6. \/ UNCHANGED <<handled, job, pc>>
        \/ handled' = handled \cup {t.id} /\ job' = [job EXCEPT ![w] = t]
           /\ pc' = [pc EXCEPT ![w] = t.request.kind]
    BY <1>1 DEF Take, Go
  <1>7. t.request.kind \in P \ {"idle"}
    BY <1>3
  <1>8. CASE UNCHANGED <<handled, job, pc>>
    BY <1>2, <1>5, <1>8 DEF ManagerOK, ThreadsOK, Idle
  <1>9. CASE handled' = handled \cup {t.id} /\ job' = [job EXCEPT ![w] = t]
             /\ pc' = [pc EXCEPT ![w] = t.request.kind]
    <2>1. job' \in [Workers -> Transmissions(R) \cup {None}] /\ pc' \in [Workers -> P]
      BY <1>7, <1>9 DEF ManagerOK, ThreadsOK
    <2>2. \A v \in Workers : Idle(v)' <=> job'[v] = None
      BY <1>3, <1>7, <1>9 DEF ManagerOK, ThreadsOK, Idle
    <2>3. handled' \subseteq Calls
      BY <1>3, <1>9 DEF ManagerOK, ThreadsOK
    <2> QED
      BY <1>2, <1>5, <2>1, <2>2, <2>3 DEF ManagerOK, ThreadsOK
  <1> QED
    BY <1>6, <1>8, <1>9

LEMMA RestartTyped ==
  ASSUME NEW R, NEW P, "idle" \in P, ManagerOK(R, P), Restart
  PROVE  ManagerOK(R, P)'
  <1>1. queue' \in Seq(Transmissions(R))
    BY DEF Restart
  <1>2. ThreadsOK(R, P)'
    BY <1>1 DEF Restart, ThreadsOK, Idle
  <1>3. \A c \in Calls : /\ call'[c] = IF status[c] = "resent" THEN None ELSE call[c]
                         /\ status'[c] = IF status[c] = "resent" THEN "ended" ELSE status[c]
                         /\ line'[c] = FALSE
    BY DEF Restart
  <1>4. call' \in [Calls -> R \cup {None}] /\ line' \in [Calls -> BOOLEAN]
        /\ status' \in [Calls -> {"unsent", "sent", "resent", "ended"}]
    BY DEF Restart, ManagerOK, CallsOK
  <1>5. CallsOK(R)'
    BY <1>3, <1>4 DEF ManagerOK, CallsOK
  <1> QED
    BY <1>2, <1>5 DEF ManagerOK

-----------------------------------------------------------------------------
(* Who runs undisturbed *)

Allocating(w) == Busy(w) /\ Kind(w) = "Allocate"

\* Nobody changes slivers while a call that is said to be alone runs, and no two
\* Allocates run until it is said that they have crossed.
Histories ==
  /\ alone \in [Workers -> BOOLEAN]
  /\ \A w \in Workers : alone[w] => ~Overlapped(w)
  /\ ~crossed => \A v, w \in Workers : Allocating(v) /\ Allocating(w) => v = w

LEMMA HistoriesStay ==
  ASSUME Histories, alone' \in [Workers -> BOOLEAN], crossed' = crossed,
         \A v \in Workers : alone'[v] => alone[v],
         \A v \in Workers : Changing(v)' => Changing(v),
         \A v \in Workers : Allocating(v)' => Allocating(v)
  PROVE  Histories'
  <1>1. \A w \in Workers : alone'[w] => ~Overlapped(w)'
    BY DEF Histories, Overlapped
  <1>2. ~crossed' => \A v, w \in Workers : Allocating(v)' /\ Allocating(w)' => v = w
    BY DEF Histories
  <1> QED
    BY <1>1, <1>2 DEF Histories

LEMMA GoHistories ==
  ASSUME Histories, NEW P, pc \in [Workers -> P], NEW w \in Workers, Busy(w), NEW place,
         Go(w, place), UNCHANGED <<job, crossed>>,
         alone' = alone \/ alone' = [alone EXCEPT ![w] = FALSE]
  PROVE  Histories'
  <1>1. \A v \in Workers : Busy(v)' => Busy(v)
    BY DEF Go, Busy
  <1>2. \A v \in Workers : Kind(v)' = Kind(v)
    BY DEF Kind
  <1>3. alone' \in [Workers -> BOOLEAN] /\ \A v \in Workers : alone'[v] => alone[v]
    BY DEF Histories
  <1> QED
    BY <1>1, <1>2, <1>3, HistoriesStay DEF Changing, Allocating

LEMMA ReplyHistories ==
  ASSUME Histories, NEW P, pc \in [Workers -> P], NEW w \in Workers, Reply(w)
  PROVE  Histories'
  <1>1. pc' = [pc EXCEPT ![w] = "idle"] /\ job' = [job EXCEPT ![w] = None]
        /\ alone' = [alone EXCEPT ![w] = FALSE] /\ crossed' = crossed
    BY DEF Reply, Go
  <1>2. pc'[w] = "idle" /\ \A v \in Workers \ {w} : pc'[v] = pc[v]
    BY <1>1
  <1>3. ~Busy(w)'
    BY <1>2 DEF Busy
  <1>4. ASSUME NEW v \in Workers \ {w} PROVE Busy(v)' = Busy(v) /\ Kind(v)' = Kind(v)
    <2>1. job'[v] = job[v]
      BY <1>1
    <2> QED
      BY <1>2, <2>1 DEF Busy, Kind
  <1>5. alone' \in [Workers -> BOOLEAN] /\ \A v \in Workers : alone'[v] => alone[v]
    BY <1>1 DEF Histories
  <1>6. \A v \in Workers : (Changing(v)' => Changing(v)) /\ (Allocating(v)' => Allocating(v))
    BY <1>3, <1>4 DEF Changing, Allocating
  <1> QED
    BY <1>1, <1>5, <1>6, HistoriesStay

LEMMA RestartHistories ==
  ASSUME Histories, Restart
  PROVE  Histories'
  <1>1. alone' = [w \in Workers |-> FALSE] /\ \A w \in Workers : ~Busy(w)'
    BY DEF Restart, Busy
  <1> QED
    BY <1>1 DEF Histories, Allocating

LEMMA TakeHistories ==
  ASSUME Histories, NEW P, pc \in [Workers -> P], NEW J, job \in [Workers -> J],
         NEW w \in Workers, Take(w), Head(queue).request.kind \notin {"idle", "raised"}
  PROVE  Histories'
  <1>1. PICK kind : kind = Head(queue).request.kind
    OBVIOUS
  <1>2. CASE UNCHANGED <<handled, job, pc, history>>
    <2>1. \A v \in Workers : Changing(v)' = Changing(v) /\ Allocating(v)' = Allocating(v)
      BY <1>2 DEF Changing, Allocating, Busy, Kind
    <2> QED
      BY <1>2, <2>1, HistoriesStay DEF history, Histories
  <1>3. CASE /\ job' = [job EXCEPT ![w] = Head(queue)]
             /\ Go(w, kind)
             /\ alone' = [v \in Workers |-> IF v = w THEN ~Overlapped(w) ELSE alone[v] /\ kind \notin Changes]
             /\ crossed' = (crossed \/ \E v \in Workers \ {w} :
                               kind = "Allocate" /\ Busy(v) /\ Kind(v) = "Allocate")
    <2>1. /\ pc'[w] = kind /\ Kind(w)' = kind
          /\ \A v \in Workers \ {w} : pc'[v] = pc[v] /\ Kind(v)' = Kind(v)
      BY <1>1, <1>3 DEF Go, Kind
    <2>2. Busy(w)' /\ \A v \in Workers \ {w} : Busy(v)' = Busy(v)
      BY <1>1, <2>1 DEF Busy
    <2>3. \A v \in Workers \ {w} : Changing(v)' = Changing(v) /\ Allocating(v)' = Allocating(v)
      BY <2>1, <2>2, Zenon DEF Changing, Allocating
    <2>4. (Changing(w)' => kind \in Changes) /\ (Allocating(w)' => kind = "Allocate")
      BY <2>1 DEF Changing, Allocating
    <2>5. alone' \in [Workers -> BOOLEAN]
      <3>1. \A v \in Workers : (IF v = w THEN ~Overlapped(w) ELSE alone[v] /\ kind \notin Changes) \in BOOLEAN
        BY DEF Histories
      <3> QED
        BY <1>3, <3>1
    <2>6. alone'[w] => ~Overlapped(w)'
      <3>1. alone'[w] => ~Overlapped(w)
        BY <1>3
      <3> QED
        BY <2>3, <3>1 DEF Overlapped
    <2>7. ASSUME NEW v \in Workers \ {w}, alone'[v] PROVE ~Overlapped(v)'
      <3>1. alone[v] /\ kind \notin Changes
        BY <1>3, <2>7
      <3>2. ~Overlapped(v)
        BY <3>1 DEF Histories
      <3>3. \A u \in Workers \ {v} : ~Changing(u)'
        BY <2>3, <2>4, <3>1, <3>2 DEF Overlapped
      <3> QED
        BY <3>3 DEF Overlapped
    <2>8. ASSUME ~crossed', NEW v \in Workers, NEW u \in Workers, Allocating(v)', Allocating(u)'
          PROVE  v = u
      <3>1. ~crossed /\ ~\E x \in Workers \ {w} : kind = "Allocate" /\ Busy(x) /\ Kind(x) = "Allocate"
        BY <1>3, <2>8, Zenon
      <3>2. \A x \in Workers \ {w} : kind = "Allocate" => ~Allocating(x)
        BY <3>1 DEF Allocating
      <3>3. ~crossed => \A x, y \in Workers : Allocating(x) /\ Allocating(y) => x = y
        BY DEF Histories
      <3> QED
        BY <2>3, <2>4, <2>8, <3>1, <3>2, <3>3
    <2> QED
      BY <2>5, <2>6, <2>7, <2>8 DEF Histories
  <1> QED
    BY <1>1, <1>2, <1>3, Zenon DEF Take

-----------------------------------------------------------------------------
(* The dummy testbed *)

DummyKinds ==
  {"Allocate", "Provision", "Delete", "Renew", "Action", "Status", "Shutdown", "ListResources"}
Preparing == {"add nodes", "remove nodes", "look again", "sync", "sync write"}
Working == Preparing \cup {"query rows", "set rows", "delete nodes", "delete rows"}
DummyPlaces == {"idle", "raised", "add slice", "describe"} \cup DummyKinds \cup Working

\* What a client may have asked: slices do not go away.
DummyAsk ==
  {r \in DummyRecord :
     /\ r.kind = "Allocate" => r.target # Whole
     /\ r.kind \in {"Provision", "Delete"} /\ r.target # Whole => r.slice \in 1 .. Len(slices)
     /\ r.kind \notin {"Allocate", "Provision", "Delete"} => r.target = Whole}

\* At each place a request of the kind that gets there, with what it has found.
KindAt(w) ==
  /\ pc[w] \in {"add slice"} \cup Preparing => Kind(w) = "Allocate"
  /\ pc[w] \in {"query rows", "set rows"} => Kind(w) = "Provision"
  /\ pc[w] \in {"delete nodes", "delete rows"} => Kind(w) = "Delete"
  /\ pc[w] = "describe" => Kind(w) \in {"Allocate", "Provision", "Renew", "Action"}
  /\ pc[w] \in DummyKinds => Kind(w) = pc[w]

LocalsAt(w) ==
  /\ pc[w] \in {"idle", "add slice"} \cup DummyKinds => nodes[w] = {}
  /\ pc[w] \in Working => slice[w] \in 1 .. Len(slices)
  /\ pc[w] \in {"sync", "sync write"} => nodes[w] # {}

TestbedOK ==
  /\ slices \in Seq(Slice)
  /\ DOMAIN rows \subseteq (1 .. Len(slices)) \X Nodes
  /\ rows \in [DOMAIN rows -> States]

LocalsOK ==
  /\ slice \in [Workers -> Nat] /\ nodes \in [Workers -> SUBSET Nodes]
  /\ found \in [Workers -> SUBSET (Nat \X Nodes)]
  /\ \A w \in Workers : slice[w] <= Len(slices) /\ found[w] \subseteq (1 .. Len(slices)) \X Nodes

\* The nodes of the one slice, and the states of its slivers.
OnNodes == IF slices = <<>> THEN {} ELSE GetNodes(slices[1])
RowState(n) == IF <<1, n>> \in DOMAIN rows THEN rows[<<1, n>>] ELSE "geni_unallocated"

\* Until two Allocates cross there is one slice, with each node once.
OneSlice ==
  ~crossed =>
    /\ Len(slices) <= 1
    /\ slices # <<>> => \A n \in Nodes : NodeIds(slices[1])[n] <= 1
    /\ \A w \in Workers : pc[w] = "add slice" => slices = <<>>
    /\ \A w \in Workers : pc[w] = "add nodes" => OnNodes \subseteq nodes[w]

\* A commit would go through, with every row that was found.
Commits(w, wanted) == Taken(w, wanted) = {} /\ Gone(w) = {}

\* How far an undisturbed request has come.
StageAllocate(w) ==
  /\ pc[w] = "add nodes" => OnNodes = nodes[w]
  /\ pc[w] = "remove nodes" => slices[1] # None /\ OnNodes = Target(w) \cup nodes[w]
  /\ pc[w] = "look again" => slices[1] # None
  /\ pc[w] \in {"look again", "sync", "sync write"} => OnNodes = Target(w)
  /\ pc[w] \in {"sync", "sync write"} =>
       nodes[w] \subseteq Target(w) /\ \A n \in Target(w) \ nodes[w] : RowState(n) = "geni_allocated"
  /\ pc[w] = "sync write" => Commits(w, {NextSliver(w)})

StageProvision(w) ==
  /\ pc[w] \in {"query rows", "set rows"} => slice[w] = Named(w) /\ nodes[w] = GetSlivers(w)
  /\ pc[w] = "set rows" => Commits(w, MySlivers(w))

StageDelete(w) ==
  /\ pc[w] = "delete nodes" => slice[w] = Named(w) /\ nodes[w] = GetSlivers(w)
  /\ pc[w] = "delete rows" /\ Target(w) = Whole => OnNodes = {}
  /\ pc[w] = "delete rows" /\ Target(w) # Whole /\ asked # None =>
       /\ OnNodes = DOMAIN asked \ Target(w) /\ nodes[w] = DOMAIN asked \cap Target(w)
       /\ asked = [n \in DOMAIN asked |-> RowState(n)]

StageDescribe(w) == pc[w] = "describe" /\ Then(w) # None => Shown = Then(w)

Stage(w) == StageAllocate(w) /\ StageProvision(w) /\ StageDelete(w) /\ StageDescribe(w)

\* Unless it is unclear, the slice is as asked for, or a request is past the
\* point where it begins to change it.
Past == Preparing \cup {"describe", "delete rows"}
Clear == asked # None => Shown = asked \/ \E w \in Workers : Changing(w) /\ pc[w] \in Past

Stages == \A w \in Workers : Changing(w) /\ Undisturbed(w) => Stage(w)

\* An exception that nothing outside the request explains.
Excused(w) == pc[w] = "raised" /\ Undisturbed(w) => Unservable(w)

DummyIInv ==
  /\ ManagerOK(DummyAsk, DummyPlaces) /\ Histories /\ TestbedOK /\ LocalsOK
  /\ \A w \in Workers : KindAt(w) /\ LocalsAt(w)
  /\ OneSlice /\ Stages /\ Clear /\ \A w \in Workers : Excused(w)

-----------------------------------------------------------------------------
(* Calls of the testbed *)

LEMMA NodeIdsTyped ==
  ASSUME NEW s \in Slice
  PROVE  NodeIds(s) \in [Nodes -> Nat] /\ GetNodes(s) \subseteq Nodes
  BY DEF Slice, NodeIds, NoNodes, GetNodes

LEMMA SliceAdded ==
  ASSUME NEW ss \in Seq(Slice)
  PROVE  /\ AddSlice(ss) \in Seq(Slice) /\ Len(AddSlice(ss)) = Len(ss) + 1
         /\ ss = <<>> => AddSlice(ss)[1] = None
         /\ AddSlice(ss) # <<>>
  <1>1. None \in Slice
    BY DEF Slice
  <1>2. /\ AddSlice(ss) \in Seq(Slice) /\ Len(AddSlice(ss)) = Len(ss) + 1
        /\ AddSlice(ss)[Len(ss) + 1] = None
    BY <1>1, AppendProperties DEF AddSlice
  <1>3. Len(ss) \in Nat /\ (ss = <<>> => Len(ss) = 0)
    BY LenProperties
  <1>4. Len(AddSlice(ss)) # 0
    BY <1>2, <1>3
  <1> QED
    BY <1>2, <1>3, <1>4, EmptySeq

LEMMA NodesAdded ==
  ASSUME NEW ss \in Seq(Slice), NEW i \in 1 .. Len(ss), NEW N,
         NEW new, new = AddSliceToNodes(ss, i, N)
  PROVE  /\ new \in Seq(Slice) /\ Len(new) = Len(ss)
         /\ new[i] \in [Nodes -> Nat] /\ new[i] # None
         /\ \A n \in Nodes : new[i][n] = NodeIds(ss[i])[n] + IF n \in N THEN 1 ELSE 0
         /\ GetNodes(new[i]) = GetNodes(ss[i]) \cup (N \cap Nodes)
         /\ \A j \in 1 .. Len(ss) : j # i => new[j] = ss[j]
  <1> DEFINE s == [n \in Nodes |-> NodeIds(ss[i])[n] + IF n \in N THEN 1 ELSE 0]
  <1>1. ss[i] \in Slice
    BY ElementOfSeq
  <1>2. NodeIds(ss[i]) \in [Nodes -> Nat]
    BY <1>1, NodeIdsTyped
  <1>3. s \in [Nodes -> Nat]
    BY <1>2
  <1>4. s \in Slice /\ s # None
    BY <1>3, TestbedAssumption DEF Slice
  <1>5. \A n \in Nodes : s[n] = NodeIds(ss[i])[n] + IF n \in N THEN 1 ELSE 0
    OBVIOUS
  <1>6. AddSliceToNodes(ss, i, N) = [ss EXCEPT ![i] = s]
    BY DEF AddSliceToNodes
  <1>7. GetNodes(s) = GetNodes(ss[i]) \cup (N \cap Nodes)
    <2>1. NodeIds(s) = s
      BY <1>4 DEF NodeIds
    <2>2. \A n \in Nodes : s[n] > 0 <=> NodeIds(ss[i])[n] > 0 \/ n \in N
      BY <1>2, <1>5
    <2> QED
      BY <2>1, <2>2 DEF GetNodes
  <1> HIDE DEF s
  <1>8. new \in Seq(Slice) /\ Len(new) = Len(ss) /\ \A j \in 1 .. Len(ss) : new[j] = IF j = i THEN s ELSE ss[j]
    BY <1>4, <1>6, ExceptSeq
  <1> QED
    BY <1>3, <1>4, <1>5, <1>7, <1>8

LEMMA NodesDeleted ==
  ASSUME NEW ss \in Seq(Slice), NEW i \in 1 .. Len(ss), NEW N,
         NEW new, new = DeleteSliceFromNodes(ss, i, N)
  PROVE  /\ new \in Seq(Slice) /\ Len(new) = Len(ss)
         /\ new[i] = None <=> ss[i] = None
         /\ \A n \in Nodes : NodeIds(new[i])[n] <= NodeIds(ss[i])[n]
         /\ GetNodes(new[i]) \subseteq GetNodes(ss[i])
         /\ (\A n \in Nodes : NodeIds(ss[i])[n] <= 1) => GetNodes(new[i]) = GetNodes(ss[i]) \ N
         /\ \A j \in 1 .. Len(ss) : j # i => new[j] = ss[j]
  <1> DEFINE s == [n \in Nodes |-> IF n \in N /\ ss[i][n] > 0 THEN ss[i][n] - 1 ELSE ss[i][n]]
  <1>1. ss[i] \in Slice
    BY ElementOfSeq
  <1>3. new = [ss EXCEPT ![i] = IF ss[i] = None THEN None ELSE s]
    BY DEF DeleteSliceFromNodes
  <1>4. CASE ss[i] = None
    <2>1. None \in Slice /\ new = [ss EXCEPT ![i] = None]
      BY <1>3, <1>4 DEF Slice
    <2>2. new \in Seq(Slice) /\ Len(new) = Len(ss) /\ \A j \in 1 .. Len(ss) : new[j] = IF j = i THEN None ELSE ss[j]
      BY <2>1, ExceptSeq
    <2>3. new[i] = ss[i] /\ GetNodes(ss[i]) = {}
      BY <1>4, <2>2 DEF GetNodes, NodeIds, NoNodes
    <2>4. \A n \in Nodes : NodeIds(new[i])[n] <= NodeIds(ss[i])[n]
      BY <1>1, <2>3, NodeIdsTyped
    <2> QED
      BY <2>2, <2>3, <2>4
  <1>5. CASE ss[i] # None
    <2>1. ss[i] \in [Nodes -> Nat] /\ NodeIds(ss[i]) = ss[i]
      BY <1>1, <1>5 DEF Slice, NodeIds
    <2>2. s \in [Nodes -> Nat]
      BY <2>1
    <2>3. s \in Slice /\ s # None /\ NodeIds(s) = s
      BY <2>2, TestbedAssumption DEF Slice, NodeIds
    <2>4. \A n \in Nodes : s[n] = IF n \in N /\ ss[i][n] > 0 THEN ss[i][n] - 1 ELSE ss[i][n]
      OBVIOUS
    <2>5. /\ \A n \in Nodes : s[n] <= ss[i][n] /\ (s[n] > 0 => ss[i][n] > 0)
          /\ (\A n \in Nodes : ss[i][n] <= 1) => \A n \in Nodes : s[n] > 0 <=> ss[i][n] > 0 /\ n \notin N
      BY <2>1, <2>4
    <2>6. /\ GetNodes(s) \subseteq GetNodes(ss[i])
          /\ (\A n \in Nodes : ss[i][n] <= 1) => GetNodes(s) = GetNodes(ss[i]) \ N
      BY <2>1, <2>3, <2>5 DEF GetNodes
    <2> HIDE DEF s
    <2>7. new = [ss EXCEPT ![i] = s]
      BY <1>3, <1>5
    <2>8. new \in Seq(Slice) /\ Len(new) = Len(ss) /\ \A j \in 1 .. Len(ss) : new[j] = IF j = i THEN s ELSE ss[j]
      BY <2>3, <2>7, ExceptSeq
    <2> QED
      BY <1>5, <2>1, <2>3, <2>5, <2>6, <2>8
  <1> QED
    BY <1>4, <1>5

-----------------------------------------------------------------------------
(* Requests of a dummy aggregate *)

LEMMA MoreAsked ==
  ASSUME NEW R, NEW Q, R \subseteq Q, NEW P, ManagerOK(R, P)'
  PROVE  ManagerOK(Q, P)'
  <1>1. Transmissions(R) \subseteq Transmissions(Q)
    BY DEF Transmissions
  <1>2. Seq(Transmissions(R)) \subseteq Seq(Transmissions(Q))
    BY <1>1
  <1>3. CallsOK(Q)'
    BY DEF ManagerOK, CallsOK
  <1>4. ThreadsOK(Q, P)'
    BY <1>1, <1>2 DEF ManagerOK, ThreadsOK
  <1> QED
    BY <1>3, <1>4 DEF ManagerOK

LEMMA AskedGrows ==
  ASSUME slices \in Seq(Slice), slices' \in Seq(Slice), Len(slices) <= Len(slices')
  PROVE  DummyAsk \subseteq DummyAsk'
  <1>1. Len(slices) \in Nat /\ Len(slices') \in Nat
    BY LenProperties
  <1>2. 1 .. Len(slices) \subseteq 1 .. Len(slices')
    BY <1>1
  <1> QED
    BY <1>2 DEF DummyAsk

\* What a step leaves the manager's variables with, whatever it does to the slices.
LEMMA AskManaged ==
  ASSUME slices \in Seq(Slice), slices' \in Seq(Slice), Len(slices) <= Len(slices'),
         NEW R, R = DummyAsk, NEW P, ManagerOK(R, P)'
  PROVE  ManagerOK(DummyAsk, P)'
  <1>1. PICK Q : Q = DummyAsk'
    OBVIOUS
  <1>2. ManagerOK(Q, P)'
    BY <1>1, AskedGrows, MoreAsked
  <1>3. CallsOK(DummyAsk)'
    BY <1>1, <1>2 DEF ManagerOK, CallsOK
  <1>4. ThreadsOK(DummyAsk, P)'
    BY <1>1, <1>2 DEF ManagerOK, ThreadsOK, Transmissions
  <1> QED
    BY <1>3, <1>4 DEF ManagerOK

LEMMA AskRecords == DummyAsk \subseteq DummyRecord /\ None \notin DummyAsk /\ None \notin Transmissions(DummyAsk)
  BY RequestAssumption DEF DummyAsk, Transmissions

LEMMA RequestsAsk ==
  ASSUME TestbedOK
  PROVE  DummyRequest \subseteq DummyAsk
  <1>1. DOMAIN slices = 1 .. Len(slices) /\ Len(slices) \in Nat
    BY LenProperties DEF TestbedOK
  <1> QED
    BY <1>1 DEF DummyRequest, DummyAsk, DummyRecord

\* The request of a thread.
LEMMA JobIs ==
  ASSUME DummyIInv, NEW w \in Workers, pc[w] # "idle"
  PROVE  /\ job[w] \in Transmissions(DummyAsk) /\ job[w].request \in DummyAsk
         /\ Kind(w) \in DummyKinds /\ Target(w) \in Targets \cup {Whole}
         /\ Target(w) # Whole => Target(w) \subseteq Nodes
         /\ Kind(w) = "Allocate" => Target(w) # Whole
         /\ Kind(w) \in {"Provision", "Delete"} /\ Target(w) # Whole =>
              job[w].request.slice \in 1 .. Len(slices)
         /\ Kind(w) \notin {"Allocate", "Provision", "Delete"} => Target(w) = Whole
  <1>1. job[w] \in Transmissions(DummyAsk)
    BY DEF DummyIInv, ManagerOK, ThreadsOK, Idle
  <1>2. job[w].request \in DummyAsk
    BY <1>1 DEF Transmissions
  <1>3. Target(w) # Whole => Target(w) \subseteq Nodes
    BY <1>2, AggregateAssumption DEF DummyAsk, DummyRecord, Target
  <1> QED
    BY <1>1, <1>2, <1>3 DEF DummyAsk, DummyRecord, DummyKinds, Kind, Target

LEMMA NamedIs ==
  ASSUME DummyIInv, NEW w \in Workers, pc[w] # "idle"
  PROVE  /\ Len(slices) \in Nat /\ slices \in Seq(Slice)
         /\ slices # <<>> => Named(w) \in 1 .. Len(slices) /\ Named(w) \in Nat
         /\ GetSlivers(w) \subseteq Nodes
         /\ GetSlivers(w) # {} => slices # <<>>
  <1>1. Len(slices) \in Nat /\ slices \in Seq(Slice)
    BY LenProperties DEF DummyIInv, TestbedOK
  <1>2. slices # <<>> => Len(slices) > 0
    BY <1>1, EmptySeq
  <1>3. ~ByName(w) => job[w].request.slice \in 1 .. Len(slices)
    BY JobIs DEF ByName
  <1>4. slices # <<>> => Named(w) \in 1 .. Len(slices)
    BY <1>1, <1>2, <1>3 DEF Named
  <1>5. GetSlivers(w) \subseteq Nodes
    BY DEF GetSlivers, GetNodes
  <1> QED
    BY <1>1, <1>4, <1>5 DEF GetSlivers

-----------------------------------------------------------------------------
(* One slice *)

\* As long as no two Allocates have crossed.
LEMMA TheSlice ==
  ASSUME TestbedOK, OneSlice, ~crossed
  PROVE  /\ slices = <<>> \/ (Len(slices) = 1 /\ slices[1] \in Slice)
         /\ \A i \in 1 .. Len(slices) : i = 1
         /\ Shown = [n \in OnNodes |-> RowState(n)]
         /\ OnNodes \subseteq Nodes
  <1>1. Len(slices) \in Nat /\ Len(slices) <= 1
    BY LenProperties DEF TestbedOK, OneSlice
  <1>2. slices = <<>> <=> Len(slices) = 0
    BY EmptySeq, LenProperties DEF TestbedOK
  <1>3. \A i \in 1 .. Len(slices) : i = 1
    BY <1>1
  <1>4. slices = <<>> \/ (Len(slices) = 1 /\ slices[1] \in Slice)
    <2>1. \A i \in 1 .. Len(slices) : slices[i] \in Slice
      BY ElementOfSeq DEF TestbedOK
    <2>2. Len(slices) = 1 => 1 \in 1 .. Len(slices)
      BY <1>1
    <2>3. Len(slices) = 0 \/ Len(slices) = 1
      BY <1>1
    <2> QED
      BY <1>2, <2>1, <2>2, <2>3, Zenon
  <1>5. Shown = [n \in OnNodes |-> RowState(n)]
    <2>1. CASE slices = <<>>
      BY <1>2, <2>1 DEF Shown, OnNodes, RowState
    <2>2. CASE slices # <<>>
      BY <1>2, <1>4, <2>2 DEF Shown, OnNodes, RowState
    <2> QED
      BY <2>1, <2>2
  <1>6. OnNodes \subseteq Nodes
    BY DEF OnNodes, GetNodes
  <1> QED
    BY <1>3, <1>4, <1>5, <1>6

\* What a thread may leave as it is for another.
Elsewhere(w) ==
  /\ \A v \in Workers \ {w} :
       pc'[v] = pc[v] /\ job'[v] = job[v] /\ slice'[v] = slice[v] /\ nodes'[v] = nodes[v] /\ found'[v] = found[v]
  /\ \A v \in Workers \ {w} : alone'[v] => alone[v]
  /\ crossed => crossed'

LEMMA SameStage ==
  ASSUME NEW v, UNCHANGED <<testbed, asked>>, Stage(v),
         pc'[v] = pc[v], job'[v] = job[v], slice'[v] = slice[v], nodes'[v] = nodes[v], found'[v] = found[v]
  PROVE  Stage(v)'
  <1>1. OnNodes' = OnNodes /\ Shown' = Shown /\ \A n : RowState(n)' = RowState(n)
    BY DEF testbed, OnNodes, Shown, RowState
  <1>2. Kind(v)' = Kind(v) /\ Target(v)' = Target(v)
    BY DEF Kind, Target
  <1>3. ByName(v)' = ByName(v) /\ Named(v)' = Named(v)
    BY <1>2 DEF ByName, Named, testbed
  <1>4. GetSlivers(v)' = GetSlivers(v)
    BY <1>2, <1>3 DEF GetSlivers, testbed
  <1>5. NextNode(v)' = NextNode(v) /\ NextSliver(v)' = NextSliver(v) /\ MySlivers(v)' = MySlivers(v)
    BY DEF NextNode, NextSliver, MySlivers
  <1>6. Then(v)' = Then(v)
    BY <1>2 DEF Then
  <1>7. StageAllocate(v)'
    BY <1>1, <1>2, <1>5 DEF StageAllocate, Stage, Commits, Taken, Gone, testbed
  <1>8. StageProvision(v)'
    BY <1>3, <1>4, <1>5 DEF StageProvision, Stage, Commits, Taken, Gone, testbed
  <1>9. StageDelete(v)'
    BY <1>1, <1>2, <1>3, <1>4 DEF StageDelete, Stage
  <1>10. StageDescribe(v)'
    BY <1>1, <1>6 DEF StageDescribe, Stage
  <1> QED
    BY <1>7, <1>8, <1>9, <1>10 DEF Stage

\* A thread leaves what is known of another as it is: it changes the testbed
\* only while no other one counts as undisturbed.
LEMMA OthersGoOn ==
  ASSUME DummyIInv, NEW w \in Workers, Elsewhere(w), Changing(w) \/ UNCHANGED <<testbed, asked>>,
         slices' \in Seq(Slice), Len(slices) <= Len(slices'), NEW v \in Workers \ {w}
  PROVE  /\ KindAt(v)' /\ LocalsAt(v)'
         /\ Changing(v)' /\ Undisturbed(v)' => Stage(v)'
         /\ Excused(v)'
  <1>1. /\ pc'[v] = pc[v] /\ job'[v] = job[v] /\ slice'[v] = slice[v]
        /\ nodes'[v] = nodes[v] /\ found'[v] = found[v]
    BY DEF Elsewhere
  <1>2. KindAt(v)'
    BY <1>1 DEF KindAt, Kind, DummyIInv
  <1>3. LocalsAt(v)'
    <2>1. Len(slices) \in Nat /\ Len(slices') \in Nat
      BY LenProperties DEF DummyIInv, TestbedOK
    <2>2. 1 .. Len(slices) \subseteq 1 .. Len(slices')
      BY <2>1
    <2>3. LocalsAt(v)
      BY DEF DummyIInv
    <2> QED
      BY <1>1, <2>2, <2>3 DEF LocalsAt
  <1>4. Undisturbed(v)' => Undisturbed(v)
    BY DEF Elsewhere, Undisturbed
  <1>5. Changing(v)' <=> Changing(v)
    BY <1>1 DEF Changing, Busy, Kind
  <1>6. ASSUME Changing(v)', Undisturbed(v)' PROVE Stage(v)'
    <2>1. Changing(v) /\ Undisturbed(v) /\ Stage(v)
      BY <1>4, <1>5, <1>6 DEF DummyIInv, Stages
    <2>2. ~Changing(w)
      BY <2>1 DEF DummyIInv, Histories, Overlapped, Undisturbed
    <2> QED
      BY <1>1, <2>1, <2>2, SameStage
  <1>7. Excused(v)'
    <2> SUFFICES ASSUME pc[v] = "raised", Undisturbed(v) PROVE Unservable(v)'
      BY <1>1, <1>4 DEF Excused
    <2>1. ~Changing(w)
      BY DEF DummyIInv, Histories, Overlapped, Undisturbed
    <2>2. Unservable(v)
      BY DEF DummyIInv, Excused
    <2>3. slices' = slices
      BY <2>1 DEF testbed
    <2> QED
      BY <1>1, <2>2, <2>3 DEF Unservable, GetSlivers, ByName, Named, Kind, Target
  <1> QED
    BY <1>2, <1>3, <1>6, <1>7

\* The invariant after a step of a thread.
LEMMA StepKeeps ==
  ASSUME DummyIInv, NEW w \in Workers, Elsewhere(w), Changing(w) \/ UNCHANGED <<testbed, asked>>,
         Len(slices) <= Len(slices'),
         ManagerOK(DummyAsk, DummyPlaces)', Histories', TestbedOK', LocalsOK',
         KindAt(w)', LocalsAt(w)', OneSlice', Clear',
         Changing(w)' /\ Undisturbed(w)' => Stage(w)',
         Excused(w)'
  PROVE  DummyIInv'
  <1>1. slices' \in Seq(Slice)
    BY DEF TestbedOK
  <1>2. \A v \in Workers : KindAt(v)' /\ LocalsAt(v)'
    BY <1>1, OthersGoOn
  <1>3. Stages'
    BY <1>1, OthersGoOn DEF Stages
  <1>4. \A v \in Workers : Excused(v)'
    BY <1>1, OthersGoOn
  <1> QED
    BY <1>2, <1>3, <1>4 DEF DummyIInv

-----------------------------------------------------------------------------
(* The shapes of a step of a thread *)

LocalsTo(w, i, N, F) ==
  /\ slice' = [slice EXCEPT ![w] = i]
  /\ nodes' = [nodes EXCEPT ![w] = N]
  /\ found' = [found EXCEPT ![w] = F]

LEMMA LocalsStay ==
  ASSUME LocalsOK, NEW w \in Workers
  PROVE  /\ UNCHANGED slice => slice' = [slice EXCEPT ![w] = slice[w]]
         /\ UNCHANGED nodes => nodes' = [nodes EXCEPT ![w] = nodes[w]]
         /\ UNCHANGED found => found' = [found EXCEPT ![w] = found[w]]
  BY DEF LocalsOK

LEMMA LocalsTyped ==
  ASSUME LocalsOK, TestbedOK, TestbedOK', Len(slices) <= Len(slices'), NEW w \in Workers,
         NEW i \in Nat, i <= Len(slices'), NEW N, N \subseteq Nodes,
         NEW F, F \subseteq (1 .. Len(slices')) \X Nodes, LocalsTo(w, i, N, F)
  PROVE  /\ LocalsOK'
         /\ slice'[w] = i /\ nodes'[w] = N /\ found'[w] = F
         /\ \A v \in Workers \ {w} : slice'[v] = slice[v] /\ nodes'[v] = nodes[v] /\ found'[v] = found[v]
  <1>1. Len(slices) \in Nat /\ Len(slices') \in Nat
    BY LenProperties DEF TestbedOK
  <1>2. (1 .. Len(slices)) \X Nodes \subseteq (1 .. Len(slices')) \X Nodes
    <2>1. 1 .. Len(slices) \subseteq 1 .. Len(slices')
      BY <1>1
    <2> QED
      BY <2>1
  <1>3. (1 .. Len(slices')) \X Nodes \subseteq Nat \X Nodes
    <2>1. 1 .. Len(slices') \subseteq Nat
      BY <1>1
    <2> QED
      BY <2>1
  <1>4. /\ slice'[w] = i /\ nodes'[w] = N /\ found'[w] = F
        /\ \A v \in Workers \ {w} : slice'[v] = slice[v] /\ nodes'[v] = nodes[v] /\ found'[v] = found[v]
    BY DEF LocalsOK, LocalsTo
  <1>5. slice' \in [Workers -> Nat] /\ nodes' \in [Workers -> SUBSET Nodes]
    BY DEF LocalsOK, LocalsTo
  <1>6. F \in SUBSET (Nat \X Nodes)
    BY <1>3
  <1>7. found' \in [Workers -> SUBSET (Nat \X Nodes)]
    BY <1>6 DEF LocalsOK, LocalsTo
  <1>8. \A v \in Workers : slice'[v] <= Len(slices') 
    <2>1. \A v \in Workers : slice[v] \in Nat /\ slice[v] <= Len(slices)
      BY DEF LocalsOK
    <2>2. \A v \in Workers : slice[v] <= Len(slices')
      BY <1>1, <2>1
    <2> QED
      BY <1>4, <2>2
  <1>9. \A v \in Workers : found'[v] \subseteq (1 .. Len(slices')) \X Nodes
    BY <1>2, <1>4 DEF LocalsOK
  <1> QED
    BY <1>4, <1>5, <1>7, <1>8, <1>9 DEF LocalsOK

LEMMA OneSliceStays ==
  ASSUME DummyIInv, NEW w \in Workers, Elsewhere(w),
         ~crossed' =>
           /\ Len(slices') <= 1
           /\ slices' # <<>> => \A n \in Nodes : NodeIds(slices'[1])[n] <= 1
           /\ pc'[w] = "add slice" => slices' = <<>>
           /\ pc'[w] = "add nodes" => OnNodes' \subseteq nodes'[w],
         Allocating(w) \/ ((slices = <<>> => slices' = <<>>) /\ OnNodes' \subseteq OnNodes)
  PROVE  OneSlice'
  <1> SUFFICES ASSUME ~crossed', NEW v \in Workers \ {w}, pc[v] \in {"add slice", "add nodes"}
               PROVE  /\ pc[v] = "add slice" => slices' = <<>>
                      /\ pc[v] = "add nodes" => OnNodes' \subseteq nodes[v]
    BY DEF OneSlice, Elsewhere
  <1>1. ~crossed
    BY DEF Elsewhere
  <1>2. Allocating(v)
    BY DEF DummyIInv, KindAt, Preparing, Allocating, Busy
  <1>3. ~Allocating(w)
    BY <1>1, <1>2 DEF DummyIInv, Histories
  <1>4. /\ pc[v] = "add slice" => slices = <<>>
        /\ pc[v] = "add nodes" => OnNodes \subseteq nodes[v]
    BY <1>1 DEF DummyIInv, OneSlice
  <1> QED
    BY <1>3, <1>4

LEMMA ClearStays ==
  ASSUME Clear, NEW w \in Workers, Elsewhere(w), UNCHANGED asked,
         \/ UNCHANGED testbed /\ (Changing(w) /\ pc[w] \in Past => Changing(w)' /\ pc'[w] \in Past)
         \/ Changing(w)' /\ pc'[w] \in Past
  PROVE  Clear'
  <1>1. CASE Changing(w)' /\ pc'[w] \in Past
    BY <1>1 DEF Clear
  <1>2. CASE UNCHANGED testbed /\ (Changing(w) /\ pc[w] \in Past => Changing(w)' /\ pc'[w] \in Past)
    <2>1. Shown' = Shown
      BY <1>2 DEF testbed, Shown
    <2>2. \A v \in Workers \ {w} : (Changing(v)' <=> Changing(v)) /\ pc'[v] = pc[v]
      BY DEF Elsewhere, Changing, Busy, Kind
    <2> QED
      BY <1>2, <2>1, <2>2 DEF Clear
  <1> QED
    BY <1>1, <1>2


\* On to another place.
Moving(w, place) ==
  /\ Busy(w) /\ Go(w, place) /\ UNCHANGED <<clients, queue, handled, job, crossed>>
  /\ alone' = alone \/ alone' = [alone EXCEPT ![w] = FALSE]
Going(w, place) == Moving(w, place) /\ UNCHANGED asked

\* A step that only reads, or that writes while others know of it.
Reading(w, place) == UNCHANGED testbed /\ (Changing(w) /\ pc[w] \in Past => place \in Past)
Writing(w, place) == Changing(w) /\ place \in Past /\ TestbedOK' /\ Len(slices) <= Len(slices')

KeepsOne(w, place, N) ==
  /\ ~crossed =>
       /\ Len(slices') <= 1
       /\ slices' # <<>> => \A n \in Nodes : NodeIds(slices'[1])[n] <= 1
       /\ place = "add slice" => slices' = <<>>
       /\ place = "add nodes" => OnNodes' \subseteq N
  /\ Allocating(w) \/ ((slices = <<>> => slices' = <<>>) /\ OnNodes' \subseteq OnNodes)

KnownAt(w, place) ==
  /\ KindAt(w)' /\ LocalsAt(w)'
  /\ Changing(w) /\ Undisturbed(w)' /\ place # "raised" => Stage(w)'
  /\ place = "raised" => Excused(w)'

LEMMA TestbedStays ==
  ASSUME DummyIInv, NEW w, NEW place, Reading(w, place) \/ Writing(w, place)
  PROVE  TestbedOK' /\ Len(slices) <= Len(slices')
  <1>1. Len(slices) \in Nat
    BY LenProperties DEF DummyIInv, TestbedOK
  <1>2. CASE Reading(w, place)
    BY <1>1, <1>2 DEF Reading, DummyIInv, TestbedOK, testbed
  <1>3. CASE Writing(w, place)
    BY <1>3 DEF Writing
  <1> QED
    BY <1>2, <1>3

LEMMA MoveKeeps ==
  ASSUME DummyIInv, NEW w \in Workers, NEW place \in DummyPlaces \ {"idle"}, Moving(w, place),
         TestbedOK', Len(slices) <= Len(slices'), Changing(w) \/ UNCHANGED <<testbed, asked>>,
         NEW i \in Nat, i <= Len(slices'), NEW N, N \subseteq Nodes,
         NEW F, F \subseteq (1 .. Len(slices')) \X Nodes, LocalsTo(w, i, N, F),
         KeepsOne(w, place, N), KnownAt(w, place), Elsewhere(w) => Clear'
  PROVE  DummyIInv'
  <1>2. /\ LocalsOK' /\ nodes'[w] = N
        /\ \A v \in Workers \ {w} : slice'[v] = slice[v] /\ nodes'[v] = nodes[v] /\ found'[v] = found[v]
    <2>1. LocalsOK /\ TestbedOK
      BY DEF DummyIInv
    <2> QED
      BY <2>1, LocalsTyped
  <1>3. pc'[w] = place /\ \A v \in Workers \ {w} : pc'[v] = pc[v]
    BY DEF DummyIInv, ManagerOK, ThreadsOK, Moving, Go
  <1>4. alone' \in [Workers -> BOOLEAN] /\ (\A v \in Workers : alone'[v] => alone[v])
    BY DEF DummyIInv, Histories, Moving
  <1>5. Elsewhere(w)
    BY <1>2, <1>3, <1>4 DEF Elsewhere, Moving
  <1>6. pc[w] # "idle" /\ Busy(w) /\ UNCHANGED <<clients, queue, handled, job>> /\ Go(w, place)
    BY DEF Busy, Moving
  <1>7. ManagerOK(DummyAsk, DummyPlaces)'
    <2>1. PICK R : R = DummyAsk
      OBVIOUS
    <2>2. ManagerOK(R, DummyPlaces)
      BY <2>1 DEF DummyIInv
    <2>3. ManagerOK(R, DummyPlaces)'
      BY <1>6, <2>2, GoTyped
    <2>4. slices \in Seq(Slice) /\ slices' \in Seq(Slice)
      BY DEF DummyIInv, TestbedOK
    <2> QED
      BY <2>1, <2>3, <2>4, AskManaged
  <1>8. Histories'
    BY GoHistories DEF DummyIInv, ManagerOK, ThreadsOK, Moving
  <1>9. OneSlice'
    <2>1. crossed' = crossed
      BY DEF Moving
    <2> QED
      BY <1>2, <1>3, <1>5, <1>6, <2>1, OneSliceStays DEF KeepsOne
  <1>10. Kind(w)' = Kind(w)
    BY DEF Kind, Moving
  <1>11. Changing(w) /\ place # "raised" <=> Changing(w)'
    BY <1>3, <1>6, <1>10 DEF Changing, Busy
  <1>12. Changing(w)' /\ Undisturbed(w)' => Stage(w)'
    BY <1>11 DEF KnownAt
  <1>13. KindAt(w)' /\ LocalsAt(w)' /\ Excused(w)'
    BY <1>3 DEF KnownAt, Excused
  <1> QED
    BY <1>2, <1>5, <1>7, <1>8, <1>9, <1>12, <1>13, StepKeeps

LEMMA GoKeeps ==
  ASSUME DummyIInv, NEW w \in Workers, NEW place \in DummyPlaces \ {"idle"}, Going(w, place),
         Reading(w, place) \/ Writing(w, place),
         NEW i \in Nat, i <= Len(slices'), NEW N, N \subseteq Nodes,
         NEW F, F \subseteq (1 .. Len(slices')) \X Nodes, LocalsTo(w, i, N, F),
         KeepsOne(w, place, N), KnownAt(w, place)
  PROVE  DummyIInv'
  <1>1. TestbedOK' /\ Len(slices) <= Len(slices')
    BY TestbedStays
  <1>2. pc'[w] = place
    BY DEF DummyIInv, ManagerOK, ThreadsOK, Going, Moving, Go
  <1>3. Kind(w)' = Kind(w)
    BY DEF Kind, Going, Moving
  <1>4. Changing(w) /\ place # "raised" => Changing(w)'
    BY <1>2, <1>3 DEF Changing, Busy
  <1>5. "raised" \notin Past
    BY DEF Past, Preparing
  <1>6. Elsewhere(w) => Clear'
    BY <1>2, <1>4, <1>5, ClearStays DEF DummyIInv, Reading, Writing, Going
  <1>7. Moving(w, place) /\ (Changing(w) \/ UNCHANGED <<testbed, asked>>)
    BY DEF Reading, Writing, Going
  <1> QED
    BY <1>1, <1>6, <1>7, MoveKeeps

\* The driver meets an exception.
LEMMA TripKeeps ==
  ASSUME DummyIInv, NEW w \in Workers, Moving(w, "raised"), UNCHANGED locals,
         asked' = IF Changing(w) THEN None ELSE asked, ~Undisturbed(w)',
         TestbedOK', Len(slices) <= Len(slices'), Changing(w) \/ UNCHANGED testbed,
         KeepsOne(w, "raised", nodes[w])
  PROVE  DummyIInv'
  <1>1. Busy(w) /\ LocalsOK /\ TestbedOK /\ Len(slices) \in Nat /\ Len(slices') \in Nat
    BY LenProperties DEF Moving, DummyIInv, TestbedOK
  <1>2. LocalsTo(w, slice[w], nodes[w], found[w])
    BY <1>1, LocalsStay DEF LocalsTo, locals
  <1>3. slice[w] \in Nat /\ slice[w] <= Len(slices) /\ nodes[w] \subseteq Nodes
        /\ found[w] \subseteq (1 .. Len(slices)) \X Nodes
    BY <1>1 DEF LocalsOK
  <1>4. slice[w] <= Len(slices')
    BY <1>1, <1>3
  <1>5. found[w] \subseteq (1 .. Len(slices')) \X Nodes
    <2>1. 1 .. Len(slices) \subseteq 1 .. Len(slices')
      BY <1>1
    <2> QED
      BY <1>3, <2>1
  <1>6. pc'[w] = "raised"
    BY DEF DummyIInv, ManagerOK, ThreadsOK, Moving, Go
  <1>7. KindAt(w)' /\ LocalsAt(w)'
    BY <1>6 DEF KindAt, LocalsAt, Preparing, Working, DummyKinds
  <1>8. KnownAt(w, "raised")
    BY <1>7 DEF KnownAt, Excused
  <1>9. Elsewhere(w) => Clear'
    <2>1. ASSUME Elsewhere(w), ~Changing(w) PROVE Clear'
      BY <2>1, ClearStays DEF DummyIInv
    <2>2. Changing(w) => asked' = None
      OBVIOUS
    <2> QED
      BY <2>1, <2>2 DEF Clear
  <1>10. Changing(w) \/ UNCHANGED <<testbed, asked>>
    OBVIOUS
  <1>11. "raised" \in DummyPlaces \ {"idle"}
    BY DEF DummyPlaces
  <1> QED
    BY <1>2, <1>3, <1>4, <1>5, <1>8, <1>9, <1>10, <1>11, MoveKeeps

-----------------------------------------------------------------------------
(* Steps of a dummy aggregate that only read *)

LEMMA UpTo == (\A k, l \in Nat : k \in 1 .. l => k <= l) /\ (\A k \in Nat : k <= k) /\ 1 <= 1
  OBVIOUS

LEMMA Here ==
  ASSUME DummyIInv, NEW w \in Workers, Busy(w)
  PROVE  /\ pc[w] # "idle" /\ pc[w] # "raised"
         /\ slice[w] \in Nat /\ slice[w] <= Len(slices) /\ nodes[w] \subseteq Nodes
         /\ found[w] \subseteq (1 .. Len(slices)) \X Nodes
         /\ KindAt(w) /\ LocalsAt(w) /\ LocalsOK /\ TestbedOK /\ OneSlice
         /\ Changing(w) <=> Kind(w) \in Changes
         /\ Changing(w) /\ Undisturbed(w) => Stage(w)
  BY DEF DummyIInv, LocalsOK, Busy, Changing, Stages

\* What a place of the driver asks of the request and of its variables.
Admits(w, place, i, N) ==
  /\ place \in {"add slice"} \cup Preparing => Kind(w) = "Allocate"
  /\ place \in {"query rows", "set rows"} => Kind(w) = "Provision"
  /\ place \in {"delete nodes", "delete rows"} => Kind(w) = "Delete"
  /\ place = "describe" => Kind(w) \in {"Allocate", "Provision", "Renew", "Action"}
  /\ place = "add slice" => N = {}
  /\ place \in Working => i \in 1 .. Len(slices')
  /\ place \in {"sync", "sync write"} => N # {}

Onward == {"add slice", "describe"} \cup Working

LEMMA AtPlace ==
  ASSUME DummyIInv, NEW w \in Workers, NEW place \in Onward, Going(w, place),
         NEW i, NEW N, NEW F, LocalsTo(w, i, N, F), Admits(w, place, i, N)
  PROVE  /\ pc'[w] = place /\ slice'[w] = i /\ nodes'[w] = N /\ found'[w] = F
         /\ Kind(w)' = Kind(w) /\ Target(w)' = Target(w) /\ Named(w)' = IF ByName(w) THEN Len(slices') ELSE job[w].request.slice
         /\ ByName(w)' = ByName(w)
         /\ KindAt(w)' /\ LocalsAt(w)'
  <1>1. pc'[w] = place /\ slice'[w] = i /\ nodes'[w] = N /\ found'[w] = F
    BY DEF DummyIInv, ManagerOK, ThreadsOK, LocalsOK, LocalsTo, Going, Moving, Go
  <1>2. job'[w] = job[w]
    BY DEF Going, Moving
  <1>3. Kind(w)' = Kind(w) /\ Target(w)' = Target(w)
    BY <1>2 DEF Kind, Target
  <1>4. ByName(w)' = ByName(w)
    BY <1>3 DEF ByName
  <1>5. Named(w)' = IF ByName(w) THEN Len(slices') ELSE job[w].request.slice
    BY <1>2, <1>4 DEF Named
  <1>6. place # "idle" /\ place \notin DummyKinds
    BY DEF Onward, Working, Preparing, DummyKinds
  <1>7. KindAt(w)'
    BY <1>1, <1>3, <1>6 DEF KindAt, Admits
  <1>8. LocalsAt(w)'
    BY <1>1, <1>6 DEF LocalsAt, Admits
  <1> QED
    BY <1>1, <1>3, <1>4, <1>5, <1>7, <1>8

LEMMA QuietKeeps ==
  ASSUME DummyIInv, NEW w \in Workers, Busy(w), NEW place \in Onward, To(w, place), UNCHANGED testbed,
         NEW i \in Nat, i <= Len(slices), NEW N, N \subseteq Nodes,
         NEW F, F \subseteq (1 .. Len(slices)) \X Nodes, LocalsTo(w, i, N, F), Admits(w, place, i, N),
         Changing(w) /\ pc[w] \in Past => place \in Past,
         place = "add slice" => slices = <<>>,
         place = "add nodes" /\ ~crossed => OnNodes \subseteq N,
         Changing(w) /\ Undisturbed(w) => Stage(w)'
  PROVE  DummyIInv'
  <1>1. slices' = slices /\ OnNodes' = OnNodes
    BY DEF testbed, OnNodes
  <1>2. Going(w, place)
    BY DEF To, On, history, Going, Moving
  <1>3. Reading(w, place)
    BY DEF Reading
  <1>4. OneSlice
    BY DEF DummyIInv
  <1>5. KeepsOne(w, place, N)
    BY <1>1, <1>4 DEF KeepsOne, OneSlice
  <1>6. place \in DummyPlaces \ {"idle"} /\ place # "raised"
    BY DEF Onward, DummyPlaces, Working, Preparing
  <1>7. KnownAt(w, place)
    <2>1. Undisturbed(w)' => Undisturbed(w)
      BY DEF To, On, history, Undisturbed
    <2> QED
      BY <1>2, <1>6, <2>1, AtPlace DEF KnownAt
  <1>8. i <= Len(slices') /\ F \subseteq (1 .. Len(slices')) \X Nodes
    BY <1>1
  <1> QED
    BY <1>2, <1>3, <1>5, <1>6, <1>7, <1>8, GoKeeps

LEMMA FindSliceKeeps ==
  ASSUME DummyIInv, NEW w \in Workers, FindSlice(w)
  PROVE  DummyIInv'
  <1>1. pc[w] = "Allocate" /\ Busy(w)
    BY DEF FindSlice, Busy
  <1>2. Kind(w) = "Allocate" /\ nodes[w] = {}
    BY <1>1, Here DEF KindAt, LocalsAt, DummyKinds
  <1>3. CASE slices = <<>>
    <2>1. To(w, "add slice") /\ UNCHANGED testbed /\ UNCHANGED <<slice, nodes, found>>
      BY <1>3 DEF FindSlice
    <2>2. LocalsTo(w, slice[w], nodes[w], found[w])
      BY <1>1, <2>1, Here, LocalsStay DEF LocalsTo
    <2>3. Admits(w, "add slice", slice[w], nodes[w])
      BY <1>2 DEF Admits, Preparing, Working
    <2>4. Going(w, "add slice") /\ "add slice" \in Onward
      BY <1>1, <2>1 DEF To, On, history, Going, Moving, Onward
    <2>5. pc'[w] = "add slice"
      BY <2>2, <2>3, <2>4, AtPlace
    <2>6. Stage(w)'
      BY <2>5 DEF Stage, StageAllocate, StageProvision, StageDelete, StageDescribe
    <2>7. pc[w] \notin Past
      BY <1>1 DEF Past, Preparing
    <2>8. /\ slice[w] \in Nat /\ slice[w] <= Len(slices) /\ nodes[w] \subseteq Nodes
          /\ found[w] \subseteq (1 .. Len(slices)) \X Nodes
      BY <1>1, Here
    <2> QED
      BY <1>1, <1>3, <2>1, <2>2, <2>3, <2>4, <2>6, <2>7, <2>8, QuietKeeps
  <1>4. CASE slices # <<>>
    <2>1. /\ To(w, "add nodes") /\ UNCHANGED testbed /\ UNCHANGED found
          /\ slice' = [slice EXCEPT ![w] = 1] /\ nodes' = [nodes EXCEPT ![w] = OnNodes]
      BY <1>4 DEF FindSlice, OnNodes
    <2>2. LocalsTo(w, 1, OnNodes, found[w])
      BY <1>1, <2>1, Here, LocalsStay DEF LocalsTo
    <2>3. 1 <= Len(slices) /\ 1 \in 1 .. Len(slices)
      <3>1. Len(slices) \in Nat /\ Len(slices) # 0
        BY <1>1, <1>4, Here, NamedIs, EmptySeq
      <3> QED
        BY <3>1
    <2>4. Admits(w, "add nodes", 1, OnNodes)
      BY <1>2, <2>1, <2>3 DEF Admits, Preparing, Working, testbed
    <2>5. Going(w, "add nodes") /\ "add nodes" \in Onward
      BY <1>1, <2>1 DEF To, On, history, Going, Moving, Onward, Working, Preparing
    <2>6. pc'[w] = "add nodes" /\ nodes'[w] = OnNodes
      BY <2>2, <2>4, <2>5, AtPlace
    <2>7. OnNodes' = OnNodes
      BY <2>1 DEF OnNodes, testbed
    <2>8. Stage(w)'
      BY <2>6, <2>7 DEF Stage, StageAllocate, StageProvision, StageDelete, StageDescribe
    <2>9. pc[w] \notin Past
      BY <1>1 DEF Past, Preparing
    <2>10. OnNodes \subseteq Nodes /\ found[w] \subseteq (1 .. Len(slices)) \X Nodes
      BY <1>1, Here DEF OnNodes, GetNodes
    <2> QED
      BY <1>1, <2>1, <2>2, <2>3, <2>4, <2>5, <2>8, <2>9, <2>10, QuietKeeps
  <1> QED
    BY <1>3, <1>4

\* What a step of the driver reads about slivers.
LEMMA ReadKeeps ==
  ASSUME DummyIInv, NEW w \in Workers, Busy(w), NEW place \in Onward, ReadSlivers(w, place),
         pc[w] \notin Past, place # "add slice", place # "add nodes",
         Admits(w, place, Named(w), GetSlivers(w)), Named(w) \in Nat, Named(w) <= Len(slices),
         Changing(w) => place \in {"query rows", "delete nodes"}
  PROVE  DummyIInv'
  <1>1. /\ To(w, place) /\ UNCHANGED testbed /\ UNCHANGED found
        /\ slice' = [slice EXCEPT ![w] = Named(w)] /\ nodes' = [nodes EXCEPT ![w] = GetSlivers(w)]
    BY DEF ReadSlivers
  <1>2. LocalsTo(w, Named(w), GetSlivers(w), found[w])
    BY <1>1, Here, LocalsStay DEF LocalsTo
  <1>3. Going(w, place)
    BY <1>1 DEF To, On, history, Going, Moving
  <1>4. PICK i, N : i = Named(w) /\ N = GetSlivers(w)
    OBVIOUS
  <1>5. /\ pc'[w] = place /\ slice'[w] = Named(w) /\ nodes'[w] = GetSlivers(w) /\ Target(w)' = Target(w)
        /\ Named(w)' = IF ByName(w) THEN Len(slices') ELSE job[w].request.slice
        /\ ByName(w)' = ByName(w)
    BY <1>2, <1>3, <1>4, AtPlace
  <1>6. Named(w)' = Named(w)
    BY <1>1, <1>5 DEF Named, testbed
  <1>7. GetSlivers(w)' = GetSlivers(w)
    BY <1>1, <1>5, <1>6 DEF GetSlivers, testbed
  <1>8. Changing(w) => Stage(w)'
    BY <1>5, <1>6, <1>7 DEF Stage, StageAllocate, StageProvision, StageDelete, StageDescribe
  <1>9. GetSlivers(w) \subseteq Nodes /\ found[w] \subseteq (1 .. Len(slices)) \X Nodes
    BY Here, NamedIs
  <1> QED
    BY <1>1, <1>2, <1>3, <1>4, <1>8, <1>9, QuietKeeps

LEMMA ProvisionReads ==
  ASSUME DummyIInv, NEW w \in Workers, pc[w] = "Provision", ReadSlivers(w, "query rows"), GetSlivers(w) # {}
  PROVE  DummyIInv'
  <1>1. Busy(w) /\ pc[w] \notin Past
    BY DEF Busy, Past, Preparing
  <1>2. Kind(w) = "Provision"
    BY <1>1, Here DEF KindAt, DummyKinds
  <1>3. Named(w) \in 1 .. Len(slices) /\ Named(w) \in Nat /\ Len(slices) \in Nat
    BY <1>1, Here, NamedIs
  <1>4. Named(w) <= Len(slices)
    BY <1>3, UpTo, Zenon
  <1>5. Admits(w, "query rows", Named(w), GetSlivers(w))
    BY <1>2, <1>3 DEF Admits, Preparing, ReadSlivers, testbed
  <1>6. "query rows" \in Onward
    BY DEF Onward, Working
  <1> QED
    BY <1>1, <1>3, <1>4, <1>5, <1>6, ReadKeeps

LEMMA DeleteReads ==
  ASSUME DummyIInv, NEW w \in Workers, pc[w] = "Delete", ReadSlivers(w, "delete nodes"), GetSlivers(w) # {}
  PROVE  DummyIInv'
  <1>1. Busy(w) /\ pc[w] \notin Past
    BY DEF Busy, Past, Preparing
  <1>2. Kind(w) = "Delete"
    BY <1>1, Here DEF KindAt, DummyKinds
  <1>3. Named(w) \in 1 .. Len(slices) /\ Named(w) \in Nat /\ Len(slices) \in Nat
    BY <1>1, Here, NamedIs
  <1>4. Named(w) <= Len(slices)
    BY <1>3, UpTo, Zenon
  <1>5. Admits(w, "delete nodes", Named(w), GetSlivers(w))
    BY <1>2, <1>3 DEF Admits, Preparing, ReadSlivers, testbed
  <1>6. "delete nodes" \in Onward
    BY DEF Onward, Working
  <1> QED
    BY <1>1, <1>3, <1>4, <1>5, <1>6, ReadKeeps

LEMMA OthersRead ==
  ASSUME DummyIInv, NEW w \in Workers, pc[w] \in {"Renew", "Action"}, ReadSlivers(w, "describe")
  PROVE  DummyIInv'
  <1>1. Busy(w) /\ pc[w] \notin Past
    BY DEF Busy, Past, Preparing
  <1>2. Kind(w) \in {"Renew", "Action"}
    BY <1>1, Here DEF KindAt, DummyKinds
  <1>3. ~Changing(w)
    BY <1>2 DEF Changing, Changes
  <1>4. Len(slices) \in Nat
    BY <1>1, Here, NamedIs
  <1>5. Target(w) = Whole
    BY <1>1, <1>2, Here, JobIs
  <1>6. Named(w) = Len(slices)
    BY <1>5 DEF Named, ByName
  <1>7. Admits(w, "describe", Named(w), GetSlivers(w))
    BY <1>2 DEF Admits, Preparing, Working
  <1>8. "describe" \in Onward
    BY DEF Onward
  <1>9. Named(w) \in Nat /\ Named(w) <= Len(slices)
    BY <1>4, <1>6
  <1> QED
    BY <1>1, <1>3, <1>7, <1>8, <1>9, ReadKeeps

LEMMA QueryRowsKeeps ==
  ASSUME DummyIInv, NEW w \in Workers, QueryRows(w)
  PROVE  DummyIInv'
  <1> DEFINE F == MySlivers(w) \cap DOMAIN rows
  <1>1. pc[w] = "query rows" /\ Busy(w) /\ pc[w] \notin Past
    BY DEF QueryRows, Busy, Past, Preparing
  <1>2. Kind(w) = "Provision" /\ slice[w] \in 1 .. Len(slices)
    BY <1>1, Here DEF KindAt, LocalsAt, Working
  <1>3. /\ To(w, "set rows") /\ UNCHANGED testbed /\ UNCHANGED <<slice, nodes>>
        /\ found' = [found EXCEPT ![w] = F]
    BY DEF QueryRows
  <1>4. LocalsTo(w, slice[w], nodes[w], F)
    BY <1>1, <1>3, Here, LocalsStay DEF LocalsTo
  <1>5. Admits(w, "set rows", slice[w], nodes[w])
    BY <1>2, <1>3 DEF Admits, Preparing, testbed
  <1>6. Going(w, "set rows") /\ "set rows" \in Onward
    BY <1>1, <1>3 DEF To, On, history, Going, Moving, Onward, Working
  <1> HIDE DEF F
  <1>7. /\ pc'[w] = "set rows" /\ slice'[w] = slice[w] /\ nodes'[w] = nodes[w] /\ found'[w] = F /\ Target(w)' = Target(w)
        /\ Named(w)' = IF ByName(w) THEN Len(slices') ELSE job[w].request.slice
        /\ ByName(w)' = ByName(w)
    BY <1>4, <1>5, <1>6, AtPlace
  <1>8. Named(w)' = Named(w)
    BY <1>3, <1>7 DEF Named, testbed
  <1>9. GetSlivers(w)' = GetSlivers(w)
    BY <1>3, <1>7, <1>8 DEF GetSlivers, testbed
  <1>10. MySlivers(w)' = MySlivers(w) /\ rows' = rows
    BY <1>3 DEF MySlivers, testbed
  <1>11. Changing(w) /\ Undisturbed(w) => Stage(w)'
    <2>1. Commits(w, MySlivers(w))'
      BY <1>7, <1>10 DEF Commits, Taken, Gone, F
    <2>2. Changing(w) /\ Undisturbed(w) => slice[w] = Named(w) /\ nodes[w] = GetSlivers(w)
      BY <1>1, Here DEF Stage, StageProvision
    <2> QED
      BY <1>7, <1>8, <1>9, <2>1, <2>2 DEF Stage, StageAllocate, StageProvision, StageDelete, StageDescribe
  <1>12. /\ slice[w] \in Nat /\ slice[w] <= Len(slices) /\ nodes[w] \subseteq Nodes
         /\ F \subseteq (1 .. Len(slices)) \X Nodes
    BY <1>1, Here DEF F, TestbedOK
  <1> QED
    BY <1>1, <1>3, <1>4, <1>5, <1>6, <1>11, <1>12, QuietKeeps

-----------------------------------------------------------------------------
(* Steps of a dummy aggregate that write *)

LEMMA WriteKeeps ==
  ASSUME DummyIInv, NEW w \in Workers, NEW place \in Onward \ {"add slice"}, Going(w, place),
         Changing(w), place \in Past, TestbedOK', Len(slices) <= Len(slices'),
         NEW i \in Nat, i <= Len(slices'), NEW N, N \subseteq Nodes,
         NEW F, F \subseteq (1 .. Len(slices')) \X Nodes, LocalsTo(w, i, N, F), Admits(w, place, i, N),
         KeepsOne(w, place, N), Undisturbed(w)' => Stage(w)'
  PROVE  DummyIInv'
  <1>1. Writing(w, place)
    BY DEF Writing
  <1>2. place \in DummyPlaces \ {"idle"} /\ place # "raised"
    BY DEF Onward, DummyPlaces, Working, Preparing
  <1>3. KnownAt(w, place)
    BY <1>2, AtPlace DEF KnownAt
  <1> QED
    BY <1>1, <1>2, <1>3, GoKeeps

LEMMA AddedShape ==
  ASSUME DummyIInv, NEW w \in Workers, slice[w] \in 1 .. Len(slices), slices' = Added(w), UNCHANGED rows
  PROVE  /\ TestbedOK' /\ Len(slices') = Len(slices)
         /\ ~crossed /\ OnNodes \subseteq nodes[w] =>
              \A n \in Nodes : NodeIds(slices'[1])[n] <= 1
         /\ ~crossed => slices'[1] # None /\ OnNodes' = OnNodes \cup ((Target(w) \ nodes[w]) \cap Nodes)
  <1>1. slices \in Seq(Slice) /\ Len(slices) \in Nat /\ slices # <<>>
    BY LenProperties, EmptySeq DEF DummyIInv, TestbedOK
  <1> DEFINE N == Target(w) \ nodes[w]
             i == slice[w]
  <1>2. /\ slices' \in Seq(Slice) /\ Len(slices') = Len(slices)
        /\ slices'[i] \in [Nodes -> Nat] /\ slices'[i] # None
        /\ \A n \in Nodes : slices'[i][n] = NodeIds(slices[i])[n] + IF n \in N THEN 1 ELSE 0
        /\ GetNodes(slices'[i]) = GetNodes(slices[i]) \cup (N \cap Nodes)
    <2>1. slices' = AddSliceToNodes(slices, i, N)
      BY DEF Added
    <2> HIDE DEF N, i
    <2>2. i \in 1 .. Len(slices)
      BY DEF i
    <2>3. PICK ss, new : ss = slices /\ new = slices'
      OBVIOUS
    <2>4. ss \in Seq(Slice) /\ i \in 1 .. Len(ss) /\ new = AddSliceToNodes(ss, i, N)
      BY <1>1, <2>1, <2>2, <2>3
    <2>5. /\ new \in Seq(Slice) /\ Len(new) = Len(ss)
          /\ new[i] \in [Nodes -> Nat] /\ new[i] # None
          /\ \A n \in Nodes : new[i][n] = NodeIds(ss[i])[n] + IF n \in N THEN 1 ELSE 0
          /\ GetNodes(new[i]) = GetNodes(ss[i]) \cup (N \cap Nodes)
          /\ \A j \in 1 .. Len(ss) : j # i => new[j] = ss[j]
      BY <2>4, NodesAdded
    <2> QED
      BY <2>3, <2>5
  <1>3. TestbedOK'
    BY <1>2 DEF DummyIInv, TestbedOK
  <1>4. slices' # <<>>
    BY <1>1, <1>2, EmptySeq
  <1>5. ASSUME ~crossed PROVE i = 1 /\ slices[1] \in Slice /\ (\A n \in Nodes : NodeIds(slices[1])[n] <= 1)
    <2>1. i = 1
      BY <1>5, TheSlice DEF DummyIInv
    <2>2. slices[1] \in Slice
      BY <1>1, <1>5, TheSlice DEF DummyIInv
    <2> QED
      BY <1>1, <1>5, <2>1, <2>2 DEF DummyIInv, OneSlice
  <1>6. ~crossed => slices'[1] # None /\ OnNodes' = OnNodes \cup (N \cap Nodes)
    BY <1>1, <1>2, <1>4, <1>5 DEF OnNodes
  <1>7. ASSUME ~crossed, OnNodes \subseteq nodes[w], NEW n \in Nodes
        PROVE  NodeIds(slices'[1])[n] <= 1
    <2>1. NodeIds(slices'[1]) = slices'[1]
      BY <1>2, <1>5, <1>7 DEF NodeIds
    <2>2. NodeIds(slices[1])[n] \in Nat /\ NodeIds(slices[1])[n] <= 1
      BY <1>5, <1>7, NodeIdsTyped
    <2>3. NodeIds(slices[1])[n] > 0 => n \notin N
      BY <1>1, <1>7 DEF OnNodes, GetNodes
    <2>4. slices'[1][n] = NodeIds(slices[1])[n] + IF n \in N THEN 1 ELSE 0
      BY <1>2, <1>5, <1>7
    <2> HIDE DEF N, i
    <2> QED
      BY <2>1, <2>2, <2>3, <2>4
  <1> QED
    BY <1>2, <1>3, <1>6, <1>7

LEMMA DeletedShape ==
  ASSUME DummyIInv, NEW i \in 1 .. Len(slices), NEW N,
         slices' = DeleteSliceFromNodes(slices, i, N), UNCHANGED rows
  PROVE  /\ TestbedOK' /\ Len(slices') = Len(slices) /\ OnNodes' \subseteq OnNodes
         /\ slices # <<>> /\ slices' # <<>>
         /\ ~crossed => /\ \A n \in Nodes : NodeIds(slices'[1])[n] <= 1
                        /\ OnNodes' = OnNodes \ N
                        /\ slices'[1] = None <=> slices[1] = None
  <1>1. slices \in Seq(Slice) /\ Len(slices) \in Nat /\ slices # <<>>
    BY LenProperties, EmptySeq DEF DummyIInv, TestbedOK
  <1>2. /\ slices' \in Seq(Slice) /\ Len(slices') = Len(slices)
        /\ slices'[i] = None <=> slices[i] = None
        /\ \A n \in Nodes : NodeIds(slices'[i])[n] <= NodeIds(slices[i])[n]
        /\ GetNodes(slices'[i]) \subseteq GetNodes(slices[i])
        /\ (\A n \in Nodes : NodeIds(slices[i])[n] <= 1) => GetNodes(slices'[i]) = GetNodes(slices[i]) \ N
        /\ \A j \in 1 .. Len(slices) : j # i => slices'[j] = slices[j]
    <2>1. PICK ss, new : ss = slices /\ new = slices'
      OBVIOUS
    <2>2. ss \in Seq(Slice) /\ i \in 1 .. Len(ss) /\ new = DeleteSliceFromNodes(ss, i, N)
      BY <1>1, <2>1
    <2>3. new \in Seq(Slice) /\ Len(new) = Len(ss)
      BY <2>2, NodesDeleted
    <2>4. new[i] = None <=> ss[i] = None
      BY <2>2, NodesDeleted
    <2>5. \A n \in Nodes : NodeIds(new[i])[n] <= NodeIds(ss[i])[n]
      BY <2>2, NodesDeleted
    <2>6. GetNodes(new[i]) \subseteq GetNodes(ss[i])
      BY <2>2, NodesDeleted
    <2>7. (\A n \in Nodes : NodeIds(ss[i])[n] <= 1) => GetNodes(new[i]) = GetNodes(ss[i]) \ N
      BY <2>2, NodesDeleted
    <2>8. \A j \in 1 .. Len(ss) : j # i => new[j] = ss[j]
      BY <2>2, NodesDeleted
    <2> QED
      BY <2>1, <2>3, <2>4, <2>5, <2>6, <2>7, <2>8
  <1>3. TestbedOK'
    BY <1>2 DEF DummyIInv, TestbedOK
  <1>4. slices' # <<>>
    BY <1>1, <1>2, EmptySeq
  <1>5. 1 \in 1 .. Len(slices)
    BY <1>1
  <1>6. OnNodes' \subseteq OnNodes
    BY <1>1, <1>2, <1>4, <1>5 DEF OnNodes
  <1>7. ASSUME ~crossed
        PROVE  /\ \A n \in Nodes : NodeIds(slices'[1])[n] <= 1
               /\ OnNodes' = OnNodes \ N
               /\ slices'[1] = None <=> slices[1] = None
    <2>1. i = 1 /\ slices[1] \in Slice
      BY <1>1, <1>7, TheSlice DEF DummyIInv
    <2>2. \A n \in Nodes : NodeIds(slices[1])[n] <= 1
      BY <1>1, <1>7 DEF DummyIInv, OneSlice
    <2>3. \A n \in Nodes : NodeIds(slices[1])[n] \in Nat
      BY <2>1, NodeIdsTyped
    <2>4. slices'[1] \in Slice
      BY <1>2, <1>5, ElementOfSeq
    <2>5. \A n \in Nodes : NodeIds(slices'[1])[n] \in Nat
      BY <2>4, NodeIdsTyped
    <2>6. \A n \in Nodes : NodeIds(slices'[1])[n] <= 1
      BY <1>2, <2>1, <2>2, <2>3, <2>5
    <2>7. OnNodes' = OnNodes \ N
      BY <1>1, <1>2, <1>4, <2>1, <2>2 DEF OnNodes
    <2> QED
      BY <1>2, <2>1, <2>6, <2>7
  <1> QED
    BY <1>1, <1>2, <1>3, <1>4, <1>6, <1>7

LEMMA NewSliceKeeps ==
  ASSUME DummyIInv, NEW w \in Workers, NewSlice(w)
  PROVE  DummyIInv'
  <1>1. pc[w] = "add slice" /\ Busy(w)
    BY DEF NewSlice, Busy
  <1>2. Kind(w) = "Allocate" /\ nodes[w] = {} /\ Changing(w) /\ Allocating(w)
    BY <1>1, Here DEF KindAt, LocalsAt, Changes, Allocating
  <1>3. /\ To(w, "add nodes") /\ UNCHANGED <<rows, nodes, found>> /\ slices' = AddSlice(slices)
        /\ slice' = [slice EXCEPT ![w] = Len(slices) + 1]
    BY DEF NewSlice
  <1>4. /\ slices \in Seq(Slice) /\ Len(slices) \in Nat /\ slices' \in Seq(Slice) /\ Len(slices') = Len(slices) + 1
        /\ slices = <<>> => slices'[1] = None
        /\ slices' # <<>>
    BY <1>3, SliceAdded, LenProperties DEF DummyIInv, TestbedOK
  <1> DEFINE i == Len(slices) + 1
  <1>5. i \in Nat /\ i <= Len(slices') /\ i \in 1 .. Len(slices') /\ Len(slices) <= Len(slices')
    BY <1>4
  <1>6. (1 .. Len(slices)) \X Nodes \subseteq (1 .. Len(slices')) \X Nodes
    <2>1. 1 .. Len(slices) \subseteq 1 .. Len(slices')
      BY <1>4
    <2> QED
      BY <2>1
  <1>7. TestbedOK'
    BY <1>3, <1>4, <1>6 DEF DummyIInv, TestbedOK
  <1>8. LocalsTo(w, i, nodes[w], found[w])
    BY <1>1, <1>3, Here, LocalsStay DEF LocalsTo
  <1>9. Admits(w, "add nodes", i, nodes[w])
    BY <1>2, <1>5 DEF Admits, Preparing, Working
  <1>10. Going(w, "add nodes")
    BY <1>1, <1>3 DEF To, On, history, Going, Moving
  <1>11. "add nodes" \in Onward \ {"add slice"} /\ "add nodes" \in Past
    BY DEF Onward, Working, Preparing, Past
  <1>12. ~crossed => Len(slices') = 1 /\ OnNodes' = {} /\ NodeIds(slices'[1]) = NoNodes
    <2>1. ~crossed => slices = <<>>
      BY <1>1 DEF DummyIInv, OneSlice
    <2>2. slices = <<>> => Len(slices) = 0
      BY EmptySeq
    <2>3. ~crossed => NodeIds(slices'[1]) = NoNodes
      BY <1>4, <2>1 DEF NodeIds
    <2>4. GetNodes(None) = {}
      BY DEF GetNodes, NodeIds, NoNodes
    <2>5. ~crossed => OnNodes' = {}
      BY <1>4, <2>1, <2>4 DEF OnNodes
    <2>6. ~crossed => Len(slices') = 1
      BY <1>4, <2>1, <2>2
    <2> QED
      BY <2>3, <2>5, <2>6
  <1>13. KeepsOne(w, "add nodes", nodes[w])
    <2>1. \A n \in Nodes : NoNodes[n] <= 1
      BY DEF NoNodes
    <2>2. ~crossed => Len(slices') <= 1
      BY <1>12, UpTo, Zenon
    <2> QED
      BY <1>2, <1>12, <2>1, <2>2 DEF KeepsOne
  <1>14. Undisturbed(w)' => Stage(w)'
    <2>1. pc'[w] = "add nodes" /\ nodes'[w] = nodes[w]
      BY ZenonT(40), <1>8, <1>9, <1>10, <1>11, AtPlace
    <2>2. Undisturbed(w)' => ~crossed
      BY <1>3 DEF Undisturbed, To, On, history
    <2> QED
      BY <1>2, <1>12, <2>1, <2>2 DEF Stage, StageAllocate, StageProvision, StageDelete, StageDescribe
  <1>15. nodes[w] \subseteq Nodes /\ found[w] \subseteq (1 .. Len(slices')) \X Nodes
    BY <1>1, <1>6, Here
  <1> HIDE DEF i
  <1> QED
    BY <1>2, <1>5, <1>7, <1>8, <1>9, <1>10, <1>11, <1>13, <1>14, <1>15, WriteKeeps

\* With an answer or without, verify_slice_nodes goes on.
LEMMA AddNodesGo ==
  ASSUME DummyIInv, NEW w \in Workers, pc[w] = "add nodes", slices' = Added(w) \/ UNCHANGED slices,
         UNCHANGED rows, UNCHANGED locals, NEW place, Going(w, place),
         \/ place = "remove nodes" /\ slices' = Added(w) /\ UNCHANGED alone
         \/ place = "look again" /\ ~Undisturbed(w)'
  PROVE  DummyIInv'
  <1>1. Busy(w)
    BY DEF Busy
  <1>2. Kind(w) = "Allocate" /\ Changing(w) /\ Allocating(w) /\ slice[w] \in 1 .. Len(slices)
    BY <1>1, Here DEF KindAt, LocalsAt, Changes, Allocating, Preparing, Working
  <1>3. Len(slices) \in Nat /\ TestbedOK
    BY LenProperties DEF DummyIInv, TestbedOK
  <1>4. TestbedOK' /\ Len(slices') = Len(slices)
    <2>1. CASE slices' = Added(w)
      BY <1>2, <2>1, AddedShape
    <2>2. CASE UNCHANGED slices
      BY <1>3, <2>2 DEF TestbedOK
    <2> QED
      BY <2>1, <2>2
  <1>5. LocalsTo(w, slice[w], nodes[w], found[w])
    BY <1>1, Here, LocalsStay DEF LocalsTo, locals
  <1>6. place \in {"remove nodes", "look again"}
    OBVIOUS
  <1>7. Admits(w, place, slice[w], nodes[w])
    BY <1>2, <1>4, <1>6 DEF Admits, Preparing, Working
  <1>8. place \in Onward \ {"add slice"} /\ place \in Past
    BY <1>6 DEF Onward, Working, Preparing, Past
  <1>9. KeepsOne(w, place, nodes[w])
    <2>1. ASSUME ~crossed
          PROVE  Len(slices') <= 1 /\ (slices' # <<>> => \A n \in Nodes : NodeIds(slices'[1])[n] <= 1)
      <3>1. Len(slices) <= 1 /\ OnNodes \subseteq nodes[w]
            /\ (slices # <<>> => \A n \in Nodes : NodeIds(slices[1])[n] <= 1)
        BY <2>1 DEF DummyIInv, OneSlice
      <3>2. CASE slices' = Added(w)
        BY <1>2, <1>4, <2>1, <3>1, <3>2, AddedShape
      <3>3. CASE UNCHANGED slices
        BY <3>1, <3>3
      <3> QED
        BY <3>2, <3>3
    <2> QED
      BY <1>2, <1>6, <2>1 DEF KeepsOne
  <1>10. Undisturbed(w)' => Stage(w)'
    <2>1. ASSUME Undisturbed(w)', place = "remove nodes", slices' = Added(w), UNCHANGED alone
          PROVE  Stage(w)'
      <3>1. pc'[w] = "remove nodes" /\ nodes'[w] = nodes[w] /\ Target(w)' = Target(w)
        BY ZenonT(40), <1>5, <1>7, <1>8, <2>1, AtPlace
      <3>2. ~crossed /\ Undisturbed(w)
        BY <2>1 DEF Undisturbed, Going, Moving
      <3>3. OnNodes = nodes[w]
        BY <1>1, <1>2, <3>2, Here DEF Stage, StageAllocate
      <3>4. Target(w) \subseteq Nodes
        BY <1>1, <1>2, Here, JobIs
      <3>5. slices'[1] # None /\ OnNodes' = OnNodes \cup ((Target(w) \ nodes[w]) \cap Nodes)
        BY <1>2, <2>1, <3>2, AddedShape
      <3>6. OnNodes' = Target(w) \cup nodes[w]
        BY <3>3, <3>4, <3>5
      <3> QED
        BY <3>1, <3>5, <3>6 DEF Stage, StageAllocate, StageProvision, StageDelete, StageDescribe
    <2> QED
      BY <2>1, Zenon
  <1>11. /\ slice[w] \in Nat /\ slice[w] <= Len(slices') /\ nodes[w] \subseteq Nodes
         /\ found[w] \subseteq (1 .. Len(slices')) \X Nodes
    BY <1>1, <1>4, Here
  <1>12. Len(slices) <= Len(slices')
    BY <1>3, <1>4, UpTo, Zenon
  <1> QED
    BY <1>2, <1>4, <1>5, <1>7, <1>8, <1>9, <1>10, <1>11, <1>12, WriteKeeps

LEMMA RemoveNodesGo ==
  ASSUME DummyIInv, NEW w \in Workers, pc[w] = "remove nodes", slices' = Removed(w) \/ UNCHANGED slices,
         UNCHANGED rows, UNCHANGED locals, Going(w, "look again"),
         (slices' = Removed(w) /\ UNCHANGED alone) \/ ~Undisturbed(w)'
  PROVE  DummyIInv'
  <1>1. Busy(w)
    BY DEF Busy
  <1>2. Kind(w) = "Allocate" /\ Changing(w) /\ Allocating(w) /\ slice[w] \in 1 .. Len(slices)
    BY <1>1, Here DEF KindAt, LocalsAt, Changes, Allocating, Preparing, Working
  <1>3. Len(slices) \in Nat /\ TestbedOK
    BY LenProperties DEF DummyIInv, TestbedOK
  <1>4. TestbedOK' /\ Len(slices') = Len(slices)
    <2>1. CASE slices' = Removed(w)
      BY <1>2, <2>1, DeletedShape DEF Removed
    <2>2. CASE UNCHANGED slices
      BY <1>3, <2>2 DEF TestbedOK
    <2> QED
      BY <2>1, <2>2
  <1>5. LocalsTo(w, slice[w], nodes[w], found[w])
    BY <1>1, Here, LocalsStay DEF LocalsTo, locals
  <1>6. Admits(w, "look again", slice[w], nodes[w])
    BY <1>2, <1>4 DEF Admits, Preparing, Working
  <1>7. "look again" \in Onward \ {"add slice"} /\ "look again" \in Past
    BY DEF Onward, Working, Preparing, Past
  <1>8. KeepsOne(w, "look again", nodes[w])
    <2>1. ASSUME ~crossed
          PROVE  Len(slices') <= 1 /\ (slices' # <<>> => \A n \in Nodes : NodeIds(slices'[1])[n] <= 1)
      <3>1. Len(slices) <= 1 /\ (slices # <<>> => \A n \in Nodes : NodeIds(slices[1])[n] <= 1)
        BY <2>1 DEF DummyIInv, OneSlice
      <3>2. CASE slices' = Removed(w)
        BY <1>2, <1>4, <2>1, <3>1, <3>2, DeletedShape DEF Removed
      <3>3. CASE UNCHANGED slices
        BY <3>1, <3>3
      <3> QED
        BY <3>2, <3>3
    <2> QED
      BY <1>2, <2>1 DEF KeepsOne
  <1>9. Undisturbed(w)' => Stage(w)'
    <2>1. ASSUME Undisturbed(w)', slices' = Removed(w), UNCHANGED alone
          PROVE  Stage(w)'
      <3>1. pc'[w] = "look again" /\ nodes'[w] = nodes[w] /\ Target(w)' = Target(w)
        BY <1>5, <1>6, <1>7, AtPlace
      <3>2. ~crossed /\ Undisturbed(w)
        BY <2>1 DEF Undisturbed, Going, Moving
      <3>3. slices[1] # None /\ OnNodes = Target(w) \cup nodes[w]
        BY <1>1, <1>2, <3>2, Here DEF Stage, StageAllocate
      <3>4. OnNodes' = OnNodes \ (nodes[w] \ Target(w)) /\ slices'[1] # None
        BY <1>2, <2>1, <3>2, <3>3, DeletedShape DEF Removed
      <3>5. OnNodes' = Target(w)
        BY <3>3, <3>4
      <3> QED
        BY <3>1, <3>4, <3>5 DEF Stage, StageAllocate, StageProvision, StageDelete, StageDescribe
    <2> QED
      BY <2>1, Zenon
  <1>10. /\ slice[w] \in Nat /\ slice[w] <= Len(slices') /\ nodes[w] \subseteq Nodes
         /\ found[w] \subseteq (1 .. Len(slices')) \X Nodes
    BY <1>1, <1>4, Here
  <1>11. Len(slices) <= Len(slices')
    BY <1>3, <1>4, UpTo, Zenon
  <1> QED
    BY <1>2, <1>4, <1>5, <1>6, <1>7, <1>8, <1>9, <1>10, <1>11, WriteKeeps

-----------------------------------------------------------------------------
(* Steps on the nodes found and on the rows *)

\* An undisturbed request does not trip.
LEMMA TripStays ==
  ASSUME DummyIInv, NEW w \in Workers, Busy(w), Trip(w), UNCHANGED <<testbed, troubles, alone>>,
         ~Undisturbed(w)
  PROVE  DummyIInv'
  <1>1. Moving(w, "raised") /\ UNCHANGED locals /\ ~Undisturbed(w)'
    BY DEF Trip, Raise, Moving, Undisturbed
  <1>2. asked' = IF Changing(w) THEN None ELSE asked
    BY DEF Trip
  <1>3. OnNodes' = OnNodes /\ slices' = slices
    BY DEF OnNodes, testbed
  <1>4. TestbedOK' /\ Len(slices) \in Nat
    BY LenProperties DEF DummyIInv, TestbedOK, testbed
  <1>5. Len(slices) <= Len(slices')
    BY <1>3, <1>4, UpTo, Zenon
  <1>6. KeepsOne(w, "raised", nodes[w])
    BY <1>3 DEF KeepsOne, DummyIInv, OneSlice
  <1> QED
    BY <1>1, <1>2, <1>4, <1>5, <1>6, TripKeeps

LEMMA LookAgainKeeps ==
  ASSUME DummyIInv, NEW w \in Workers, LookAgain(w)
  PROVE  DummyIInv'
  <1>1. pc[w] = "look again" /\ Busy(w)
    BY DEF LookAgain, Busy
  <1>2. Kind(w) = "Allocate" /\ Changing(w) /\ slice[w] \in 1 .. Len(slices)
    BY <1>1, Here DEF KindAt, LocalsAt, Changes, Preparing, Working
  <1>3. slices # <<>>
    <2>1. Len(slices) \in Nat /\ (slices = <<>> => Len(slices) = 0)
      BY LenProperties, EmptySeq DEF DummyIInv, TestbedOK
    <2> QED
      BY <1>2, <2>1
  <1>4. CASE slices[1] = None
    <2>1. ~Undisturbed(w)
      BY <1>1, <1>2, <1>4, Here DEF Stage, StageAllocate
    <2> QED
      BY <1>1, <1>4, <2>1, TripStays DEF LookAgain
  <1>5. CASE slices[1] # None
    <2> DEFINE place == IF OnNodes = {} THEN "describe" ELSE "sync"
    <2>1. /\ To(w, place) /\ UNCHANGED testbed /\ UNCHANGED <<slice, found>>
          /\ nodes' = [nodes EXCEPT ![w] = OnNodes]
      BY <1>3, <1>5 DEF LookAgain, OnNodes
    <2>2. LocalsTo(w, slice[w], OnNodes, found[w])
      BY <1>1, <2>1, Here, LocalsStay DEF LocalsTo
    <2>3. Admits(w, place, slice[w], OnNodes)
      BY <1>2, <2>1 DEF Admits, testbed
    <2>4. place \in Onward /\ place \in Past /\ place # "add slice" /\ place # "add nodes"
      BY DEF Onward, Past, Preparing, Working
    <2>5. Going(w, place)
      BY <1>1, <2>1 DEF To, On, history, Going, Moving
    <2>6. pc'[w] = place /\ nodes'[w] = OnNodes /\ Kind(w)' = Kind(w) /\ Target(w)' = Target(w)
      BY <2>2, <2>3, <2>4, <2>5, AtPlace
    <2>7. OnNodes' = OnNodes /\ Shown' = Shown
      BY <2>1 DEF OnNodes, Shown, testbed
    <2>8. ASSUME Undisturbed(w) PROVE Stage(w)'
      <3>1. OnNodes = Target(w) /\ slices[1] # None
        BY <1>1, <1>2, <2>8, Here DEF Stage, StageAllocate
      <3>2. CASE OnNodes = {}
        <4>1. pc'[w] = "describe"
          BY <2>6, <3>2
        <4>2. Shown = [n \in OnNodes |-> RowState(n)]
          BY <1>1, <2>8, Here, TheSlice DEF Undisturbed
        <4>3. Then(w)' = [n \in Target(w) |-> "geni_allocated"]
          BY <1>2, <2>6 DEF Then
        <4>4. [n \in OnNodes |-> RowState(n)] = [n \in Target(w) |-> "geni_allocated"]
          BY <3>1, <3>2
        <4>5. Shown' = Then(w)'
          BY <2>7, <4>2, <4>3, <4>4
        <4> QED
          BY <2>6, <2>7, <3>1, <4>1, <4>5 DEF Stage, StageAllocate, StageProvision, StageDelete, StageDescribe
      <3>3. CASE OnNodes # {}
        <4>1. pc'[w] = "sync"
          BY <2>6, <3>3
        <4> QED
          BY <2>6, <2>7, <3>1, <4>1 DEF Stage, StageAllocate, StageProvision, StageDelete, StageDescribe
      <3> QED
        BY <3>2, <3>3
    <2>9. /\ slice[w] \in Nat /\ slice[w] <= Len(slices) /\ OnNodes \subseteq Nodes
          /\ found[w] \subseteq (1 .. Len(slices)) \X Nodes
      BY <1>1, Here DEF OnNodes, GetNodes
    <2> HIDE DEF place
    <2> QED
      BY <1>1, <2>1, <2>2, <2>3, <2>4, <2>8, <2>9, QuietKeeps
  <1> QED
    BY <1>4, <1>5

LEMMA NextNodeIs ==
  ASSUME DummyIInv, NEW w \in Workers, pc[w] \in {"sync", "sync write"}
  PROVE  /\ NextNode(w) \in nodes[w] /\ NextNode(w) \in Nodes
         /\ slice[w] \in 1 .. Len(slices) /\ NextSliver(w) = <<slice[w], NextNode(w)>>
         /\ NextSliver(w) \in (1 .. Len(slices)) \X Nodes
         /\ Kind(w) = "Allocate" /\ Changing(w) /\ Allocating(w) /\ Busy(w)
  <1>1. Busy(w)
    BY DEF Busy
  <1>2. nodes[w] # {} /\ nodes[w] \subseteq Nodes /\ slice[w] \in 1 .. Len(slices) /\ Kind(w) = "Allocate"
    BY <1>1, Here DEF LocalsAt, KindAt, Working, Preparing
  <1>3. NextNode(w) \in nodes[w]
    BY <1>2 DEF NextNode
  <1> QED
    BY <1>1, <1>2, <1>3 DEF NextSliver, Changing, Changes, Allocating

LEMMA SyncQueryKeeps ==
  ASSUME DummyIInv, NEW w \in Workers, SyncQuery(w)
  PROVE  DummyIInv'
  <1>1. pc[w] = "sync" /\ Busy(w)
    BY DEF SyncQuery, Busy
  <1>2. /\ NextNode(w) \in nodes[w] /\ slice[w] \in 1 .. Len(slices)
        /\ NextSliver(w) \in (1 .. Len(slices)) \X Nodes
        /\ Kind(w) = "Allocate" /\ Changing(w)
    BY <1>1, NextNodeIs
  <1>3. CASE NextNode(w) \notin Target(w)
    <2>1. ~Undisturbed(w)
      BY <1>1, <1>2, <1>3, Here DEF Stage, StageAllocate
    <2> QED
      BY <1>1, <1>3, <2>1, TripStays DEF SyncQuery
  <1>4. CASE NextNode(w) \in Target(w)
    <2> DEFINE F == {NextSliver(w)} \cap DOMAIN rows
    <2>1. /\ To(w, "sync write") /\ UNCHANGED testbed /\ UNCHANGED <<slice, nodes>>
          /\ found' = [found EXCEPT ![w] = F]
      BY <1>4 DEF SyncQuery
    <2>2. LocalsTo(w, slice[w], nodes[w], F)
      BY <1>1, <2>1, Here, LocalsStay DEF LocalsTo
    <2>3. Admits(w, "sync write", slice[w], nodes[w])
      BY <1>2, <2>1 DEF Admits, testbed
    <2>4. "sync write" \in Onward /\ "sync write" \in Past
      BY DEF Onward, Past, Preparing, Working
    <2>5. Going(w, "sync write")
      BY <1>1, <2>1 DEF To, On, history, Going, Moving
    <2>6. F \subseteq (1 .. Len(slices)) \X Nodes
      BY <1>2
    <2> HIDE DEF F
    <2>7. pc'[w] = "sync write" /\ slice'[w] = slice[w] /\ nodes'[w] = nodes[w] /\ found'[w] = F /\ Target(w)' = Target(w)
      BY <2>2, <2>3, <2>4, <2>5, AtPlace
    <2>8. OnNodes' = OnNodes /\ rows' = rows /\ \A n : RowState(n)' = RowState(n)
      BY <2>1 DEF OnNodes, RowState, testbed
    <2>9. NextSliver(w)' = NextSliver(w)
      BY <2>7 DEF NextSliver, NextNode
    <2>10. Commits(w, {NextSliver(w)})'
      BY <2>7, <2>8, <2>9 DEF Commits, Taken, Gone, F
    <2>11. ASSUME Undisturbed(w) PROVE Stage(w)'
      <3>1. OnNodes = Target(w) /\ nodes[w] \subseteq Target(w)
            /\ \A n \in Target(w) \ nodes[w] : RowState(n) = "geni_allocated"
        BY <1>1, <1>2, <2>11, Here DEF Stage, StageAllocate
      <3> QED
        BY <2>7, <2>8, <2>10, <3>1 DEF Stage, StageAllocate, StageProvision, StageDelete, StageDescribe
    <2>12. /\ slice[w] \in Nat /\ slice[w] <= Len(slices) /\ nodes[w] \subseteq Nodes
      BY <1>1, Here
    <2> QED
      BY <1>1, <2>1, <2>2, <2>3, <2>4, <2>6, <2>11, <2>12, QuietKeeps
  <1> QED
    BY <1>3, <1>4

LEMMA StateSet ==
  ASSUME TestbedOK, NEW S, S \subseteq (1 .. Len(slices)) \X Nodes, NEW state \in States,
         UNCHANGED slices, rows' = WithState(S, state)
  PROVE  /\ TestbedOK'
         /\ \A s \in S : s \in DOMAIN rows' /\ rows'[s] = state
         /\ \A s : s \notin S =>
              (s \in DOMAIN rows' <=> s \in DOMAIN rows) /\ (s \in DOMAIN rows => rows'[s] = rows[s])
  <1>1. /\ DOMAIN rows' = S \cup DOMAIN rows
        /\ \A s \in S \cup DOMAIN rows : rows'[s] = IF s \in S THEN state ELSE rows[s]
        /\ rows' = [s \in DOMAIN rows' |-> rows'[s]]
    BY DEF WithState
  <1>2. \A s \in DOMAIN rows : rows[s] \in States
    BY DEF TestbedOK
  <1>3. \A s \in DOMAIN rows' : rows'[s] \in States
    BY <1>1, <1>2
  <1>4. rows' \in [DOMAIN rows' -> States]
    BY <1>1, <1>3
  <1>5. TestbedOK'
    BY <1>1, <1>4 DEF TestbedOK
  <1> QED
    BY <1>1, <1>5

\* What a commit of rows leaves of the slices.
LEMMA SlicesKept ==
  ASSUME DummyIInv, NEW w, NEW place, NEW N, UNCHANGED slices, place # "add slice", place # "add nodes"
  PROVE  /\ OnNodes' = OnNodes /\ Len(slices) <= Len(slices') /\ slices' = slices
         /\ KeepsOne(w, place, N)
  <1>1. OnNodes' = OnNodes
    BY DEF OnNodes
  <1>2. Len(slices) \in Nat
    BY LenProperties DEF DummyIInv, TestbedOK
  <1>3. Len(slices) <= Len(slices')
    BY <1>2, UpTo, Zenon
  <1>4. KeepsOne(w, place, N)
    BY <1>1 DEF KeepsOne, DummyIInv, OneSlice
  <1> QED
    BY <1>1, <1>3, <1>4

LEMMA ShownAfter ==
  ASSUME DummyIInv, ~crossed, UNCHANGED slices
  PROVE  Shown' = [n \in OnNodes |-> RowState(n)']
  <1>1. slices = <<>> \/ Len(slices) = 1
    BY TheSlice DEF DummyIInv
  <1>2. CASE slices = <<>>
    <2>1. Len(slices) = 0
      BY <1>2, EmptySeq
    <2> QED
      BY <1>2, <2>1 DEF Shown, OnNodes, RowState
  <1>3. CASE slices # <<>>
    BY <1>1, <1>3 DEF Shown, OnNodes, RowState
  <1> QED
    BY <1>2, <1>3

LEMMA SyncWriteKeeps ==
  ASSUME DummyIInv, NEW w \in Workers, SyncWrite(w)
  PROVE  DummyIInv'
  <1>1. pc[w] = "sync write" /\ Busy(w)
    BY DEF SyncWrite, Busy
  <1>2. /\ NextNode(w) \in nodes[w] /\ slice[w] \in 1 .. Len(slices)
        /\ NextSliver(w) = <<slice[w], NextNode(w)>>
        /\ NextSliver(w) \in (1 .. Len(slices)) \X Nodes
        /\ Kind(w) = "Allocate" /\ Changing(w)
    BY <1>1, NextNodeIs
  <1>3. CASE /\ Taken(w, {NextSliver(w)}) \cup Gone(w) # {}
             /\ Trip(w) /\ UNCHANGED <<testbed, troubles, alone>>
    <2>1. ~Undisturbed(w)
      BY <1>1, <1>2, <1>3, Here DEF Stage, StageAllocate, Commits
    <2> QED
      BY <1>1, <1>3, <2>1, TripStays
  <1>4. CASE /\ Taken(w, {NextSliver(w)}) = {}
             /\ rows' = WithState({NextSliver(w)} \ Gone(w), "geni_allocated")
             /\ nodes' = [nodes EXCEPT ![w] = @ \ {NextNode(w)}]
             /\ To(w, IF nodes[w] = {NextNode(w)} THEN "describe" ELSE "sync")
             /\ UNCHANGED <<slices, slice, found>>
    <2> DEFINE N == nodes[w] \ {NextNode(w)}
               place == IF nodes[w] = {NextNode(w)} THEN "describe" ELSE "sync"
    <2>1. /\ To(w, place) /\ UNCHANGED slices /\ UNCHANGED <<slice, found>>
          /\ rows' = WithState({NextSliver(w)} \ Gone(w), "geni_allocated")
      BY <1>4
    <2>2. nodes' = [nodes EXCEPT ![w] = N]
      BY <1>1, <1>4, Here DEF LocalsOK
    <2>3. LocalsTo(w, slice[w], N, found[w])
      BY <1>1, <2>1, <2>2, Here, LocalsStay DEF LocalsTo
    <2>4. place = "sync" => N # {}
      BY <1>2
    <2>5. place \in {"describe", "sync"}
      OBVIOUS
    <2>6. place \in Onward \ {"add slice"} /\ place \in Past /\ place # "add nodes"
      BY DEF Onward, Past, Preparing, Working
    <2>7. Admits(w, place, slice[w], N)
      BY <1>2, <2>1, <2>4, <2>5 DEF Admits
    <2>8. Going(w, place)
      BY <1>1, <2>1 DEF To, On, history, Going, Moving
    <2>9. pc'[w] = place /\ slice'[w] = slice[w] /\ nodes'[w] = N /\ Kind(w)' = Kind(w) /\ Target(w)' = Target(w)
      BY <2>3, <2>6, <2>7, <2>8, AtPlace
    <2>10. /\ TestbedOK'
           /\ Gone(w) = {} => NextSliver(w) \in DOMAIN rows' /\ rows'[NextSliver(w)] = "geni_allocated"
           /\ \A s : s # NextSliver(w) =>
                (s \in DOMAIN rows' <=> s \in DOMAIN rows) /\ (s \in DOMAIN rows => rows'[s] = rows[s])
      <3>1. PICK S : S = {NextSliver(w)} \ Gone(w)
        OBVIOUS
      <3>2. S \subseteq (1 .. Len(slices)) \X Nodes /\ rows' = WithState(S, "geni_allocated")
        BY <1>2, <2>1, <3>1
      <3>3. "geni_allocated" \in States /\ TestbedOK
        BY <1>1, Here DEF States
      <3>4. /\ TestbedOK'
            /\ \A s \in S : s \in DOMAIN rows' /\ rows'[s] = "geni_allocated"
            /\ \A s : s \notin S =>
                 (s \in DOMAIN rows' <=> s \in DOMAIN rows) /\ (s \in DOMAIN rows => rows'[s] = rows[s])
        BY <2>1, <3>2, <3>3, StateSet
      <3> QED
        BY <3>1, <3>4
    <2>11. /\ OnNodes' = OnNodes /\ Len(slices) <= Len(slices') /\ slices' = slices
           /\ KeepsOne(w, place, N)
      <3> HIDE DEF place, N
      <3> QED
        BY <2>1, <2>6, SlicesKept
    <2>12. ASSUME Undisturbed(w)' PROVE Stage(w)'
      <3>1. Undisturbed(w) /\ ~crossed /\ ~crossed'
        BY <2>1, <2>12 DEF Undisturbed, To, On, history
      <3>2. OnNodes = Target(w) /\ nodes[w] \subseteq Target(w)
            /\ (\A n \in Target(w) \ nodes[w] : RowState(n) = "geni_allocated")
            /\ Gone(w) = {}
        BY <1>1, <1>2, <3>1, Here DEF Stage, StageAllocate, Commits
      <3>3. slice[w] = 1
        BY <1>1, <1>2, <3>1, Here, TheSlice
      <3>4. \A n : RowState(n)' = IF n = NextNode(w) THEN "geni_allocated" ELSE RowState(n)
        <4>1. NextSliver(w) = <<1, NextNode(w)>> /\ Gone(w) = {}
          BY <3>2, <3>3 DEF NextSliver
        <4>2. PICK r : r = NextSliver(w)
          OBVIOUS
        <4>3. /\ r = <<1, NextNode(w)>> /\ r \in DOMAIN rows' /\ rows'[r] = "geni_allocated"
              /\ \A s : s # r =>
                   (s \in DOMAIN rows' <=> s \in DOMAIN rows) /\ (s \in DOMAIN rows => rows'[s] = rows[s])
          BY <2>10, <4>1, <4>2
        <4>4. PICK m : m = NextNode(w)
          OBVIOUS
        <4>5. r = <<1, m>>
          BY <4>3, <4>4
        <4> HIDE DEF N, place
        <4> QED
          BY <4>3, <4>4, <4>5 DEF RowState
      <3>5. \A n \in Target(w) \ N : RowState(n)' = "geni_allocated"
        BY <3>2, <3>4
      <3>6. CASE place = "sync"
        <4>1. pc'[w] = "sync" /\ N \subseteq Target(w)
          BY <2>9, <3>2, <3>6
        <4> HIDE DEF N, place
        <4> QED
          BY <2>9, <2>11, <3>2, <3>5, <4>1 DEF Stage, StageAllocate, StageProvision, StageDelete, StageDescribe
      <3>7. CASE place = "describe"
        <4>1. pc'[w] = "describe" /\ N = {}
          BY <2>9, <3>7
        <4>3. Shown' = [n \in OnNodes |-> RowState(n)']
          BY <2>11, <3>1, ShownAfter
        <4>4. Then(w)' = [n \in Target(w) |-> "geni_allocated"]
          BY <1>2, <2>9 DEF Then
        <4>5. [n \in OnNodes |-> RowState(n)'] = [n \in Target(w) |-> "geni_allocated"]
          BY <3>2, <3>5, <4>1
        <4>6. Shown' = Then(w)'
          BY <4>3, <4>4, <4>5
        <4> HIDE DEF N, place
        <4> QED
          BY <2>9, <4>1, <4>6 DEF Stage, StageAllocate, StageProvision, StageDelete, StageDescribe
      <3> QED
        BY <2>5, <3>6, <3>7
    <2>13. /\ slice[w] \in Nat /\ slice[w] <= Len(slices') /\ N \subseteq Nodes
           /\ found[w] \subseteq (1 .. Len(slices')) \X Nodes
      BY <1>1, <2>11, Here
    <2> HIDE DEF N, place
    <2> QED
      BY <1>2, <2>3, <2>6, <2>7, <2>8, <2>10, <2>11, <2>12, <2>13, WriteKeeps
  <1> QED
    BY <1>3, <1>4, Zenon DEF SyncWrite

-----------------------------------------------------------------------------
(* Provision and Delete *)

LEMMA AskedShown ==
  ASSUME DummyIInv, NEW w \in Workers, Changing(w), Undisturbed(w), pc[w] \notin Past, asked # None
  PROVE  Shown = asked /\ DOMAIN asked = OnNodes /\ asked = [n \in OnNodes |-> RowState(n)]
  <1>1. \A v \in Workers \ {w} : ~Changing(v)
    BY DEF DummyIInv, Histories, Overlapped, Undisturbed
  <1>2. Shown = asked
    BY <1>1 DEF DummyIInv, Clear
  <1>3. Shown = [n \in OnNodes |-> RowState(n)]
    BY TheSlice DEF DummyIInv, Undisturbed
  <1> QED
    BY <1>2, <1>3

LEMMA SliversOf ==
  ASSUME DummyIInv, NEW w \in Workers, pc[w] # "idle", ~crossed
  PROVE  /\ GetSlivers(w) = IF ByName(w) THEN OnNodes ELSE OnNodes \cap Target(w)
         /\ slices # <<>> => Named(w) = 1
  <1>1. slices # <<>> => Named(w) = 1
    BY NamedIs, TheSlice DEF DummyIInv
  <1> QED
    BY <1>1 DEF GetSlivers, OnNodes

LEMMA MySliversAre ==
  ASSUME DummyIInv, NEW w \in Workers, Busy(w), slice[w] \in 1 .. Len(slices)
  PROVE  MySlivers(w) \subseteq (1 .. Len(slices)) \X Nodes
  <1>1. nodes[w] \subseteq Nodes
    BY Here
  <1> QED
    BY <1>1 DEF MySlivers

LEMMA SetRowsKeeps ==
  ASSUME DummyIInv, NEW w \in Workers, SetRows(w)
  PROVE  DummyIInv'
  <1>1. pc[w] = "set rows" /\ Busy(w) /\ pc[w] \notin Past
    BY DEF SetRows, Busy, Past, Preparing
  <1>2. Kind(w) = "Provision" /\ Changing(w) /\ slice[w] \in 1 .. Len(slices)
    BY <1>1, Here DEF KindAt, LocalsAt, Changes, Working
  <1>3. CASE /\ Taken(w, MySlivers(w)) \cup Gone(w) # {}
             /\ Trip(w) /\ UNCHANGED <<testbed, troubles, alone>>
    <2>1. ~Undisturbed(w)
      BY <1>1, <1>2, <1>3, Here DEF Stage, StageProvision, Commits
    <2> QED
      BY <1>1, <1>3, <2>1, TripStays
  <1>4. CASE /\ Taken(w, MySlivers(w)) = {}
             /\ rows' = WithState(MySlivers(w) \ Gone(w), "geni_provisioned")
             /\ To(w, "describe")
             /\ UNCHANGED <<slices, slice, nodes, found>>
    <2>1. /\ To(w, "describe") /\ UNCHANGED slices /\ UNCHANGED <<slice, nodes, found>>
          /\ rows' = WithState(MySlivers(w) \ Gone(w), "geni_provisioned")
      BY <1>4
    <2>2. LocalsTo(w, slice[w], nodes[w], found[w])
      BY <1>1, <2>1, Here, LocalsStay DEF LocalsTo
    <2>3. Admits(w, "describe", slice[w], nodes[w])
      BY <1>2 DEF Admits, Preparing, Working
    <2>4. "describe" \in Onward \ {"add slice"} /\ "describe" \in Past
      BY DEF Onward, Past
    <2>5. Going(w, "describe")
      BY <1>1, <2>1 DEF To, On, history, Going, Moving
    <2>6. /\ pc'[w] = "describe" /\ slice'[w] = slice[w] /\ nodes'[w] = nodes[w]
          /\ Kind(w)' = Kind(w) /\ Target(w)' = Target(w)
      BY <2>2, <2>3, <2>4, <2>5, AtPlace
    <2>7. /\ TestbedOK'
          /\ Gone(w) = {} => \A s \in MySlivers(w) : s \in DOMAIN rows' /\ rows'[s] = "geni_provisioned"
          /\ \A s : s \notin MySlivers(w) =>
               (s \in DOMAIN rows' <=> s \in DOMAIN rows) /\ (s \in DOMAIN rows => rows'[s] = rows[s])
      <3>1. PICK S : S = MySlivers(w) \ Gone(w)
        OBVIOUS
      <3>2. S \subseteq (1 .. Len(slices)) \X Nodes /\ rows' = WithState(S, "geni_provisioned")
        BY <1>1, <1>2, <2>1, <3>1, MySliversAre
      <3>3. "geni_provisioned" \in States /\ TestbedOK
        BY <1>1, Here DEF States
      <3>4. /\ TestbedOK'
            /\ \A s \in S : s \in DOMAIN rows' /\ rows'[s] = "geni_provisioned"
            /\ \A s : s \notin S =>
                 (s \in DOMAIN rows' <=> s \in DOMAIN rows) /\ (s \in DOMAIN rows => rows'[s] = rows[s])
        BY <2>1, <3>2, <3>3, StateSet
      <3> QED
        BY <3>1, <3>4
    <2>8. /\ OnNodes' = OnNodes /\ Len(slices) <= Len(slices') /\ slices' = slices
          /\ KeepsOne(w, "describe", nodes[w])
      <3>1. PICK place, N : place = "describe" /\ N = nodes[w]
        OBVIOUS
      <3>2. UNCHANGED slices /\ place # "add slice" /\ place # "add nodes"
        BY <2>1, <3>1
      <3>3. /\ OnNodes' = OnNodes /\ Len(slices) <= Len(slices') /\ slices' = slices
            /\ KeepsOne(w, place, N)
        BY <3>2, SlicesKept
      <3> QED
        BY <3>1, <3>3
    <2>9. ASSUME Undisturbed(w)' PROVE Stage(w)'
      <3>1. Undisturbed(w) /\ ~crossed /\ asked' = asked
        BY <2>1, <2>9 DEF Undisturbed, To, On, history
      <3>2. slice[w] = 1
        BY <1>1, <1>2, <3>1, Here, TheSlice
      <3>3. nodes[w] = IF Target(w) = Whole THEN OnNodes ELSE OnNodes \cap Target(w)
        <4>1. nodes[w] = GetSlivers(w)
          BY <1>1, <1>2, <3>1, Here DEF Stage, StageProvision
        <4>2. ByName(w) <=> Target(w) = Whole
          BY <1>2 DEF ByName
        <4> QED
          BY <1>1, <3>1, <4>1, <4>2, SliversOf
      <3>4. \A n : RowState(n)' = IF n \in nodes[w] THEN "geni_provisioned" ELSE RowState(n)
        <4>1. \A n : <<1, n>> \in MySlivers(w) <=> n \in nodes[w]
          BY <3>2 DEF MySlivers
        <4>2. Gone(w) = {}
          BY <1>1, <1>2, <3>1, Here DEF Stage, StageProvision, Commits
        <4> QED
          BY <2>7, <4>1, <4>2 DEF RowState
      <3>5. ASSUME asked # None PROVE Shown' = Then(w)'
        <4>1. DOMAIN asked = OnNodes /\ asked = [n \in OnNodes |-> RowState(n)]
          BY <1>1, <1>2, <3>1, <3>5, AskedShown
        <4>2. PICK named : named = IF Target(w) = Whole THEN DOMAIN asked ELSE Target(w) \cap DOMAIN asked
          OBVIOUS
        <4>3. Then(w)' = [n \in DOMAIN asked |-> IF n \in named THEN "geni_provisioned" ELSE asked[n]]
          BY <1>2, <2>6, <3>1, <3>5, <4>2 DEF Then
        <4>4. Shown' = [n \in OnNodes |-> RowState(n)']
          BY <2>8, <3>1, ShownAfter
        <4>5. named = nodes[w]
          BY <3>3, <4>1, <4>2
        <4>6. \A n \in OnNodes : RowState(n)' = IF n \in named THEN "geni_provisioned" ELSE asked[n]
          BY <3>4, <4>1, <4>5
        <4> QED
          BY <4>1, <4>3, <4>4, <4>6
      <3>6. asked = None => Then(w)' = None
        BY <1>2, <2>6, <3>1 DEF Then
      <3>7. StageDescribe(w)'
        BY <3>5, <3>6 DEF StageDescribe
      <3> QED
        BY <2>6, <3>7 DEF Stage, StageAllocate, StageProvision, StageDelete
    <2>10. /\ slice[w] \in Nat /\ slice[w] <= Len(slices') /\ nodes[w] \subseteq Nodes
           /\ found[w] \subseteq (1 .. Len(slices')) \X Nodes
      BY <1>1, <2>8, Here
    <2> QED
      BY <1>2, <2>2, <2>3, <2>4, <2>5, <2>7, <2>8, <2>9, <2>10, WriteKeeps
  <1> QED
    BY <1>3, <1>4, Zenon DEF SetRows

LEMMA DeleteNodesKeeps ==
  ASSUME DummyIInv, NEW w \in Workers, DeleteNodes(w)
  PROVE  DummyIInv'
  <1>1. pc[w] = "delete nodes" /\ Busy(w) /\ pc[w] \notin Past
    BY DEF DeleteNodes, Busy, Past, Preparing
  <1>2. Kind(w) = "Delete" /\ Changing(w) /\ slice[w] \in 1 .. Len(slices)
    BY <1>1, Here DEF KindAt, LocalsAt, Changes, Working
  <1>3. /\ To(w, "delete rows") /\ UNCHANGED <<rows, slice, nodes, found>>
        /\ slices' = DeleteSliceFromNodes(slices, slice[w], nodes[w])
    BY DEF DeleteNodes, Deleted
  <1>4. LocalsTo(w, slice[w], nodes[w], found[w])
    BY <1>1, <1>3, Here, LocalsStay DEF LocalsTo
  <1>5. /\ TestbedOK' /\ Len(slices') = Len(slices) /\ OnNodes' \subseteq OnNodes
        /\ slices # <<>> /\ slices' # <<>>
        /\ ~crossed => /\ \A n \in Nodes : NodeIds(slices'[1])[n] <= 1
                       /\ OnNodes' = OnNodes \ nodes[w]
    BY <1>2, <1>3, DeletedShape
  <1>6. Len(slices) \in Nat /\ (~crossed => Len(slices) <= 1)
    BY <1>1, Here, NamedIs DEF OneSlice
  <1>7. Len(slices) <= Len(slices')
    BY <1>5, <1>6, UpTo, Zenon
  <1>8. Admits(w, "delete rows", slice[w], nodes[w])
    BY <1>2, <1>5 DEF Admits, Preparing
  <1>9. "delete rows" \in Onward \ {"add slice"} /\ "delete rows" \in Past
    BY DEF Onward, Past, Working
  <1>10. Going(w, "delete rows")
    BY <1>1, <1>3 DEF To, On, history, Going, Moving
  <1>11. /\ pc'[w] = "delete rows" /\ slice'[w] = slice[w] /\ nodes'[w] = nodes[w] /\ Target(w)' = Target(w)
    BY <1>4, <1>8, <1>9, <1>10, AtPlace
  <1>12. KeepsOne(w, "delete rows", nodes[w])
    BY <1>5, <1>6 DEF KeepsOne
  <1>13. ASSUME Undisturbed(w)' PROVE Stage(w)'
    <2>1. Undisturbed(w) /\ ~crossed /\ asked' = asked
      BY <1>3, <1>13 DEF Undisturbed, To, On, history
    <2>2. nodes[w] = IF Target(w) = Whole THEN OnNodes ELSE OnNodes \cap Target(w)
      <3>1. nodes[w] = GetSlivers(w)
        BY <1>1, <1>2, <2>1, Here DEF Stage, StageDelete
      <3>2. ByName(w) <=> Target(w) = Whole
        BY <1>2 DEF ByName
      <3> QED
        BY <1>1, <2>1, <3>1, <3>2, SliversOf
    <2>3. OnNodes' = OnNodes \ nodes[w]
      BY <1>5, <2>1
    <2>4. \A n : RowState(n)' = RowState(n)
      BY <1>3 DEF RowState
    <2>5. ASSUME asked # None, Target(w) # Whole
          PROVE  /\ OnNodes' = DOMAIN asked \ Target(w) /\ nodes[w] = DOMAIN asked \cap Target(w)
                 /\ asked = [n \in DOMAIN asked |-> RowState(n)']
      <3>1. DOMAIN asked = OnNodes /\ asked = [n \in OnNodes |-> RowState(n)]
        BY <1>1, <1>2, <2>1, <2>5, AskedShown
      <3>2. [n \in DOMAIN asked |-> RowState(n)'] = [n \in OnNodes |-> RowState(n)]
        BY <2>4, <3>1
      <3>3. OnNodes' = DOMAIN asked \ Target(w) /\ nodes[w] = DOMAIN asked \cap Target(w)
        BY <2>2, <2>3, <2>5, <3>1
      <3> QED
        BY <3>1, <3>2, <3>3
    <2>6. Target(w) = Whole => OnNodes' = {}
      BY <2>2, <2>3
    <2>7. StageDelete(w)'
      BY <1>11, <2>1, <2>5, <2>6 DEF StageDelete
    <2> QED
      BY <1>11, <2>7 DEF Stage, StageAllocate, StageProvision, StageDescribe
  <1>14. /\ slice[w] \in Nat /\ slice[w] <= Len(slices') /\ nodes[w] \subseteq Nodes
         /\ found[w] \subseteq (1 .. Len(slices')) \X Nodes
    BY <1>1, <1>5, Here
  <1> QED
    BY <1>2, <1>4, <1>5, <1>7, <1>8, <1>9, <1>10, <1>12, <1>13, <1>14, WriteKeeps

-----------------------------------------------------------------------------
(* The ends of a request of a dummy aggregate *)

LEMMA SameSlices ==
  ASSUME DummyIInv, UNCHANGED slices
  PROVE  OnNodes' = OnNodes /\ Len(slices) <= Len(slices') /\ slices' = slices
  <1>1. Len(slices) \in Nat
    BY LenProperties DEF DummyIInv, TestbedOK
  <1>2. OnNodes' = OnNodes
    BY DEF OnNodes
  <1> QED
    BY <1>1, <1>2, UpTo, Zenon

LEMMA ForgetIs ==
  ASSUME DummyIInv, NEW w \in Workers, Forget(w)
  PROVE  LocalsTo(w, 0, {}, {})
  BY DEF Forget, LocalsTo

LEMMA EndKeeps ==
  ASSUME DummyIInv, NEW w \in Workers, Reply(w), Forget(w), UNCHANGED slices, TestbedOK',
         Changing(w) \/ UNCHANGED <<testbed, asked>>, Elsewhere(w) => Clear'
  PROVE  DummyIInv'
  <1>1. slices' = slices /\ OnNodes' = OnNodes /\ Len(slices) <= Len(slices') /\ Len(slices') \in Nat
    BY SameSlices, LenProperties DEF TestbedOK
  <1>2. LocalsOK /\ TestbedOK
    BY DEF DummyIInv
  <1>3. 0 <= Len(slices') /\ {} \subseteq Nodes /\ {} \subseteq (1 .. Len(slices')) \X Nodes
    BY <1>1
  <1>4. /\ LocalsOK' /\ nodes'[w] = {}
        /\ \A v \in Workers \ {w} : slice'[v] = slice[v] /\ nodes'[v] = nodes[v] /\ found'[v] = found[v]
    <2>1. PICK i, N, F : i = 0 /\ N = {} /\ F = {}
      OBVIOUS
    <2>2. i \in Nat /\ LocalsTo(w, i, N, F)
      BY <2>1, ForgetIs
    <2>3. i <= Len(slices') /\ N \subseteq Nodes /\ F \subseteq (1 .. Len(slices')) \X Nodes
      BY <1>3, <2>1
    <2> QED
      BY <1>1, <1>2, <2>1, <2>2, <2>3, LocalsTyped
  <1>5. pc'[w] = "idle" /\ \A v \in Workers \ {w} : pc'[v] = pc[v] /\ job'[v] = job[v]
    BY DEF DummyIInv, ManagerOK, ThreadsOK, Reply, Go
  <1>6. alone' \in [Workers -> BOOLEAN] /\ (\A v \in Workers : alone'[v] => alone[v]) /\ crossed' = crossed
    BY DEF DummyIInv, Histories, Reply
  <1>7. Elsewhere(w)
    BY <1>4, <1>5, <1>6 DEF Elsewhere
  <1>8. ManagerOK(DummyAsk, DummyPlaces)'
    <2>1. PICK R : R = DummyAsk
      OBVIOUS
    <2>2. ManagerOK(R, DummyPlaces) /\ "idle" \in DummyPlaces
      BY <2>1 DEF DummyIInv, DummyPlaces
    <2>3. ManagerOK(R, DummyPlaces)'
      BY <2>2, ReplyTyped
    <2>4. slices \in Seq(Slice) /\ slices' \in Seq(Slice)
      BY DEF DummyIInv, TestbedOK
    <2> QED
      BY <1>1, <2>1, <2>3, <2>4, AskManaged
  <1>9. Histories'
    BY ReplyHistories DEF DummyIInv, ManagerOK, ThreadsOK
  <1>10. OneSlice'
    <2>1. ~crossed => Len(slices') <= 1 /\ (slices' # <<>> => \A n \in Nodes : NodeIds(slices'[1])[n] <= 1)
      BY <1>1 DEF DummyIInv, OneSlice
    <2> QED
      BY <1>1, <1>5, <1>6, <1>7, <2>1, OneSliceStays
  <1>11. KindAt(w)' /\ LocalsAt(w)'
    BY <1>4, <1>5 DEF KindAt, LocalsAt, Preparing, Working, DummyKinds
  <1>12. ~Changing(w)' /\ Excused(w)'
    BY <1>5 DEF Changing, Busy, Excused
  <1>13. Clear'
    BY <1>7
  <1> QED
    BY <1>1, <1>4, <1>7, <1>8, <1>9, <1>10, <1>11, <1>12, <1>13, StepKeeps

\* A request that leaves the testbed and what is asked of it as they are.
LEMMA QuietEnd ==
  ASSUME DummyIInv, NEW w \in Workers, Reply(w), Forget(w), UNCHANGED <<testbed, asked>>,
         ~Changing(w) \/ pc[w] \notin Past
  PROVE  DummyIInv'
  <1>1. slices' = slices /\ UNCHANGED testbed /\ UNCHANGED asked
    BY DEF testbed
  <1>2. TestbedOK'
    BY DEF testbed, DummyIInv, TestbedOK
  <1>3. Elsewhere(w) => Clear'
    BY <1>1, ClearStays DEF DummyIInv
  <1> QED
    BY <1>1, <1>2, <1>3, EndKeeps

LEMMA RefuseKeeps ==
  ASSUME DummyIInv, NEW w \in Workers, Refuse(w), pc[w] \notin Past
  PROVE  DummyIInv'
  BY QuietEnd DEF Refuse

\* One that the driver has no answer to.
LEMMA BalkKeeps ==
  ASSUME DummyIInv, NEW w \in Workers, Balk(w), Busy(w), pc[w] \notin Past, Unservable(w)
  PROVE  DummyIInv'
  <1>1. Moving(w, "raised") /\ UNCHANGED <<testbed, asked>> /\ UNCHANGED testbed
        /\ UNCHANGED <<slice, nodes, found>> /\ UNCHANGED slices
    BY DEF Balk, Raise, Moving, dummyVars, testbed, locals
  <1>2. OnNodes' = OnNodes /\ slices' = slices /\ Len(slices) <= Len(slices')
    BY <1>1, SameSlices
  <1>3. TestbedOK'
    BY <1>1 DEF testbed, DummyIInv, TestbedOK
  <1>4. LocalsTo(w, slice[w], nodes[w], found[w])
    BY <1>1, Here, LocalsStay DEF LocalsTo
  <1>5. slice[w] \in Nat /\ slice[w] <= Len(slices') /\ nodes[w] \subseteq Nodes
        /\ found[w] \subseteq (1 .. Len(slices')) \X Nodes
    BY <1>2, Here
  <1>6. KeepsOne(w, "raised", nodes[w])
    BY <1>2 DEF KeepsOne, DummyIInv, OneSlice
  <1>7. pc'[w] = "raised"
    BY <1>1 DEF DummyIInv, ManagerOK, ThreadsOK, Moving, Go
  <1>8. Unservable(w)'
    BY <1>1, <1>2 DEF Moving, Unservable, GetSlivers, ByName, Named, Kind, Target
  <1>9. KindAt(w)' /\ LocalsAt(w)'
    BY <1>7 DEF KindAt, LocalsAt, Preparing, Working, DummyKinds
  <1>10. KnownAt(w, "raised")
    BY <1>8, <1>9 DEF KnownAt, Excused
  <1>11. Elsewhere(w) => Clear'
    BY <1>1, ClearStays DEF DummyIInv
  <1>12. "raised" \in DummyPlaces \ {"idle"}
    BY DEF DummyPlaces
  <1> QED
    BY <1>1, <1>2, <1>3, <1>4, <1>5, <1>6, <1>10, <1>11, <1>12, MoveKeeps

LEMMA HandleKeeps ==
  ASSUME DummyIInv, NEW w \in Workers, Handle(w), Forget(w), UNCHANGED <<testbed, asked>>
  PROVE  DummyIInv'
  <1>1. ~Changing(w) /\ Reply(w)
    BY DEF Handle, Changing, Busy
  <1> QED
    BY <1>1, QuietEnd

\* One that changed something and is done.
LEMMA ChangedEnd ==
  ASSUME DummyIInv, NEW w \in Workers, Done(w), Changing(w), UNCHANGED slices, TestbedOK',
         Undisturbed(w) /\ Then(w) # None => Shown' = Then(w)
  PROVE  DummyIInv'
  <1>1. Reply(w) /\ Forget(w) /\ asked' = IF Undisturbed(w) THEN Then(w) ELSE None
    BY DEF Done
  <1>2. asked' # None => Shown' = asked'
    BY <1>1
  <1>3. Clear'
    BY <1>2 DEF Clear
  <1> QED
    BY <1>1, <1>3, EndKeeps

LEMMA DoneEnd ==
  ASSUME DummyIInv, NEW w \in Workers, Done(w), UNCHANGED testbed,
         Changing(w) /\ Undisturbed(w) /\ Then(w) # None => Shown = Then(w)
  PROVE  DummyIInv'
  <1>1. slices' = slices /\ Shown' = Shown /\ TestbedOK'
    BY DEF testbed, Shown, DummyIInv, TestbedOK
  <1>2. CASE Changing(w)
    BY <1>1, <1>2, ChangedEnd
  <1>3. CASE ~Changing(w)
    <2>1. Reply(w) /\ Forget(w) /\ UNCHANGED <<testbed, asked>>
      BY <1>3 DEF Done
    <2> QED
      BY <1>3, <2>1, QuietEnd
  <1> QED
    BY <1>2, <1>3, Zenon

LEMMA DescribeEnd ==
  ASSUME DummyIInv, NEW w \in Workers, Describe(w) \/ ListResources(w)
  PROVE  DummyIInv'
  <1>1. pc[w] \in {"describe", "Status", "ListResources"} /\ Done(w) /\ UNCHANGED testbed /\ Busy(w)
    BY DEF Describe, ListResources, Busy
  <1>2. ASSUME Changing(w), Undisturbed(w), Then(w) # None PROVE Shown = Then(w)
    <2>1. CASE pc[w] = "describe"
      BY <1>1, <1>2, <2>1, Here DEF Stage, StageDescribe
    <2>2. CASE pc[w] # "describe"
      <3>1. Kind(w) \in {"Status", "ListResources"}
        BY <1>1, <2>2, Here DEF KindAt, DummyKinds
      <3> QED
        BY <1>2, <3>1 DEF Changing, Changes
    <2> QED
      BY <2>1, <2>2
  <1> QED
    BY <1>1, <1>2, DoneEnd, Zenon

LEMMA NothingToDelete ==
  ASSUME DummyIInv, NEW w \in Workers, pc[w] = "Delete", GetSlivers(w) = {}, Done(w), UNCHANGED testbed
  PROVE  DummyIInv'
  <1>1. Busy(w) /\ pc[w] \notin Past
    BY DEF Busy, Past, Preparing
  <1>2. Kind(w) = "Delete" /\ Changing(w)
    BY <1>1, Here DEF KindAt, DummyKinds, Changing, Changes
  <1>3. ASSUME Undisturbed(w), Then(w) # None PROVE Shown = Then(w)
    <2>1. ~crossed
      BY <1>3 DEF Undisturbed
    <2>2. ByName(w) <=> Target(w) = Whole
      BY <1>2 DEF ByName
    <2>3. CASE Target(w) = Whole
      <3>1. OnNodes = {}
        BY <1>1, <2>1, <2>2, <2>3, Here, SliversOf
      <3>2. Then(w) = [n \in {} |-> ""]
        BY <1>2, <2>3 DEF Then
      <3>3. Shown = [n \in OnNodes |-> RowState(n)]
        BY <1>1, <2>1, Here, TheSlice
      <3>4. [n \in OnNodes |-> RowState(n)] = [n \in {} |-> ""]
        BY <3>1
      <3> QED
        BY <3>2, <3>3, <3>4
    <2>4. CASE Target(w) # Whole
      <3>1. OnNodes \cap Target(w) = {}
        BY <1>1, <2>1, <2>2, <2>4, Here, SliversOf
      <3>2. PICK named : named = IF Target(w) = Whole THEN DOMAIN asked ELSE Target(w) \cap DOMAIN asked
        OBVIOUS
      <3>3. Then(w) = IF asked = None THEN None ELSE [n \in DOMAIN asked \ named |-> asked[n]]
        BY <1>2, <2>4, <3>2 DEF Then
      <3>4. asked # None
        BY <1>3, <3>3
      <3>5. Shown = asked /\ DOMAIN asked = OnNodes /\ asked = [n \in OnNodes |-> RowState(n)]
        BY <1>1, <1>2, <1>3, <3>4, AskedShown
      <3>6. DOMAIN asked \ named = OnNodes
        BY <2>4, <3>1, <3>2, <3>5
      <3>7. [n \in DOMAIN asked \ named |-> asked[n]] = asked
        BY <3>5, <3>6
      <3> QED
        BY <3>3, <3>4, <3>5, <3>7
    <2> QED
      BY <2>3, <2>4
  <1> QED
    BY <1>2, <1>3, DoneEnd, Zenon

LEMMA DeleteRowsKeeps ==
  ASSUME DummyIInv, NEW w \in Workers, DeleteRows(w)
  PROVE  DummyIInv'
  <1>1. pc[w] = "delete rows" /\ Busy(w) /\ Done(w) /\ UNCHANGED slices
        /\ rows' = [s \in DOMAIN rows \ MySlivers(w) |-> rows[s]]
    BY DEF DeleteRows, Busy
  <1>2. Kind(w) = "Delete" /\ Changing(w) /\ slice[w] \in 1 .. Len(slices)
    BY <1>1, Here DEF KindAt, LocalsAt, Changes, Working
  <1>3. \A s : /\ s \in DOMAIN rows' <=> s \in DOMAIN rows /\ s \notin MySlivers(w)
               /\ s \in DOMAIN rows' => rows'[s] = rows[s]
    BY <1>1
  <1>4. TestbedOK'
    <2>1. DOMAIN rows' \subseteq DOMAIN rows /\ rows' = [s \in DOMAIN rows' |-> rows'[s]]
      BY <1>1
    <2>2. \A s \in DOMAIN rows' : rows'[s] \in States
      BY <1>1, <1>3, Here DEF TestbedOK
    <2>3. rows' \in [DOMAIN rows' -> States]
      BY <2>1, <2>2
    <2> QED
      BY <1>1, <2>1, <2>3, Here DEF TestbedOK
  <1>5. ASSUME Undisturbed(w), Then(w) # None PROVE Shown' = Then(w)
    <2>1. ~crossed
      BY <1>5 DEF Undisturbed
    <2>2. slice[w] = 1
      BY <1>1, <1>2, <2>1, Here, TheSlice
    <2>3. Shown' = [n \in OnNodes |-> RowState(n)']
      BY <1>1, <2>1, ShownAfter
    <2>4. CASE Target(w) = Whole
      <3>1. OnNodes = {}
        BY <1>1, <1>2, <1>5, <2>4, Here DEF Stage, StageDelete
      <3>2. Then(w) = [n \in {} |-> ""]
        BY <1>2, <2>4 DEF Then
      <3>3. [n \in OnNodes |-> RowState(n)'] = [n \in {} |-> ""]
        BY <3>1
      <3> QED
        BY <2>3, <3>2, <3>3
    <2>5. CASE Target(w) # Whole
      <3>1. PICK named : named = IF Target(w) = Whole THEN DOMAIN asked ELSE Target(w) \cap DOMAIN asked
        OBVIOUS
      <3>2. Then(w) = IF asked = None THEN None ELSE [n \in DOMAIN asked \ named |-> asked[n]]
        BY <1>2, <2>5, <3>1 DEF Then
      <3>3. asked # None
        BY <1>5, <3>2
      <3>4. /\ OnNodes = DOMAIN asked \ Target(w) /\ nodes[w] = DOMAIN asked \cap Target(w)
            /\ asked = [n \in DOMAIN asked |-> RowState(n)]
        BY <1>1, <1>2, <1>5, <2>5, <3>3, Here DEF Stage, StageDelete
      <3>5. \A n \in OnNodes : <<1, n>> \notin MySlivers(w)
        BY <2>2, <3>4 DEF MySlivers
      <3>6. \A n \in OnNodes : RowState(n)' = RowState(n)
        BY <1>3, <3>5 DEF RowState
      <3>7. DOMAIN asked \ named = OnNodes
        BY <2>5, <3>1, <3>4
      <3>8. \A n \in OnNodes : RowState(n)' = asked[n]
        BY <3>4, <3>6
      <3> QED
        BY <2>3, <3>2, <3>3, <3>7, <3>8
    <2> QED
      BY <2>4, <2>5
  <1> QED
    BY <1>1, <1>2, <1>4, <1>5, ChangedEnd

-----------------------------------------------------------------------------
(* Failures of the dummy testbed, transmissions and restarts *)

\* Up to one and one more.
LEMMA OneMoreThan ==
  ASSUME NEW k \in Nat, NEW m, m = k + 1
  PROVE  /\ k <= m /\ 1 .. k \subseteq 1 .. m
         /\ k = 0 => m <= 1
  <1>1. k <= m /\ 1 .. k \subseteq 1 .. m
    OBVIOUS
  <1>2. k = 0 => m <= 1
    OBVIOUS
  <1> QED
    BY <1>1, <1>2

LEMMA NoneOnce == \A n \in Nodes : NoNodes[n] = 0 /\ NoNodes[n] <= 1
  BY DEF NoNodes

LEMMA NewSliceLost ==
  ASSUME DummyIInv, NEW w \in Workers, pc[w] = "add slice", slices' = AddSlice(slices), UNCHANGED rows
  PROVE  TestbedOK' /\ Len(slices) <= Len(slices') /\ KeepsOne(w, "raised", nodes[w]) /\ Changing(w)
  <1>1. Busy(w)
    BY DEF Busy
  <1>2. Changing(w) /\ Allocating(w)
    BY <1>1, Here DEF KindAt, Changing, Changes, Allocating
  <1>3. /\ slices \in Seq(Slice) /\ Len(slices) \in Nat /\ slices' \in Seq(Slice) /\ Len(slices') = Len(slices) + 1
        /\ slices = <<>> => slices'[1] = None
    BY SliceAdded, LenProperties DEF DummyIInv, TestbedOK
  <1>4. PICK k, m : k = Len(slices) /\ m = Len(slices')
    OBVIOUS
  <1>5. k \in Nat /\ m = k + 1
    BY <1>3, <1>4
  <1>6. (1 .. Len(slices)) \X Nodes \subseteq (1 .. Len(slices')) \X Nodes
    <2>1. 1 .. Len(slices) \subseteq 1 .. Len(slices')
      BY <1>4, <1>5, OneMoreThan, Zenon
    <2> QED
      BY <2>1
  <1>7. TestbedOK'
    BY <1>3, <1>6 DEF DummyIInv, TestbedOK
  <1>8. ~crossed => slices = <<>>
    BY DEF DummyIInv, OneSlice
  <1>9. slices = <<>> => k = 0
    BY <1>4, EmptySeq
  <1>10. ~crossed => Len(slices') <= 1
    BY <1>4, <1>5, <1>8, <1>9, OneMoreThan, Zenon
  <1>11. ~crossed => NodeIds(slices'[1]) = NoNodes
    BY <1>3, <1>8 DEF NodeIds
  <1>13. \A n \in Nodes : NoNodes[n] <= 1
    BY NoneOnce, Zenon
  <1>14. KeepsOne(w, "raised", nodes[w])
    BY <1>2, <1>10, <1>11, <1>13, Zenon DEF KeepsOne
  <1>15. Len(slices) <= Len(slices')
    BY <1>4, <1>5, OneMoreThan, Zenon
  <1> QED
    BY <1>2, <1>7, <1>14, <1>15

LEMMA TestbedFailsKeeps ==
  ASSUME DummyIInv, NEW w \in Workers, TestbedFails(w)
  PROVE  DummyIInv'
  <1>1. alone' = [alone EXCEPT ![w] = FALSE] /\ UNCHANGED rows
    BY DEF TestbedFails
  <1>2. ~Undisturbed(w)'
    BY <1>1 DEF DummyIInv, Histories, Undisturbed
  <1>3. ASSUME Busy(w), Trip(w)
        PROVE  Moving(w, "raised") /\ UNCHANGED locals /\ asked' = IF Changing(w) THEN None ELSE asked
    BY <1>1, <1>3 DEF Trip, Raise, Moving
  <1>4. ASSUME pc[w] \in Reads \cup {"add slice", "delete nodes"}, Trip(w), UNCHANGED slices
        PROVE  DummyIInv'
    <2>1. Busy(w)
      BY <1>4 DEF Reads, Busy
    <2>2. OnNodes' = OnNodes /\ Len(slices) <= Len(slices') /\ slices' = slices
      BY <1>4, SameSlices
    <2>3. TestbedOK' /\ UNCHANGED testbed
      BY <1>1, <1>4 DEF DummyIInv, TestbedOK, testbed
    <2>4. KeepsOne(w, "raised", nodes[w])
      BY <2>2 DEF KeepsOne, DummyIInv, OneSlice
    <2> QED
      BY <1>2, <1>3, <1>4, <2>1, <2>2, <2>3, <2>4, TripKeeps
  <1>5. ASSUME pc[w] = "add slice", Trip(w), slices' = AddSlice(slices)
        PROVE  DummyIInv'
    <2>1. Busy(w)
      BY <1>5 DEF Busy
    <2>2. TestbedOK' /\ Len(slices) <= Len(slices') /\ KeepsOne(w, "raised", nodes[w]) /\ Changing(w)
      BY <1>1, <1>5, NewSliceLost
    <2> QED
      BY <1>2, <1>3, <1>5, <2>1, <2>2, TripKeeps
  <1>6. ASSUME pc[w] = "delete nodes", Trip(w), slices' = Deleted(w)
        PROVE  DummyIInv'
    <2>1. Busy(w)
      BY <1>6 DEF Busy
    <2>2. Changing(w) /\ slice[w] \in 1 .. Len(slices) /\ Len(slices) \in Nat /\ (~crossed => Len(slices) <= 1)
      BY <1>6, <2>1, Here, NamedIs DEF KindAt, LocalsAt, Changing, Changes, Working, OneSlice
    <2>3. /\ TestbedOK' /\ Len(slices') = Len(slices) /\ OnNodes' \subseteq OnNodes
          /\ slices # <<>> /\ slices' # <<>>
          /\ ~crossed => \A n \in Nodes : NodeIds(slices'[1])[n] <= 1
      BY <1>1, <1>6, <2>2, DeletedShape DEF Deleted
    <2>4. Len(slices) <= Len(slices')
      BY <2>2, <2>3, UpTo, Zenon
    <2>5. KeepsOne(w, "raised", nodes[w])
      BY <2>2, <2>3 DEF KeepsOne
    <2> QED
      BY <1>2, <1>3, <1>6, <2>1, <2>2, <2>3, <2>4, <2>5, TripKeeps
  <1>7. ASSUME pc[w] \in {"add nodes", "remove nodes"},
               slices' \in {slices, IF pc[w] = "add nodes" THEN Added(w) ELSE Removed(w)},
               Go(w, "look again"), UNCHANGED <<clients, queue, handled, job, locals, crossed, asked>>
        PROVE  DummyIInv'
    <2>1. Busy(w)
      BY <1>7 DEF Busy
    <2>2. Going(w, "look again") /\ UNCHANGED locals
      BY <1>1, <1>7, <2>1 DEF Going, Moving
    <2>3. CASE pc[w] = "add nodes"
      <3>1. slices' = Added(w) \/ UNCHANGED slices
        BY <1>7, <2>3
      <3>2. PICK place : place = "look again"
        OBVIOUS
      <3>3. Going(w, place)
        BY <2>2, <3>2
      <3> QED
        BY <1>1, <1>2, <2>2, <2>3, <3>1, <3>2, <3>3, AddNodesGo
    <2>4. CASE pc[w] = "remove nodes"
      <3>1. slices' = Removed(w) \/ UNCHANGED slices
        BY <1>7, <2>4
      <3> QED
        BY <1>1, <1>2, <2>2, <2>4, <3>1, RemoveNodesGo
    <2> QED
      BY <1>7, <2>3, <2>4
  <1> QED
    BY <1>4, <1>5, <1>6, <1>7, Zenon DEF TestbedFails

\* What no thread notices.
LEMMA ManagerOnly ==
  ASSUME DummyIInv, UNCHANGED <<job, pc, alone, crossed>>, UNCHANGED dummyVars,
         ManagerOK(DummyAsk, DummyPlaces)'
  PROVE  DummyIInv'
  <1>1. UNCHANGED <<testbed, asked>> /\ UNCHANGED slices /\ UNCHANGED <<slice, nodes, found>>
    BY DEF dummyVars, testbed, locals
  <1>2. \A w \in Workers : /\ Changing(w)' = Changing(w) /\ Allocating(w)' = Allocating(w)
                           /\ Undisturbed(w)' = Undisturbed(w)
    BY DEF Changing, Allocating, Busy, Kind, Undisturbed
  <1>3. Histories'
    BY <1>2, HistoriesStay DEF DummyIInv, Histories
  <1>4. TestbedOK' /\ LocalsOK'
    BY <1>1 DEF DummyIInv, TestbedOK, LocalsOK, testbed
  <1>5. \A w \in Workers : KindAt(w)' /\ LocalsAt(w)'
    BY <1>1 DEF DummyIInv, KindAt, LocalsAt, Kind
  <1>6. OnNodes' = OnNodes /\ Shown' = Shown
    BY <1>1 DEF OnNodes, Shown, testbed
  <1>7. OneSlice'
    BY <1>1, <1>6 DEF DummyIInv, OneSlice
  <1>8. Stages'
    <2>1. ASSUME NEW w \in Workers, Changing(w)', Undisturbed(w)' PROVE Stage(w)'
      <3>1. Stage(w)
        BY <1>2, <2>1 DEF DummyIInv, Stages
      <3> QED
        BY <1>1, <3>1, SameStage
    <2> QED
      BY <2>1 DEF Stages
  <1>9. Clear'
    BY <1>1, <1>2, <1>6 DEF DummyIInv, Clear
  <1>10. \A w \in Workers : Excused(w)'
    BY <1>1, <1>2 DEF DummyIInv, Excused, Unservable, GetSlivers, ByName, Named, Kind, Target
  <1> QED
    BY <1>3, <1>4, <1>5, <1>7, <1>8, <1>9, <1>10 DEF DummyIInv

LEMMA ClientKeeps ==
  ASSUME DummyIInv, NEW c \in Calls, Client(c, DummyRequest), UNCHANGED dummyVars
  PROVE  DummyIInv'
  <1>1. PICK R : R = DummyAsk
    OBVIOUS
  <1>2. DummyRequest \subseteq R
    BY <1>1, RequestsAsk DEF DummyIInv
  <1>3. Client(c, R)
    BY <1>2 DEF Client, Send
  <1>4. None \notin R /\ ManagerOK(R, DummyPlaces)
    BY <1>1, AskRecords DEF DummyIInv
  <1>5. ManagerOK(R, DummyPlaces)'
    BY <1>3, <1>4, ClientTyped
  <1>6. UNCHANGED slices /\ slices \in Seq(Slice)
    BY DEF dummyVars, testbed, DummyIInv, TestbedOK
  <1>7. ManagerOK(DummyAsk, DummyPlaces)'
    BY <1>1, <1>5, <1>6, SameSlices, AskManaged
  <1>8. UNCHANGED <<job, pc, alone, crossed>>
    BY DEF Client, Send, Transmit, Break, LineIsDown, history
  <1> QED
    BY <1>7, <1>8, ManagerOnly

LEMMA RestartKeeps ==
  ASSUME DummyIInv, DummyRestart
  PROVE  DummyIInv'
  <1>1. /\ Restart /\ UNCHANGED testbed /\ UNCHANGED slices
        /\ asked' = IF \E w \in Workers : Changing(w) THEN None ELSE asked
    BY DEF DummyRestart, testbed
  <1>2. \A w \in Workers : pc'[w] = "idle" /\ slice'[w] = 0 /\ nodes'[w] = {} /\ found'[w] = {}
    BY DEF DummyRestart, Restart
  <1>3. ManagerOK(DummyAsk, DummyPlaces)'
    <2>1. PICK R : R = DummyAsk
      OBVIOUS
    <2>2. ManagerOK(R, DummyPlaces) /\ "idle" \in DummyPlaces
      BY <2>1 DEF DummyIInv, DummyPlaces
    <2>3. ManagerOK(R, DummyPlaces)'
      BY <1>1, <2>2, RestartTyped
    <2>4. slices \in Seq(Slice) /\ slices' \in Seq(Slice)
      BY <1>1 DEF DummyIInv, TestbedOK
    <2> QED
      BY <1>1, <2>1, <2>3, <2>4, SameSlices, AskManaged
  <1>4. Histories'
    BY <1>1, RestartHistories DEF DummyIInv
  <1>5. TestbedOK' /\ Len(slices') \in Nat
    BY <1>1, LenProperties DEF DummyIInv, TestbedOK, testbed
  <1>6. LocalsOK'
    <2>1. slice' \in [Workers -> Nat] /\ nodes' \in [Workers -> SUBSET Nodes]
          /\ found' \in [Workers -> SUBSET (Nat \X Nodes)]
      BY DEF DummyRestart
    <2>2. \A w \in Workers : slice'[w] <= Len(slices') /\ found'[w] \subseteq (1 .. Len(slices')) \X Nodes
      BY <1>2, <1>5
    <2> QED
      BY <2>1, <2>2 DEF LocalsOK
  <1>7. \A w \in Workers : KindAt(w)' /\ LocalsAt(w)' /\ ~Changing(w)'
    BY <1>2 DEF KindAt, LocalsAt, Changing, Busy, Preparing, Working, DummyKinds
  <1>8. OneSlice'
    BY <1>1, <1>2 DEF OneSlice, DummyIInv, Restart
  <1>9. Stages' /\ \A w \in Workers : Excused(w)'
    BY <1>2, <1>7 DEF Stages, Excused
  <1>10. Clear'
    <2>1. Shown' = Shown
      BY <1>1 DEF Shown, testbed
    <2> QED
      BY <1>1, <2>1 DEF Clear, DummyIInv
  <1> QED
    BY <1>3, <1>4, <1>5, <1>6, <1>7, <1>8, <1>9, <1>10 DEF DummyIInv

LEMMA TakeKeeps ==
  ASSUME DummyIInv, NEW w \in Workers, Take(w), UNCHANGED dummyVars
  PROVE  DummyIInv'
  <1>1. PICK R : R = DummyAsk
    OBVIOUS
  <1>2. ManagerOK(R, DummyPlaces) /\ None \notin Transmissions(R)
    BY <1>1, AskRecords DEF DummyIInv
  <1>3. \A r \in R : r.kind \in DummyPlaces \ {"idle"}
    BY <1>1 DEF DummyAsk, DummyRecord, DummyPlaces, DummyKinds
  <1>4. ManagerOK(R, DummyPlaces)'
    BY <1>2, <1>3, TakeTyped
  <1>5. /\ UNCHANGED slices /\ slices \in Seq(Slice) /\ UNCHANGED <<slice, nodes, found>>
        /\ UNCHANGED <<testbed, asked>> /\ OnNodes' = OnNodes /\ Len(slices) <= Len(slices')
    BY SameSlices DEF dummyVars, testbed, locals, DummyIInv, TestbedOK
  <1>6. ManagerOK(DummyAsk, DummyPlaces)'
    BY <1>1, <1>4, <1>5, AskManaged
  <1>7. CASE UNCHANGED <<handled, job, pc, history>>
    BY <1>6, <1>7, ManagerOnly DEF history
  <1>8. PICK t : t = Head(queue)
    OBVIOUS
  <1>9. t \in Transmissions(R) /\ t.request \in R /\ t.request.kind \in DummyKinds
    <2>1. t \in Transmissions(R)
      BY <1>2, <1>8, NextIs DEF Take
    <2> QED
      BY <1>1, <2>1 DEF Transmissions, DummyAsk, DummyRecord, DummyKinds
  <1>10. CASE /\ job' = [job EXCEPT ![w] = t]
              /\ Go(w, t.request.kind)
              /\ alone' = [v \in Workers |-> IF v = w THEN ~Overlapped(w) ELSE alone[v] /\ t.request.kind \notin Changes]
              /\ crossed' = (crossed \/ \E v \in Workers \ {w} :
                                t.request.kind = "Allocate" /\ Busy(v) /\ Kind(v) = "Allocate")
    <2>1. pc[w] = "idle" /\ ~Changing(w)
      BY DEF Take, Idle, Changing, Busy
    <2>2. /\ pc'[w] = t.request.kind /\ job'[w] = t /\ Kind(w)' = t.request.kind
          /\ \A v \in Workers \ {w} : pc'[v] = pc[v] /\ job'[v] = job[v]
      BY <1>10 DEF DummyIInv, ManagerOK, ThreadsOK, Go, Kind
    <2>3. pc'[w] \in DummyKinds
      BY <1>9, <2>2
    <2>4. \A v \in Workers \ {w} : alone'[v] => alone[v]
      BY <1>10
    <2>5. crossed => crossed'
      BY <1>10, Zenon
    <2>6. Elsewhere(w)
      BY <1>5, <2>2, <2>4, <2>5 DEF Elsewhere
    <2>7. KindAt(w)'
      BY <2>2, <2>3 DEF KindAt, DummyKinds, Preparing
    <2>8. LocalsAt(w)'
      BY <1>5, <2>1, <2>3 DEF LocalsAt, DummyKinds, Working, Preparing, DummyIInv
    <2>9. Stage(w)'
      BY <2>3 DEF Stage, StageAllocate, StageProvision, StageDelete, StageDescribe, DummyKinds
    <2>10. TestbedOK' /\ LocalsOK'
      BY <1>5 DEF TestbedOK, LocalsOK, DummyIInv, testbed
    <2>11. t.request.kind \notin {"idle", "raised"}
      BY <1>9 DEF DummyKinds
    <2>12. Histories'
      <3>1. \E P : pc \in [Workers -> P]
        BY DEF DummyIInv, ManagerOK, ThreadsOK
      <3>2. \E J : job \in [Workers -> J]
        BY DEF DummyIInv, ManagerOK, ThreadsOK
      <3>3. Histories /\ Head(queue).request.kind \notin {"idle", "raised"}
        BY <1>8, <2>11 DEF DummyIInv
      <3> QED
        BY <3>1, <3>2, <3>3, TakeHistories
    <2>13. OneSlice'
      <3>1. ~crossed' => Len(slices') <= 1 /\ (slices' # <<>> => \A n \in Nodes : NodeIds(slices'[1])[n] <= 1)
        BY <1>5, <2>5 DEF DummyIInv, OneSlice
      <3>2. pc'[w] # "add slice" /\ pc'[w] # "add nodes"
        BY <2>3 DEF DummyKinds
      <3> QED
        BY <1>5, <2>6, <3>1, <3>2, OneSliceStays
    <2>14. Clear'
      BY <1>5, <2>1, <2>6, ClearStays DEF DummyIInv
    <2>15. Excused(w)'
      BY <2>2, <2>11 DEF Excused
    <2>16. Len(slices) <= Len(slices') /\ (Changing(w) \/ UNCHANGED <<testbed, asked>>)
      BY <1>5
    <2>17. Changing(w)' /\ Undisturbed(w)' => Stage(w)'
      BY <2>9
    <2> QED
      BY <1>6, <2>6, <2>7, <2>8, <2>10, <2>12, <2>13, <2>14, <2>15, <2>16, <2>17, StepKeeps
  <1> QED
    BY <1>7, <1>8, <1>10, Zenon DEF Take

\* Nodes put on a new slice.
LEMMA FirstNodes ==
  ASSUME NEW ss \in Seq(Slice), NEW i \in 1 .. Len(ss), ss[i] = None, NEW N, N \subseteq Nodes,
         NEW new, new = AddSliceToNodes(ss, i, N)
  PROVE  /\ new \in Seq(Slice) /\ Len(new) = Len(ss) /\ GetNodes(new[i]) = N
         /\ \A n \in Nodes : NodeIds(new[i])[n] <= 1
  <1>1. /\ new \in Seq(Slice) /\ Len(new) = Len(ss)
        /\ new[i] \in [Nodes -> Nat] /\ new[i] # None
        /\ \A n \in Nodes : new[i][n] = NodeIds(ss[i])[n] + IF n \in N THEN 1 ELSE 0
        /\ GetNodes(new[i]) = GetNodes(ss[i]) \cup (N \cap Nodes)
        /\ \A j \in 1 .. Len(ss) : j # i => new[j] = ss[j]
    BY NodesAdded
  <1>2. NodeIds(ss[i]) = NoNodes
    BY DEF NodeIds
  <1>3. GetNodes(ss[i]) = {}
    BY <1>2, NoneOnce DEF GetNodes
  <1>4. NodeIds(new[i]) = new[i]
    BY <1>1 DEF NodeIds
  <1>5. \A n \in Nodes : NodeIds(new[i])[n] <= 1
    BY <1>1, <1>2, <1>4, NoneOnce
  <1> QED
    BY <1>1, <1>3, <1>5

LEMMA DummyStarts ==
  ASSUME ManagerInit, DummyInit
  PROVE  DummyIInv
  <1>1. PICK before \in {{}} \cup (Targets \ {Whole}) :
          /\ slices = IF before = {} THEN <<>> ELSE AddSliceToNodes(<<None>>, 1, before)
          /\ rows = [s \in {1} \X before |-> "geni_allocated"]
          /\ asked = [n \in before |-> "geni_allocated"]
    BY DEF DummyInit
  <1>2. before \subseteq Nodes
    BY AggregateAssumption
  <1>3. /\ pc = [w \in Workers |-> "idle"] /\ job = [w \in Workers |-> None]
        /\ alone = [w \in Workers |-> FALSE] /\ crossed = FALSE /\ NoLocals
    BY DEF ManagerInit, DummyInit
  <1>4. ManagerOK(DummyAsk, DummyPlaces)
    <2>1. CallsOK(DummyAsk)
      BY DEF ManagerInit, CallsOK
    <2>2. "idle" \in DummyPlaces
      BY DEF DummyPlaces
    <2>3. ThreadsOK(DummyAsk, DummyPlaces)
      BY <1>3, <2>2 DEF ManagerInit, ThreadsOK, Idle
    <2> QED
      BY <2>1, <2>3 DEF ManagerOK
  <1>5. \A w \in Workers : ~Changing(w) /\ ~Allocating(w)
    BY <1>3 DEF Changing, Allocating, Busy
  <1>6. Histories
    BY <1>3, <1>5 DEF Histories
  <1>7. /\ slices \in Seq(Slice) /\ Len(slices) = IF before = {} THEN 0 ELSE 1
        /\ before # {} => /\ slices # <<>> /\ \A n \in Nodes : NodeIds(slices[1])[n] <= 1
                          /\ GetNodes(slices[1]) = before
        /\ before = {} => slices = <<>>
    <2>1. CASE before = {}
      BY <1>1, <2>1, EmptySeq
    <2>2. CASE before # {}
      <3>1. None \in Slice
        BY DEF Slice
      <3>2. PICK ss : ss = <<None>>
        OBVIOUS
      <3>3. ss \in Seq(Slice) /\ Len(ss) = 1 /\ ss[1] = None
        BY <3>1, <3>2
      <3>4. PICK i, new, N : i = 1 /\ new = slices /\ N = before
        OBVIOUS
      <3>5. i \in 1 .. Len(ss) /\ new = AddSliceToNodes(ss, i, N)
        BY <1>1, <2>2, <3>2, <3>3, <3>4
      <3>6. N \subseteq Nodes /\ ss \in Seq(Slice) /\ i \in 1 .. Len(ss) /\ ss[i] = None
        BY <1>2, <3>3, <3>4, <3>5
      <3>7. /\ new \in Seq(Slice) /\ Len(new) = Len(ss) /\ GetNodes(new[i]) = N
            /\ \A n \in Nodes : NodeIds(new[i])[n] <= 1
        BY <3>5, <3>6, FirstNodes
      <3>8. new # <<>>
        <4>1. Len(new) = 1
          BY <3>3, <3>7
        <4>2. new = <<>> => Len(new) = 0
          BY EmptySeq
        <4> QED
          BY <4>1, <4>2
      <3> QED
        BY <2>2, <3>3, <3>4, <3>7, <3>8
    <2> QED
      BY <2>1, <2>2
  <1>8. OnNodes = before
    BY <1>7 DEF OnNodes
  <1>9. TestbedOK
    <2>1. DOMAIN rows = {1} \X before /\ \A s \in DOMAIN rows : rows[s] = "geni_allocated"
      BY <1>1
    <2>2. DOMAIN rows \subseteq (1 .. Len(slices)) \X Nodes
      <3>1. CASE before = {}
        BY <2>1, <3>1
      <3>2. CASE before # {}
        <4>1. {1} \subseteq 1 .. Len(slices)
          BY <1>7, <3>2
        <4> QED
          BY <1>2, <2>1, <4>1
      <3> QED
        BY <3>1, <3>2
    <2>3. rows \in [DOMAIN rows -> States]
      BY <1>1, <2>1 DEF States
    <2> QED
      BY <1>7, <2>2, <2>3 DEF TestbedOK
  <1>10. LocalsOK
    <2>1. Len(slices) \in Nat
      BY <1>7
    <2> QED
      BY <1>3, <2>1 DEF LocalsOK, NoLocals
  <1>11. \A w \in Workers : KindAt(w) /\ LocalsAt(w)
    BY <1>3 DEF KindAt, LocalsAt, NoLocals, Preparing, Working, DummyKinds
  <1>12. OneSlice
    <2>1. Len(slices) <= 1
      BY <1>7
    <2> QED
      BY <1>3, <1>7, <2>1 DEF OneSlice
  <1>13. Stages /\ \A w \in Workers : Excused(w)
    BY <1>3, <1>5 DEF Stages, Excused
  <1>14. Clear
    <2>1. Shown = [n \in OnNodes |-> RowState(n)]
      BY <1>3, <1>9, <1>12, TheSlice
    <2>2. \A n \in before : RowState(n) = "geni_allocated"
      BY <1>1 DEF RowState
    <2>3. Shown = asked
      BY <1>1, <1>8, <2>1, <2>2
    <2> QED
      BY <2>3 DEF Clear
  <1> QED
    BY <1>4, <1>6, <1>9, <1>10, <1>11, <1>12, <1>13, <1>14 DEF DummyIInv

-----------------------------------------------------------------------------
(* Every step of a dummy aggregate *)

LEMMA AddNodesKeeps ==
  ASSUME DummyIInv, NEW w \in Workers, AddNodes(w)
  PROVE  DummyIInv'
  <1>1. pc[w] = "add nodes" /\ slices' = Added(w) /\ UNCHANGED rows /\ UNCHANGED locals /\ UNCHANGED alone
    BY DEF AddNodes, locals, To, On, history
  <1>2. Busy(w)
    BY <1>1 DEF Busy
  <1>3. PICK place : place = "remove nodes"
    OBVIOUS
  <1>4. Going(w, place)
    BY <1>2, <1>3 DEF AddNodes, To, On, history, Going, Moving
  <1> QED
    BY <1>1, <1>3, <1>4, AddNodesGo

LEMMA RemoveNodesKeeps ==
  ASSUME DummyIInv, NEW w \in Workers, RemoveNodes(w)
  PROVE  DummyIInv'
  <1>1. /\ pc[w] = "remove nodes" /\ slices' = Removed(w) /\ UNCHANGED rows /\ UNCHANGED locals
        /\ UNCHANGED alone
    BY DEF RemoveNodes, locals, To, On, history
  <1>2. Busy(w)
    BY <1>1 DEF Busy
  <1>3. Going(w, "look again")
    BY <1>2 DEF RemoveNodes, To, On, history, Going, Moving
  <1> QED
    BY <1>1, <1>3, RemoveNodesGo

LEMMA RequestsStart ==
  ASSUME DummyIInv, NEW w \in Workers, Provision(w) \/ Delete(w) \/ Renew(w) \/ Action(w) \/ Shutdown(w)
  PROVE  DummyIInv'
  <1>1. CASE Provision(w)
    <2>1. pc[w] = "Provision" /\ pc[w] \notin Past
      BY <1>1 DEF Provision, Past, Preparing
    <2>2. CASE GetSlivers(w) = {}
      <3>1. Busy(w) /\ Balk(w)
        BY <1>1, <2>1, <2>2 DEF Provision, Busy
      <3>2. Unservable(w)
        BY <2>1, <2>2, <3>1, Here DEF Unservable, KindAt, DummyKinds
      <3> QED
        BY <2>1, <3>1, <3>2, BalkKeeps
    <2>3. CASE GetSlivers(w) # {}
      BY <1>1, <2>1, <2>3, ProvisionReads DEF Provision
    <2> QED
      BY <2>2, <2>3
  <1>2. CASE Delete(w)
    <2>1. pc[w] = "Delete"
      BY <1>2 DEF Delete
    <2>2. CASE GetSlivers(w) = {}
      BY <1>2, <2>1, <2>2, NothingToDelete DEF Delete
    <2>3. CASE GetSlivers(w) # {}
      BY <1>2, <2>1, <2>3, DeleteReads DEF Delete
    <2> QED
      BY <2>2, <2>3
  <1>3. CASE Renew(w)
    <2>1. pc[w] = "Renew" /\ pc[w] \notin Past
      BY <1>3 DEF Renew, Past, Preparing
    <2>2. Refuse(w) \/ ReadSlivers(w, "describe")
      BY <1>3 DEF Renew
    <2> QED
      BY <2>1, <2>2, RefuseKeeps, OthersRead
  <1>4. CASE Action(w)
    <2>1. pc[w] = "Action" /\ pc[w] \notin Past
      BY <1>4 DEF Action, Past, Preparing
    <2>2. Refuse(w) \/ ReadSlivers(w, "describe")
      BY <1>4 DEF Action
    <2> QED
      BY <2>1, <2>2, RefuseKeeps, OthersRead
  <1>5. CASE Shutdown(w)
    <2>1. pc[w] = "Shutdown" /\ pc[w] \notin Past /\ Balk(w) /\ Busy(w)
      BY <1>5 DEF Shutdown, Past, Preparing, Busy
    <2>2. Unservable(w)
      BY <2>1, Here DEF Unservable, KindAt, DummyKinds
    <2> QED
      BY <2>1, <2>2, BalkKeeps
  <1> QED
    BY <1>1, <1>2, <1>3, <1>4, <1>5

LEMMA DummyStepKeeps ==
  ASSUME DummyIInv, NEW w \in Workers, DummyStep(w)
  PROVE  DummyIInv'
  <1>1. CASE FindSlice(w) \/ NewSlice(w)
    BY <1>1, FindSliceKeeps, NewSliceKeeps
  <1>2. CASE AddNodes(w) \/ RemoveNodes(w)
    BY <1>2, AddNodesKeeps, RemoveNodesKeeps
  <1>3. CASE LookAgain(w) \/ SyncQuery(w) \/ SyncWrite(w)
    BY <1>3, LookAgainKeeps, SyncQueryKeeps, SyncWriteKeeps
  <1>4. CASE QueryRows(w) \/ SetRows(w)
    BY <1>4, QueryRowsKeeps, SetRowsKeeps
  <1>5. CASE DeleteNodes(w) \/ DeleteRows(w)
    BY <1>5, DeleteNodesKeeps, DeleteRowsKeeps
  <1>6. CASE Provision(w) \/ Delete(w) \/ Renew(w) \/ Action(w) \/ Shutdown(w)
    BY <1>6, RequestsStart
  <1>7. CASE Describe(w) \/ ListResources(w)
    BY <1>7, DescribeEnd
  <1>8. CASE Take(w) /\ UNCHANGED dummyVars
    BY <1>8, TakeKeeps
  <1>9. CASE Handle(w) /\ Forget(w) /\ UNCHANGED <<testbed, asked>>
    BY <1>9, HandleKeeps
  <1> QED
    BY <1>1, <1>2, <1>3, <1>4, <1>5, <1>6, <1>7, <1>8, <1>9, Zenon DEF DummyStep

LEMMA DummyNextKeeps ==
  ASSUME DummyIInv, DummyNext
  PROVE  DummyIInv'
  <1>1. ASSUME NEW c \in Calls, Client(c, DummyRequest), UNCHANGED dummyVars PROVE DummyIInv'
    BY <1>1, ClientKeeps
  <1>2. ASSUME NEW w \in Workers, DummyStep(w) PROVE DummyIInv'
    BY <1>2, DummyStepKeeps
  <1>3. ASSUME NEW w \in Workers, TestbedFails(w) PROVE DummyIInv'
    BY <1>3, TestbedFailsKeeps
  <1>4. CASE DummyRestart
    BY <1>4, RestartKeeps
  <1> QED
    BY <1>1, <1>2, <1>3, <1>4, Zenon DEF DummyNext

LEMMA DummyStutters ==
  ASSUME DummyIInv, UNCHANGED <<manager, dummyVars>>
  PROVE  DummyIInv'
  <1>1. /\ UNCHANGED <<call, status, line, queue, handled, job, pc, alone, crossed>>
        /\ UNCHANGED dummyVars /\ UNCHANGED slices
    BY DEF manager, clients, history, dummyVars, testbed
  <1>2. ManagerOK(DummyAsk, DummyPlaces)'
    <2>1. PICK R : R = DummyAsk
      OBVIOUS
    <2>2. ManagerOK(R, DummyPlaces)
      BY <2>1 DEF DummyIInv
    <2>3. CallsOK(R)'
      BY <1>1, <2>2 DEF ManagerOK, CallsOK
    <2>4. ThreadsOK(R, DummyPlaces)'
      BY <1>1, <2>2, SameThreads DEF ManagerOK
    <2>5. ManagerOK(R, DummyPlaces)'
      BY <2>3, <2>4 DEF ManagerOK
    <2>6. slices \in Seq(Slice) /\ slices' \in Seq(Slice)
      BY <1>1 DEF DummyIInv, TestbedOK
    <2> QED
      BY <1>1, <2>1, <2>5, <2>6, SameSlices, AskManaged
  <1> QED
    BY <1>1, <1>2, ManagerOnly

-----------------------------------------------------------------------------
(* The manager with the driver of IoT-LAB *)

\* An exception of the driver's follows a failure, or what the request lacks.
Raising ==
  /\ alone \in [Workers -> BOOLEAN]
  /\ \A w \in Workers : pc[w] = "raised" /\ Undisturbed(w) => ~Complete(w)

\* The dummy testbed has nothing, and no thread is at it.
NoDummy ==
  /\ slices = <<>> /\ rows = [s \in {} |-> ""] /\ asked = [n \in {} |-> ""]
  /\ NoLocals

IotManaged == ManagerOK(IotRequest, Places) /\ Raising

LEMMA IotGoes ==
  ASSUME IotManaged, NEW w \in Workers, pc[w] # "idle", NEW place \in Places \ {"idle"}, Go(w, place),
         UNCHANGED <<clients, queue, handled, job, crossed>>,
         \/ alone' = alone /\ (place # "raised" \/ ~Complete(w))
         \/ alone' = [alone EXCEPT ![w] = FALSE]
  PROVE  IotManaged'
  <1>1. PICK R, P : R = IotRequest /\ P = Places
    OBVIOUS
  <1>2. ManagerOK(R, P) /\ place \in P \ {"idle"}
    BY <1>1 DEF IotManaged
  <1>3. ManagerOK(R, P)'
    BY <1>2, GoTyped
  <1>4. alone' \in [Workers -> BOOLEAN]
    BY DEF IotManaged, Raising
  <1>5. pc' = [pc EXCEPT ![w] = place] /\ pc \in [Workers -> P]
    BY <1>2 DEF Go, ManagerOK, ThreadsOK
  <1>6. ASSUME NEW v \in Workers, pc'[v] = "raised", Undisturbed(v)' PROVE ~Complete(v)'
    <2>1. CASE v = w
      <3>1. place = "raised"
        BY <1>5, <1>6, <2>1
      <3>2. alone'[w]
        BY <1>6, <2>1 DEF Undisturbed
      <3>3. ~Complete(w)
        BY <3>1, <3>2 DEF IotManaged, Raising
      <3> QED
        BY <2>1, <3>3 DEF Complete
    <2>2. CASE v # w
      <3>1. pc[v] = "raised"
        BY <1>5, <1>6, <2>2
      <3>2. alone'[v] => alone[v]
        BY <2>2 DEF IotManaged, Raising
      <3>3. Undisturbed(v)
        BY <1>6, <3>2 DEF Undisturbed
      <3>4. ~Complete(v)
        BY <3>1, <3>3 DEF IotManaged, Raising
      <3> QED
        BY <3>4 DEF Complete
    <2> QED
      BY <2>1, <2>2
  <1> QED
    BY <1>1, <1>3, <1>4, <1>6 DEF IotManaged, Raising

\* A step after which no thread is raised that was not, nor alone that was not.
LEMMA RaisingStays ==
  ASSUME Raising, alone' \in [Workers -> BOOLEAN], crossed => crossed',
         \A v \in Workers :
           pc'[v] = "raised" => pc[v] = "raised" /\ (alone'[v] => alone[v]) /\ job'[v] = job[v]
  PROVE  Raising'
  BY DEF Raising, Undisturbed, Complete

LEMMA IotReplies ==
  ASSUME IotManaged, NEW w \in Workers, Reply(w)
  PROVE  IotManaged'
  <1>1. PICK R, P : R = IotRequest /\ P = Places
    OBVIOUS
  <1>2. ManagerOK(R, P) /\ "idle" \in P
    BY <1>1 DEF IotManaged, Places
  <1>3. ManagerOK(R, P)'
    BY <1>2, ReplyTyped
  <1>4. pc' = [pc EXCEPT ![w] = "idle"] /\ alone' = [alone EXCEPT ![w] = FALSE] /\ crossed' = crossed
        /\ pc \in [Workers -> P]
    BY <1>2 DEF Reply, Go, ManagerOK, ThreadsOK
  <1>5. alone' \in [Workers -> BOOLEAN] /\ \A v \in Workers : alone'[v] => alone[v]
    BY <1>4 DEF IotManaged, Raising
  <1>6. \A v \in Workers : pc'[v] = "raised" => pc[v] = "raised" /\ job'[v] = job[v]
    BY <1>2, <1>4 DEF Reply, ManagerOK, ThreadsOK
  <1>7. Raising'
    BY <1>4, <1>5, <1>6, RaisingStays DEF IotManaged
  <1> QED
    BY <1>1, <1>3, <1>7 DEF IotManaged

LEMMA IotTakes ==
  ASSUME IotManaged, NEW w \in Workers, Take(w)
  PROVE  IotManaged'
  <1>1. PICK R, P : R = IotRequest /\ P = Places
    OBVIOUS
  <1>2. ManagerOK(R, P) /\ None \notin Transmissions(R)
    BY <1>1, IotRequestAssumption DEF IotManaged
  <1>3. \A r \in R : r.kind \in P \ {"idle", "raised"}
    BY <1>1 DEF IotRequest, Places
  <1>4. ManagerOK(R, P)'
    BY <1>2, <1>3, TakeTyped
  <1>5. PICK kind : kind = Head(queue).request.kind
    OBVIOUS
  <1>6. kind # "raised"
    <2>1. Head(queue) \in Transmissions(R)
      BY <1>2, NextIs DEF Take
    <2> QED
      BY <1>3, <1>5, <2>1 DEF Transmissions
  <1>7. CASE UNCHANGED <<handled, job, pc, history>>
    <2>1. Raising'
      BY <1>7, RaisingStays DEF IotManaged, Raising, history
    <2> QED
      BY <1>1, <1>4, <2>1 DEF IotManaged
  <1>8. CASE /\ Go(w, kind)
             /\ job' = [job EXCEPT ![w] = Head(queue)]
             /\ alone' = [v \in Workers |-> IF v = w THEN ~Overlapped(w) ELSE alone[v] /\ kind \notin Changes]
             /\ crossed' = (crossed \/ \E v \in Workers \ {w} :
                               kind = "Allocate" /\ Busy(v) /\ Kind(v) = "Allocate")
    <2>1. pc' = [pc EXCEPT ![w] = kind] /\ pc \in [Workers -> P]
      BY <1>2, <1>8 DEF Go, ManagerOK, ThreadsOK
    <2>2. \A v \in Workers : pc'[v] = "raised" => v # w /\ pc[v] = "raised" /\ job'[v] = job[v]
      BY <1>2, <1>6, <1>8, <2>1 DEF ManagerOK, ThreadsOK
    <2>3. alone' \in [Workers -> BOOLEAN]
      <3>1. \A v \in Workers : (IF v = w THEN ~Overlapped(w) ELSE alone[v] /\ kind \notin Changes) \in BOOLEAN
        BY DEF IotManaged, Raising
      <3> QED
        BY <1>8, <3>1
    <2>4. \A v \in Workers \ {w} : alone'[v] => alone[v]
      BY <1>8
    <2>5. crossed => crossed'
      BY <1>8, Zenon
    <2>6. Raising'
      BY <2>2, <2>3, <2>4, <2>5, RaisingStays DEF IotManaged
    <2> QED
      BY <1>1, <1>4, <2>6 DEF IotManaged
  <1> QED
    BY <1>5, <1>7, <1>8, Zenon DEF Take

LEMMA IotStepManaged ==
  ASSUME IotManaged, NEW w \in Workers, IotStep(w)
  PROVE  IotManaged'
  <1>1. ASSUME NEW place \in Places \ {"idle", "raised"}, pc[w] # "idle", On(w, place)
        PROVE  IotManaged'
    <2>1. Go(w, place) /\ UNCHANGED <<clients, queue, handled, job, crossed>> /\ alone' = alone
      BY <1>1 DEF On, history
    <2> QED
      BY <1>1, <2>1, IotGoes
  <1>2. ASSUME IotDone(w) PROVE IotManaged'
    BY <1>2, IotReplies DEF IotDone
  <1>3. CASE NotImplemented(w) \/ GetLogin(w) \/ NoExperiment(w)
    <2>1. ASSUME Raise(w), UNCHANGED alone, pc[w] # "idle", ~Complete(w) PROVE IotManaged'
      BY <2>1, IotGoes DEF Raise, Places
    <2> QED
      BY <1>1, <1>2, <1>3, <2>1 DEF NotImplemented, GetLogin, NoExperiment, Places
  <1>4. CASE AddUser(w) \/ AskAgain(w)
    BY <1>1, <1>4 DEF AddUser, AskAgain, Places
  <1>5. CASE ReserveNodes(w) \/ SaveLease(w)
    BY <1>1, <1>5 DEF ReserveNodes, SaveLease, Places
  <1>6. CASE AskJobs(w) \/ ReadLeases(w)
    BY <1>1, <1>6 DEF AskJobs, ReadLeases, Places
  <1>7. CASE CleanLeases(w)
    <2>1. pc[w] # "idle" /\ (IotDone(w) \/ On(w, "clean"))
      BY <1>7 DEF CleanLeases
    <2> QED
      BY <1>1, <1>2, <2>1 DEF Places
  <1>8. CASE Take(w)
    BY <1>8, IotTakes
  <1>9. CASE Handle(w)
    BY <1>9, IotReplies DEF Handle
  <1> QED
    BY <1>3, <1>4, <1>5, <1>6, <1>7, <1>8, <1>9, Zenon DEF IotStep

LEMMA IotFailManaged ==
  ASSUME IotManaged, NEW w \in Workers, IotLabFails(w)
  PROVE  IotManaged'
  <1>1. UNCHANGED <<clients, queue, handled, job, crossed>> /\ alone' = [alone EXCEPT ![w] = FALSE]
    BY DEF IotLabFails
  <1>2. PICK place \in Places \ {"idle"} : Go(w, place) /\ pc[w] # "idle"
    BY Zenon DEF IotLabFails, HttpError, CallFails, Unanswered, Places
  <1> QED
    BY <1>1, <1>2, IotGoes

LEMMA IotManagerSame ==
  ASSUME IotManaged, UNCHANGED <<call, status, line, queue, handled, job, pc, alone, crossed>>
  PROVE  IotManaged'
  <1>1. PICK R, P : R = IotRequest /\ P = Places
    OBVIOUS
  <1>2. CallsOK(R)'
    BY <1>1 DEF IotManaged, ManagerOK, CallsOK
  <1>3. ThreadsOK(R, P)'
    BY <1>1, SameThreads DEF IotManaged, ManagerOK
  <1>4. Raising'
    BY RaisingStays DEF IotManaged, Raising
  <1> QED
    BY <1>1, <1>2, <1>3, <1>4 DEF IotManaged, ManagerOK

LEMMA IotNextManaged ==
  ASSUME IotManaged, IotNext
  PROVE  IotManaged'
  <1>1. PICK R, P : R = IotRequest /\ P = Places
    OBVIOUS
  <1>2. ManagerOK(R, P) /\ "idle" \in P /\ None \notin R
    BY <1>1, IotRequestAssumption DEF IotManaged, Places
  <1>3. ASSUME NEW c \in Calls, Client(c, IotRequest) PROVE IotManaged'
    <2>1. Client(c, R)
      BY <1>1, <1>3
    <2>2. ManagerOK(R, P)'
      BY <1>2, <2>1, ClientTyped
    <2>3. UNCHANGED <<job, pc, alone, crossed>>
      BY <1>3 DEF Client, Send, Transmit, Break, LineIsDown, history
    <2>4. Raising'
      BY <2>3, RaisingStays DEF IotManaged, Raising
    <2> QED
      BY <1>1, <2>2, <2>4 DEF IotManaged
  <1>4. CASE JobEnds
    BY <1>4, IotManagerSame DEF JobEnds, manager, clients, history
  <1>5. CASE IotRestart
    <2>1. Restart
      BY <1>5 DEF IotRestart
    <2>2. ManagerOK(R, P)'
      BY <1>2, <2>1, RestartTyped
    <2>3. Raising'
      BY <2>1 DEF Restart, Raising
    <2> QED
      BY <1>1, <2>2, <2>3 DEF IotManaged
  <1>6. ASSUME NEW w \in Workers, IotStep(w) \/ IotLabFails(w) PROVE IotManaged'
    BY <1>6, IotStepManaged, IotFailManaged
  <1> QED
    BY <1>3, <1>4, <1>5, <1>6, Zenon DEF IotNext

-----------------------------------------------------------------------------
(* The theorems of both drivers *)

\* What holds with either driver.
TestbedsIInv ==
  /\ flavour \in {"dummy", "iotlab"}
  /\ flavour = "dummy" => DummyIInv /\ IotInit
  /\ flavour = "iotlab" => IotManaged /\ NoDummy

LEMMA TestbedsStart == Init => TestbedsIInv
  <1> SUFFICES ASSUME Init PROVE TestbedsIInv
    OBVIOUS
  <1>1. ManagerInit /\ IotInit
    BY DEF Init
  <1>2. CASE flavour = "dummy" /\ DummyInit
    BY <1>1, <1>2, DummyStarts DEF TestbedsIInv
  <1>3. CASE flavour = "iotlab" /\ NoDummy
    <2>1. CallsOK(IotRequest)
      BY <1>1 DEF ManagerInit, CallsOK
    <2>2. ThreadsOK(IotRequest, Places)
      BY <1>1 DEF ManagerInit, ThreadsOK, Idle, Places
    <2>3. Raising
      BY <1>1 DEF ManagerInit, Raising
    <2> QED
      BY <1>3, <2>1, <2>2, <2>3 DEF TestbedsIInv, IotManaged, ManagerOK
  <1> QED
    BY <1>2, <1>3 DEF Init, NoDummy

LEMMA TestbedsGoOn == TestbedsIInv /\ [Next]_vars => TestbedsIInv'
  <1> SUFFICES ASSUME TestbedsIInv, [Next]_vars PROVE TestbedsIInv'
    OBVIOUS
  <1>1. flavour' = flavour
    BY DEF Next, vars
  <1>2. CASE flavour = "dummy"
    <2>1. DummyIInv /\ IotInit
      BY <1>2 DEF TestbedsIInv
    <2>2. UNCHANGED iotVars
      BY <1>2 DEF Next, vars
    <2>3. IotInit'
      BY <2>1, <2>2 DEF IotInit, NoIotLocals, iotVars, iotTables, iotLocals
    <2>4. ASSUME DummyNext PROVE DummyIInv'
      BY <2>1, <2>4, DummyNextKeeps
    <2>5. ASSUME UNCHANGED vars PROVE DummyIInv'
      <3>1. UNCHANGED <<manager, dummyVars>>
        BY <2>5 DEF vars
      <3> QED
        BY <2>1, <3>1, DummyStutters
    <2>6. DummyIInv'
      BY <1>2, <2>4, <2>5 DEF Next
    <2> QED
      BY <1>1, <1>2, <2>3, <2>6 DEF TestbedsIInv
  <1>3. CASE flavour = "iotlab"
    <2>1. IotManaged /\ NoDummy
      BY <1>3 DEF TestbedsIInv
    <2>2. UNCHANGED dummyVars
      BY <1>3 DEF Next, vars
    <2>3. NoDummy'
      BY <2>1, <2>2 DEF NoDummy, NoLocals, dummyVars, testbed, locals
    <2>4. ASSUME IotNext PROVE IotManaged'
      BY <2>1, <2>4, IotNextManaged
    <2>5. ASSUME UNCHANGED vars PROVE IotManaged'
      <3>1. UNCHANGED <<call, status, line, queue, handled, job, pc, alone, crossed>>
        BY <2>5 DEF vars, manager, clients, history
      <3> QED
        BY <2>1, <3>1, IotManagerSame
    <2>6. IotManaged'
      BY <1>3, <2>4, <2>5 DEF Next
    <2> QED
      BY <1>1, <1>3, <2>3, <2>6 DEF TestbedsIInv
  <1> QED
    BY <1>2, <1>3 DEF TestbedsIInv

LEMMA DummyTyped ==
  ASSUME TestbedOK, LocalsOK
  PROVE  DummyTypeOK
  <1>1. Len(slices) \in Nat /\ DOMAIN slices = 1 .. Len(slices) /\ \A i \in 1 .. Len(slices) : slices[i] \in Slice
    BY ElementOfSeq, LenProperties DEF TestbedOK
  <1>2. \A w \in Workers : slice[w] \in 0 .. Len(slices)
    BY <1>1 DEF LocalsOK
  <1>3. \A s \in DOMAIN rows : rows[s] \in States
    BY DEF TestbedOK
  <1>4. DOMAIN rows \subseteq (1 .. Len(slices)) \X Nodes
    BY DEF TestbedOK
  <1>5. \A w \in Workers : nodes[w] \subseteq Nodes /\ found[w] \subseteq (1 .. Len(slices)) \X Nodes
    BY DEF LocalsOK
  <1> QED
    BY <1>1, <1>2, <1>3, <1>4, <1>5 DEF DummyTypeOK

LEMMA NoDummyTyped ==
  ASSUME NoDummy
  PROVE  DummyTypeOK
  <1>1. slices = <<>> /\ Len(slices) = 0 /\ DOMAIN slices = {} /\ DOMAIN rows = {}
    BY EmptySeq DEF NoDummy
  <1>2. \A w \in Workers : slice[w] \in 0 .. Len(slices) /\ nodes[w] = {} /\ found[w] = {}
    BY <1>1 DEF NoDummy, NoLocals
  <1> QED
    BY <1>1, <1>2 DEF DummyTypeOK

LEMMA NoDummyShown ==
  ASSUME NoDummy
  PROVE  Shown = asked
  <1>1. Len(slices) = 0
    BY EmptySeq DEF NoDummy
  <1>2. Shown = [n \in {} |-> IF <<Len(slices), n>> \in DOMAIN rows THEN rows[<<Len(slices), n>>] ELSE "geni_unallocated"]
    BY <1>1 DEF Shown
  <1> QED
    BY <1>2 DEF NoDummy

LEMMA TestbedsInvariance == Spec => [](TestbedsIInv /\ FlavourIInv)
  BY TestbedsStart, TestbedsGoOn, FlavourInit, FlavourNext, PTL DEF Spec

\* Whatever overlaps, fails or stops, the manager's and the drivers' variables hold
\* what they may, with either driver.
THEOREM TestbedsTyped == Spec => []TestbedsTypeOK
  <1>1. TestbedsIInv /\ FlavourIInv => TestbedsTypeOK
    <2> SUFFICES ASSUME TestbedsIInv, FlavourIInv PROVE TestbedsTypeOK
      OBVIOUS
    <2>1. CASE flavour = "dummy"
      <3>1. ManagerTypeOK
        <4>1. PICK R, P : ManagerOK(R, P)
          BY <2>1 DEF TestbedsIInv, DummyIInv
        <4> QED
          BY <4>1, ManagerTyped
      <3>2. DummyTypeOK
        BY <2>1, DummyTyped DEF TestbedsIInv, DummyIInv
      <3>3. IotTypeOK
        BY <2>1 DEF TestbedsIInv, IotInit, NoIotLocals, IotTypeOK
      <3> QED
        BY <3>1, <3>2, <3>3 DEF TestbedsTypeOK
    <2>2. CASE flavour = "iotlab"
      <3>1. ManagerTypeOK
        <4>1. PICK R, P : ManagerOK(R, P)
          BY <2>2 DEF TestbedsIInv, IotManaged
        <4> QED
          BY <4>1, ManagerTyped
      <3>2. DummyTypeOK
        BY <2>2, NoDummyTyped DEF TestbedsIInv
      <3>3. IotTypeOK
        BY <2>2 DEF FlavourIInv, IotIInv, LeasesIInv, JobsOK, IotTypeOK
      <3> QED
        BY <3>1, <3>2, <3>3 DEF TestbedsTypeOK
    <2> QED
      BY <2>1, <2>2 DEF TestbedsIInv
  <1> QED
    BY <1>1, TestbedsInvariance, PTL

\* A request that nothing disturbs ends in an exception from within the driver
\* (Raise) only where the driver has no answer to such a request: what earlier
\* ones left behind does not stand in its way.
THEOREM NothingSticks == Spec => []NeverStuck
  <1>1. TestbedsIInv => NeverStuck
    BY DEF TestbedsIInv, DummyIInv, IotManaged, Raising, NeverStuck, Excused
  <1> QED
    BY <1>1, TestbedsInvariance, PTL

\* Once a request has run undisturbed, Describe shows the slivers that were asked
\* for and no others, whatever failed, overlapped or was cut short before it.
THEOREM SlicesAsAsked == Spec => []AsAsked
  <1>1. TestbedsIInv => AsAsked
    <2> SUFFICES ASSUME TestbedsIInv, \A w \in Workers : ~Changing(w), asked # None PROVE Shown = asked
      BY DEF AsAsked
    <2>1. CASE flavour = "dummy"
      BY <2>1 DEF TestbedsIInv, DummyIInv, Clear
    <2>2. CASE flavour = "iotlab"
      BY <2>2, NoDummyShown DEF TestbedsIInv
    <2> QED
      BY <2>1, <2>2 DEF TestbedsIInv
  <1> QED
    BY <1>1, TestbedsInvariance, PTL
=============================================================================
