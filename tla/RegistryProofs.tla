--------------------------- MODULE RegistryProofs ---------------------------
(***************************************************************************)
(* Theorems about Registry, for any slices, users, keys, workers and       *)
(* bounds: the type invariant, which needs to know where a worker's        *)
(* pointer is set; that researchers stay rows of users and that the key of *)
(* a record opens its account, whoever overlaps; and, when clients do not  *)
(* send two requests on one name at once, that names are unique, and, when *)
(* no two names are one on the testbed either, that once a change is       *)
(* complete the registry database and the testbed agree on the record and  *)
(* on the researchers of a slice. Every commit is then also one step of    *)
(* the directory that readers see. And about the trusted roots of the      *)
(* interface, for any peers and bounds: who gets in is who has a chain up  *)
(* to a trusted root, a running server trusts its own root, and each root  *)
(* installed has a record.                                                 *)
(***************************************************************************)
EXTENDS RegistryServer, TLAPS

\* Where a worker has a request, and where it has a testbed pointer.
Holds(w) ==
    /\ pc[w] # "idle" => job[w] # None
    /\ job[w] # None => (job[w].users # None => job[w].key = None)
    /\ pc[w] \in {"flush", "account", "insert", "update", "erase", "delete",
                  "lookup", "compare", "apply"} => ptr[w] \in Id
    /\ pc[w] = "write" => (job[w].key = None => ptr[w] \in Id)

Control == \A w \in Workers : Holds(w)

\* TypeOK in three parts, one for each group of variables that change together.
StoresOK ==
    /\ db \in [Id -> Row \cup {None}]
    /\ testbed \in [Id -> Object \cup {None}]

WorkersOK ==
    /\ pc \in [Workers -> Label]
    /\ job \in [Workers -> Job \cup {None}]
    /\ ptr \in [Workers -> Id \cup {None}]
    /\ keep \in [Workers -> SUBSET Id]
    /\ link \in [Workers -> SUBSET Id]
    /\ add \in [Workers -> SUBSET Id]
    /\ del \in [Workers -> SUBSET Id]
    /\ Control

HistoryOK ==
    /\ requests \in 0 .. MaxRequests
    /\ failures \in 0 .. MaxFailures
    /\ torn \in SUBSET Names
    /\ wanted \in [Slices -> SUBSET Users]

IInv == StoresOK /\ WorkersOK /\ HistoryOK

-----------------------------------------------------------------------------
(* Types of what the actions build *)

LEMMA RowsOfType == \A hrns : RowsOf(hrns) \in SUBSET Id
  BY DEF RowsOf

LEMMA ObjectsOfType == \A n : ObjectsOf(n) \in SUBSET Id
  BY DEF ObjectsOf

LEMMA NamesakesType == \A n : Namesakes(n) \in SUBSET Id
  BY DEF Namesakes

LEMMA NoneIsNothing == None \notin Names \cup Id \cup Row \cup Object \cup Job
  BY NamesAssumption, IdsAssumption, BoundsAssumption, NoneAssumption DEF Names, Id

LEMMA NewRowType ==
  ASSUME NEW j \in Job, NEW p \in Id, NEW rs \in SUBSET Id
  PROVE  NewRow(j, p, rs) \in Row
  BY DEF NewRow, Job, Row

LEMMA NewObjectType ==
  ASSUME NEW n \in Names
  PROVE  NewObject(n) \in Object
  BY DEF NewObject, Object

-----------------------------------------------------------------------------
(* Type correctness *)

LEMMA InitInv == Init => IInv
  <1> SUFFICES ASSUME Init PROVE IInv
    OBVIOUS
  <1>1. db \in [Id -> Row \cup {None}]
    BY DEF Init, Row, Id, Names
  <1>2. testbed \in [Id -> Object \cup {None}]
    BY NewObjectType DEF Init
  <1>3. wanted \in [Slices -> SUBSET Users]
    BY DEF Init
  <1>4. requests \in 0 .. MaxRequests /\ failures \in 0 .. MaxFailures
    BY BoundsAssumption DEF Init
  <1>5. Control
    BY DEF Init, Control, Holds
  <1> QED
    BY <1>1, <1>2, <1>3, <1>4, <1>5
       DEF Init, IInv, StoresOK, WorkersOK, HistoryOK, Label

\* A worker that has work has a request, whose fields are known.
LEMMA JobType ==
  ASSUME WorkersOK, NEW w \in Workers, pc[w] # "idle"
  PROVE  /\ job[w] \in Job
         /\ job[w].hrn \in Names /\ job[w].row \in Id
         /\ job[w].key \in Keys \cup {None}
         /\ job[w].users # None => job[w].users \in SUBSET Users
  <1>1. job[w] \in Job
    BY DEF WorkersOK, Control, Holds
  <1> QED
    BY <1>1 DEF Job

\* A worker that answers its request leaves the others as they are.
LEMMA IdleInv ==
  ASSUME WorkersOK, NEW w \in Workers, Idle(w)
  PROVE  WorkersOK'
  BY DEF WorkersOK, Control, Holds, Idle, Goto, Label

LEMMA AbortInv ==
  ASSUME IInv, NEW w \in Workers, pc[w] # "idle", Abort(w)
  PROVE  IInv'
  <1>1. WorkersOK'
    BY IdleInv DEF Abort, IInv
  <1>2. HistoryOK'
    BY JobType DEF Abort, IInv, HistoryOK
  <1>3. StoresOK'
    BY DEF Abort, IInv, StoresOK, stores
  <1> QED
    BY <1>1, <1>2, <1>3 DEF IInv

LEMMA StartInv ==
  ASSUME IInv, NEW w \in Workers, NEW j \in Job, NEW p \in Id \cup {None},
         NEW label \in Label \ {"idle", "write"}, Start(w, j, p, label),
         j.users # None => j.key = None,
         p \in Id \/ label \in {"find", "link"}
  PROVE  IInv'
  <1>1. StoresOK' /\ HistoryOK'
    BY BoundsAssumption DEF Start, IInv, StoresOK, HistoryOK, stores
  <1>2. Control'
    BY NoneAssumption DEF Start, At, Goto, IInv, WorkersOK, Control, Holds, Label
  <1>3. WorkersOK'
    BY <1>2 DEF Start, At, Goto, IInv, WorkersOK, Label
  <1> QED
    BY <1>1, <1>3 DEF IInv

-----------------------------------------------------------------------------
(* One lemma per action *)

LEMMA RegisterInv ==
  ASSUME IInv, NEW w \in Workers, Register(w)
  PROVE  IInv'
  <1>0. PICK n \in Names : \E us \in UsersArg(n), k \in KeyArg(n) :
           Start(w, [op |-> "Register", hrn |-> n, row |-> requests + 1,
                     users |-> us, key |-> k],
                 None, IF us = None THEN "find" ELSE "link")
    BY DEF Register
  <1>1. PICK us \in UsersArg(n), k \in KeyArg(n) :
           Start(w, [op |-> "Register", hrn |-> n, row |-> requests + 1,
                     users |-> us, key |-> k],
                 None, IF us = None THEN "find" ELSE "link")
    BY <1>0
  <1>2. requests + 1 \in Id
    BY <1>1, BoundsAssumption DEF Start, IInv, HistoryOK, Id
  <1>3. us # None => k = None
    BY NamesAssumption DEF UsersArg, KeyArg
  <1>4. [op |-> "Register", hrn |-> n, row |-> requests + 1, users |-> us, key |-> k] \in Job
    BY <1>2 DEF Job, UsersArg, KeyArg
  <1>5. (IF us = None THEN "find" ELSE "link") \in Label \ {"idle", "write"}
    BY DEF Label
  <1> QED
    BY <1>1, <1>3, <1>4, <1>5, StartInv

LEMMA UpdateInv ==
  ASSUME IInv, NEW w \in Workers, Update(w)
  PROVE  IInv'
  <1>0. PICK n \in Names : \E us \in UsersArg(n), k \in KeyArg(n), i \in RowsOf({n}) :
           Start(w, [op |-> "Update", hrn |-> n, row |-> i, users |-> us, key |-> k],
                 db[i].pointer, IF us = None THEN "update" ELSE "flush")
    BY DEF Update
  <1>1. PICK us \in UsersArg(n), k \in KeyArg(n), i \in RowsOf({n}) :
           Start(w, [op |-> "Update", hrn |-> n, row |-> i, users |-> us, key |-> k],
                 db[i].pointer, IF us = None THEN "update" ELSE "flush")
    BY <1>0
  <1>2. i \in Id /\ db[i].pointer \in Id
    BY DEF RowsOf, IInv, StoresOK, Row
  <1>3. us # None => k = None
    BY NamesAssumption DEF UsersArg, KeyArg
  <1>4. [op |-> "Update", hrn |-> n, row |-> i, users |-> us, key |-> k] \in Job
    BY <1>2 DEF Job, UsersArg, KeyArg
  <1>5. (IF us = None THEN "update" ELSE "flush") \in Label \ {"idle", "write"}
    BY DEF Label
  <1> QED
    BY <1>1, <1>2, <1>3, <1>4, <1>5, StartInv

LEMMA RemoveInv ==
  ASSUME IInv, NEW w \in Workers, Remove(w)
  PROVE  IInv'
  <1>0. PICK n \in Names : \E i \in RowsOf({n}) :
           Start(w, [op |-> "Remove", hrn |-> n, row |-> i, users |-> None, key |-> None],
                 db[i].pointer, "erase")
    BY DEF Remove
  <1>1. PICK i \in RowsOf({n}) :
           Start(w, [op |-> "Remove", hrn |-> n, row |-> i, users |-> None, key |-> None],
                 db[i].pointer, "erase")
    BY <1>0
  <1>2. i \in Id /\ db[i].pointer \in Id
    BY DEF RowsOf, IInv, StoresOK, Row
  <1>3. [op |-> "Remove", hrn |-> n, row |-> i, users |-> None, key |-> None] \in Job
    BY <1>2 DEF Job
  <1>4. "erase" \in Label \ {"idle", "write"}
    BY DEF Label
  <1> QED
    BY <1>1, <1>2, <1>3, <1>4, StartInv

LEMMA LinkResearchersInv ==
  ASSUME IInv, NEW w \in Workers, LinkResearchers(w)
  PROVE  IInv'
  <1>1. StoresOK' /\ HistoryOK'
    BY DEF LinkResearchers, stores, IInv, StoresOK, HistoryOK
  <1>2. WorkersOK'
    BY RowsOfType DEF LinkResearchers, At, Goto, IInv, WorkersOK, Control, Holds, Label
  <1> QED
    BY <1>1, <1>2 DEF IInv

LEMMA FindObjectInv ==
  ASSUME IInv, NEW w \in Workers, FindObject(w)
  PROVE  IInv'
  <1>1. StoresOK' /\ HistoryOK'
    BY DEF FindObject, stores, IInv, StoresOK, HistoryOK
  <1>2. WorkersOK'
    BY NamesakesType
       DEF FindObject, At, Goto, Registered, IInv, WorkersOK, Control, Holds, Label
  <1> QED
    BY <1>1, <1>2 DEF IInv

LEMMA MakeObjectInv ==
  ASSUME IInv, NEW w \in Workers, MakeObject(w)
  PROVE  IInv'
  <1>1. CASE Namesakes(job[w].hrn) = {}
    <2>1. job[w].row \in Id /\ NewObject(job[w].hrn) \in Object
      BY JobType, NewObjectType DEF MakeObject, At, IInv
    <2>2. StoresOK' /\ HistoryOK'
      BY <1>1, <2>1 DEF MakeObject, IInv, StoresOK, HistoryOK
    <2>3. WorkersOK'
      BY <1>1, <2>1
         DEF MakeObject, At, Goto, Registered, IInv, WorkersOK, Control, Holds, Label
    <2> QED
      BY <2>2, <2>3 DEF IInv
  <1>2. CASE Namesakes(job[w].hrn) # {}
    BY <1>2, AbortInv DEF MakeObject, At
  <1> QED
    BY <1>1, <1>2

\* Adding a key or a member to an object leaves it an object.
LEMMA ObjectChanges ==
  ASSUME NEW o \in Object
  PROVE  /\ \A k \in Keys : [o EXCEPT !.keys = @ \cup {k}] \in Object
         /\ \A t \in Id : [o EXCEPT !.members = @ \cup {t}] \in Object
         /\ \A t : [o EXCEPT !.members = @ \ {t}] \in Object
  BY DEF Object

LEMMA SetAccountInv ==
  ASSUME IInv, NEW w \in Workers, SetAccount(w)
  PROVE  IInv'
  <1>1. CASE testbed[ptr[w]] = None
    BY <1>1, AbortInv DEF SetAccount, At
  <1>2. CASE testbed[ptr[w]] # None
    <2>1. ptr[w] \in Id /\ testbed[ptr[w]] \in Object
      BY <1>2 DEF SetAccount, At, IInv, StoresOK, WorkersOK, Control, Holds
    <2>2. job[w].key \in Keys \cup {None}
      BY JobType DEF SetAccount, At, IInv
    <2>3. StoresOK'
      <3>1. CASE job[w].key = None
        BY <1>2, <3>1 DEF SetAccount, IInv, StoresOK
      <3>2. CASE job[w].key # None
        BY <1>2, <2>1, <2>2, <3>2, ObjectChanges DEF SetAccount, IInv, StoresOK
      <3> QED
        BY <3>1, <3>2
    <2>4. WorkersOK'
      BY <1>2 DEF SetAccount, At, Goto, locals, IInv, WorkersOK, Control, Holds, Label
    <2>5. HistoryOK'
      BY <1>2 DEF SetAccount, IInv, HistoryOK
    <2> QED
      BY <2>3, <2>4, <2>5 DEF IInv
  <1> QED
    BY <1>1, <1>2

\* What follows the commit of Register and Update.
LEMMA AfterCommitInv ==
  ASSUME IInv, NEW w \in Workers, pc[w] \in {"insert", "write"}, AfterCommit(w),
         UNCHANGED <<requests, failures>>
  PROVE  WorkersOK' /\ HistoryOK'
  <1>1. CASE job[w].users # None
    <2>1. ptr[w] \in Id
      BY <1>1 DEF IInv, WorkersOK, Control, Holds
    <2>2. job[w].users \in SUBSET Users
      BY <1>1, JobType DEF IInv
    <2>3. WorkersOK'
      BY <1>1, <2>1 DEF AfterCommit, Goto, locals, IInv, WorkersOK, Control, Holds, Label
    <2>4. HistoryOK'
      BY <1>1, <2>2 DEF AfterCommit, IInv, HistoryOK
    <2> QED
      BY <2>3, <2>4
  <1>2. CASE job[w].users = None
    <2>1. WorkersOK'
      BY <1>2, IdleInv DEF AfterCommit, IInv
    <2>2. HistoryOK'
      BY <1>2 DEF AfterCommit, IInv, HistoryOK
    <2> QED
      BY <2>1, <2>2
  <1> QED
    BY <1>1, <1>2

LEMMA InsertRowInv ==
  ASSUME IInv, NEW w \in Workers, InsertRow(w)
  PROVE  IInv'
  <1>1. CASE \A i \in link[w] : db[i] # None
    <2>1. NewRow(job[w], ptr[w], link[w]) \in Row
      BY JobType, NewRowType DEF InsertRow, At, IInv, WorkersOK, Control, Holds
    <2>2. StoresOK'
      BY <1>1, <2>1 DEF InsertRow, IInv, StoresOK
    <2>3. WorkersOK' /\ HistoryOK'
      BY <1>1, AfterCommitInv DEF InsertRow, At
    <2> QED
      BY <2>2, <2>3 DEF IInv
  <1>2. CASE ~ \A i \in link[w] : db[i] # None
    BY <1>2, AbortInv DEF InsertRow, At
  <1> QED
    BY <1>1, <1>2

LEMMA FlushRowInv ==
  ASSUME IInv, NEW w \in Workers, FlushRow(w)
  PROVE  IInv'
  <1>1. CASE db[job[w].row] = None
    BY <1>1, AbortInv DEF FlushRow, At
  <1>2. CASE db[job[w].row] # None
    <2>1. StoresOK' /\ HistoryOK'
      BY <1>2 DEF FlushRow, stores, IInv, StoresOK, HistoryOK
    <2>2. WorkersOK'
      BY <1>2, RowsOfType DEF FlushRow, At, Goto, IInv, WorkersOK, Control, Holds, Label
    <2> QED
      BY <2>1, <2>2 DEF IInv
  <1> QED
    BY <1>1, <1>2

\* A failed driver.update, swallowed or not, leads to the write.
LEMMA SwallowFailureInv ==
  ASSUME IInv, NEW w \in Workers, pc[w] = "update", SwallowFailure(w), Goto(w, "write"),
         UNCHANGED <<db, job, keep, link, add, del, requests, wanted>>,
         failures' \in 0 .. MaxFailures
  PROVE  IInv'
  <1>1. StoresOK'
    BY DEF SwallowFailure, IInv, StoresOK
  <1>2. HistoryOK'
    BY JobType DEF SwallowFailure, IInv, HistoryOK
  <1>3. WorkersOK'
    BY DEF SwallowFailure, Goto, IInv, WorkersOK, Control, Holds, Label
  <1> QED
    BY <1>1, <1>2, <1>3 DEF IInv

LEMMA UpdateObjectInv ==
  ASSUME IInv, NEW w \in Workers, UpdateObject(w)
  PROVE  IInv'
  <1>1. CASE testbed[ptr[w]] = None
    <2>1. failures' \in 0 .. MaxFailures
      BY DEF UpdateObject, IInv, HistoryOK
    <2> QED
      BY <1>1, <2>1, SwallowFailureInv DEF UpdateObject, At
  <1>2. CASE testbed[ptr[w]] # None
    <2>1. ptr[w] \in Id /\ testbed[ptr[w]] \in Object
      BY <1>2 DEF UpdateObject, At, IInv, StoresOK, WorkersOK, Control, Holds
    <2>2. job[w].key \in Keys \cup {None}
      BY JobType DEF UpdateObject, At, IInv
    <2>3. StoresOK'
      <3>1. CASE job[w].key = None
        BY <1>2, <3>1 DEF UpdateObject, IInv, StoresOK
      <3>2. CASE job[w].key # None
        BY <1>2, <2>1, <2>2, <3>2, ObjectChanges DEF UpdateObject, IInv, StoresOK
      <3> QED
        BY <3>1, <3>2
    <2>4. WorkersOK'
      BY <1>2, <2>1 DEF UpdateObject, At, Goto, IInv, WorkersOK, Control, Holds, Label
    <2>5. HistoryOK'
      BY <1>2 DEF UpdateObject, IInv, HistoryOK
    <2> QED
      BY <2>3, <2>4, <2>5 DEF IInv
  <1> QED
    BY <1>1, <1>2

LEMMA UpdatedRowType ==
  ASSUME IInv, NEW w \in Workers, pc[w] = "write", NEW row \in Row
  PROVE  UpdatedRow(row, w) \in Row
  <1>1. job[w].key \in Keys \cup {None}
    BY JobType DEF IInv
  <1>2. link[w] \in SUBSET Id
    BY DEF IInv, WorkersOK
  <1> QED
    BY <1>1, <1>2 DEF UpdatedRow, Row

LEMMA UpdatedRowFields ==
  ASSUME NEW row \in Row, NEW w
  PROVE  /\ UpdatedRow(row, w).hrn = row.hrn /\ UpdatedRow(row, w).pointer = row.pointer
         /\ UpdatedRow(row, w).researchers =
              IF job[w].users = None THEN row.researchers ELSE (row.researchers \cap keep[w]) \cup link[w]
         /\ UpdatedRow(row, w).key = IF job[w].key = None THEN row.key ELSE job[w].key
         /\ UpdatedRow(row, w).lost = IF job[w].key = None THEN row.lost ELSE ptr[w] = None
  BY DEF UpdatedRow, Row

LEMMA WriteRowInv ==
  ASSUME IInv, NEW w \in Workers, WriteRow(w)
  PROVE  IInv'
  <1>1. CASE db[job[w].row] # None /\ \A i \in link[w] : db[i] # None
    <2>1. job[w].row \in Id /\ db[job[w].row] \in Row
      BY <1>1, JobType DEF WriteRow, At, IInv, StoresOK
    <2>2. UpdatedRow(db[job[w].row], w) \in Row
      BY <2>1, UpdatedRowType DEF WriteRow, At
    <2>3. StoresOK'
      BY <1>1, <2>2 DEF WriteRow, IInv, StoresOK
    <2>4. WorkersOK' /\ HistoryOK'
      BY <1>1, AfterCommitInv DEF WriteRow, At
    <2> QED
      BY <2>3, <2>4 DEF IInv
  <1>2. CASE ~ (db[job[w].row] # None /\ \A i \in link[w] : db[i] # None)
    BY <1>2, AbortInv DEF WriteRow, At
  <1> QED
    BY <1>1, <1>2

LEMMA LookupLinksInv ==
  ASSUME IInv, NEW w \in Workers, LookupLinks(w)
  PROVE  IInv'
  <1>1. CASE db[job[w].row] = None
    BY <1>1, AbortInv DEF LookupLinks, At
  <1>2. CASE db[job[w].row] # None
    <2>1. {db[i].pointer : i \in RowsOf(job[w].users)} \in SUBSET Id
      BY DEF RowsOf, IInv, StoresOK, Row
    <2>2. StoresOK' /\ HistoryOK'
      BY <1>2 DEF LookupLinks, stores, IInv, StoresOK, HistoryOK
    <2>3. WorkersOK'
      BY <1>2, <2>1 DEF LookupLinks, At, Goto, IInv, WorkersOK, Control, Holds, Label
    <2> QED
      BY <2>2, <2>3 DEF IInv
  <1> QED
    BY <1>1, <1>2

LEMMA CompareLinksInv ==
  ASSUME IInv, NEW w \in Workers, CompareLinks(w)
  PROVE  IInv'
  <1>1. CASE testbed[ptr[w]] = None
    BY <1>1, AbortInv DEF CompareLinks, At
  <1>2. CASE testbed[ptr[w]] # None
    <2>1. testbed[ptr[w]].members \in SUBSET Id
      BY <1>2 DEF CompareLinks, At, IInv, StoresOK, WorkersOK, Control, Holds, Object
    <2>2. StoresOK' /\ HistoryOK'
      BY <1>2 DEF CompareLinks, stores, IInv, StoresOK, HistoryOK
    <2>3. WorkersOK'
      BY <1>2, <2>1 DEF CompareLinks, At, Goto, IInv, WorkersOK, Control, Holds, Label
    <2> QED
      BY <2>2, <2>3 DEF IInv
  <1> QED
    BY <1>1, <1>2

LEMMA ApplyLinkInv ==
  ASSUME IInv, NEW w \in Workers, ApplyLink(w)
  PROVE  IInv'
  <1>1. pc[w] = "apply" /\ pc[w] # "idle"
    BY DEF ApplyLink, At
  <1>2. ASSUME NEW t \in add[w], ~ (testbed[t] = None \/ testbed[ptr[w]] = None),
               testbed' = [testbed EXCEPT ![ptr[w]].members = @ \cup {t}],
               add' = [add EXCEPT ![w] = @ \ {t}],
               UNCHANGED <<db, pc, job, ptr, keep, link, del, requests, failures, torn, wanted>>
        PROVE  IInv'
    <2>1. t \in Id /\ testbed[ptr[w]] \in Object
      BY <1>1, <1>2 DEF IInv, StoresOK, WorkersOK, Control, Holds
    <2>2. StoresOK'
      BY <1>2, <2>1, ObjectChanges DEF IInv, StoresOK
    <2>3. WorkersOK' /\ HistoryOK'
      BY <1>2 DEF IInv, WorkersOK, HistoryOK, Control, Holds
    <2> QED
      BY <2>2, <2>3 DEF IInv
  <1>3. ASSUME NEW t \in del[w], ~ (testbed[t] = None \/ testbed[ptr[w]] = None),
               testbed' = [testbed EXCEPT ![ptr[w]].members = @ \ {t}],
               del' = [del EXCEPT ![w] = @ \ {t}],
               UNCHANGED <<db, pc, job, ptr, keep, link, add, requests, failures, torn, wanted>>
        PROVE  IInv'
    <2>1. testbed[ptr[w]] \in Object
      BY <1>1, <1>3 DEF IInv, StoresOK, WorkersOK, Control, Holds
    <2>2. StoresOK'
      BY <1>3, <2>1, ObjectChanges DEF IInv, StoresOK
    <2>3. WorkersOK' /\ HistoryOK'
      BY <1>3 DEF IInv, WorkersOK, HistoryOK, Control, Holds
    <2> QED
      BY <2>2, <2>3 DEF IInv
  <1>4. ASSUME Idle(w), torn' = torn \ {job[w].hrn}, UNCHANGED <<stores, requests, failures, wanted>>
        PROVE  IInv'
    <2>1. WorkersOK'
      BY <1>4, IdleInv DEF IInv
    <2> QED
      BY <1>4, <2>1 DEF stores, IInv, StoresOK, HistoryOK
  <1>5. ASSUME Abort(w) PROVE IInv'
    BY <1>1, <1>5, AbortInv
  <1> QED
    BY <1>2, <1>3, <1>4, <1>5 DEF ApplyLink

LEMMA EraseObjectInv ==
  ASSUME IInv, NEW w \in Workers, EraseObject(w)
  PROVE  IInv'
  <1>1. StoresOK'
    BY ObjectChanges DEF EraseObject, IInv, StoresOK
  <1>2. WorkersOK'
    BY DEF EraseObject, At, Goto, locals, IInv, WorkersOK, Control, Holds, Label
  <1>3. HistoryOK'
    BY DEF EraseObject, IInv, HistoryOK
  <1> QED
    BY <1>1, <1>2, <1>3 DEF IInv

LEMMA DeleteRowInv ==
  ASSUME IInv, NEW w \in Workers, DeleteRow(w)
  PROVE  IInv'
  <1>1. \A row \in Row, i \in Id : Unlinked(row, i) \in Row
    BY DEF Unlinked, Row
  <1>2. job[w].row \in Id
    BY JobType DEF DeleteRow, At, IInv
  <1>3. StoresOK'
    BY <1>1, <1>2 DEF DeleteRow, IInv, StoresOK
  <1>4. WorkersOK'
    BY IdleInv DEF DeleteRow, IInv
  <1>5. HistoryOK'
    BY DEF DeleteRow, IInv, HistoryOK
  <1> QED
    BY <1>3, <1>4, <1>5 DEF IInv

LEMMA TestbedFaultInv ==
  ASSUME IInv, NEW w \in Workers, TestbedFault(w)
  PROVE  IInv'
  <1>1. failures' \in 0 .. MaxFailures /\ UNCHANGED <<db, requests, wanted>>
    BY BoundsAssumption DEF TestbedFault, IInv, HistoryOK
  <1>2. CASE /\ pc[w] \in {"find", "make", "account", "compare", "apply", "erase"}
             /\ Idle(w)
             /\ torn' = torn \cup {job[w].hrn}
             /\ UNCHANGED testbed
    <2>1. WorkersOK'
      BY <1>2, IdleInv DEF IInv
    <2>2. HistoryOK'
      BY <1>1, <1>2, JobType DEF IInv, HistoryOK
    <2> QED
      BY <1>1, <1>2, <2>1, <2>2 DEF IInv, StoresOK
  <1>3. CASE /\ At(w, "update")
             /\ SwallowFailure(w)
             /\ Goto(w, "write")
             /\ UNCHANGED <<job, keep, link, add, del>>
    BY <1>1, <1>3, SwallowFailureInv DEF At
  <1> QED
    BY <1>2, <1>3 DEF TestbedFault

LEMMA CrashInv ==
  ASSUME IInv, Crash
  PROVE  IInv'
  <1>1. StoresOK'
    BY DEF Crash, stores, IInv, StoresOK
  <1>2. WorkersOK'
    BY DEF Crash, IInv, WorkersOK, Control, Holds, Label
  <1>3. HistoryOK'
    BY BoundsAssumption DEF Crash, IInv, HistoryOK
  <1> QED
    BY <1>1, <1>2, <1>3 DEF IInv

LEMMA StutterInv == IInv /\ UNCHANGED vars => IInv'
  BY DEF vars, stores, locals, IInv, StoresOK, WorkersOK, HistoryOK, Control, Holds

LEMMA NextInv == IInv /\ [Next]_vars => IInv'
  <1> SUFFICES ASSUME IInv, [Next]_vars PROVE IInv'
    OBVIOUS
  <1>1. CASE Crash
    BY <1>1, CrashInv
  <1>2. ASSUME NEW w \in Workers, Request(w) PROVE IInv'
    BY <1>2, RegisterInv, UpdateInv, RemoveInv DEF Request
  <1>3. ASSUME NEW w \in Workers, Step(w) PROVE IInv'
    BY <1>3, LinkResearchersInv, FindObjectInv, MakeObjectInv, SetAccountInv, InsertRowInv,
       FlushRowInv, UpdateObjectInv, WriteRowInv, LookupLinksInv, CompareLinksInv,
       ApplyLinkInv, EraseObjectInv, DeleteRowInv DEF Step
  <1>4. ASSUME NEW w \in Workers, TestbedFault(w) PROVE IInv'
    BY <1>4, TestbedFaultInv
  <1>5. CASE UNCHANGED vars
    BY <1>5, StutterInv
  <1> QED
    BY <1>1, <1>2, <1>3, <1>4, <1>5 DEF Next

\* Type correctness: whatever the interleaving of requests, testbed failures
\* and restarts, rows, objects and what workers remember keep their types; in
\* particular every row that is written carries a testbed pointer.
THEOREM TypeCorrect == Spec => []TypeOK
  <1>1. IInv => TypeOK
    BY DEF IInv, StoresOK, WorkersOK, HistoryOK, TypeOK
  <1> QED
    BY <1>1, InitInv, NextInv, PTL DEF Spec

-----------------------------------------------------------------------------
(* Names are unique when clients are exclusive *)

\* A Register that is on its way to its insert.
Inserting == {"link", "find", "make", "account", "insert"}

\* OneRecordPerName is not inductive.  No two workers serve one name, so that
\* what Register's query saw, that the name is free, still holds at its insert.
Alone ==
    \A v, w \in Workers :
        pc[v] # "idle" /\ pc[w] # "idle" /\ job[v].hrn = job[w].hrn => v = w
Free == \A w \in Workers : pc[w] \in Inserting => RowsOf({job[w].hrn}) = {}

Unique == OneRecordPerName /\ Alone /\ Free

LEMMA InitUnique == Init => Unique
  <1> SUFFICES ASSUME Init PROVE Unique
    OBVIOUS
  <1>1. \A i \in Id : db[i] # None => db[i].hrn = i
    BY DEF Init
  <1>2. Alone /\ Free
    BY DEF Init, Alone, Free, Inserting
  <1> QED
    BY <1>1, <1>2 DEF Unique, OneRecordPerName

\* A step that leaves the database and the requests alone.
LEMMA QuietUnique ==
  ASSUME IInv, Unique, NEW w \in Workers, NEW label, pc[w] # "idle",
         pc' = [pc EXCEPT ![w] = label], UNCHANGED <<db, job>>,
         label \in Inserting => pc[w] \in Inserting
  PROVE  Unique'
  <1>1. \A v \in Workers : pc'[v] = IF v = w THEN label ELSE pc[v]
    BY DEF IInv, WorkersOK
  <1>2. Alone'
    BY <1>1 DEF Unique, Alone
  <1>3. Free'
    BY <1>1 DEF Unique, Free, RowsOf
  <1>4. OneRecordPerName'
    BY DEF Unique, OneRecordPerName
  <1> QED
    BY <1>2, <1>3, <1>4 DEF Unique

\* A worker that answers its request takes nothing from the others.
LEMMA IdleAlone ==
  ASSUME IInv, Unique, NEW w \in Workers, Idle(w)
  PROVE  /\ Alone'
         /\ \A v \in Workers : pc'[v] \in Inserting =>
                v # w /\ pc[v] \in Inserting /\ job'[v] = job[v]
  BY DEF IInv, WorkersOK, Idle, Goto, Unique, Alone, Inserting

LEMMA IdleUnique ==
  ASSUME IInv, Unique, NEW w \in Workers, Idle(w), UNCHANGED db
  PROVE  Unique'
  <1>1. Free'
    BY IdleAlone DEF Unique, Free, RowsOf
  <1>2. OneRecordPerName'
    BY DEF Unique, OneRecordPerName
  <1> QED
    BY <1>1, <1>2, IdleAlone DEF Unique

LEMMA AbortUnique ==
  ASSUME IInv, Unique, NEW w \in Workers, Abort(w)
  PROVE  Unique'
  BY IdleUnique DEF Abort, stores

\* The guard of Start is what Exclusive means.
LEMMA StartUnique ==
  ASSUME Exclusive, IInv, Unique, NEW w \in Workers, NEW j \in Job, NEW p, NEW label,
         Start(w, j, p, label),
         label \in Inserting => Unregistered(j.hrn)
  PROVE  Unique'
  <1>1. /\ pc[w] = "idle" /\ ~ Busy(j.hrn) /\ db' = db
        /\ \A v \in Workers : /\ pc'[v] = IF v = w THEN label ELSE pc[v]
                              /\ job'[v] = IF v = w THEN j ELSE job[v]
    BY DEF Start, At, Goto, stores, IInv, WorkersOK
  <1>2. \A v \in Workers : v # w /\ pc[v] # "idle" => job[v].hrn # j.hrn
    BY <1>1 DEF Busy, IInv, WorkersOK, Control, Holds
  <1>3. Alone'
    BY <1>1, <1>2 DEF Unique, Alone
  <1>4. Free'
    BY <1>1 DEF Unique, Free, RowsOf, Unregistered
  <1>5. OneRecordPerName'
    BY <1>1 DEF Unique, OneRecordPerName
  <1> QED
    BY <1>3, <1>4, <1>5 DEF Unique

\* After the commit, a worker is idle or looks up its links.
LEMMA AfterCommitAlone ==
  ASSUME IInv, Unique, NEW w \in Workers, pc[w] # "idle", AfterCommit(w)
  PROVE  /\ Alone'
         /\ \A v \in Workers : pc'[v] \in Inserting =>
                v # w /\ pc[v] \in Inserting /\ job'[v] = job[v]
  <1>1. CASE job[w].users # None
    BY <1>1 DEF AfterCommit, Goto, IInv, WorkersOK, Unique, Alone, Inserting
  <1>2. CASE job[w].users = None
    BY <1>2, IdleAlone DEF AfterCommit
  <1> QED
    BY <1>1, <1>2

\* The insert: the name is free, and no other worker is inserting it.
LEMMA InsertRowUnique ==
  ASSUME IInv, Unique, NEW w \in Workers, InsertRow(w)
  PROVE  Unique'
  <1>1. CASE \A i \in link[w] : db[i] # None
    <2> DEFINE n == job[w].hrn
               new == NewRow(job[w], ptr[w], link[w])
    <2>1. /\ pc[w] = "insert" /\ job[w].row \in Id
          /\ db' = [db EXCEPT ![job[w].row] = new] /\ AfterCommit(w)
      BY <1>1, JobType DEF InsertRow, At, IInv
    <2>2. new.hrn = n
      BY DEF NewRow
    <2>3. \A i \in Id : db'[i] = IF i = job[w].row THEN new ELSE db[i]
      BY <2>1 DEF IInv, StoresOK
    <2>4. \A i \in Id : db[i] # None => db[i].hrn # n
      BY <2>1 DEF Unique, Free, Inserting, RowsOf
    <2>5. OneRecordPerName'
      BY <2>2, <2>3, <2>4 DEF Unique, OneRecordPerName
    <2>6. /\ Alone'
          /\ \A v \in Workers : pc'[v] \in Inserting =>
                 v # w /\ pc[v] \in Inserting /\ job'[v] = job[v]
      BY <2>1, AfterCommitAlone
    <2>7. \A v \in Workers : v # w /\ pc[v] \in Inserting => job[v].hrn # n
      BY <2>1 DEF Unique, Alone, Inserting
    <2>8. Free'
      BY <2>2, <2>3, <2>6, <2>7 DEF Unique, Free, RowsOf
    <2> QED
      BY <2>5, <2>6, <2>8 DEF Unique
  <1>2. CASE ~ \A i \in link[w] : db[i] # None
    BY <1>2, AbortUnique DEF InsertRow
  <1> QED
    BY <1>1, <1>2

\* An update never changes the name of a row.
LEMMA WriteRowUnique ==
  ASSUME IInv, Unique, NEW w \in Workers, WriteRow(w)
  PROVE  Unique'
  <1>1. CASE db[job[w].row] # None /\ \A i \in link[w] : db[i] # None
    <2> DEFINE new == UpdatedRow(db[job[w].row], w)
    <2>1. /\ pc[w] = "write" /\ job[w].row \in Id /\ db[job[w].row] \in Row
          /\ db' = [db EXCEPT ![job[w].row] = new] /\ AfterCommit(w)
      BY <1>1, JobType DEF WriteRow, At, IInv, StoresOK
    <2>2. new.hrn = db[job[w].row].hrn
      BY <2>1 DEF UpdatedRow, Row
    <2>3. \A i \in Id : db'[i] # None => db[i] # None /\ db'[i].hrn = db[i].hrn
      BY <1>1, <2>1, <2>2 DEF IInv, StoresOK
    <2>4. OneRecordPerName'
      BY <2>3 DEF Unique, OneRecordPerName
    <2>5. /\ Alone'
          /\ \A v \in Workers : pc'[v] \in Inserting =>
                 v # w /\ pc[v] \in Inserting /\ job'[v] = job[v]
      BY <2>1, AfterCommitAlone
    <2>6. Free'
      BY <2>3, <2>5 DEF Unique, Free, RowsOf
    <2> QED
      BY <2>4, <2>5, <2>6 DEF Unique
  <1>2. CASE ~ (db[job[w].row] # None /\ \A i \in link[w] : db[i] # None)
    BY <1>2, AbortUnique DEF WriteRow
  <1> QED
    BY <1>1, <1>2

LEMMA DeleteRowUnique ==
  ASSUME IInv, Unique, NEW w \in Workers, DeleteRow(w)
  PROVE  Unique'
  <1>1. \A i \in Id : db'[i] # None => db[i] # None /\ db'[i].hrn = db[i].hrn
    BY DEF DeleteRow, Unlinked, IInv, StoresOK, Row
  <1>2. OneRecordPerName'
    BY <1>1 DEF Unique, OneRecordPerName
  <1>3. Free'
    BY <1>1, IdleAlone DEF DeleteRow, Unique, Free, RowsOf
  <1> QED
    BY <1>2, <1>3, IdleAlone DEF DeleteRow, Unique

LEMMA RequestUnique ==
  ASSUME Exclusive, IInv, Unique, NEW w \in Workers, Request(w)
  PROVE  Unique'
  <1>1. ASSUME Register(w) PROVE Unique'
    <2>1. PICK n \in Names : \E us \in UsersArg(n), k \in KeyArg(n) :
             /\ Unregistered(n)
             /\ Start(w, [op |-> "Register", hrn |-> n, row |-> requests + 1,
                          users |-> us, key |-> k],
                      None, IF us = None THEN "find" ELSE "link")
      BY <1>1 DEF Register
    <2>2. PICK us \in UsersArg(n), k \in KeyArg(n) :
             Start(w, [op |-> "Register", hrn |-> n, row |-> requests + 1,
                       users |-> us, key |-> k],
                   None, IF us = None THEN "find" ELSE "link")
      BY <2>1
    <2>3. requests + 1 \in Id
      BY <2>2, BoundsAssumption DEF Start, IInv, HistoryOK, Id
    <2>4. [op |-> "Register", hrn |-> n, row |-> requests + 1, users |-> us, key |-> k] \in Job
      BY <2>3 DEF Job, UsersArg, KeyArg
    <2> QED
      BY <2>1, <2>2, <2>4, StartUnique
  <1>2. ASSUME Update(w) PROVE Unique'
    <2>1. PICK n \in Names : \E us \in UsersArg(n), k \in KeyArg(n), i \in RowsOf({n}) :
             Start(w, [op |-> "Update", hrn |-> n, row |-> i, users |-> us, key |-> k],
                   db[i].pointer, IF us = None THEN "update" ELSE "flush")
      BY <1>2 DEF Update
    <2>2. PICK us \in UsersArg(n), k \in KeyArg(n), i \in RowsOf({n}) :
             Start(w, [op |-> "Update", hrn |-> n, row |-> i, users |-> us, key |-> k],
                   db[i].pointer, IF us = None THEN "update" ELSE "flush")
      BY <2>1
    <2>3. [op |-> "Update", hrn |-> n, row |-> i, users |-> us, key |-> k] \in Job
      BY RowsOfType DEF Job, UsersArg, KeyArg
    <2>4. (IF us = None THEN "update" ELSE "flush") \notin Inserting
      BY DEF Inserting
    <2> QED
      BY <2>2, <2>3, <2>4, StartUnique
  <1>3. ASSUME Remove(w) PROVE Unique'
    <2>1. PICK n \in Names : \E i \in RowsOf({n}) :
             Start(w, [op |-> "Remove", hrn |-> n, row |-> i, users |-> None, key |-> None],
                   db[i].pointer, "erase")
      BY <1>3 DEF Remove
    <2>2. PICK i \in RowsOf({n}) :
             Start(w, [op |-> "Remove", hrn |-> n, row |-> i, users |-> None, key |-> None],
                   db[i].pointer, "erase")
      BY <2>1
    <2>3. [op |-> "Remove", hrn |-> n, row |-> i, users |-> None, key |-> None] \in Job
      BY RowsOfType DEF Job
    <2> QED
      BY <2>2, <2>3, StartUnique DEF Inserting
  <1> QED
    BY <1>1, <1>2, <1>3 DEF Request

LEMMA StepUnique ==
  ASSUME IInv, Unique, NEW w \in Workers, Step(w)
  PROVE  Unique'
  <1>1. ASSUME LinkResearchers(w) PROVE Unique'
    BY <1>1, QuietUnique DEF LinkResearchers, At, Goto, stores, Inserting
  <1>2. ASSUME FindObject(w) PROVE Unique'
    BY <1>2, QuietUnique DEF FindObject, Registered, At, Goto, stores, Inserting
  <1>3. ASSUME MakeObject(w) PROVE Unique'
    BY <1>3, QuietUnique, AbortUnique DEF MakeObject, Registered, At, Goto, Inserting
  <1>4. ASSUME SetAccount(w) PROVE Unique'
    BY <1>4, QuietUnique, AbortUnique DEF SetAccount, At, Goto, Inserting
  <1>5. ASSUME FlushRow(w) PROVE Unique'
    BY <1>5, QuietUnique, AbortUnique DEF FlushRow, At, Goto, stores, Inserting
  <1>6. ASSUME UpdateObject(w) PROVE Unique'
    BY <1>6, QuietUnique DEF UpdateObject, At, Goto, Inserting
  <1>7. ASSUME LookupLinks(w) PROVE Unique'
    BY <1>7, QuietUnique, AbortUnique DEF LookupLinks, At, Goto, stores, Inserting
  <1>8. ASSUME CompareLinks(w) PROVE Unique'
    BY <1>8, QuietUnique, AbortUnique DEF CompareLinks, At, Goto, stores, Inserting
  <1>9. ASSUME ApplyLink(w) PROVE Unique'
    <2>1. ASSUME UNCHANGED <<db, pc, job>> PROVE Unique'
      BY <2>1 DEF Unique, OneRecordPerName, Alone, Free, RowsOf
    <2>2. ASSUME Idle(w), UNCHANGED stores PROVE Unique'
      BY <2>2, IdleUnique DEF stores
    <2> QED
      BY <1>9, <2>1, <2>2, AbortUnique DEF ApplyLink
  <1>10. ASSUME EraseObject(w) PROVE Unique'
    BY <1>10, QuietUnique DEF EraseObject, At, Goto, Inserting
  <1> QED
    BY <1>1, <1>2, <1>3, <1>4, <1>5, <1>6, <1>7, <1>8, <1>9, <1>10,
       InsertRowUnique, WriteRowUnique, DeleteRowUnique DEF Step

LEMMA FailureUnique ==
  ASSUME IInv, Unique, Crash \/ \E w \in Workers : TestbedFault(w)
  PROVE  Unique'
  <1>1. CASE Crash
    BY <1>1 DEF Crash, stores, Unique, OneRecordPerName, Alone, Free, Inserting
  <1>2. ASSUME NEW w \in Workers, TestbedFault(w) PROVE Unique'
    BY <1>2, IdleUnique, QuietUnique DEF TestbedFault, At, Goto, Inserting
  <1> QED
    BY <1>1, <1>2

LEMMA NextUnique == Exclusive /\ IInv /\ Unique /\ [Next]_vars => Unique'
  <1> SUFFICES ASSUME Exclusive, IInv, Unique, [Next]_vars PROVE Unique'
    OBVIOUS
  <1>1. CASE UNCHANGED vars
    BY <1>1 DEF vars, stores, Unique, OneRecordPerName, Alone, Free, RowsOf
  <1> QED
    BY <1>1, RequestUnique, StepUnique, FailureUnique DEF Next

\* The registry keeps one record per name, as long as clients do not send two
\* requests on one name at once: through testbed failures and restarts, the
\* query of Register is enough although it runs long before the insert.
THEOREM NamesUnique ==
  ASSUME Exclusive
  PROVE  Spec => []OneRecordPerName
  <1>1. Unique => OneRecordPerName
    BY DEF Unique
  <1>2. IInv /\ Unique /\ [Next]_vars => (IInv /\ Unique)'
    BY NextInv, NextUnique
  <1> QED
    BY <1>1, <1>2, InitInv, InitUnique, PTL DEF Spec

-----------------------------------------------------------------------------
(* The researchers of a slice are users, however requests overlap             *)

\* Row ids that no request has taken yet, and those of inserts to come.
Unused == (requests + 1) .. MaxRequests
Pending == {job[w].row : w \in {v \in Workers : pc[v] \in Inserting}}

\* ResearchersExist is not inductive.  A row that a worker once found among its
\* users may be gone when it writes, but its id never becomes another's.
FreshRows ==
    /\ \A i \in Unused \cup Pending :
         db[i] = None /\ \A w \in Workers : i \notin link[w] \cup keep[w]
    /\ \A w \in Workers : pc[w] \in Inserting => job[w].row \in 1 .. requests
    /\ \A v, w \in Workers :
         pc[v] \in Inserting /\ pc[w] \in Inserting /\ job[v].row = job[w].row => v = w

\* What a worker found are rows of the users that its request names.
Found(w) ==
    /\ \A r \in link[w] \cup keep[w] :
         /\ pc[w] # "idle" /\ job[w].users # None
         /\ db[r] # None => db[r].hrn \in job[w].users
    /\ pc[w] \in {"link", "flush", "lookup", "compare", "apply"} => job[w].users # None
    /\ pc[w] # "idle" => /\ job[w].users # None => job[w].hrn \in Slices
                         /\ job[w].key # None => job[w].hrn \in Users
    /\ pc[w] \in Inserting => job[w].op = "Register"
    /\ pc[w] \in {"flush", "update", "write"} => job[w].op = "Update"

Researchers == ResearchersExist /\ FreshRows /\ \A w \in Workers : Found(w)

-----------------------------------------------------------------------------
(* Proof of ResearchersExist                                                  *)

LEMMA InitResearchers == Init => Researchers
  <1> SUFFICES ASSUME Init PROVE Researchers
    OBVIOUS
  <1>1. ResearchersExist
    BY DEF Init, ResearchersExist
  <1>2. Pending = {} /\ Unused = 1 .. MaxRequests
    BY BoundsAssumption DEF Pending, Inserting, Unused, Init
  <1>3. \A i \in 1 .. MaxRequests : i \in Id /\ db[i] = None
    BY IdsAssumption DEF Init, Id, Names
  <1>4. FreshRows
    BY <1>2, <1>3 DEF FreshRows, Init, Inserting
  <1>5. \A w \in Workers : Found(w)
    BY DEF Found, Init, Inserting
  <1> QED BY <1>1, <1>4, <1>5 DEF Researchers

\* A worker goes on, and neither the rows nor what it found change.
LEMMA QuietResearchers ==
  ASSUME IInv, Researchers, NEW w \in Workers, NEW label \in Label \ {"idle"}, pc[w] # "idle", Goto(w, label),
         UNCHANGED <<db, job, keep, link, requests>>,
         label \in Inserting => pc[w] \in Inserting,
         label \in {"link", "flush", "lookup", "compare", "apply"} => job[w].users # None,
         label \in {"flush", "update", "write"} => pc[w] \in {"flush", "update", "write"}
  PROVE  Researchers'
  <1>1. \A v \in Workers : pc'[v] = IF v = w THEN label ELSE pc[v]
    BY DEF IInv, WorkersOK, Goto
  <1>2. Pending' \subseteq Pending /\ Unused' = Unused
    BY <1>1 DEF Pending, Unused
  <1>3. FreshRows'
    BY <1>1, <1>2 DEF Researchers, FreshRows
  <1>4. \A v \in Workers : Found(v)'
    BY <1>1 DEF Researchers, Found, Label
  <1> QED BY <1>3, <1>4 DEF Researchers, ResearchersExist

\* A worker answers, or has committed: no name appears but that of its insert.
LEMMA CommitResearchers ==
  ASSUME IInv, Researchers, NEW w \in Workers, pc[w] # "idle", Idle(w) \/ AfterCommit(w), requests' = requests,
         \A r \in Id : db'[r] # None =>
           \/ db[r] # None /\ db'[r].hrn = db[r].hrn
           \/ pc[w] \in Inserting /\ r = job[w].row,
         ResearchersExist'
  PROVE  Researchers'
  <1>1. /\ \A v \in Workers \ {w} : /\ pc'[v] = pc[v] /\ job'[v] = job[v]
                                    /\ keep'[v] = keep[v] /\ link'[v] = link[v]
        /\ \/ pc'[w] = "idle" /\ keep'[w] = {} /\ link'[w] = {}
           \/ /\ pc'[w] = "lookup" /\ job'[w] = job[w] /\ keep'[w] = keep[w] /\ link'[w] = link[w]
              /\ job[w].users # None
    BY DEF AfterCommit, Idle, Goto, locals, IInv, WorkersOK
  <1>2. \A v \in Workers : pc'[v] \in Inserting => v # w /\ pc[v] \in Inserting
    BY <1>1 DEF Inserting
  <1>3. \A i \in Pending' : i \in Pending /\ ~(pc[w] \in Inserting /\ i = job[w].row)
    BY <1>1, <1>2 DEF Pending, Researchers, FreshRows
  <1>4. Unused' = Unused /\ \A i \in Unused : ~(pc[w] \in Inserting /\ i = job[w].row)
    BY DEF Unused, Researchers, FreshRows, IInv, HistoryOK
  <1>5. Pending \subseteq Id /\ Unused \subseteq Id
    BY BoundsAssumption, JobType DEF Pending, Inserting, Unused, Id, IInv, HistoryOK
  <1>6. FreshRows'
    <2>1. ASSUME NEW i \in Unused' \cup Pending'
          PROVE  db'[i] = None /\ \A v \in Workers : i \notin link'[v] \cup keep'[v]
      <3>1. i \in Unused \cup Pending /\ i \in Id /\ ~(pc[w] \in Inserting /\ i = job[w].row)
        BY <1>3, <1>4, <1>5
      <3>2. db[i] = None /\ \A v \in Workers : i \notin link[v] \cup keep[v]
        BY <3>1 DEF Researchers, FreshRows
      <3> QED BY <1>1, <3>1, <3>2
    <2>2. \A v \in Workers : pc'[v] \in Inserting => job'[v].row \in 1 .. requests'
      BY <1>1, <1>2 DEF Researchers, FreshRows
    <2>3. \A u, v \in Workers :
            pc'[u] \in Inserting /\ pc'[v] \in Inserting /\ job'[u].row = job'[v].row => u = v
      BY <1>1, <1>2 DEF Researchers, FreshRows
    <2> QED BY <2>1, <2>2, <2>3 DEF FreshRows
  <1>7. ASSUME NEW v \in Workers PROVE Found(v)'
    <2>1. ASSUME NEW r \in link[v] \cup keep[v], db'[r] # None
          PROVE  db[r] # None /\ db'[r].hrn = db[r].hrn
      <3>1. r \in Id
        BY DEF IInv, WorkersOK
      <3>2. pc[w] \in Inserting => r # job[w].row
        BY DEF Researchers, FreshRows, Pending
      <3> QED BY <2>1, <3>1, <3>2
    <2>2. Found(v)
      BY DEF Researchers
    <2> QED BY <1>1, <2>1, <2>2 DEF Found, Inserting
  <1> QED BY <1>6, <1>7 DEF Researchers

LEMMA IdleResearchers ==
  ASSUME IInv, Researchers, NEW w \in Workers, pc[w] # "idle", Idle(w), UNCHANGED <<db, requests>>
  PROVE  Researchers'
  <1>1. ResearchersExist'
    BY DEF Researchers, ResearchersExist
  <1> QED BY <1>1, CommitResearchers

LEMMA AbortResearchers ==
  ASSUME IInv, Researchers, NEW w \in Workers, pc[w] # "idle", Abort(w)
  PROVE  Researchers'
  BY IdleResearchers DEF Abort, stores

LEMMA StartResearchers ==
  ASSUME IInv, Researchers, NEW w \in Workers, NEW j \in Job, NEW p, NEW label \in Label \ {"idle"},
         Start(w, j, p, label),
         j.users # None => j.hrn \in Slices, j.key # None => j.hrn \in Users,
         label \in Inserting => j.row = requests + 1 /\ j.op = "Register",
         label \in {"link", "flush", "lookup", "compare", "apply"} => j.users # None,
         label \in {"flush", "update", "write"} => j.op = "Update"
  PROVE  Researchers'
  <1>1. /\ pc[w] = "idle" /\ UNCHANGED <<db, keep, link>> /\ requests' = requests + 1
        /\ requests \in Nat /\ requests < MaxRequests
        /\ \A v \in Workers : /\ pc'[v] = IF v = w THEN label ELSE pc[v]
                              /\ job'[v] = IF v = w THEN j ELSE job[v]
    BY BoundsAssumption DEF Start, At, Goto, stores, IInv, WorkersOK, HistoryOK
  <1>2. link[w] = {} /\ keep[w] = {}
    BY <1>1 DEF Researchers, Found
  <1>3. Unused' \subseteq Unused /\ requests + 1 \in Unused /\ requests + 1 \notin Unused'
    BY <1>1, BoundsAssumption DEF Unused
  <1>4. \A i \in Pending' : i \in Pending \/ (i = requests + 1 /\ i \in Unused)
    BY <1>1, <1>3 DEF Pending
  <1>5. FreshRows'
    <2>1. \A i \in Unused' \cup Pending' : db'[i] = None /\ \A v \in Workers : i \notin link'[v] \cup keep'[v]
      BY <1>1, <1>3, <1>4 DEF Researchers, FreshRows
    <2>2. \A v \in Workers : v # w /\ pc[v] \in Inserting => job[v].row \in 1 .. requests
      BY DEF Researchers, FreshRows
    <2>3. \A v \in Workers : pc'[v] \in Inserting => job'[v].row \in 1 .. requests'
      BY <1>1, <2>2
    <2>4. \A u, v \in Workers :
            pc'[u] \in Inserting /\ pc'[v] \in Inserting /\ job'[u].row = job'[v].row => u = v
      BY <1>1, <2>2 DEF Researchers, FreshRows
    <2> QED BY <2>1, <2>3, <2>4 DEF FreshRows
  <1>6. \A v \in Workers : Found(v)'
    BY <1>1, <1>2 DEF Researchers, Found
  <1> QED BY <1>1, <1>5, <1>6 DEF Researchers, ResearchersExist

LEMMA RequestResearchers ==
  ASSUME IInv, Researchers, NEW w \in Workers, Request(w)
  PROVE  Researchers'
  <1>1. ASSUME Register(w) PROVE Researchers'
    <2>1. PICK n \in Names : \E us \in UsersArg(n), k \in KeyArg(n) :
             Start(w, [op |-> "Register", hrn |-> n, row |-> requests + 1, users |-> us, key |-> k],
                      None, IF us = None THEN "find" ELSE "link")
      BY <1>1 DEF Register
    <2>2. PICK us \in UsersArg(n), k \in KeyArg(n) :
             Start(w, [op |-> "Register", hrn |-> n, row |-> requests + 1, users |-> us, key |-> k],
                   None, IF us = None THEN "find" ELSE "link")
      BY <2>1
    <2> DEFINE j == [op |-> "Register", hrn |-> n, row |-> requests + 1, users |-> us, key |-> k]
               label == IF us = None THEN "find" ELSE "link"
    <2>3. requests + 1 \in Id
      BY <2>2, BoundsAssumption DEF Start, IInv, HistoryOK, Id
    <2>4. j \in Job /\ j.op = "Register" /\ j.hrn = n /\ j.row = requests + 1 /\ j.users = us /\ j.key = k
      BY <2>3 DEF Job, UsersArg, KeyArg
    <2>5. (us # None => n \in Slices) /\ (k # None => n \in Users)
      BY DEF UsersArg, KeyArg
    <2>6. label \in {"find", "link"} /\ label \in Label \ {"idle"} /\ (label = "link" => us # None)
      BY DEF Label
    <2>7. Start(w, j, None, label)
      BY <2>2
    <2> HIDE DEF j, label
    <2> QED BY <2>4, <2>5, <2>6, <2>7, StartResearchers
  <1>2. ASSUME Update(w) PROVE Researchers'
    <2>1. PICK n \in Names : \E us \in UsersArg(n), k \in KeyArg(n), i \in RowsOf({n}) :
             Start(w, [op |-> "Update", hrn |-> n, row |-> i, users |-> us, key |-> k],
                   db[i].pointer, IF us = None THEN "update" ELSE "flush")
      BY <1>2 DEF Update
    <2>2. PICK us \in UsersArg(n), k \in KeyArg(n), i \in RowsOf({n}) :
             Start(w, [op |-> "Update", hrn |-> n, row |-> i, users |-> us, key |-> k],
                   db[i].pointer, IF us = None THEN "update" ELSE "flush")
      BY <2>1
    <2> DEFINE j == [op |-> "Update", hrn |-> n, row |-> i, users |-> us, key |-> k]
               label == IF us = None THEN "update" ELSE "flush"
    <2>3. j \in Job /\ j.op = "Update" /\ j.hrn = n /\ j.users = us /\ j.key = k
      BY RowsOfType DEF Job, UsersArg, KeyArg
    <2>4. (us # None => n \in Slices) /\ (k # None => n \in Users)
      BY DEF UsersArg, KeyArg
    <2>5. label \in {"update", "flush"} /\ label \in Label \ {"idle"} /\ label \notin Inserting
          /\ (label = "flush" => us # None)
      BY DEF Label, Inserting
    <2>6. Start(w, j, db[i].pointer, label)
      BY <2>2
    <2> HIDE DEF j, label
    <2> QED BY <2>3, <2>4, <2>5, <2>6, StartResearchers
  <1>3. ASSUME Remove(w) PROVE Researchers'
    <2>1. PICK n \in Names : \E i \in RowsOf({n}) :
             Start(w, [op |-> "Remove", hrn |-> n, row |-> i, users |-> None, key |-> None],
                   db[i].pointer, "erase")
      BY <1>3 DEF Remove
    <2>2. PICK i \in RowsOf({n}) :
             Start(w, [op |-> "Remove", hrn |-> n, row |-> i, users |-> None, key |-> None],
                   db[i].pointer, "erase")
      BY <2>1
    <2> DEFINE j == [op |-> "Remove", hrn |-> n, row |-> i, users |-> None, key |-> None]
    <2>3. j \in Job /\ j.users = None /\ j.key = None
      BY RowsOfType DEF Job
    <2>4. "erase" \in Label \ {"idle"} /\ "erase" \notin Inserting
      BY DEF Label, Inserting
    <2>5. Start(w, j, db[i].pointer, "erase")
      BY <2>2
    <2> HIDE DEF j
    <2> QED BY <2>3, <2>4, <2>5, StartResearchers
  <1> QED BY <1>1, <1>2, <1>3 DEF Request

\* The rows of users that a worker looks for, as they are now.
LEMMA RowsFound ==
  ASSUME IInv, Researchers, NEW w \in Workers, pc[w] \in {"link", "flush", "lookup"}
  PROVE  /\ job[w].users # None /\ job[w].users \in SUBSET Users
         /\ \A r \in RowsOf(job[w].users) :
              r \in Id /\ db[r] # None /\ db[r].hrn \in job[w].users /\ r \notin Unused \cup Pending
  <1>1. job[w].users # None /\ job[w].users \in SUBSET Users
    BY JobType DEF Researchers, Found, IInv
  <1> QED BY <1>1 DEF RowsOf, Researchers, FreshRows

\* A worker looks its researchers up and goes on.
LEMMA FoundResearchers ==
  ASSUME IInv, Researchers, NEW w \in Workers, NEW label \in {"find", "update"}, pc[w] \in {"link", "flush"},
         label = "find" => pc[w] = "link", label = "update" => pc[w] = "flush",
         Goto(w, label), UNCHANGED <<db, job, requests>>,
         NEW l \in SUBSET RowsOf(job[w].users), NEW k \in SUBSET RowsOf(job[w].users),
         link' = [link EXCEPT ![w] = l], keep' = [keep EXCEPT ![w] = k] \/ (keep' = keep /\ k = {})
  PROVE  Researchers'
  <1>1. /\ \A v \in Workers : pc'[v] = IF v = w THEN label ELSE pc[v]
        /\ \A v \in Workers \ {w} : link'[v] = link[v] /\ keep'[v] = keep[v]
        /\ link'[w] = l /\ (keep'[w] = k \/ keep'[w] = keep[w])
    BY DEF IInv, WorkersOK, Goto
  <1>2. Pending' \subseteq Pending /\ Unused' = Unused
    BY <1>1 DEF Pending, Unused, Inserting
  <1>3. /\ job[w].users # None
        /\ \A r \in RowsOf(job[w].users) :
              r \in Id /\ db[r] # None /\ db[r].hrn \in job[w].users /\ r \notin Unused \cup Pending
    BY RowsFound
  <1>4. FreshRows'
    BY <1>1, <1>2, <1>3 DEF Researchers, FreshRows, Inserting
  <1>5. \A v \in Workers : Found(v)'
    BY <1>1, <1>3 DEF Researchers, Found, Inserting
  <1> QED BY <1>4, <1>5 DEF Researchers, ResearchersExist

\* The rows that a worker found and that are still there are users.
LEMMA LinksAreUsers ==
  ASSUME IInv, Researchers, NEW w \in Workers, pc[w] # "idle"
  PROVE  \A r \in link[w] \cup keep[w] : r \in Id /\ (db[r] # None => db[r].hrn \in Users)
  <1> SUFFICES ASSUME NEW r \in link[w] \cup keep[w]
               PROVE  r \in Id /\ (db[r] # None => db[r].hrn \in Users)
    OBVIOUS
  <1>1. job[w].users # None /\ (db[r] # None => db[r].hrn \in job[w].users) /\ r \in Id
    BY DEF Researchers, Found, IInv, WorkersOK
  <1>2. job[w].users \in SUBSET Users
    BY <1>1, JobType DEF IInv
  <1> QED BY <1>1, <1>2

LEMMA InsertRowResearchers ==
  ASSUME IInv, Researchers, NEW w \in Workers, InsertRow(w)
  PROVE  Researchers'
  <1>1. CASE \A i \in link[w] : db[i] # None
    <2> DEFINE new == NewRow(job[w], ptr[w], link[w])
    <2>1. /\ pc[w] = "insert" /\ pc[w] \in Inserting /\ job[w].row \in Id /\ requests' = requests
          /\ db' = [db EXCEPT ![job[w].row] = new] /\ AfterCommit(w)
      BY <1>1, JobType DEF InsertRow, At, IInv, Inserting
    <2>2. new.researchers = link[w]
      BY DEF NewRow
    <2> HIDE DEF new
    <2>3. \A i \in Id : db'[i] = IF i = job[w].row THEN new ELSE db[i]
      BY <2>1 DEF IInv, StoresOK
    <2>4. db[job[w].row] = None
      BY <2>1 DEF Researchers, FreshRows, Pending
    <2>5. ResearchersExist'
      <3> SUFFICES ASSUME NEW i \in Id, db'[i] # None, NEW r \in db'[i].researchers
                   PROVE  db'[r] # None /\ db'[r].hrn \in Users
        BY DEF ResearchersExist
      <3>1. db[r] # None /\ db[r].hrn \in Users /\ r \in Id
        <4>1. CASE i = job[w].row
          BY <1>1, <2>1, <2>2, <2>3, <4>1, LinksAreUsers
        <4>2. CASE i # job[w].row
          BY <2>3, <4>2 DEF Researchers, ResearchersExist, IInv, StoresOK, Row
        <4> QED BY <4>1, <4>2
      <3> QED BY <2>3, <2>4, <3>1
    <2> QED BY <2>1, <2>3, <2>5, CommitResearchers
  <1>2. CASE ~ \A i \in link[w] : db[i] # None
    BY <1>2, AbortResearchers DEF InsertRow, At
  <1> QED BY <1>1, <1>2

LEMMA WriteRowResearchers ==
  ASSUME IInv, Researchers, NEW w \in Workers, WriteRow(w)
  PROVE  Researchers'
  <1>1. CASE db[job[w].row] # None /\ \A i \in link[w] : db[i] # None
    <2> DEFINE new == UpdatedRow(db[job[w].row], w)
    <2>1. /\ pc[w] = "write" /\ job[w].row \in Id /\ db[job[w].row] \in Row /\ requests' = requests
          /\ db' = [db EXCEPT ![job[w].row] = new] /\ AfterCommit(w)
      BY <1>1, JobType DEF WriteRow, At, IInv, StoresOK
    <2>2. new.hrn = db[job[w].row].hrn /\ new.researchers \subseteq db[job[w].row].researchers \cup link[w]
          /\ new \in Row
      BY <2>1, UpdatedRowType, UpdatedRowFields
    <2> HIDE DEF new
    <2>3. \A i \in Id : db'[i] = IF i = job[w].row THEN new ELSE db[i]
      BY <2>1 DEF IInv, StoresOK
    <2>4. \A i \in Id : (db'[i] # None <=> db[i] # None) /\ db'[i].hrn = db[i].hrn
      BY <1>1, <2>1, <2>2, <2>3, NoneIsNothing
    <2>5. ResearchersExist'
      <3> SUFFICES ASSUME NEW i \in Id, db'[i] # None, NEW r \in db'[i].researchers
                   PROVE  db'[r] # None /\ db'[r].hrn \in Users
        BY DEF ResearchersExist
      <3>1. db[i] # None
        BY <2>4
      <3>2. r \in db[i].researchers \/ r \in link[w]
        BY <2>2, <2>3
      <3>3. db[r] # None /\ db[r].hrn \in Users /\ r \in Id
        BY <1>1, <2>1, <3>1, <3>2, LinksAreUsers DEF Researchers, ResearchersExist, IInv, StoresOK, Row
      <3> QED BY <2>4, <3>3
    <2> QED BY <2>1, <2>4, <2>5, CommitResearchers
  <1>2. CASE ~ (db[job[w].row] # None /\ \A i \in link[w] : db[i] # None)
    BY <1>2, AbortResearchers DEF WriteRow, At
  <1> QED BY <1>1, <1>2

LEMMA DeleteRowResearchers ==
  ASSUME IInv, Researchers, NEW w \in Workers, DeleteRow(w)
  PROVE  Researchers'
  <1>1. /\ pc[w] # "idle" /\ Idle(w) /\ requests' = requests
        /\ db' = [i \in Id |-> IF i = job[w].row \/ db[i] = None THEN None ELSE Unlinked(db[i], job[w].row)]
    BY DEF DeleteRow, At
  <1>2. \A i \in Id : db'[i] # None =>
          /\ i # job[w].row /\ db[i] # None /\ db'[i].hrn = db[i].hrn
          /\ db'[i].researchers = db[i].researchers \ {job[w].row}
    BY <1>1 DEF Unlinked, IInv, StoresOK, Row
  <1>3. \A i \in Id : i # job[w].row /\ db[i] # None => db'[i] # None
    BY <1>1, NoneIsNothing DEF Unlinked, IInv, StoresOK, Row
  <1>4. ResearchersExist'
    <2> SUFFICES ASSUME NEW i \in Id, db'[i] # None, NEW r \in db'[i].researchers
                 PROVE  db'[r] # None /\ db'[r].hrn \in Users
      BY DEF ResearchersExist
    <2>1. r \in db[i].researchers /\ r # job[w].row /\ db[i] # None
      BY <1>2
    <2>2. db[r] # None /\ db[r].hrn \in Users /\ r \in Id
      BY <2>1 DEF Researchers, ResearchersExist, IInv, StoresOK, Row
    <2> QED BY <1>2, <1>3, <2>1, <2>2
  <1> QED BY <1>1, <1>2, <1>4, CommitResearchers

LEMMA StepResearchers ==
  ASSUME IInv, Researchers, NEW w \in Workers, Step(w)
  PROVE  Researchers'
  <1>1. ASSUME LinkResearchers(w) PROVE Researchers'
    <2>1. link' = [link EXCEPT ![w] = RowsOf(job[w].users)] /\ keep' = keep /\ {} \in SUBSET RowsOf(job[w].users)
      BY <1>1 DEF LinkResearchers
    <2> QED BY <1>1, <2>1, FoundResearchers DEF LinkResearchers, At, stores
  <1>2. ASSUME FindObject(w) PROVE Researchers'
    BY <1>2, QuietResearchers DEF FindObject, Registered, At, stores, Inserting, Label
  <1>3. ASSUME MakeObject(w) PROVE Researchers'
    BY <1>3, QuietResearchers, AbortResearchers DEF MakeObject, Registered, At, Inserting, Label
  <1>4. ASSUME SetAccount(w) PROVE Researchers'
    BY <1>4, QuietResearchers, AbortResearchers DEF SetAccount, At, locals, Inserting, Label
  <1>5. ASSUME FlushRow(w) PROVE Researchers'
    <2>1. CASE db[job[w].row] = None
      BY <1>5, <2>1, AbortResearchers DEF FlushRow, At
    <2>2. CASE db[job[w].row] # None
      <3> DEFINE found == RowsOf(job[w].users)
                 old == db[job[w].row].researchers
      <3>1. /\ keep' = [keep EXCEPT ![w] = found \cap old] /\ link' = [link EXCEPT ![w] = found \ old]
            /\ Goto(w, "update") /\ UNCHANGED <<db, job, requests>> /\ pc[w] = "flush"
        BY <1>5, <2>2 DEF FlushRow, stores, At
      <3>2. found \cap old \in SUBSET RowsOf(job[w].users) /\ found \ old \in SUBSET RowsOf(job[w].users)
        OBVIOUS
      <3> HIDE DEF found, old
      <3> QED BY <3>1, <3>2, FoundResearchers
    <2> QED BY <2>1, <2>2
  <1>6. ASSUME UpdateObject(w) PROVE Researchers'
    BY <1>6, QuietResearchers DEF UpdateObject, SwallowFailure, At, Inserting, Label
  <1>7. ASSUME LookupLinks(w) PROVE Researchers'
    BY <1>7, RowsFound, QuietResearchers, AbortResearchers DEF LookupLinks, At, stores, Inserting, Label
  <1>8. ASSUME CompareLinks(w) PROVE Researchers'
    <2>1. At(w, "compare") => job[w].users # None
      BY DEF At, Researchers, Found
    <2> QED BY <1>8, <2>1, QuietResearchers, AbortResearchers DEF CompareLinks, At, stores, Inserting, Label
  <1>9. ASSUME ApplyLink(w) PROVE Researchers'
    <2>1. ASSUME UNCHANGED <<db, pc, job, keep, link, requests>> PROVE Researchers'
      BY <2>1 DEF Researchers, ResearchersExist, FreshRows, Unused, Pending, Found
    <2>2. ASSUME Idle(w), UNCHANGED <<stores, requests>> PROVE Researchers'
      BY <1>9, <2>2, IdleResearchers DEF stores, ApplyLink, At
    <2> QED BY <1>9, <2>1, <2>2, AbortResearchers DEF ApplyLink, At
  <1>10. ASSUME EraseObject(w) PROVE Researchers'
    BY <1>10, QuietResearchers DEF EraseObject, At, locals, Inserting, Label
  <1> QED
    BY <1>1, <1>2, <1>3, <1>4, <1>5, <1>6, <1>7, <1>8, <1>9, <1>10,
       InsertRowResearchers, WriteRowResearchers, DeleteRowResearchers DEF Step

LEMMA FailureResearchers ==
  ASSUME IInv, Researchers, Crash \/ \E w \in Workers : TestbedFault(w)
  PROVE  Researchers'
  <1>1. CASE Crash
    <2>1. Unused' = Unused /\ Pending' = {}
      BY <1>1 DEF Crash, Unused, Pending, Inserting
    <2> QED
      BY <1>1, <2>1 DEF Crash, stores, Researchers, ResearchersExist, FreshRows, Found, Inserting
  <1>2. ASSUME NEW w \in Workers, TestbedFault(w) PROVE Researchers'
    BY <1>2, IdleResearchers, QuietResearchers DEF TestbedFault, At, Inserting, Label, SwallowFailure
  <1> QED BY <1>1, <1>2

LEMMA NextResearchers == IInv /\ Researchers /\ [Next]_vars => Researchers'
  <1> SUFFICES ASSUME IInv, Researchers, [Next]_vars PROVE Researchers'
    OBVIOUS
  <1>1. CASE UNCHANGED vars
    BY <1>1 DEF vars, stores, locals, Researchers, ResearchersExist, FreshRows, Unused, Pending, Found
  <1> QED BY <1>1, RequestResearchers, StepResearchers, FailureResearchers DEF Next

\* Whatever requests overlap and wherever they stop, the researchers of a slice
\* are rows of users: a row that was removed after update_researchers found it
\* is not linked, nor is one that got its place (RegRecord, RegSlice and the
\* methods Register, Update and Remove of RegistryManager).
THEOREM ResearchersStay == Spec => []ResearchersExist
  <1>1. Researchers => ResearchersExist
    BY DEF Researchers
  <1>2. IInv /\ Researchers /\ [Next]_vars => (IInv /\ Researchers)'
    BY NextInv, NextResearchers
  <1> QED BY <1>1, <1>2, InitInv, InitResearchers, PTL DEF Spec

-----------------------------------------------------------------------------
(* What the database and the testbed say of one name *)

IsRow(i, n) == i \in Id /\ db[i] # None /\ db[i].hrn = n
IsObject(p, n) == p \in Id /\ testbed[p] # None /\ testbed[p].name = n

\* Where a request has its row, and its object, for as long as it runs.
Owns(w) ==
    /\ pc[w] \in {"account", "insert"} => IsObject(ptr[w], job[w].hrn)
    /\ pc[w] \in {"flush", "update", "write", "lookup", "compare", "apply", "erase", "delete"} =>
         /\ IsRow(job[w].row, job[w].hrn)
         /\ ptr[w] # None => db[job[w].row].pointer = ptr[w]
    /\ pc[w] = "apply" => testbed[ptr[w]] # None
    /\ pc[w] = "write" /\ job[w].key # None /\ ptr[w] # None => testbed[ptr[w]] # None
    /\ pc[w] \in {"lookup", "compare"} /\ job[w].op = "Register" => testbed[ptr[w]] # None
    /\ pc[w] = "delete" => \A p \in Id : ~IsObject(p, job[w].hrn)

\* Pointers are never used again, and each leads to the object of its row.
Making == {job[w].row : w \in {v \in Workers : pc[v] \in {"link", "find", "make"}}}

FreshObjects ==
    \A i \in Unused \cup Making :
        /\ testbed[i] = None
        /\ \A j \in Id : db[j] # None => db[j].pointer # i
        /\ \A w \in Workers : ptr[w] # i /\ i \notin add[w]

Pointers ==
    /\ \A p, q \in Id : \A n \in Names : IsObject(p, n) /\ IsObject(q, n) => p = q
    /\ \A i, p \in Id : \A n \in Names : IsRow(i, n) /\ IsObject(p, n) => p = db[i].pointer
    /\ \A i \in Id : db[i] # None /\ testbed[db[i].pointer] # None =>
         testbed[db[i].pointer].name = db[i].hrn

\* An object without a row has no members, and members exist.
Members ==
    \A p \in Id : testbed[p] # None =>
        /\ \A m \in testbed[p].members : testbed[m] # None
        /\ testbed[p].members = {} \/ \E i \in Id : IsRow(i, testbed[p].name)

\* What a settled name promises, as far as it holds while a request runs.
Serving(n, labels) == \E w \in Workers : pc[w] \in labels /\ job[w].hrn = n

Matched ==
    \A n \in Names \ torn : ~Serving(n, Inserting \cup {"delete"}) =>
        /\ \A i \in Id : IsRow(i, n) => testbed[db[i].pointer] # None
        /\ \A p \in Id : IsObject(p, n) => \E i \in Id : IsRow(i, n)

LinksThere ==
    \A i \in Id :
        db[i] # None /\ db[i].hrn \in Slices \ torn /\ testbed[db[i].pointer] # None
            /\ ~Serving(db[i].hrn, {"lookup", "compare", "apply"}) =>
             /\ \A p \in testbed[db[i].pointer].members : testbed[p].name \in wanted[db[i].hrn]
             /\ \A r \in db[i].researchers :
                  testbed[db[r].pointer] # None => db[r].pointer \in testbed[db[i].pointer].members

\* How far a worker is with the links of its slice.
Linking(w) ==
    /\ pc[w] \in {"lookup", "compare", "apply"} => wanted[job[w].hrn] = job[w].users
    /\ pc[w] = "lookup" => \A r \in db[job[w].row].researchers : db[r].hrn \in job[w].users
    /\ pc[w] \in {"compare", "apply"} => \A t \in add[w] : testbed[t] # None => testbed[t].name \in job[w].users
    /\ pc[w] = "compare" => \A r \in db[job[w].row].researchers : db[r].pointer \in add[w]
    /\ pc[w] = "apply" =>
         /\ add[w] \cap del[w] = {}
         /\ \A p \in testbed[ptr[w]].members \ del[w] : testbed[p].name \in job[w].users
         /\ \A r \in db[job[w].row].researchers : testbed[db[r].pointer] # None =>
              db[r].pointer \in add[w] \cup (testbed[ptr[w]].members \ del[w])

Agreement ==
    /\ FreshObjects /\ Pointers /\ Members /\ Matched /\ LinksThere
    /\ \A w \in Workers : Owns(w) /\ Linking(w)

-----------------------------------------------------------------------------
(* Steps that leave the database alone *)

LEMMA InitAgreement == Init => Agreement
  <1> SUFFICES ASSUME Init PROVE Agreement
    OBVIOUS
  <1>1. /\ \A i \in Id : /\ db[i] # None <=> testbed[i] # None
                         /\ db[i] # None => /\ db[i].hrn = i /\ db[i].pointer = i
                                            /\ db[i].key = None /\ db[i].researchers = {}
                                            /\ testbed[i].name = i /\ testbed[i].members = {}
                                            /\ i \in Names
        /\ \A w \in Workers : pc[w] = "idle" /\ ptr[w] = None /\ add[w] = {}
    <2>1. PICK known \in SUBSET Names :
            /\ db = [i \in Id |-> IF i \in known
                       THEN [hrn |-> i, pointer |-> i, researchers |-> {}, key |-> None, lost |-> FALSE]
                       ELSE None]
            /\ testbed = [p \in Id |-> IF p \in known THEN NewObject(p) ELSE None]
      BY DEF Init
    <2>2. \A i \in known : i \in Id /\ NewObject(i) # None
      BY NewObjectType, NoneIsNothing DEF Id
    <2>3. \A i \in known :
            [hrn |-> i, pointer |-> i, researchers |-> {}, key |-> None, lost |-> FALSE] # None
      <3>1. ASSUME NEW i \in known
            PROVE  [hrn |-> i, pointer |-> i, researchers |-> {}, key |-> None, lost |-> FALSE] \in Row
        BY <2>2 DEF Row
      <3> QED BY <3>1, NoneIsNothing
    <2>4. \A w \in Workers : pc[w] = "idle" /\ ptr[w] = None /\ add[w] = {}
      BY DEF Init
    <2> QED BY <2>1, <2>2, <2>3, <2>4 DEF NewObject
  <1>2. Unused = 1 .. MaxRequests /\ Making = {}
    BY <1>1, BoundsAssumption DEF Init, Unused, Making
  <1>3. \A i \in 1 .. MaxRequests : i \in Id /\ i \notin Names /\ i # None
    BY IdsAssumption DEF Id, Names
  <1>4. FreshObjects
    BY <1>1, <1>2, <1>3 DEF FreshObjects
  <1>5. Pointers /\ Members /\ Matched
    BY <1>1 DEF Pointers, Members, Matched, IsRow, IsObject
  <1>6. LinksThere
    BY <1>1 DEF LinksThere
  <1>7. \A w \in Workers : Owns(w) /\ Linking(w)
    BY <1>1 DEF Owns, Linking
  <1> QED BY <1>4, <1>5, <1>6, <1>7 DEF Agreement

LEMMA AwaitedType ==
  ASSUME IInv PROVE Unused \subseteq Id /\ Making \subseteq Id
  <1>1. Unused \subseteq Id
    BY BoundsAssumption DEF Unused, Id, IInv, HistoryOK
  <1>2. Making \subseteq Id
    BY JobType DEF Making, IInv
  <1> QED BY <1>1, <1>2

LEMMA RowFacts ==
  ASSUME IInv, Researchers, NEW i \in Id, db[i] # None
  PROVE  /\ db[i].hrn \in Names /\ db[i].pointer \in Id
         /\ \A r \in db[i].researchers :
              r \in Id /\ db[r] # None /\ db[r].hrn \in Users /\ db[r].pointer \in Id
  BY DEF IInv, StoresOK, Row, Researchers, ResearchersExist

LEMMA ObjectFacts ==
  ASSUME IInv, Agreement, NEW p \in Id, testbed[p] # None
  PROVE  /\ testbed[p].name \in Names
         /\ \A m \in testbed[p].members : m \in Id /\ testbed[m] # None
  BY DEF IInv, StoresOK, Object, Agreement, Members

\* No object comes, goes or changes its name or members.
ObjectsKept ==
    \A p \in Id : \/ testbed'[p] = testbed[p]
                  \/ /\ testbed[p] # None /\ testbed'[p] # None
                     /\ testbed'[p].name = testbed[p].name
                     /\ testbed'[p].members = testbed[p].members
                     /\ testbed[p].keys \subseteq testbed'[p].keys

\* What the step of one worker leaves of the others.
OthersKept(w) ==
    \A v \in Workers \ {w} :
        /\ pc'[v] = pc[v] /\ job'[v] = job[v] /\ ptr'[v] = ptr[v]
        /\ add'[v] = add[v] /\ del'[v] = del[v]

LEMMA OtherNames ==
  ASSUME Unique, NEW w \in Workers, pc[w] # "idle", NEW v \in Workers \ {w}, pc[v] # "idle"
  PROVE  job[v].hrn # job[w].hrn
  BY DEF Unique, Alone

\* A worker keeps what it owns while rows and objects are kept.
LEMMA OthersOwn ==
  ASSUME IInv, Researchers, Agreement, db' = db, ObjectsKept, torn \subseteq torn', wanted' = wanted,
         NEW w \in Workers, OthersKept(w), NEW v \in Workers \ {w}
  PROVE  Owns(v)' /\ Linking(v)'
  <1>1. Owns(v) /\ Linking(v)
    BY DEF Agreement
  <1>2. /\ pc'[v] = pc[v] /\ job'[v] = job[v] /\ ptr'[v] = ptr[v]
        /\ add'[v] = add[v] /\ del'[v] = del[v]
    BY DEF OthersKept
  <1>3. pc[v] # "idle" => job[v].row \in Id
    BY JobType DEF IInv
  <1>4. ptr[v] \in Id \cup {None} /\ add[v] \subseteq Id /\ None \notin Id
    BY NoneIsNothing DEF IInv, WorkersOK
  <1>5. pc[v] \in {"account", "insert", "lookup", "compare", "apply"} => ptr[v] \in Id
    BY DEF IInv, WorkersOK, Control, Holds
  <1>6. \A p \in Id : /\ testbed'[p] = None <=> testbed[p] = None
                      /\ testbed[p] # None => /\ testbed'[p].name = testbed[p].name
                                              /\ testbed'[p].members = testbed[p].members
                      /\ testbed[p].keys \subseteq testbed'[p].keys
    BY DEF ObjectsKept
  <1>7. Owns(v)'
    BY <1>1, <1>2, <1>3, <1>4, <1>5, <1>6 DEF Owns, IsRow, IsObject
  <1>8. pc[v] \in {"lookup", "compare", "apply"} =>
          \A r \in db[job[v].row].researchers : db[r].pointer \in Id
    BY <1>1, RowFacts DEF Owns, IsRow
  <1>9. pc[v] = "apply" => \A m \in testbed[ptr[v]].members : m \in Id /\ testbed[m] # None
    BY <1>1, <1>5, ObjectFacts DEF Owns
  <1>10. pc[v] = "apply" => testbed'[ptr[v]].members = testbed[ptr[v]].members
    BY <1>1, <1>5, <1>6 DEF Owns
  <1>11. Linking(v)'
    BY <1>1, <1>2, <1>4, <1>6, <1>8, <1>9, <1>10 DEF Linking
  <1> QED BY <1>7, <1>11

\* A worker goes on within one phase of its request, rows and objects are kept.
LEMMA QuietAgreement ==
  ASSUME IInv, Researchers, Agreement, NEW w \in Workers, NEW label \in Label \ {"idle", "delete"},
         pc[w] \notin {"idle", "delete"}, Goto(w, label), OthersKept(w), ObjectsKept,
         UNCHANGED <<db, job, requests, wanted>>, torn \subseteq torn',
         label \in Inserting <=> pc[w] \in Inserting,
         label \in {"lookup", "compare", "apply"} <=> pc[w] \in {"lookup", "compare", "apply"},
         label \in {"link", "find", "make"} => pc[w] \in {"link", "find", "make"},
         ptr'[w] \in {ptr[w], None} \/ (ptr'[w] \in Id /\ testbed[ptr'[w]] # None),
         \A t \in add'[w] : t \in add[w] \/ \E i \in Id : db[i] # None /\ t = db[i].pointer,
         Owns(w)', Linking(w)'
  PROVE  Agreement'
  <1>1. /\ \A v \in Workers : pc'[v] = IF v = w THEN label ELSE pc[v]
        /\ \A v \in Workers \ {w} : ptr'[v] = ptr[v] /\ add'[v] = add[v]
    BY DEF IInv, WorkersOK, Goto, OthersKept
  <1>2. \A p \in Id : /\ testbed'[p] = None <=> testbed[p] = None
                      /\ testbed[p] # None => /\ testbed'[p].name = testbed[p].name
                                              /\ testbed'[p].members = testbed[p].members
                      /\ testbed[p].keys \subseteq testbed'[p].keys
    BY DEF ObjectsKept
  <1>3. FreshObjects'
    <2>1. Unused' = Unused /\ Making' \subseteq Making
      BY <1>1 DEF Unused, Making
    <2>2. \A i \in Unused \cup Making : i \in Id /\ i # None
      BY AwaitedType, NoneIsNothing
    <2>3. FreshObjects
      BY DEF Agreement
    <2>4. \A i \in Unused \cup Making : \A v \in Workers : ptr'[v] # i /\ i \notin add'[v]
      BY <1>1, <2>2, <2>3 DEF FreshObjects
    <2> QED BY <1>2, <2>1, <2>2, <2>3, <2>4 DEF FreshObjects
  <1>4. \A i \in Id, n \in Names : IsRow(i, n)' <=> IsRow(i, n)
    BY DEF IsRow
  <1>5. \A p \in Id, n \in Names : IsObject(p, n)' <=> IsObject(p, n)
    BY <1>2 DEF IsObject
  <1>6. \A n : \A labels \in {Inserting \cup {"delete"}, {"delete"}, {"lookup", "compare", "apply"}} :
          Serving(n, labels)' <=> Serving(n, labels)
    BY <1>1 DEF Serving
  <1>7. \A i \in Id : db[i] # None =>
          db[i].hrn \in Names /\ db[i].pointer \in Id /\ \A r \in db[i].researchers : db[r].pointer \in Id
    BY RowFacts
  <1>8. \A p \in Id : testbed[p] # None => /\ testbed[p].name \in Names
                                           /\ \A m \in testbed[p].members : m \in Id /\ testbed[m] # None
    BY ObjectFacts
  <1>9. Pointers'
    BY <1>2, <1>4, <1>5, <1>7 DEF Agreement, Pointers
  <1>10. Members'
    BY <1>2, <1>4, <1>8 DEF Agreement, Members
  <1>11. Matched'
    <2>1. \A n : Serving(n, Inserting \cup {"delete"})' <=> Serving(n, Inserting \cup {"delete"})
      BY <1>6
    <2>2. \A i \in Id : \A n : IsRow(i, n) => db[i].pointer \in Id
      BY <1>7 DEF IsRow
    <2> QED BY <1>2, <1>4, <1>5, <2>1, <2>2 DEF Agreement, Matched
  <1>13. LinksThere'
    BY <1>2, <1>6, <1>7, <1>8 DEF Agreement, LinksThere
  <1> QED BY <1>3, <1>9, <1>10, <1>11, <1>13, OthersOwn DEF Agreement

Phases == {Inserting \cup {"delete"}, {"delete"}, {"lookup", "compare", "apply"}}

\* Both stores stay, and a name that is still promised something was before.
LEMMA StoresStay ==
  ASSUME IInv, Agreement, UNCHANGED <<stores, wanted>>, torn \subseteq torn',
         Unused' \cup Making' \subseteq Unused \cup Making,
         \A i \in Unused' \cup Making' : \A v \in Workers : ptr'[v] # i /\ i \notin add'[v],
         \A n \in Names \ torn' : \A labels \in Phases : Serving(n, labels) => Serving(n, labels)',
         \A v \in Workers : Owns(v)' /\ Linking(v)'
  PROVE  Agreement'
  <1>1. db' = db /\ testbed' = testbed /\ wanted' = wanted
    BY DEF stores
  <1>2. \A n \in Names \ torn' : /\ Serving(n, Inserting \cup {"delete"}) => Serving(n, Inserting \cup {"delete"})'
                                 /\ Serving(n, {"delete"}) => Serving(n, {"delete"})'
                                 /\ Serving(n, {"lookup", "compare", "apply"}) =>
                                      Serving(n, {"lookup", "compare", "apply"})'
    BY DEF Phases
  <1>3. FreshObjects'
    BY <1>1 DEF FreshObjects, Agreement
  <1>4. Pointers' /\ Members'
    BY <1>1 DEF Pointers, Members, IsRow, IsObject, Agreement
  <1>5. Matched'
    BY <1>1, <1>2 DEF Matched, IsRow, IsObject, Agreement
  <1>6. LinksThere'
    BY <1>1, <1>2 DEF LinksThere, Names, Agreement
  <1> QED BY <1>3, <1>4, <1>5, <1>6 DEF Agreement

\* A request that ends before its time leaves its name torn.
LEMMA AnswerAgreement ==
  ASSUME IInv, Unique, Researchers, Agreement, NEW w \in Workers, pc[w] # "idle", Idle(w),
         torn' = torn \cup {job[w].hrn}, UNCHANGED <<stores, requests, wanted>>
  PROVE  Agreement'
  <1>1. /\ \A v \in Workers : pc'[v] = IF v = w THEN "idle" ELSE pc[v]
        /\ ptr'[w] = None /\ add'[w] = {} /\ job'[w] = None
        /\ OthersKept(w)
    BY DEF Idle, Goto, IInv, WorkersOK, OthersKept
  <1>2. db' = db /\ ObjectsKept
    BY DEF stores, ObjectsKept
  <1>3. Unused' = Unused /\ Making' \subseteq Making
    BY <1>1 DEF Unused, Making, OthersKept
  <1>4. \A i \in Unused \cup Making : i # None
    BY AwaitedType, NoneIsNothing
  <1>5. \A i \in Unused' \cup Making' : \A v \in Workers : ptr'[v] # i /\ i \notin add'[v]
    BY <1>1, <1>3, <1>4 DEF OthersKept, FreshObjects, Agreement
  <1>6. \A n \in Names \ torn' : \A labels \in Phases : Serving(n, labels) => Serving(n, labels)'
    BY <1>1 DEF Serving, OthersKept
  <1>7. Owns(w)' /\ Linking(w)'
    BY <1>1 DEF Owns, Linking
  <1>8. \A v \in Workers : Owns(v)' /\ Linking(v)'
    BY <1>1, <1>2, <1>7, OthersOwn
  <1> QED BY <1>3, <1>5, <1>6, <1>8, StoresStay

LEMMA AbortAgreement ==
  ASSUME IInv, Unique, Researchers, Agreement, NEW w \in Workers, pc[w] # "idle", Abort(w)
  PROVE  Agreement'
  BY AnswerAgreement DEF Abort

LEMMA CrashAgreement ==
  ASSUME IInv, Agreement, Crash
  PROVE  Agreement'
  <1>1. \A v \in Workers : pc'[v] = "idle" /\ ptr'[v] = None /\ add'[v] = {}
    BY DEF Crash
  <1>2. Unused' = Unused /\ Making' = {}
    BY <1>1 DEF Crash, Unused, Making
  <1>3. \A i \in Unused \cup Making : i # None
    BY AwaitedType, NoneIsNothing
  <1>4. \A n \in Names \ torn' : \A labels \in Phases : ~Serving(n, labels)
    BY DEF Crash, Serving, Phases, Inserting, Busy, IInv, WorkersOK, Control, Holds
  <1>5. \A v \in Workers : Owns(v)' /\ Linking(v)'
    BY <1>1 DEF Owns, Linking
  <1> QED BY <1>1, <1>2, <1>3, <1>4, <1>5, StoresStay DEF Crash

LEMMA StartAgreement ==
  ASSUME IInv, Researchers, Agreement, NEW w \in Workers, NEW j \in Job, NEW p,
         NEW label \in {"find", "link", "flush", "update", "erase"}, Start(w, j, p, label),
         IF label \in {"find", "link"}
           THEN j.row = requests + 1 /\ p = None
           ELSE IsRow(j.row, j.hrn) /\ p = db[j.row].pointer
  PROVE  Agreement'
  <1>1. /\ \A v \in Workers : pc'[v] = IF v = w THEN label ELSE pc[v]
        /\ pc[w] = "idle" /\ job'[w] = j /\ ptr'[w] = p /\ add' = add /\ requests' = requests + 1
        /\ OthersKept(w)
    BY DEF Start, At, Goto, IInv, WorkersOK, OthersKept
  <1>2. db' = db /\ ObjectsKept /\ UNCHANGED <<stores, torn, wanted>>
    BY DEF Start, stores, ObjectsKept
  <1>3. requests \in Nat /\ MaxRequests \in Nat /\ requests < MaxRequests
    BY BoundsAssumption DEF IInv, HistoryOK, Start
  <1>4. Unused' \cup Making' \subseteq Unused \cup Making
    <2>1. Unused' \subseteq Unused /\ requests + 1 \in Unused
      BY <1>1, <1>3 DEF Unused
    <2>2. Making' \subseteq Making \cup {requests + 1}
      BY <1>1 DEF Making, OthersKept
    <2> QED BY <2>1, <2>2
  <1>5. \A i \in Unused \cup Making : i # None
    BY AwaitedType, NoneIsNothing
  <1>6. \A i \in Unused' \cup Making' : \A v \in Workers : ptr'[v] # i /\ i \notin add'[v]
    BY <1>1, <1>4, <1>5 DEF OthersKept, FreshObjects, Agreement, IsRow
  <1>7. \A n \in Names \ torn' : \A labels \in Phases : Serving(n, labels) => Serving(n, labels)'
    BY <1>1 DEF Serving, OthersKept, Phases, Inserting
  <1>8. Owns(w)' /\ Linking(w)'
    BY <1>1, <1>2 DEF Owns, Linking, IsRow
  <1>9. \A v \in Workers : Owns(v)' /\ Linking(v)'
    BY <1>1, <1>2, <1>8, OthersOwn
  <1> QED BY <1>2, <1>4, <1>6, <1>7, <1>9, StoresStay

LEMMA RequestAgreement ==
  ASSUME IInv, Researchers, Agreement, NEW w \in Workers, Request(w)
  PROVE  Agreement'
  <1>1. ASSUME Register(w) PROVE Agreement'
    <2>1. PICK n \in Names : \E us \in UsersArg(n), k \in KeyArg(n) :
             Start(w, [op |-> "Register", hrn |-> n, row |-> requests + 1, users |-> us, key |-> k],
                      None, IF us = None THEN "find" ELSE "link")
      BY <1>1 DEF Register
    <2>2. PICK us \in UsersArg(n), k \in KeyArg(n) :
             Start(w, [op |-> "Register", hrn |-> n, row |-> requests + 1, users |-> us, key |-> k],
                   None, IF us = None THEN "find" ELSE "link")
      BY <2>1
    <2> DEFINE j == [op |-> "Register", hrn |-> n, row |-> requests + 1, users |-> us, key |-> k]
               label == IF us = None THEN "find" ELSE "link"
    <2>3. requests + 1 \in Id
      BY <2>2, BoundsAssumption DEF Start, IInv, HistoryOK, Id
    <2>4. j \in Job /\ j.row = requests + 1
      BY <2>3 DEF Job, UsersArg, KeyArg
    <2>5. label \in {"find", "link"} /\ Start(w, j, None, label)
      BY <2>2
    <2> HIDE DEF j, label
    <2> QED BY <2>4, <2>5, StartAgreement
  <1>2. ASSUME Update(w) PROVE Agreement'
    <2>1. PICK n \in Names : \E us \in UsersArg(n), k \in KeyArg(n), i \in RowsOf({n}) :
             Start(w, [op |-> "Update", hrn |-> n, row |-> i, users |-> us, key |-> k],
                   db[i].pointer, IF us = None THEN "update" ELSE "flush")
      BY <1>2 DEF Update
    <2>2. PICK us \in UsersArg(n), k \in KeyArg(n), i \in RowsOf({n}) :
             Start(w, [op |-> "Update", hrn |-> n, row |-> i, users |-> us, key |-> k],
                   db[i].pointer, IF us = None THEN "update" ELSE "flush")
      BY <2>1
    <2> DEFINE j == [op |-> "Update", hrn |-> n, row |-> i, users |-> us, key |-> k]
               label == IF us = None THEN "update" ELSE "flush"
    <2>3. j \in Job /\ j.hrn = n /\ j.row = i
      BY RowsOfType DEF Job, UsersArg, KeyArg
    <2>4. IsRow(i, n)
      BY DEF RowsOf, IsRow
    <2>5. label \in {"update", "flush"} /\ Start(w, j, db[i].pointer, label)
      BY <2>2
    <2> HIDE DEF j, label
    <2> QED BY <2>3, <2>4, <2>5, StartAgreement
  <1>3. ASSUME Remove(w) PROVE Agreement'
    <2>1. PICK n \in Names : \E i \in RowsOf({n}) :
             Start(w, [op |-> "Remove", hrn |-> n, row |-> i, users |-> None, key |-> None],
                   db[i].pointer, "erase")
      BY <1>3 DEF Remove
    <2>2. PICK i \in RowsOf({n}) :
             Start(w, [op |-> "Remove", hrn |-> n, row |-> i, users |-> None, key |-> None],
                   db[i].pointer, "erase")
      BY <2>1
    <2> DEFINE j == [op |-> "Remove", hrn |-> n, row |-> i, users |-> None, key |-> None]
    <2>3. j \in Job /\ j.hrn = n /\ j.row = i
      BY RowsOfType DEF Job
    <2>4. IsRow(i, n)
      BY DEF RowsOf, IsRow
    <2>5. Start(w, j, db[i].pointer, "erase")
      BY <2>2
    <2> HIDE DEF j
    <2> QED BY <2>3, <2>4, <2>5, StartAgreement
  <1> QED BY <1>1, <1>2, <1>3 DEF Request

\* Where no two names are one on the testbed, a name finds its own object.
LEMMA OwnObjects ==
  ASSUME Distinct, IInv, NEW n \in Names
  PROVE  Namesakes(n) = ObjectsOf(n)
  <1>1. \A p \in Id : testbed[p] # None => testbed[p].name \in Names
    BY DEF IInv, StoresOK, Object
  <1> QED BY <1>1 DEF Namesakes, ObjectsOf, Distinct

\* Steps with the stores as they are, or with one more key on an account.
LEMMA QuietStepAgreement ==
  ASSUME Distinct, IInv, Unique, Researchers, Agreement, NEW w \in Workers,
         LinkResearchers(w) \/ FindObject(w) \/ FlushRow(w) \/ LookupLinks(w) \/ CompareLinks(w)
  PROVE  Agreement'
  <1> DEFINE users == job[w].users
  <1>1. ASSUME LinkResearchers(w) PROVE Agreement'
    <2>1. OthersKept(w) /\ ObjectsKept /\ pc[w] = "link" /\ pc'[w] = "find"
      BY <1>1 DEF LinkResearchers, At, Goto, stores, OthersKept, ObjectsKept, IInv, WorkersOK
    <2>2. Owns(w)' /\ Linking(w)'
      BY <2>1 DEF Owns, Linking
    <2> QED BY <1>1, <2>1, <2>2, QuietAgreement DEF LinkResearchers, stores, Inserting, Label
  <1>2. ASSUME FindObject(w) PROVE Agreement'
    <2>1. OthersKept(w) /\ ObjectsKept /\ pc[w] = "find" /\ job[w].hrn \in Names
          /\ UNCHANGED <<db, job, add, requests, torn, wanted>>
      BY <1>2, JobType DEF FindObject, At, Goto, stores, OthersKept, ObjectsKept, IInv, WorkersOK
    <2>0. Namesakes(job[w].hrn) = ObjectsOf(job[w].hrn)
      BY <2>1, OwnObjects
    <2>2. CASE ObjectsOf(job[w].hrn) = {}
      <3>1. Goto(w, "make") /\ pc'[w] = "make" /\ ptr' = ptr
        BY <1>2, <2>0, <2>2 DEF FindObject, Goto, IInv, WorkersOK
      <3>2. Owns(w)' /\ Linking(w)'
        BY <3>1 DEF Owns, Linking
      <3> QED BY <2>1, <3>1, <3>2, QuietAgreement DEF Inserting, Label
    <2>3. CASE ObjectsOf(job[w].hrn) # {}
      <3>1. PICK p \in ObjectsOf(job[w].hrn) : ptr' = [ptr EXCEPT ![w] = p] /\ Goto(w, Registered(w))
        BY <1>2, <2>0, <2>3 DEF FindObject
      <3>2. /\ pc'[w] = Registered(w) /\ ptr'[w] = p /\ Registered(w) \in {"account", "insert"}
            /\ IsObject(p, job[w].hrn)
        BY <3>1 DEF Goto, Registered, ObjectsOf, IsObject, IInv, WorkersOK
      <3>3. Registered(w) = "insert" => job[w].key = None
        BY <2>1 DEF Registered, Researchers, Found
      <3>4. testbed' = testbed
        BY <1>2 DEF FindObject, stores
      <3>5. Owns(w)' /\ Linking(w)'
        BY <2>1, <3>2, <3>3, <3>4 DEF Owns, Linking, IsObject
      <3> QED BY <2>1, <3>1, <3>2, <3>5, QuietAgreement DEF Inserting, Label, IsObject
    <2> QED BY <2>2, <2>3
  <1>3. ASSUME FlushRow(w) PROVE Agreement'
    <2>1. CASE db[job[w].row] = None
      BY <1>3, <2>1, AbortAgreement DEF FlushRow, At
    <2>2. CASE db[job[w].row] # None
      <3>1. OthersKept(w) /\ ObjectsKept /\ pc[w] = "flush" /\ Goto(w, "update") /\ pc'[w] = "update"
            /\ UNCHANGED <<db, job, ptr, add, requests, torn, wanted>>
        BY <1>3, <2>2 DEF FlushRow, At, Goto, stores, OthersKept, ObjectsKept, IInv, WorkersOK
      <3>2. Owns(w)' /\ Linking(w)'
        BY <3>1 DEF Owns, Linking, IsRow, Agreement
      <3> QED BY <3>1, <3>2, QuietAgreement DEF Inserting, Label
    <2> QED BY <2>1, <2>2
  <1>4. ASSUME LookupLinks(w) PROVE Agreement'
    <2>1. CASE db[job[w].row] = None
      BY <1>4, <2>1, AbortAgreement DEF LookupLinks, At
    <2>2. CASE db[job[w].row] # None
      <3> DEFINE new == {db[i].pointer : i \in RowsOf(users)}
      <3>1. /\ OthersKept(w) /\ ObjectsKept /\ pc[w] = "lookup" /\ Goto(w, "compare") /\ pc'[w] = "compare"
            /\ UNCHANGED <<db, testbed, job, ptr, requests, torn, wanted>> /\ add'[w] = new
        BY <1>4, <2>2 DEF LookupLinks, At, Goto, stores, OthersKept, ObjectsKept, IInv, WorkersOK
      <3>2. Owns(w) /\ Linking(w)
        BY DEF Agreement
      <3>3. Owns(w)'
        BY <3>1, <3>2 DEF Owns, IsRow
      <3>4. \A i \in RowsOf(users) : i \in Id /\ db[i] # None /\ db[i].hrn \in users /\ db[i].pointer \in new
        BY DEF RowsOf
      <3>5. \A t \in new : \E i \in Id : db[i] # None /\ db[i].hrn \in users /\ t = db[i].pointer
        BY DEF RowsOf
      <3>6. \A r \in db[job[w].row].researchers : r \in RowsOf(users)
        BY <2>2, <3>1, <3>2, JobType, RowFacts DEF RowsOf, Linking, IInv
      <3>7. \A t \in new : testbed[t] # None => testbed[t].name \in users
        BY <3>5 DEF Agreement, Pointers
      <3>8. Linking(w)'
        BY <3>1, <3>2, <3>4, <3>6, <3>7 DEF Linking
      <3>9. \A t \in add'[w] : \E i \in Id : db[i] # None /\ t = db[i].pointer
        BY <3>1, <3>5
      <3> HIDE DEF new, users
      <3> QED BY <3>1, <3>3, <3>8, <3>9, QuietAgreement DEF Inserting, Label
    <2> QED BY <2>1, <2>2
  <1>5. ASSUME CompareLinks(w) PROVE Agreement'
    <2>1. CASE testbed[ptr[w]] = None
      BY <1>5, <2>1, AbortAgreement DEF CompareLinks, At
    <2>2. CASE testbed[ptr[w]] # None
      <3> DEFINE members == testbed[ptr[w]].members
      <3>1. /\ OthersKept(w) /\ ObjectsKept /\ pc[w] = "compare" /\ Goto(w, "apply") /\ pc'[w] = "apply"
            /\ UNCHANGED <<db, testbed, job, ptr, requests, torn, wanted>>
            /\ add'[w] = add[w] \ members /\ del'[w] = members \ add[w]
        BY <1>5, <2>2 DEF CompareLinks, At, Goto, stores, OthersKept, ObjectsKept, IInv, WorkersOK
      <3>2. Owns(w) /\ Linking(w)
        BY DEF Agreement
      <3>3. Owns(w)'
        BY <2>2, <3>1, <3>2 DEF Owns, IsRow
      <3>4. \A m \in members : testbed[m] # None
        BY <2>2, <3>1, ObjectFacts DEF IInv, WorkersOK, Control, Holds
      <3>5. Linking(w)'
        BY <3>1, <3>2, <3>4 DEF Linking
      <3>6. \A t \in add'[w] : t \in add[w]
        BY <3>1
      <3> QED BY <3>1, <3>3, <3>5, <3>6, QuietAgreement DEF Inserting, Label
    <2> QED BY <2>1, <2>2
  <1> QED BY <1>1, <1>2, <1>3, <1>4, <1>5

\* One more key leaves an account what it was.
LEMMA KeyAdded ==
  ASSUME IInv, NEW p \in Id, testbed[p] # None, NEW k \in Keys \cup {None},
         testbed' = IF k = None THEN testbed ELSE [testbed EXCEPT ![p].keys = @ \cup {k}]
  PROVE  ObjectsKept /\ testbed'[p] # None /\ (k # None => k \in testbed'[p].keys)
  <1>1. testbed[p] \in Object /\ None \notin Object
    BY NoneIsNothing DEF IInv, StoresOK
  <1>2. CASE k = None
    BY <1>2 DEF ObjectsKept
  <1>3. CASE k # None
    <2> DEFINE new == [testbed[p] EXCEPT !.keys = @ \cup {k}]
    <2>1. testbed' = [testbed EXCEPT ![p] = new]
      BY <1>3
    <2>2. new \in Object /\ new.name = testbed[p].name /\ new.members = testbed[p].members
          /\ new.keys = testbed[p].keys \cup {k}
      BY <1>1, <1>3 DEF Object
    <2> HIDE DEF new
    <2> QED BY <1>1, <1>3, <2>1, <2>2 DEF ObjectsKept, IInv, StoresOK
  <1> QED BY <1>2, <1>3

\* A failure that driver.update's caller swallows.
LEMMA SwallowAgreement ==
  ASSUME IInv, Researchers, Agreement, NEW w \in Workers, pc[w] = "update", SwallowFailure(w),
         Goto(w, "write"), UNCHANGED <<db, job, keep, link, add, del, requests, wanted>>
  PROVE  Agreement'
  <1>1. OthersKept(w) /\ ObjectsKept /\ pc'[w] = "write" /\ torn \subseteq torn'
    BY DEF SwallowFailure, Goto, OthersKept, ObjectsKept, IInv, WorkersOK
  <1>2. ptr[w] \in Id /\ None \notin Id
    BY NoneIsNothing DEF IInv, WorkersOK, Control, Holds
  <1>3. \/ job[w].key = None /\ ptr' = ptr
        \/ job[w].key # None /\ ptr'[w] = None
    BY DEF SwallowFailure, IInv, WorkersOK
  <1>4. Owns(w)
    BY DEF Agreement
  <1>5. Owns(w)' /\ Linking(w)'
    BY <1>1, <1>3, <1>4 DEF Owns, Linking, IsRow
  <1> QED BY <1>1, <1>3, <1>5, QuietAgreement DEF Inserting, Label

LEMMA KeyStepAgreement ==
  ASSUME IInv, Unique, Researchers, Agreement, NEW w \in Workers, SetAccount(w) \/ UpdateObject(w)
  PROVE  Agreement'
  <1>0. pc[w] \in {"account", "update"} /\ ptr[w] \in Id /\ job[w].key \in Keys \cup {None}
    BY JobType DEF SetAccount, UpdateObject, At, IInv, WorkersOK, Control, Holds
  <1>1. ASSUME SetAccount(w) PROVE Agreement'
    <2>1. CASE testbed[ptr[w]] = None
      BY <1>1, <2>1, AbortAgreement DEF SetAccount, At
    <2>2. CASE testbed[ptr[w]] # None
      <3>1. /\ OthersKept(w) /\ pc[w] = "account" /\ Goto(w, "insert") /\ pc'[w] = "insert"
            /\ UNCHANGED <<db, job, ptr, add, requests, torn, wanted>>
        BY <1>1, <2>2 DEF SetAccount, At, Goto, locals, OthersKept, IInv, WorkersOK
      <3>2. ObjectsKept /\ testbed'[ptr[w]] # None /\ (job[w].key # None => job[w].key \in testbed'[ptr[w]].keys)
        BY <1>0, <1>1, <2>2, KeyAdded DEF SetAccount
      <3>3. Owns(w)
        BY DEF Agreement
      <3>4. Owns(w)' /\ Linking(w)'
        BY <1>0, <3>1, <3>2, <3>3 DEF Owns, Linking, IsObject, ObjectsKept
      <3> QED BY <3>1, <3>2, <3>4, QuietAgreement DEF Inserting, Label
    <2> QED BY <2>1, <2>2
  <1>2. ASSUME UpdateObject(w), testbed[ptr[w]] # None PROVE Agreement'
    <2>1. /\ OthersKept(w) /\ pc[w] = "update" /\ Goto(w, "write") /\ pc'[w] = "write"
          /\ UNCHANGED <<db, job, ptr, add, requests, torn, wanted>>
      BY <1>2 DEF UpdateObject, At, Goto, OthersKept, IInv, WorkersOK
    <2>2. ObjectsKept /\ testbed'[ptr[w]] # None /\ (job[w].key # None => job[w].key \in testbed'[ptr[w]].keys)
      BY <1>0, <1>2, KeyAdded DEF UpdateObject
    <2>3. Owns(w) /\ ptr[w] # None
      BY <1>0, NoneIsNothing DEF Agreement
    <2>4. Owns(w)' /\ Linking(w)'
      BY <2>1, <2>2, <2>3 DEF Owns, Linking, IsRow
    <2> QED BY <2>1, <2>2, <2>4, QuietAgreement DEF Inserting, Label
  <1>3. ASSUME UpdateObject(w), testbed[ptr[w]] = None PROVE Agreement'
    <2>1. SwallowFailure(w) /\ pc[w] = "update" /\ Goto(w, "write")
          /\ UNCHANGED <<db, job, keep, link, add, del, requests, failures, wanted>>
      BY <1>3 DEF UpdateObject, At
    <2> QED BY <2>1, SwallowAgreement
  <1> QED BY <1>1, <1>2, <1>3

-----------------------------------------------------------------------------
(* Steps that change the objects of the testbed *)

\* The new object takes a pointer that nobody had, and a name without a row.
LEMMA MakeObjectAgreement ==
  ASSUME Distinct, IInv, Unique, Researchers, Agreement, NEW w \in Workers, MakeObject(w)
  PROVE  Agreement'
  <1>0. PICK n, new : n = job[w].hrn /\ new = job[w].row
    OBVIOUS
  <1>3. Namesakes(n) = ObjectsOf(n)
    BY <1>0, OwnObjects, JobType DEF MakeObject, At, IInv
  <1>1. CASE ObjectsOf(n) # {}
    BY <1>0, <1>1, <1>3, AbortAgreement DEF MakeObject, At
  <1>2. CASE ObjectsOf(n) = {}
    <2>1. /\ pc[w] = "make" /\ n = job[w].hrn /\ new = job[w].row /\ new \in Id /\ n \in Names
          /\ testbed' = [testbed EXCEPT ![new] = NewObject(n)] /\ Goto(w, Registered(w))
          /\ ptr' = [ptr EXCEPT ![w] = new]
          /\ UNCHANGED <<db, job, add, del, requests, torn, wanted>>
      BY <1>0, <1>2, <1>3, JobType DEF MakeObject, At, IInv
    <2>2. /\ \A v \in Workers : pc'[v] = IF v = w THEN Registered(w) ELSE pc[v]
          /\ OthersKept(w) /\ Registered(w) \in {"account", "insert"} /\ ptr'[w] = new
      BY <2>1 DEF Goto, Registered, OthersKept, IInv, WorkersOK
    <2>3. NewObject(n) # None /\ NewObject(n).name = n /\ NewObject(n).members = {}
      BY <2>1, NewObjectType, NoneIsNothing DEF NewObject
    <2>4. /\ new \in Making /\ testbed[new] = None
          /\ \A i \in Id : db[i] # None => db[i].pointer # new
          /\ \A v \in Workers : ptr[v] # new /\ new \notin add[v]
      BY <2>1 DEF Making, Agreement, FreshObjects
    <2>5. \A p \in Id : /\ p # new => testbed'[p] = testbed[p]
                        /\ p = new => testbed'[p] = NewObject(n)
      BY <2>1 DEF IInv, StoresOK
    <2>6. \A i \in Id : ~IsRow(i, n)
      BY <2>1 DEF Unique, Free, Inserting, RowsOf, IsRow
    <2>7. \A p \in Id : ~IsObject(p, n)
      BY <1>2 DEF ObjectsOf, IsObject
    <2>8. /\ \A i \in Id, m \in Names : IsRow(i, m)' <=> IsRow(i, m)
          /\ \A p \in Id, m \in Names : IsObject(p, m)' <=> IsObject(p, m) \/ (p = new /\ m = n)
      BY <2>1, <2>3, <2>4, <2>5 DEF IsRow, IsObject
    <2>9. \A i \in Id : db[i] # None =>
            /\ db[i].hrn \in Names /\ db[i].pointer \in Id /\ db[i].pointer # new
            /\ \A r \in db[i].researchers : db[r].pointer \in Id /\ db[r].pointer # new
      BY <2>4, RowFacts
    <2>10. \A p \in Id : testbed[p] # None =>
             /\ testbed[p].name \in Names /\ p # new
             /\ \A m \in testbed[p].members : m \in Id /\ testbed[m] # None /\ m # new
      BY <2>4, ObjectFacts
    <2>11. FreshObjects'
      <3>1. Making' \subseteq Making \ {new} /\ Unused' = Unused /\ new \notin Unused
        BY <2>1, <2>2 DEF Making, Unused, Researchers, FreshRows, Inserting, IInv, HistoryOK
      <3>2. \A i \in Unused' \cup Making' : i \in Unused \cup Making /\ i # new /\ i \in Id
        BY <3>1, AwaitedType
      <3> QED BY <2>1, <2>2, <2>5, <3>2 DEF Agreement, FreshObjects, OthersKept
    <2>12. Pointers'
      <3>1. \A p, q \in Id : \A m \in Names : IsObject(p, m)' /\ IsObject(q, m)' => p = q
        BY <2>7, <2>8 DEF Agreement, Pointers
      <3>2. \A i, p \in Id : \A m \in Names : IsRow(i, m)' /\ IsObject(p, m)' => p = db'[i].pointer
        BY <2>1, <2>6, <2>8 DEF Agreement, Pointers
      <3> QED BY <2>1, <2>5, <2>9, <3>1, <3>2 DEF Agreement, Pointers
    <2>13. Members'
      BY <2>3, <2>5, <2>8, <2>10 DEF Agreement, Members
    <2>14. Matched'
      <3>1. \A m \in Names : ~Serving(m, Inserting \cup {"delete"})' =>
              m # n /\ ~Serving(m, Inserting \cup {"delete"})
        BY <2>1, <2>2 DEF Serving, OthersKept, Inserting
      <3>2. \A i \in Id : \A m : IsRow(i, m) => db[i].pointer \in Id /\ db[i].pointer # new
        BY <2>9 DEF IsRow
      <3> SUFFICES ASSUME NEW m \in Names \ torn, m # n, ~Serving(m, Inserting \cup {"delete"})
                   PROVE  /\ \A i \in Id : IsRow(i, m)' => testbed'[db'[i].pointer] # None
                          /\ \A p \in Id : IsObject(p, m)' => \E i \in Id : IsRow(i, m)'
        BY <2>1, <3>1 DEF Matched
      <3>3. /\ \A i \in Id : IsRow(i, m) => testbed[db[i].pointer] # None
            /\ \A p \in Id : IsObject(p, m) => \E i \in Id : IsRow(i, m)
        BY DEF Agreement, Matched
      <3> QED BY <2>1, <2>5, <2>8, <3>2, <3>3
    <2>15. \A m, labels : labels \in {{"delete"}, {"lookup", "compare", "apply"}} =>
             (Serving(m, labels)' <=> Serving(m, labels))
      BY <2>1, <2>2 DEF Serving, OthersKept
    <2>17. LinksThere'
      <3> SUFFICES ASSUME NEW i \in Id, db[i] # None, db[i].hrn \in Slices \ torn, testbed'[db[i].pointer] # None,
                          ~Serving(db[i].hrn, {"lookup", "compare", "apply"})
                   PROVE  /\ \A p \in testbed'[db[i].pointer].members : testbed'[p].name \in wanted[db[i].hrn]
                          /\ \A r \in db[i].researchers : testbed'[db[r].pointer] # None =>
                               db[r].pointer \in testbed'[db[i].pointer].members
        BY <2>1, <2>15 DEF LinksThere
      <3>1. testbed'[db[i].pointer] = testbed[db[i].pointer]
        BY <2>5, <2>9
      <3> QED BY <2>5, <2>9, <2>10, <3>1 DEF Agreement, LinksThere
    <2>18. Owns(w)' /\ Linking(w)'
      <3>1. Registered(w) = "insert" => job[w].key = None
        BY <2>1 DEF Registered, Researchers, Found
      <3>2. IsObject(new, n)'
        BY <2>1, <2>8
      <3> QED BY <2>1, <2>2, <3>1, <3>2 DEF Owns, Linking
    <2>19. ASSUME NEW v \in Workers \ {w} PROVE Owns(v)' /\ Linking(v)'
      <3>1. /\ pc'[v] = pc[v] /\ job'[v] = job[v] /\ ptr'[v] = ptr[v] /\ add'[v] = add[v] /\ del'[v] = del[v]
            /\ Owns(v) /\ Linking(v)
        BY <2>2 DEF OthersKept, Agreement
      <3>2. pc[v] # "idle" => job[v].hrn # n /\ job[v].row \in Id /\ job[v].hrn \in Names
        BY <2>1, OtherNames, JobType DEF IInv
      <3>3. /\ ptr[v] # new /\ ptr[v] \in Id \cup {None} /\ \A t \in add[v] : t \in Id /\ t # new
            /\ pc[v] \in {"account", "insert", "lookup", "compare", "apply"} => ptr[v] \in Id
        BY <2>4 DEF IInv, WorkersOK, Control, Holds
      <3>4. ptr[v] \in Id => testbed'[ptr[v]] = testbed[ptr[v]]
        BY <2>5, <3>3
      <3>5. Owns(v)'
        BY <2>1, <2>8, <3>1, <3>2, <3>3, <3>4 DEF Owns
      <3>6. Linking(v)'
        <4>1. pc[v] \in {"compare", "apply"} => \A t \in add[v] : testbed'[t] = testbed[t]
          BY <2>5, <3>3
        <4>2. pc[v] = "apply" => \A m \in testbed[ptr[v]].members : testbed'[m] = testbed[m]
          BY <2>5, <2>10, <3>1, <3>3 DEF Owns
        <4>3. pc[v] = "apply" => \A r \in db[job[v].row].researchers : testbed'[db[r].pointer] = testbed[db[r].pointer]
          BY <2>5, <2>9, <3>1 DEF Owns, IsRow
        <4> QED BY <2>1, <3>1, <3>3, <3>4, <4>1, <4>2, <4>3 DEF Linking
      <3> QED BY <3>5, <3>6
    <2> QED BY <2>11, <2>12, <2>13, <2>14, <2>17, <2>18, <2>19 DEF Agreement
  <1> QED BY <1>1, <1>2

\* One link is added or taken away, while the slice is being linked.
LEMMA LinkStepAgreement ==
  ASSUME IInv, Unique, Researchers, Agreement, NEW w \in Workers, pc[w] = "apply",
         UNCHANGED <<db, pc, job, ptr, requests, torn, wanted>>, OthersKept(w),
         NEW new \in Object, testbed' = [testbed EXCEPT ![ptr[w]] = new], new.name = testbed[ptr[w]].name,
         new.keys = testbed[ptr[w]].keys, \A m \in new.members : testbed[m] # None,
         add'[w] \subseteq add[w], add'[w] \cap del'[w] = {},
         add[w] \cup (testbed[ptr[w]].members \ del[w]) = add'[w] \cup (new.members \ del'[w])
  PROVE  Agreement'
  <1>0. PICK n, here, row : n = job[w].hrn /\ here = ptr[w] /\ row = job[w].row
    OBVIOUS
  <1>1. /\ n \in Names /\ here \in Id /\ row \in Id /\ IsRow(row, n) /\ db[row].pointer = here
        /\ testbed[here] # None /\ IsObject(here, n)
    <2>1. n \in Names /\ row \in Id /\ here \in Id /\ here # None
      BY <1>0, JobType, NoneIsNothing DEF IInv, WorkersOK, Control, Holds
    <2>2. IsRow(row, n) /\ db[row].pointer = here /\ testbed[here] # None
      BY <1>0, <2>1 DEF Agreement, Owns
    <2> QED BY <2>1, <2>2 DEF IsRow, IsObject, Agreement, Pointers
  <1>2. \A p \in Id : /\ p # here => testbed'[p] = testbed[p]
                      /\ p = here => testbed'[p] = new
    BY <1>0, <1>1 DEF IInv, StoresOK
  <1>3. new # None
    BY NoneIsNothing
  <1>4. \A p \in Id : /\ testbed'[p] # None <=> testbed[p] # None
                      /\ testbed[p] # None => testbed'[p].name = testbed[p].name /\ testbed'[p].keys = testbed[p].keys
                      /\ testbed[p] = None => testbed'[p] = testbed[p]
    BY <1>0, <1>1, <1>2, <1>3
  <1>5. /\ \A i \in Id : \A m : IsRow(i, m)' <=> IsRow(i, m)
        /\ \A p \in Id : \A m : IsObject(p, m)' <=> IsObject(p, m)
    BY <1>4 DEF IsRow, IsObject
  <1>6. \A i \in Id : db[i] # None =>
          /\ db[i].hrn \in Names /\ db[i].pointer \in Id
          /\ \A r \in db[i].researchers : db[r].pointer \in Id
    BY RowFacts
  <1>7. \A p \in Id : testbed[p] # None =>
          /\ testbed[p].name \in Names /\ \A m \in testbed[p].members : m \in Id /\ testbed[m] # None
    BY ObjectFacts
  <1>8. \A i \in Id : IsRow(i, n) => i = row
    BY <1>1 DEF IsRow, Unique, OneRecordPerName
  <1>9. \A i \in Id : db[i] # None /\ db[i].pointer = here => i = row
    BY <1>1, <1>8 DEF Agreement, Pointers, IsObject, IsRow
  <1>10. FreshObjects'
    <2>1. Unused' = Unused /\ Making' = Making
      BY DEF Unused, Making
    <2>2. \A i \in Unused \cup Making : i \in Id
      BY AwaitedType
    <2> QED BY <1>4, <2>1, <2>2 DEF Agreement, FreshObjects, OthersKept
  <1>11. Pointers'
    BY <1>4, <1>5, <1>6 DEF Agreement, Pointers
  <1>12. Members'
    <2> SUFFICES ASSUME NEW p \in Id, testbed'[p] # None
                 PROVE  /\ \A m \in testbed'[p].members : testbed'[m] # None
                        /\ \/ testbed'[p].members = {}
                           \/ \E i \in Id : db[i] # None /\ db[i].hrn = testbed'[p].name
      BY DEF Members, IsRow
    <2>1. CASE p = here
      <3>1. testbed'[p] = new /\ new.name = n
        BY <1>0, <1>1, <1>2, <2>1 DEF IsObject
      <3>2. \A m \in new.members : m \in Id /\ testbed'[m] # None
        BY <1>4 DEF Object
      <3> QED BY <1>1, <3>1, <3>2 DEF IsRow
    <2>2. CASE p # here
      BY <1>2, <1>4, <1>7, <2>2 DEF Agreement, Members, IsRow
    <2> QED BY <2>1, <2>2
  <1>13. Matched'
    <2>1. \A m, labels : Serving(m, labels)' <=> Serving(m, labels)
      BY DEF Serving
    <2>2. \A i \in Id : \A m : IsRow(i, m) => db[i].pointer \in Id
      BY <1>6 DEF IsRow
    <2> QED BY <1>4, <1>5, <2>1, <2>2 DEF Agreement, Matched
  <1>15. LinksThere'
    <2>1. \A m, labels : Serving(m, labels)' <=> Serving(m, labels)
      BY DEF Serving
    <2>2. Serving(n, {"lookup", "compare", "apply"})
      BY <1>0 DEF Serving
    <2> SUFFICES ASSUME NEW i \in Id, db[i] # None, db[i].hrn \in Slices \ torn, testbed'[db[i].pointer] # None,
                        ~Serving(db[i].hrn, {"lookup", "compare", "apply"})
                 PROVE  /\ \A p \in testbed'[db[i].pointer].members : testbed'[p].name \in wanted[db[i].hrn]
                        /\ \A r \in db[i].researchers : testbed'[db[r].pointer] # None =>
                             db[r].pointer \in testbed'[db[i].pointer].members
      BY <2>1 DEF LinksThere
    <2>3. db[i].pointer # here
      BY <1>1, <1>9, <2>2 DEF IsRow
    <2>4. testbed'[db[i].pointer] = testbed[db[i].pointer]
      BY <1>2, <1>6, <2>3
    <2> QED BY <1>4, <1>6, <1>7, <2>4 DEF Agreement, LinksThere
  <1>16. Owns(w)' /\ Linking(w)'
    <2>1. Owns(w) /\ Linking(w)
      BY DEF Agreement
    <2>2. testbed'[here] = new
      BY <1>1, <1>2
    <2>3. Owns(w)'
      BY <1>0, <1>3, <2>1, <2>2 DEF Owns, IsRow
    <2>4. \A m \in new.members \ del'[w] : testbed'[m].name \in job[w].users
      <3>1. \A m \in new.members \ del'[w] : m \in Id /\ testbed[m] # None /\ testbed[m].name \in job[w].users
        BY <2>1 DEF Object, Linking
      <3> QED BY <1>4, <3>1
    <2>5. \A r \in db[row].researchers : testbed'[db[r].pointer] # None =>
            db[r].pointer \in add'[w] \cup (new.members \ del'[w])
      BY <1>0, <1>1, <1>4, <1>6, <2>1 DEF Linking, IsRow
    <2>6. \A t \in add'[w] : t \in Id /\ (testbed'[t] # None => testbed'[t].name \in job[w].users)
      BY <1>4, <2>1 DEF Linking, IInv, WorkersOK
    <2>7. Linking(w)'
      BY <1>0, <2>1, <2>2, <2>4, <2>5, <2>6 DEF Linking
    <2> QED BY <2>3, <2>7
  <1>17. ASSUME NEW v \in Workers \ {w} PROVE Owns(v)' /\ Linking(v)'
    <2>1. /\ pc'[v] = pc[v] /\ job'[v] = job[v] /\ ptr'[v] = ptr[v] /\ add'[v] = add[v] /\ del'[v] = del[v]
          /\ Owns(v) /\ Linking(v)
      BY DEF OthersKept, Agreement
    <2>2. pc[v] # "idle" => job[v].hrn # n /\ job[v].row \in Id /\ job[v].hrn \in Names
      BY <1>0, OtherNames, JobType DEF IInv
    <2>3. /\ ptr[v] \in Id \cup {None} /\ \A t \in add[v] : t \in Id
          /\ pc[v] \in {"account", "insert", "lookup", "compare", "apply"} => ptr[v] \in Id
          /\ None \notin Id
      BY NoneIsNothing DEF IInv, WorkersOK, Control, Holds
    <2>4. Owns(v)'
      BY <1>4, <1>5, <2>1, <2>2, <2>3 DEF Owns
    <2>5. pc[v] = "apply" => ptr[v] # here
      BY <1>1, <1>9, <2>1, <2>2, <2>3 DEF Owns, IsRow
    <2>6. Linking(v)'
      <3>1. pc[v] = "apply" => testbed'[ptr[v]] = testbed[ptr[v]]
        BY <1>2, <2>3, <2>5
      <3>2. pc[v] = "apply" => \A m \in testbed[ptr[v]].members : m \in Id /\ testbed[m] # None
        BY <1>7, <2>1, <2>3 DEF Owns
      <3>3. pc[v] \in {"lookup", "compare", "apply"} => \A r \in db[job[v].row].researchers : db[r].pointer \in Id
        BY <1>6, <2>1 DEF Owns, IsRow
      <3> QED BY <1>4, <2>1, <2>3, <3>1, <3>2, <3>3 DEF Linking
    <2> QED BY <2>4, <2>6
  <1> QED BY <1>10, <1>11, <1>12, <1>13, <1>15, <1>16, <1>17 DEF Agreement

\* The last link is done: the slice is linked as its request asked.
LEMMA LinkedAgreement ==
  ASSUME IInv, Unique, Researchers, Agreement, NEW w \in Workers, pc[w] = "apply",
         add[w] = {}, del[w] = {}, Idle(w), torn' = torn \ {job[w].hrn},
         UNCHANGED <<stores, requests, wanted>>
  PROVE  Agreement'
  <1>0. PICK n, here, row : n = job[w].hrn /\ here = ptr[w] /\ row = job[w].row
    OBVIOUS
  <1>1. /\ n \in Slices /\ here \in Id /\ row \in Id /\ IsRow(row, n) /\ db[row].pointer = here
        /\ testbed[here] # None
    <2>1. n \in Slices /\ row \in Id /\ here \in Id /\ here # None
      BY <1>0, JobType, NoneIsNothing DEF IInv, WorkersOK, Control, Holds, Researchers, Found
    <2> QED BY <1>0, <2>1 DEF Agreement, Owns
  <1>2. IsObject(here, n)
    BY <1>1 DEF IsRow, IsObject, Agreement, Pointers
  <1>3. \A i \in Id : IsRow(i, n) => i = row
    BY <1>1 DEF IsRow, Unique, OneRecordPerName
  <1>4. /\ \A v \in Workers : pc'[v] = IF v = w THEN "idle" ELSE pc[v]
        /\ ptr'[w] = None /\ add'[w] = {} /\ OthersKept(w)
        /\ db' = db /\ testbed' = testbed /\ wanted' = wanted
    BY DEF Idle, Goto, IInv, WorkersOK, OthersKept, stores
  <1>5. n \notin Users /\ n \in Names
    BY <1>1, NamesAssumption DEF Names
  <1>6. \A m, labels : m # n /\ "idle" \notin labels => (Serving(m, labels)' <=> Serving(m, labels))
    BY <1>0, <1>4 DEF Serving, OthersKept
  <1>7. FreshObjects'
    <2>1. Unused' = Unused /\ Making' \subseteq Making
      BY <1>4 DEF Unused, Making, OthersKept
    <2>2. \A i \in Unused \cup Making : i # None
      BY AwaitedType, NoneIsNothing
    <2> QED BY <1>4, <2>1, <2>2 DEF Agreement, FreshObjects, OthersKept
  <1>8. Pointers' /\ Members'
    BY <1>4 DEF Agreement, Pointers, Members, IsRow, IsObject
  <1>9. Matched'
    <2> SUFFICES ASSUME NEW m \in Names \ torn', ~Serving(m, Inserting \cup {"delete"})'
                 PROVE  /\ \A i \in Id : IsRow(i, m) => testbed[db[i].pointer] # None
                        /\ \A p \in Id : IsObject(p, m) => \E i \in Id : IsRow(i, m)
      BY <1>4 DEF Matched, IsRow, IsObject
    <2>1. CASE m = n
      BY <1>1, <1>3, <2>1
    <2>2. CASE m # n
      <3>1. ~Serving(m, Inserting \cup {"delete"})
        BY <1>6, <2>2 DEF Inserting
      <3>2. m \notin torn
        BY <1>0, <2>2
      <3> QED BY <3>1, <3>2 DEF Agreement, Matched
    <2> QED BY <2>1, <2>2
  <1>11. LinksThere'
    <2> SUFFICES ASSUME NEW i \in Id, db[i] # None, db[i].hrn \in Slices \ torn', testbed[db[i].pointer] # None,
                        ~Serving(db[i].hrn, {"lookup", "compare", "apply"})'
                 PROVE  /\ \A p \in testbed[db[i].pointer].members : testbed[p].name \in wanted[db[i].hrn]
                        /\ \A r \in db[i].researchers : testbed[db[r].pointer] # None =>
                             db[r].pointer \in testbed[db[i].pointer].members
      BY <1>4 DEF LinksThere
    <2>1. CASE db[i].hrn = n
      <3>1. i = row
        BY <1>3, <2>1 DEF IsRow
      <3>2. Linking(w)
        BY DEF Agreement
      <3> QED BY <1>0, <1>1, <2>1, <3>1, <3>2 DEF Linking
    <2>2. CASE db[i].hrn # n
      <3>1. \A m : m # n => (Serving(m, {"lookup", "compare", "apply"})' <=>
                               Serving(m, {"lookup", "compare", "apply"}))
        BY <1>6
      <3>2. ~Serving(db[i].hrn, {"lookup", "compare", "apply"})
        BY <1>4, <2>2, <3>1
      <3>3. db[i].hrn \notin torn
        BY <1>0, <2>2
      <3> QED BY <3>2, <3>3 DEF Agreement, LinksThere
    <2> QED BY <2>1, <2>2
  <1>12. Owns(w)' /\ Linking(w)'
    BY <1>4 DEF Owns, Linking
  <1>13. ASSUME NEW v \in Workers \ {w} PROVE Owns(v)' /\ Linking(v)'
    <2>1. /\ pc'[v] = pc[v] /\ job'[v] = job[v] /\ ptr'[v] = ptr[v] /\ add'[v] = add[v] /\ del'[v] = del[v]
          /\ Owns(v) /\ Linking(v)
      BY <1>4 DEF OthersKept, Agreement
    <2>2. pc[v] # "idle" => job[v].hrn # n
      BY <1>0, OtherNames
    <2> QED BY <1>0, <1>4, <2>1, <2>2 DEF Owns, Linking, IsRow, IsObject
  <1> QED BY <1>7, <1>8, <1>9, <1>11, <1>12, <1>13 DEF Agreement

LEMMA ApplyLinkAgreement ==
  ASSUME IInv, Unique, Researchers, Agreement, NEW w \in Workers, ApplyLink(w)
  PROVE  Agreement'
  <1>0. pc[w] = "apply" /\ ptr[w] \in Id /\ add[w] \subseteq Id /\ del[w] \subseteq Id
    BY DEF ApplyLink, At, IInv, WorkersOK, Control, Holds
  <1>1. add[w] \cap del[w] = {}
    BY <1>0 DEF Agreement, Linking
  <1>2. ASSUME NEW t \in add[w], ~ (testbed[t] = None \/ testbed[ptr[w]] = None),
               testbed' = [testbed EXCEPT ![ptr[w]].members = @ \cup {t}],
               add' = [add EXCEPT ![w] = @ \ {t}],
               UNCHANGED <<db, pc, job, ptr, keep, link, del, requests, failures, torn, wanted>>
        PROVE  Agreement'
    <2> DEFINE new == [testbed[ptr[w]] EXCEPT !.members = @ \cup {t}]
    <2>1. testbed[ptr[w]] \in Object /\ t \in Id
      BY <1>0, <1>2 DEF IInv, StoresOK
    <2>2. /\ new \in Object /\ new.name = testbed[ptr[w]].name /\ new.keys = testbed[ptr[w]].keys
          /\ new.members = testbed[ptr[w]].members \cup {t}
      BY <2>1 DEF Object
    <2>3. testbed' = [testbed EXCEPT ![ptr[w]] = new]
      BY <1>2
    <2>4. OthersKept(w) /\ add'[w] = add[w] \ {t} /\ del'[w] = del[w]
      BY <1>2 DEF OthersKept, IInv, WorkersOK
    <2>5. \A m \in new.members : testbed[m] # None
      BY <1>0, <1>2, <2>2, ObjectFacts
    <2>6. add[w] \cup (testbed[ptr[w]].members \ del[w]) = add'[w] \cup (new.members \ del'[w])
      BY <1>1, <2>2, <2>4
    <2>7. add'[w] \subseteq add[w] /\ add'[w] \cap del'[w] = {}
      BY <1>1, <2>4
    <2> HIDE DEF new
    <2> QED BY <1>0, <1>2, <2>2, <2>3, <2>4, <2>5, <2>6, <2>7, LinkStepAgreement
  <1>3. ASSUME NEW t \in del[w], ~ (testbed[t] = None \/ testbed[ptr[w]] = None), add[w] = {},
               testbed' = [testbed EXCEPT ![ptr[w]].members = @ \ {t}],
               del' = [del EXCEPT ![w] = @ \ {t}],
               UNCHANGED <<db, pc, job, ptr, keep, link, add, requests, failures, torn, wanted>>
        PROVE  Agreement'
    <2> DEFINE new == [testbed[ptr[w]] EXCEPT !.members = @ \ {t}]
    <2>1. testbed[ptr[w]] \in Object /\ t \in Id
      BY <1>0, <1>3 DEF IInv, StoresOK
    <2>2. /\ new \in Object /\ new.name = testbed[ptr[w]].name /\ new.keys = testbed[ptr[w]].keys
          /\ new.members = testbed[ptr[w]].members \ {t}
      BY <2>1 DEF Object
    <2>3. testbed' = [testbed EXCEPT ![ptr[w]] = new]
      BY <1>3
    <2>4. OthersKept(w) /\ add'[w] = add[w] /\ del'[w] = del[w] \ {t}
      BY <1>3 DEF OthersKept, IInv, WorkersOK
    <2>5. \A m \in new.members : testbed[m] # None
      BY <1>0, <1>3, <2>2, ObjectFacts
    <2>6. add[w] \cup (testbed[ptr[w]].members \ del[w]) = add'[w] \cup (new.members \ del'[w])
      BY <1>1, <2>2, <2>4
    <2>7. add'[w] \subseteq add[w] /\ add'[w] \cap del'[w] = {}
      BY <1>1, <2>4
    <2> HIDE DEF new
    <2> QED BY <1>0, <1>3, <2>2, <2>3, <2>4, <2>5, <2>6, <2>7, LinkStepAgreement
  <1>4. ASSUME add[w] = {}, del[w] = {}, Idle(w), torn' = torn \ {job[w].hrn},
               UNCHANGED <<stores, requests, failures, wanted>>
        PROVE  Agreement'
    BY <1>0, <1>4, LinkedAgreement
  <1>5. ASSUME Abort(w) PROVE Agreement'
    BY <1>0, <1>5, AbortAgreement
  <1> QED BY <1>2, <1>3, <1>4, <1>5 DEF ApplyLink

\* The object goes, and with it its place among the members of the others.
LEMMA EraseObjectAgreement ==
  ASSUME IInv, Unique, Researchers, Agreement, NEW w \in Workers, EraseObject(w)
  PROVE  Agreement'
  <1>0. PICK n, here, row : n = job[w].hrn /\ here = ptr[w] /\ row = job[w].row
    OBVIOUS
  <1>1. /\ pc[w] = "erase" /\ n \in Names /\ here \in Id /\ row \in Id /\ IsRow(row, n)
        /\ db[row].pointer = here
    <2>1. pc[w] = "erase" /\ n \in Names /\ row \in Id /\ here \in Id /\ here # None
      BY <1>0, JobType, NoneIsNothing DEF EraseObject, At, IInv, WorkersOK, Control, Holds
    <2> QED BY <1>0, <2>1 DEF Agreement, Owns
  <1>2. /\ \A v \in Workers : pc'[v] = IF v = w THEN "delete" ELSE pc[v]
        /\ OthersKept(w) /\ UNCHANGED <<db, job, ptr, add, del, requests, torn, wanted>>
    BY DEF EraseObject, Goto, locals, IInv, WorkersOK, OthersKept
  <1>3. \A p \in Id : /\ p = here \/ testbed[p] = None => testbed'[p] = None
                      /\ p # here /\ testbed[p] # None =>
                           /\ testbed'[p] # None /\ testbed'[p].name = testbed[p].name
                           /\ testbed'[p].members = testbed[p].members \ {here}
                           /\ testbed'[p].keys = testbed[p].keys
    <2> SUFFICES ASSUME NEW p \in Id
                 PROVE  /\ p = here \/ testbed[p] = None => testbed'[p] = None
                        /\ p # here /\ testbed[p] # None =>
                             /\ testbed'[p] # None /\ testbed'[p].name = testbed[p].name
                             /\ testbed'[p].members = testbed[p].members \ {here}
                             /\ testbed'[p].keys = testbed[p].keys
      OBVIOUS
    <2>1. testbed'[p] = IF p = here \/ testbed[p] = None THEN None
                          ELSE [testbed[p] EXCEPT !.members = @ \ {here}]
      BY <1>0 DEF EraseObject
    <2>2. testbed[p] # None => testbed[p] \in Object
      BY DEF IInv, StoresOK
    <2>3. \A o \in Object : LET e == [o EXCEPT !.members = @ \ {here}]
                            IN  e \in Object /\ e.name = o.name /\ e.keys = o.keys /\ e.members = o.members \ {here}
      BY DEF Object
    <2> QED BY <2>1, <2>2, <2>3, NoneIsNothing
  <1>4. /\ \A i \in Id : \A m : IsRow(i, m)' <=> IsRow(i, m)
        /\ \A p \in Id : \A m : IsObject(p, m)' <=> IsObject(p, m) /\ p # here
    BY <1>2, <1>3 DEF IsRow, IsObject
  <1>5. \A i \in Id : db[i] # None =>
          /\ db[i].hrn \in Names /\ db[i].pointer \in Id
          /\ \A r \in db[i].researchers : db[r].pointer \in Id
    BY RowFacts
  <1>6. \A p \in Id : testbed[p] # None =>
          /\ testbed[p].name \in Names /\ \A m \in testbed[p].members : m \in Id /\ testbed[m] # None
    BY ObjectFacts
  <1>7. \A m \in Names : IsObject(here, m) => m = n
    BY <1>1 DEF Agreement, Pointers, IsObject, IsRow
  <1>8. \A p \in Id : IsObject(p, n) => p = here
    BY <1>1 DEF Agreement, Pointers
  <1>9. \A m : m # n => (Serving(m, Inserting \cup {"delete"})' <=> Serving(m, Inserting \cup {"delete"}))
    BY <1>0, <1>2 DEF Serving, OthersKept
  <1>10. \A m : m # n => (Serving(m, {"delete"})' <=> Serving(m, {"delete"}))
    BY <1>0, <1>2 DEF Serving, OthersKept
  <1>11. \A m : Serving(m, {"lookup", "compare", "apply"})' <=> Serving(m, {"lookup", "compare", "apply"})
    BY <1>1, <1>2 DEF Serving, OthersKept
  <1>12. Serving(n, {"delete"})' /\ Serving(n, Inserting \cup {"delete"})'
    BY <1>0, <1>2 DEF Serving
  <1>13. FreshObjects'
    <2>1. Unused' = Unused /\ Making' \subseteq Making
      BY <1>2 DEF Unused, Making, OthersKept
    <2>2. \A i \in Unused \cup Making : i \in Id
      BY AwaitedType
    <2> QED BY <1>2, <1>3, <2>1, <2>2 DEF Agreement, FreshObjects
  <1>14. Pointers'
    BY <1>2, <1>3, <1>4, <1>5 DEF Agreement, Pointers
  <1>15. Members'
    <2> SUFFICES ASSUME NEW p \in Id, testbed'[p] # None
                 PROVE  /\ \A m \in testbed'[p].members : testbed'[m] # None
                        /\ \/ testbed'[p].members = {}
                           \/ \E i \in Id : db[i] # None /\ db[i].hrn = testbed'[p].name
      BY <1>2 DEF Members, IsRow
    <2>1. /\ testbed[p] # None /\ testbed'[p].name = testbed[p].name
          /\ testbed'[p].members = testbed[p].members \ {here}
      BY <1>3
    <2> QED BY <1>3, <1>6, <2>1 DEF Agreement, Members, IsRow
  <1>16. Matched'
    <2> SUFFICES ASSUME NEW m \in Names \ torn, m # n, ~Serving(m, Inserting \cup {"delete"})
                 PROVE  /\ \A i \in Id : IsRow(i, m)' => testbed'[db[i].pointer] # None
                        /\ \A p \in Id : IsObject(p, m)' => \E i \in Id : IsRow(i, m)'
      BY <1>2, <1>9, <1>12 DEF Matched
    <2>1. /\ \A i \in Id : IsRow(i, m) => testbed[db[i].pointer] # None
          /\ \A p \in Id : IsObject(p, m) => \E i \in Id : IsRow(i, m)
      BY DEF Agreement, Matched
    <2>2. \A i \in Id : IsRow(i, m) => db[i].pointer \in Id /\ db[i].pointer # here
      BY <1>5, <1>7, <2>1 DEF IsRow, IsObject, Agreement, Pointers
    <2> QED BY <1>3, <1>4, <2>1, <2>2
  <1>18. LinksThere'
    <2> SUFFICES ASSUME NEW i \in Id, db[i] # None, db[i].hrn \in Slices \ torn, testbed'[db[i].pointer] # None,
                        ~Serving(db[i].hrn, {"lookup", "compare", "apply"})
                 PROVE  /\ \A p \in testbed'[db[i].pointer].members : testbed'[p].name \in wanted[db[i].hrn]
                        /\ \A r \in db[i].researchers : testbed'[db[r].pointer] # None =>
                             db[r].pointer \in testbed'[db[i].pointer].members
      BY <1>2, <1>11 DEF LinksThere
    <2>1. /\ testbed[db[i].pointer] # None
          /\ testbed'[db[i].pointer].members = testbed[db[i].pointer].members \ {here}
      BY <1>3, <1>5
    <2>2. /\ \A p \in testbed[db[i].pointer].members : testbed[p].name \in wanted[db[i].hrn]
          /\ \A r \in db[i].researchers : testbed[db[r].pointer] # None =>
               db[r].pointer \in testbed[db[i].pointer].members
      BY <2>1 DEF Agreement, LinksThere
    <2>3. \A p \in testbed[db[i].pointer].members \ {here} : testbed'[p].name = testbed[p].name
      BY <1>3, <1>5, <1>6, <2>1
    <2>4. \A r \in db[i].researchers : testbed'[db[r].pointer] # None =>
            testbed[db[r].pointer] # None /\ db[r].pointer # here
      BY <1>3, <1>5
    <2> QED BY <2>1, <2>2, <2>3, <2>4
  <1>19. Owns(w)' /\ Linking(w)'
    <2>1. pc'[w] = "delete"
      BY <1>2
    <2>2. \A p \in Id : ~IsObject(p, n)'
      BY <1>4, <1>8
    <2>3. IsRow(row, n)'
      BY <1>1, <1>4
    <2> QED BY <1>0, <1>1, <1>2, <2>1, <2>2, <2>3 DEF Owns, Linking
  <1>20. ASSUME NEW v \in Workers \ {w} PROVE Owns(v)' /\ Linking(v)'
    <2>1. /\ pc'[v] = pc[v] /\ job'[v] = job[v] /\ ptr'[v] = ptr[v] /\ add'[v] = add[v] /\ del'[v] = del[v]
          /\ Owns(v) /\ Linking(v)
      BY <1>2 DEF OthersKept, Agreement
    <2>2. pc[v] # "idle" => job[v].hrn # n /\ job[v].row \in Id /\ job[v].hrn \in Names
      BY <1>0, <1>1, OtherNames, JobType DEF IInv
    <2>3. /\ ptr[v] \in Id \cup {None} /\ \A t \in add[v] : t \in Id
          /\ pc[v] \in {"account", "insert", "lookup", "compare", "apply"} => ptr[v] \in Id
          /\ None \notin Id
      BY NoneIsNothing DEF IInv, WorkersOK, Control, Holds
    <2>4. \A p \in Id : testbed[p] # None /\ testbed[p].name # n => p # here
      BY <1>6, <1>7 DEF IsObject
    <2>5. pc[v] # "idle" /\ ptr[v] \in Id /\ testbed[ptr[v]] # None =>
            (pc[v] \in {"account", "insert", "flush", "update", "write", "lookup", "compare", "apply", "erase", "delete"}
              => ptr[v] # here)
      <3>1. pc[v] \in {"account", "insert"} => ptr[v] # here
        BY <2>1, <2>2, <2>4 DEF Owns, IsObject
      <3>2. pc[v] \in {"flush", "update", "write", "lookup", "compare", "apply", "erase", "delete"}
              /\ ptr[v] \in Id /\ testbed[ptr[v]] # None => ptr[v] # here
        BY <2>1, <2>2, <2>3, <2>4 DEF Owns, IsRow, Agreement, Pointers
      <3> QED BY <3>1, <3>2
    <2>6. Owns(v)'
      <3>1. pc[v] \in {"account", "insert", "write", "lookup", "compare", "apply"} /\ ptr[v] \in Id
              /\ testbed[ptr[v]] # None =>
                /\ testbed'[ptr[v]] # None /\ testbed'[ptr[v]].name = testbed[ptr[v]].name
                /\ testbed'[ptr[v]].keys = testbed[ptr[v]].keys
        BY <1>3, <2>5
      <3>2. /\ pc[v] \in {"account", "insert"} => testbed[ptr[v]] # None /\ testbed[ptr[v]].name = job[v].hrn
            /\ pc[v] = "write" /\ job[v].key # None /\ ptr[v] # None => testbed[ptr[v]] # None
        BY <2>1 DEF Owns, IsObject
      <3>3. pc[v] = "delete" => \A p \in Id : ~(testbed'[p] # None /\ testbed'[p].name = job[v].hrn)
        BY <1>3, <2>1 DEF Owns, IsObject
      <3> QED BY <1>2, <2>1, <2>3, <3>1, <3>2, <3>3 DEF Owns, IsRow, IsObject
    <2>7. Linking(v)'
      <3>1. pc[v] = "apply" => testbed'[ptr[v]].members = testbed[ptr[v]].members \ {here}
        BY <1>3, <2>1, <2>3, <2>5 DEF Owns
      <3>2. pc[v] = "apply" => \A m \in testbed[ptr[v]].members : m \in Id /\ testbed[m] # None
        BY <1>6, <2>1, <2>3 DEF Owns
      <3>3. pc[v] \in {"lookup", "compare", "apply"} => \A r \in db[job[v].row].researchers : db[r].pointer \in Id
        BY <1>5, <2>1 DEF Owns, IsRow
      <3>4. pc[v] = "apply" => \A m \in testbed'[ptr[v]].members : testbed'[m].name = testbed[m].name
        BY <1>3, <3>1, <3>2
      <3>5. \A t \in add[v] : testbed'[t] # None => testbed[t] # None /\ testbed'[t].name = testbed[t].name
        BY <1>3, <2>3
      <3>6. pc[v] = "apply" => \A r \in db[job[v].row].researchers : testbed'[db[r].pointer] # None =>
              testbed[db[r].pointer] # None /\ db[r].pointer # here
        BY <1>3, <3>3
      <3> QED BY <1>2, <2>1, <3>1, <3>2, <3>3, <3>4, <3>5, <3>6 DEF Linking
    <2> QED BY <2>6, <2>7
  <1> QED BY <1>13, <1>14, <1>15, <1>16, <1>18, <1>19, <1>20 DEF Agreement

-----------------------------------------------------------------------------
(* Commits *)

\* What a commit does to the request and to the history.
LEMMA Committed ==
  ASSUME IInv, Researchers, NEW w \in Workers, pc[w] \in {"insert", "write"}, AfterCommit(w),
         NEW n \in Names, n = job[w].hrn
  PROVE  /\ OthersKept(w)
         /\ job[w].users # None =>
              /\ pc'[w] = "lookup" /\ job'[w] = job[w] /\ ptr'[w] = ptr[w] /\ add'[w] = add[w]
              /\ torn' = torn /\ n \in Slices /\ wanted'[n] = job[w].users
         /\ job[w].users = None =>
              /\ pc'[w] = "idle" /\ ptr'[w] = None /\ add'[w] = {}
              /\ job[w].op = "Register" /\ n \in Slices => wanted'[n] = {}
              /\ job[w].op = "Update" => wanted' = wanted
              /\ torn' = IF job[w].op = "Register" \/ (job[w].key # None /\ ptr[w] # None)
                           THEN torn \ {n} ELSE torn
         /\ \A m \in Slices : m # n => wanted'[m] = wanted[m]
         /\ \A m : m # n => (m \in torn' <=> m \in torn)
  <1>1. CASE job[w].users # None
    <2>1. n \in Slices
      BY <1>1 DEF Researchers, Found
    <2> QED BY <1>1, <2>1 DEF AfterCommit, Goto, locals, OthersKept, IInv, WorkersOK, HistoryOK
  <1>2. CASE job[w].users = None
    <2>1. Idle(w) /\ OthersKept(w) /\ pc'[w] = "idle" /\ ptr'[w] = None /\ add'[w] = {}
      BY <1>2 DEF AfterCommit, Idle, Goto, OthersKept, IInv, WorkersOK
    <2> QED BY <1>2, <2>1 DEF AfterCommit, IInv, HistoryOK
  <1> QED BY <1>1, <1>2

\* Names and pointers of rows stay, so that only one name's promises change.
LEMMA CommitServing ==
  ASSUME NEW w \in Workers, OthersKept(w), NEW n, n = job[w].hrn,
         pc'[w] = "idle" \/ (pc'[w] = "lookup" /\ job'[w] = job[w])
  PROVE  \A m : m # n =>
           /\ Serving(m, Inserting \cup {"delete"})' <=> Serving(m, Inserting \cup {"delete"})
           /\ Serving(m, {"delete"})' <=> Serving(m, {"delete"})
           /\ Serving(m, {"lookup", "compare", "apply"})' <=> Serving(m, {"lookup", "compare", "apply"})
  BY DEF Serving, OthersKept, Inserting

\* The pointers that were fresh stay so.
LEMMA CommitFresh ==
  ASSUME IInv, Agreement, NEW w \in Workers, OthersKept(w), pc[w] \in {"insert", "write", "delete"},
         UNCHANGED <<testbed, requests>>,
         \A j \in Id : db'[j] # None => \/ db[j] # None /\ db'[j].pointer = db[j].pointer
                                        \/ db'[j].pointer = ptr[w],
         \/ pc'[w] = "idle" /\ ptr'[w] = None /\ add'[w] = {}
         \/ pc'[w] = "lookup" /\ ptr'[w] = ptr[w] /\ add'[w] = add[w]
  PROVE  FreshObjects'
  <1>1. Unused' = Unused /\ Making' \subseteq Making
    BY DEF Unused, Making, OthersKept
  <1>2. \A i \in Unused \cup Making : i # None
    BY AwaitedType, NoneIsNothing
  <1> QED BY <1>1, <1>2 DEF Agreement, FreshObjects, OthersKept

\* The row that Register inserts points to the object it found or made.
LEMMA InsertRowAgreement ==
  ASSUME IInv, Unique, Researchers, Agreement, NEW w \in Workers, InsertRow(w)
  PROVE  Agreement'
  <1>1. CASE ~ \A i \in link[w] : db[i] # None
    BY <1>1, AbortAgreement DEF InsertRow, At
  <1>2. CASE \A i \in link[w] : db[i] # None
    <2>0. PICK n, here, row : n = job[w].hrn /\ here = ptr[w] /\ row = job[w].row
      OBVIOUS
    <2>1. PICK new : new = NewRow(job[w], ptr[w], link[w])
      OBVIOUS
    <2>2. /\ pc[w] = "insert" /\ n \in Names /\ row \in Id /\ here \in Id /\ db' = [db EXCEPT ![row] = new]
          /\ AfterCommit(w) /\ UNCHANGED <<testbed, requests>> /\ job[w].op = "Register"
      BY <1>2, <2>0, <2>1, JobType
         DEF InsertRow, At, IInv, WorkersOK, Control, Holds, Researchers, Found, Inserting
    <2>3. new # None /\ new.hrn = n /\ new.pointer = here /\ new.researchers = link[w] /\ new.key = job[w].key
      BY <2>0, <2>1, <2>2, NewRowType, JobType, NoneIsNothing DEF NewRow, IInv, WorkersOK
    <2>4. \A i \in Id : db'[i] = IF i = row THEN new ELSE db[i]
      BY <2>2 DEF IInv, StoresOK
    <2>5. /\ OthersKept(w)
          /\ job[w].users # None =>
              /\ pc'[w] = "lookup" /\ job'[w] = job[w] /\ ptr'[w] = ptr[w] /\ add'[w] = add[w]
              /\ torn' = torn /\ n \in Slices /\ wanted'[n] = job[w].users
          /\ job[w].users = None =>
              /\ pc'[w] = "idle" /\ ptr'[w] = None /\ add'[w] = {}
              /\ n \in Slices => wanted'[n] = {}
          /\ \A m \in Slices : m # n => wanted'[m] = wanted[m]
          /\ \A m : m # n => (m \in torn' <=> m \in torn)
      BY <2>0, <2>2, Committed
    <2>6. \A m : m # n =>
           /\ Serving(m, Inserting \cup {"delete"})' <=> Serving(m, Inserting \cup {"delete"})
           /\ Serving(m, {"delete"})' <=> Serving(m, {"delete"})
           /\ Serving(m, {"lookup", "compare", "apply"})' <=> Serving(m, {"lookup", "compare", "apply"})
      BY <2>0, <2>5, CommitServing
    <2>7. /\ db[row] = None /\ \A i \in Id : db[i] # None => db[i].hrn # n /\ i # row
      BY <2>0, <2>2 DEF Unique, Free, Inserting, RowsOf, Researchers, FreshRows, Pending
    <2>8. \A i \in Id : db'[i] # None <=> db[i] # None \/ i = row
      BY <2>3, <2>4, <2>7
    <2>9. /\ \A i \in Id : \A m : IsRow(i, m)' <=> IsRow(i, m) \/ (i = row /\ m = n)
          /\ \A p \in Id : \A m : IsObject(p, m)' <=> IsObject(p, m)
      BY <2>2, <2>3, <2>4, <2>7 DEF IsRow, IsObject
    <2>10. IsObject(here, n) /\ \A p \in Id : IsObject(p, n) => p = here
      BY <2>0, <2>2 DEF Agreement, Owns, Pointers
    <2>11. \A i \in Id : db[i] # None =>
             /\ db[i].hrn \in Names /\ db[i].pointer \in Id
             /\ \A r \in db[i].researchers : r \in Id /\ r # row /\ db'[r] = db[r] /\ db[r] # None
      BY <2>4, <2>7, RowFacts
    <2>12. \A r \in link[w] : r \in Id /\ r # row /\ db[r] # None /\ db'[r] = db[r]
      BY <1>2, <2>4, <2>7 DEF IInv, WorkersOK
    <2>13. FreshObjects'
      BY <2>0, <2>2, <2>3, <2>4, <2>5, CommitFresh
    <2>14. Pointers'
      <3>1. \A i, p \in Id : \A m \in Names : IsRow(i, m)' /\ IsObject(p, m)' => p = db'[i].pointer
        BY <2>3, <2>4, <2>7, <2>9, <2>10 DEF Agreement, Pointers, IsRow
      <3>2. \A i \in Id : db'[i] # None /\ testbed[db'[i].pointer] # None => testbed[db'[i].pointer].name = db'[i].hrn
        BY <2>3, <2>4, <2>10 DEF Agreement, Pointers, IsObject
      <3> QED BY <2>2, <2>9, <3>1, <3>2 DEF Agreement, Pointers
    <2>15. Members'
      BY <2>2, <2>9 DEF Agreement, Members, IsRow
    <2>16. Matched'
      <3> SUFFICES ASSUME NEW m \in Names \ torn', ~Serving(m, Inserting \cup {"delete"})'
                   PROVE  /\ \A i \in Id : IsRow(i, m)' => testbed[db'[i].pointer] # None
                          /\ \A p \in Id : IsObject(p, m)' => \E i \in Id : IsRow(i, m)'
        BY <2>2 DEF Matched
      <3>1. CASE m = n
        BY <2>2, <2>3, <2>4, <2>7, <2>9, <2>10, <3>1 DEF IsRow, IsObject
      <3>2. CASE m # n
        <4>1. /\ \A i \in Id : IsRow(i, m) => testbed[db[i].pointer] # None
              /\ \A p \in Id : IsObject(p, m) => \E i \in Id : IsRow(i, m)
          BY <2>5, <2>6, <3>2 DEF Agreement, Matched
        <4> QED BY <2>4, <2>7, <2>9, <3>2, <4>1 DEF IsRow
      <3> QED BY <3>1, <3>2
    <2>18. LinksThere'
      <3> SUFFICES ASSUME NEW i \in Id, NEW m \in Slices \ torn', db'[i] # None, db'[i].hrn = m,
                          testbed[db'[i].pointer] # None, ~Serving(m, {"lookup", "compare", "apply"})'
                   PROVE  /\ \A p \in testbed[db'[i].pointer].members : testbed[p].name \in wanted'[m]
                          /\ \A r \in db'[i].researchers : testbed[db'[r].pointer] # None =>
                               db'[r].pointer \in testbed[db'[i].pointer].members
        BY <2>2 DEF LinksThere
      <3>1. CASE i = row
        <4>1. m = n
          BY <2>3, <2>4, <3>1
        <4>2. job[w].users = None
          BY <2>0, <2>5, <4>1 DEF Serving
        <4>3. link[w] = {}
          BY <4>2 DEF Researchers, Found
        <4>4. testbed[here].members = {}
          BY <2>2, <2>7, <2>10 DEF Agreement, Members, IsObject, IsRow
        <4> QED BY <2>3, <2>4, <3>1, <4>3, <4>4
      <3>2. CASE i # row
        <4>1. db'[i] = db[i] /\ m # n
          BY <2>4, <2>7, <3>2
        <4>2. m \notin torn /\ ~Serving(m, {"lookup", "compare", "apply"}) /\ wanted'[m] = wanted[m]
          BY <2>5, <2>6, <4>1
        <4> QED BY <2>11, <4>1, <4>2 DEF Agreement, LinksThere
      <3> QED BY <3>1, <3>2
    <2>19. Owns(w)' /\ Linking(w)'
      <3>1. CASE job[w].users # None
        <4>1. IsRow(row, n)' /\ db'[row].pointer = here /\ testbed[here] # None
          BY <2>2, <2>3, <2>4, <2>9, <2>10 DEF IsObject
        <4>2. Owns(w)'
          BY <2>0, <2>2, <2>5, <3>1, <4>1 DEF Owns, IsRow
        <4>3. \A r \in link[w] : db'[r].hrn \in job[w].users
          BY <2>12 DEF Researchers, Found
        <4>4. Linking(w)'
          BY <2>0, <2>2, <2>3, <2>4, <2>5, <3>1, <4>3 DEF Linking
        <4> QED BY <4>2, <4>4
      <3>2. CASE job[w].users = None
        BY <2>5, <3>2 DEF Owns, Linking
      <3> QED BY <3>1, <3>2
    <2>20. ASSUME NEW v \in Workers \ {w} PROVE Owns(v)' /\ Linking(v)'
      <3>1. /\ pc'[v] = pc[v] /\ job'[v] = job[v] /\ ptr'[v] = ptr[v] /\ add'[v] = add[v] /\ del'[v] = del[v]
            /\ Owns(v) /\ Linking(v)
        BY <2>5 DEF OthersKept, Agreement
      <3>2. pc[v] # "idle" => job[v].hrn # n /\ job[v].row \in Id /\ job[v].hrn \in Names
        BY <2>0, <2>2, OtherNames, JobType DEF IInv
      <3>3. pc[v] \in {"flush", "update", "write", "lookup", "compare", "apply", "erase", "delete"} =>
              db'[job[v].row] = db[job[v].row] /\ db[job[v].row] # None
        BY <2>4, <2>7, <3>1, <3>2 DEF Owns, IsRow
      <3>4. Owns(v)'
        BY <2>2, <2>5, <3>1, <3>2, <3>3 DEF Owns, IsRow, IsObject
      <3>5. pc[v] \in {"lookup", "compare", "apply"} => job[v].hrn \in Slices
        BY DEF Researchers, Found
      <3>6. pc[v] \in {"lookup", "compare", "apply"} =>
              \A r \in db[job[v].row].researchers : db'[r] = db[r]
        BY <2>11, <3>2, <3>3
      <3>7. Linking(v)'
        BY <2>2, <2>5, <3>1, <3>2, <3>3, <3>5, <3>6 DEF Linking
      <3> QED BY <3>4, <3>7
    <2> QED BY <2>13, <2>14, <2>15, <2>16, <2>18, <2>19, <2>20 DEF Agreement
  <1> QED BY <1>1, <1>2

\* A write keeps the pointer of its row; what it promises of the key and of the
\* researchers, the testbed already holds or is about to be told.
LEMMA WriteRowAgreement ==
  ASSUME IInv, Unique, Researchers, Agreement, NEW w \in Workers, WriteRow(w)
  PROVE  Agreement'
  <1>1. CASE ~ (db[job[w].row] # None /\ \A i \in link[w] : db[i] # None)
    BY <1>1, AbortAgreement DEF WriteRow, At
  <1>2. CASE db[job[w].row] # None /\ \A i \in link[w] : db[i] # None
    <2>0. PICK n, row, key : n = job[w].hrn /\ row = job[w].row /\ key = job[w].key
      OBVIOUS
    <2>1. PICK new : new = UpdatedRow(db[row], w)
      OBVIOUS
    <2>2. /\ pc[w] = "write" /\ n \in Names /\ row \in Id /\ db' = [db EXCEPT ![row] = new]
          /\ AfterCommit(w) /\ UNCHANGED <<testbed, requests>> /\ job[w].op = "Update"
          /\ key \in Keys \cup {None} /\ db[row] \in Row
      BY <1>2, <2>0, <2>1, JobType DEF WriteRow, At, IInv, StoresOK, Researchers, Found
    <2>3. /\ new # None /\ new.hrn = db[row].hrn /\ new.pointer = db[row].pointer
          /\ new.researchers = IF job[w].users = None THEN db[row].researchers
                                 ELSE (db[row].researchers \cap keep[w]) \cup link[w]
          /\ new.key = IF key = None THEN db[row].key ELSE key
      <3>1. new \in Row /\ new # None
        BY <2>1, <2>2, UpdatedRowType, NoneIsNothing
      <3> QED BY ZenonT(40), <2>0, <2>1, <2>2, <3>1, UpdatedRowFields
    <2>4. \A i \in Id : db'[i] = IF i = row THEN new ELSE db[i]
      BY <2>2 DEF IInv, StoresOK
    <2>5. IsRow(row, n) /\ \A i \in Id : IsRow(i, n) => i = row
      BY <2>0, <2>2 DEF Agreement, Owns, Unique, OneRecordPerName, IsRow
    <2>6. /\ OthersKept(w)
          /\ job[w].users # None =>
              /\ pc'[w] = "lookup" /\ job'[w] = job[w] /\ ptr'[w] = ptr[w] /\ add'[w] = add[w]
              /\ torn' = torn /\ n \in Slices /\ wanted'[n] = job[w].users
          /\ job[w].users = None =>
              /\ pc'[w] = "idle" /\ ptr'[w] = None /\ add'[w] = {} /\ wanted' = wanted
              /\ torn' = IF key # None /\ ptr[w] # None THEN torn \ {n} ELSE torn
          /\ \A m \in Slices : m # n => wanted'[m] = wanted[m]
          /\ \A m : m # n => (m \in torn' <=> m \in torn)
      BY <2>0, <2>2, Committed
    <2>7. \A m : m # n =>
           /\ Serving(m, Inserting \cup {"delete"})' <=> Serving(m, Inserting \cup {"delete"})
           /\ Serving(m, {"delete"})' <=> Serving(m, {"delete"})
           /\ Serving(m, {"lookup", "compare", "apply"})' <=> Serving(m, {"lookup", "compare", "apply"})
      BY <2>0, <2>6, CommitServing
    <2>8. \A i \in Id : /\ db'[i] # None <=> db[i] # None
                        /\ db'[i].hrn = db[i].hrn /\ db'[i].pointer = db[i].pointer
      BY <2>3, <2>4, <2>5 DEF IsRow
    <2>9. /\ \A i \in Id : \A m : IsRow(i, m)' <=> IsRow(i, m)
          /\ \A p \in Id : \A m : IsObject(p, m)' <=> IsObject(p, m)
      BY <2>2, <2>8 DEF IsRow, IsObject
    <2>10. \A labels \in {Inserting \cup {"delete"}, {"delete"}, {"lookup", "compare", "apply"}} : ~Serving(n, labels)
      BY <2>0, <2>2 DEF Unique, Alone, Serving, Inserting
    <2>11. \A i \in Id : db[i] # None =>
             /\ db[i].hrn \in Names /\ db[i].pointer \in Id
             /\ \A r \in db[i].researchers : r \in Id /\ db[r] # None /\ db'[r].pointer = db[r].pointer
                                             /\ db'[r].hrn = db[r].hrn
      BY <2>8, RowFacts
    <2>12. key # None => n \in Users /\ n \notin Slices /\ job[w].users = None
      BY <2>0, <2>2, NamesAssumption DEF Researchers, Found, IInv, WorkersOK, Control, Holds
    <2>13. FreshObjects'
      BY <2>2, <2>6, <2>8, CommitFresh
    <2>14. Pointers'
      BY <2>2, <2>8, <2>9 DEF Agreement, Pointers
    <2>15. Members'
      BY <2>2, <2>9 DEF Agreement, Members, IsRow
    <2>16. Matched'
      <3> SUFFICES ASSUME NEW m \in Names \ torn', ~Serving(m, Inserting \cup {"delete"})'
                   PROVE  /\ \A i \in Id : IsRow(i, m) => testbed[db[i].pointer] # None
                          /\ \A p \in Id : IsObject(p, m) => \E i \in Id : IsRow(i, m)
        BY <2>2, <2>8, <2>9 DEF Matched
      <3>1. CASE m \notin torn
        BY <2>7, <2>10, <3>1 DEF Agreement, Matched
      <3>2. CASE m \in torn
        <4>1. m = n /\ key # None /\ ptr[w] # None
          BY <2>6, <3>2
        <4>2. testbed[ptr[w]] # None /\ db[row].pointer = ptr[w]
          BY <2>0, <2>2, <4>1 DEF Agreement, Owns
        <4> QED BY <2>2, <2>5, <4>1, <4>2
      <3> QED BY <3>1, <3>2
    <2>18. LinksThere'
      <3> SUFFICES ASSUME NEW i \in Id, NEW m \in Slices \ torn', db[i] # None, db[i].hrn = m,
                          testbed[db[i].pointer] # None, ~Serving(m, {"lookup", "compare", "apply"})'
                   PROVE  /\ \A p \in testbed[db[i].pointer].members : testbed[p].name \in wanted'[m]
                          /\ \A r \in db'[i].researchers : testbed[db'[r].pointer] # None =>
                               db'[r].pointer \in testbed[db[i].pointer].members
        BY <2>2, <2>8 DEF LinksThere
      <3>1. /\ m \notin torn /\ ~Serving(m, {"lookup", "compare", "apply"}) /\ wanted'[m] = wanted[m]
            /\ db'[i].researchers = db[i].researchers
        <4>1. CASE m = n
          <5>1. job[w].users = None
            BY <2>0, <2>6, <4>1 DEF Serving
          <5> QED BY <2>3, <2>4, <2>6, <2>10, <2>12, <4>1, <5>1
        <4>2. CASE m # n
          BY <2>4, <2>5, <2>6, <2>7, <4>2 DEF IsRow
        <4> QED BY <4>1, <4>2
      <3> QED BY <2>11, <3>1 DEF Agreement, LinksThere
    <2>19. Owns(w)' /\ Linking(w)'
      <3>1. CASE job[w].users # None
        <4>1. Owns(w)
          BY DEF Agreement
        <4>2. ptr[w] # None => db'[row].pointer = ptr[w]
          BY <2>0, <2>2, <2>8, <4>1 DEF Owns
        <4>3. IsRow(row, n)'
          BY <2>2, <2>5, <2>9
        <4>4. Owns(w)'
          BY <2>0, <2>2, <2>6, <3>1, <4>2, <4>3 DEF Owns, IsRow
        <4>5. \A r \in new.researchers : db'[r].hrn \in job[w].users
          <5> SUFFICES ASSUME NEW r \in new.researchers PROVE db'[r].hrn \in job[w].users
            OBVIOUS
          <5>1. r \in link[w] \cup keep[w] /\ db[r] # None
            BY <1>2, <2>2, <2>3, <2>5, <2>11, <3>1 DEF IsRow
          <5>2. r \in Id /\ db[r].hrn \in job[w].users
            BY <5>1 DEF Researchers, Found, IInv, WorkersOK
          <5> QED BY <2>8, <5>2
        <4>6. Linking(w)'
          BY <2>0, <2>2, <2>4, <2>6, <3>1, <4>5 DEF Linking
        <4> QED BY <4>4, <4>6
      <3>2. CASE job[w].users = None
        BY <2>6, <3>2 DEF Owns, Linking
      <3> QED BY <3>1, <3>2
    <2>20. ASSUME NEW v \in Workers \ {w} PROVE Owns(v)' /\ Linking(v)'
      <3>1. /\ pc'[v] = pc[v] /\ job'[v] = job[v] /\ ptr'[v] = ptr[v] /\ add'[v] = add[v] /\ del'[v] = del[v]
            /\ Owns(v) /\ Linking(v)
        BY <2>6 DEF OthersKept, Agreement
      <3>2. pc[v] # "idle" => job[v].hrn # n /\ job[v].row \in Id /\ job[v].hrn \in Names
        BY <2>0, <2>2, OtherNames, JobType DEF IInv
      <3>3. pc[v] \in {"flush", "update", "write", "lookup", "compare", "apply", "erase", "delete"} =>
              db'[job[v].row] = db[job[v].row] /\ db[job[v].row] # None
        BY <2>4, <2>5, <3>1, <3>2 DEF Owns, IsRow
      <3>4. Owns(v)'
        BY <2>2, <2>6, <3>1, <3>2, <3>3 DEF Owns, IsRow, IsObject
      <3>5. pc[v] \in {"lookup", "compare", "apply"} => job[v].hrn \in Slices
        BY DEF Researchers, Found
      <3>6. pc[v] \in {"lookup", "compare", "apply"} =>
              \A r \in db[job[v].row].researchers : db'[r].pointer = db[r].pointer /\ db'[r].hrn = db[r].hrn
        BY <2>11, <3>2, <3>3
      <3>7. Linking(v)'
        BY <2>2, <2>6, <3>1, <3>2, <3>3, <3>5, <3>6 DEF Linking
      <3> QED BY <3>4, <3>7
    <2> QED BY <2>13, <2>14, <2>15, <2>16, <2>18, <2>19, <2>20 DEF Agreement
  <1> QED BY <1>1, <1>2

\* The row goes after its object.
LEMMA DeleteRowAgreement ==
  ASSUME IInv, Unique, Researchers, Agreement, NEW w \in Workers, DeleteRow(w)
  PROVE  Agreement'
  <1>0. PICK n, row : n = job[w].hrn /\ row = job[w].row
    OBVIOUS
  <1>1. /\ pc[w] = "delete" /\ n \in Names /\ row \in Id /\ Idle(w)
        /\ torn' = torn \ {n} /\ UNCHANGED <<testbed, requests, wanted>>
    BY <1>0, JobType DEF DeleteRow, At, IInv
  <1>2. IsRow(row, n) /\ \A i \in Id : IsRow(i, n) => i = row
    BY <1>0, <1>1 DEF Agreement, Owns, Unique, OneRecordPerName, IsRow
  <1>3. \A p \in Id : ~IsObject(p, n)
    BY <1>0, <1>1 DEF Agreement, Owns
  <1>4. \A i \in Id : /\ i = row \/ db[i] = None => db'[i] = None
                      /\ i # row /\ db[i] # None =>
                           /\ db'[i] # None /\ db'[i].hrn = db[i].hrn /\ db'[i].pointer = db[i].pointer
                           /\ db'[i].key = db[i].key /\ db'[i].researchers = db[i].researchers \ {row}
    <2> SUFFICES ASSUME NEW i \in Id
                 PROVE  /\ i = row \/ db[i] = None => db'[i] = None
                        /\ i # row /\ db[i] # None =>
                             /\ db'[i] # None /\ db'[i].hrn = db[i].hrn /\ db'[i].pointer = db[i].pointer
                             /\ db'[i].key = db[i].key /\ db'[i].researchers = db[i].researchers \ {row}
      OBVIOUS
    <2>1. db'[i] = IF i = row \/ db[i] = None THEN None ELSE [db[i] EXCEPT !.researchers = @ \ {row}]
      BY <1>0 DEF DeleteRow, Unlinked
    <2>2. db[i] # None => db[i] \in Row
      BY DEF IInv, StoresOK
    <2>3. \A o \in Row : LET e == [o EXCEPT !.researchers = @ \ {row}]
                         IN  /\ e \in Row /\ e.hrn = o.hrn /\ e.pointer = o.pointer /\ e.key = o.key
                             /\ e.researchers = o.researchers \ {row}
      BY DEF Row
    <2> QED BY <2>1, <2>2, <2>3, NoneIsNothing
  <1>5. /\ \A v \in Workers : pc'[v] = IF v = w THEN "idle" ELSE pc[v]
        /\ ptr'[w] = None /\ add'[w] = {} /\ OthersKept(w)
    BY <1>1 DEF Idle, Goto, OthersKept, IInv, WorkersOK
  <1>6. /\ \A i \in Id : \A m : IsRow(i, m)' <=> IsRow(i, m) /\ i # row
        /\ \A p \in Id : \A m : IsObject(p, m)' <=> IsObject(p, m)
    BY <1>1, <1>4 DEF IsRow, IsObject
  <1>7. \A m : m # n =>
          /\ Serving(m, Inserting \cup {"delete"})' <=> Serving(m, Inserting \cup {"delete"})
          /\ Serving(m, {"delete"})' <=> Serving(m, {"delete"})
          /\ Serving(m, {"lookup", "compare", "apply"})' <=> Serving(m, {"lookup", "compare", "apply"})
    BY <1>0, <1>5, CommitServing
  <1>8. \A i \in Id : db[i] # None =>
          /\ db[i].hrn \in Names /\ db[i].pointer \in Id
          /\ \A r \in db[i].researchers : r \in Id /\ db[r] # None
    BY RowFacts
  <1>9. \A i \in Id : db'[i] # None =>
          /\ db[i] # None /\ i # row /\ db[i].hrn # n /\ db'[i].hrn = db[i].hrn /\ db'[i].key = db[i].key
          /\ db'[i].pointer = db[i].pointer
          /\ \A r \in db'[i].researchers : r \in db[i].researchers /\ db'[r].pointer = db[r].pointer
                                           /\ db'[r].hrn = db[r].hrn
    <2> SUFFICES ASSUME NEW i \in Id, db'[i] # None
                 PROVE  /\ db[i] # None /\ i # row /\ db[i].hrn # n
                        /\ \A r \in db'[i].researchers : r \in db[i].researchers /\ db'[r].pointer = db[r].pointer
                                                         /\ db'[r].hrn = db[r].hrn
      BY <1>4
    <2>1. db[i] # None /\ i # row /\ db'[i].researchers = db[i].researchers \ {row}
      BY <1>4
    <2>2. db[i].hrn # n
      BY <1>2, <2>1 DEF IsRow
    <2>3. \A r \in db'[i].researchers : r \in db[i].researchers /\ r # row /\ r \in Id /\ db[r] # None
      BY <1>8, <2>1
    <2> QED BY <1>4, <2>1, <2>2, <2>3
  <1>10. FreshObjects'
    BY <1>1, <1>5, <1>9, CommitFresh
  <1>11. Pointers'
    <2>1. \A i \in Id : \A m : IsRow(i, m)' => IsRow(i, m) /\ db'[i].pointer = db[i].pointer
      BY <1>4, <1>6 DEF IsRow
    <2> QED BY <1>1, <1>6, <1>9, <2>1 DEF Agreement, Pointers
  <1>12. Members'
    <2> SUFFICES ASSUME NEW p \in Id, testbed[p] # None
                 PROVE  /\ \A m \in testbed[p].members : testbed[m] # None
                        /\ \/ testbed[p].members = {}
                           \/ \E i \in Id : db'[i] # None /\ db'[i].hrn = testbed[p].name
      BY <1>1 DEF Members, IsRow
    <2>1. testbed[p].name # n
      BY <1>3 DEF IsObject
    <2> QED BY <1>2, <1>4, <2>1 DEF Agreement, Members, IsRow
  <1>13. Matched'
    <2> SUFFICES ASSUME NEW m \in Names \ torn', ~Serving(m, Inserting \cup {"delete"})'
                 PROVE  /\ \A i \in Id : IsRow(i, m)' => testbed[db'[i].pointer] # None
                        /\ \A p \in Id : IsObject(p, m) => \E i \in Id : IsRow(i, m)'
      BY <1>1, <1>6 DEF Matched
    <2>1. CASE m = n
      BY <1>2, <1>3, <1>6, <2>1
    <2>2. CASE m # n
      <3>1. /\ \A i \in Id : IsRow(i, m) => testbed[db[i].pointer] # None /\ i # row /\ db'[i].pointer = db[i].pointer
            /\ \A p \in Id : IsObject(p, m) => \E i \in Id : IsRow(i, m)
        BY <1>1, <1>2, <1>4, <1>7, <2>2 DEF Agreement, Matched, IsRow
      <3> QED BY <1>6, <3>1
    <2> QED BY <2>1, <2>2
  <1>15. LinksThere'
    <2> SUFFICES ASSUME NEW i \in Id, NEW m \in Slices \ torn', db'[i] # None, db'[i].hrn = m,
                        testbed[db'[i].pointer] # None, ~Serving(m, {"lookup", "compare", "apply"})'
                 PROVE  /\ \A p \in testbed[db'[i].pointer].members : testbed[p].name \in wanted[m]
                        /\ \A r \in db'[i].researchers : testbed[db'[r].pointer] # None =>
                             db'[r].pointer \in testbed[db'[i].pointer].members
      BY <1>1 DEF LinksThere
    <2>1. m # n /\ m \notin torn /\ ~Serving(m, {"lookup", "compare", "apply"})
      BY <1>1, <1>7, <1>9
    <2> QED BY <1>9, <2>1 DEF Agreement, LinksThere
  <1>16. Owns(w)' /\ Linking(w)'
    BY <1>5 DEF Owns, Linking
  <1>17. ASSUME NEW v \in Workers \ {w} PROVE Owns(v)' /\ Linking(v)'
    <2>1. /\ pc'[v] = pc[v] /\ job'[v] = job[v] /\ ptr'[v] = ptr[v] /\ add'[v] = add[v] /\ del'[v] = del[v]
          /\ Owns(v) /\ Linking(v)
      BY <1>5 DEF OthersKept, Agreement
    <2>2. pc[v] # "idle" => job[v].hrn # n /\ job[v].row \in Id /\ job[v].hrn \in Names
      BY <1>0, <1>1, OtherNames, JobType DEF IInv
    <2>3. pc[v] \in {"flush", "update", "write", "lookup", "compare", "apply", "erase", "delete"} =>
            db'[job[v].row] # None
      BY <1>2, <1>4, <2>1, <2>2 DEF Owns, IsRow
    <2>4. Owns(v)'
      BY <1>1, <1>9, <2>1, <2>2, <2>3 DEF Owns, IsRow, IsObject
    <2>5. pc[v] \in {"lookup", "compare", "apply"} =>
            \A r \in db'[job[v].row].researchers :
              r \in db[job[v].row].researchers /\ db'[r].pointer = db[r].pointer /\ db'[r].hrn = db[r].hrn
      BY <1>9, <2>2, <2>3
    <2>6. Linking(v)'
      BY <1>1, <2>1, <2>5 DEF Linking
    <2> QED BY <2>4, <2>6
  <1> QED BY <1>10, <1>11, <1>12, <1>13, <1>15, <1>16, <1>17 DEF Agreement

-----------------------------------------------------------------------------
(* The keys, whatever requests overlap and whatever the testbed calls a name  *)

Opens(p, k) == testbed[p] # None => k \in testbed[p].keys

\* KeysOnTestbed is not inductive: the key of a request has to open the object
\* at which the row will point, and no object may get a pointer that is in use.
Keying(w) ==
    /\ ptr[w] \notin Unused \cup Making
    /\ pc[w] \in {"insert", "write"} /\ job[w].key # None /\ ptr[w] # None => Opens(ptr[w], job[w].key)
    /\ pc[w] \in {"flush", "update", "write"} =>
         /\ job[w].row \notin Unused \cup Pending
         /\ db[job[w].row] # None /\ ptr[w] # None => db[job[w].row].pointer = ptr[w]

Safe(i) == db[i].key = None \/ db[i].lost \/ Opens(db[i].pointer, db[i].key)

Keyed ==
    /\ \A i \in Unused \cup Making :
         testbed[i] = None /\ \A j \in Id : db[j] # None => db[j].pointer # i
    /\ \A i \in Id : db[i] # None => Safe(i)
    /\ \A w \in Workers : Keying(w)

LEMMA InitKeyed == Init => Keyed
  <1> SUFFICES ASSUME Init PROVE Keyed
    OBVIOUS
  <1>1. \A i \in Id : db[i] # None => db[i].key = None /\ db[i].pointer = i /\ i \in Names
    BY NoneIsNothing DEF Init, Row, Id
  <1>2. \A w \in Workers : pc[w] = "idle" /\ ptr[w] = None
    BY DEF Init
  <1>3. Unused = 1 .. MaxRequests /\ Making = {}
    BY <1>2, BoundsAssumption DEF Init, Unused, Making
  <1>4. \A i \in 1 .. MaxRequests : i \in Id /\ i \notin Names /\ i # None
    BY IdsAssumption DEF Id, Names
  <1>5. \A i \in 1 .. MaxRequests : testbed[i] = None
    BY <1>4 DEF Init
  <1>6. \A w \in Workers : Keying(w)
    BY <1>2, <1>3, <1>4 DEF Keying
  <1> QED BY <1>1, <1>3, <1>4, <1>5, <1>6 DEF Keyed, Safe

\* Keys stay on the objects, rows keep what they say or say what is true, and
\* a worker goes on as it was or as it may.
LEMMA KeyedStays ==
  ASSUME IInv, Keyed,
         Unused' \cup Making' \subseteq Unused \cup Making,
         Unused' \cup Pending' \subseteq Unused \cup Pending,
         \A p \in Id : testbed'[p] # None =>
           \/ testbed[p] # None /\ testbed[p].keys \subseteq testbed'[p].keys
           \/ p \in (Unused \cup Making) \ (Unused' \cup Making'),
         \A i \in Id : db'[i] # None =>
           \/ /\ db[i] # None /\ db'[i].pointer = db[i].pointer
              /\ db'[i].key = db[i].key /\ db'[i].lost = db[i].lost
           \/ /\ db[i] # None /\ db'[i].pointer = db[i].pointer /\ Safe(i)'
           \/ /\ db[i] = None /\ i \in Unused \cup Pending
              /\ db'[i].pointer \notin Unused \cup Making /\ Safe(i)',
         \A v \in Workers : (pc'[v] = pc[v] /\ job'[v] = job[v] /\ ptr'[v] = ptr[v]) \/ Keying(v)'
  PROVE  Keyed'
  <1>1. \A i \in Unused \cup Making : i \in Id
    BY AwaitedType
  <1>2. \A i \in Id : db[i] # None => db[i].pointer \in Id /\ db[i].pointer \notin Unused \cup Making
    BY DEF Keyed, IInv, StoresOK, Row
  <1>3. \A p \in Id : \A k : p \notin Unused \cup Making /\ Opens(p, k) => Opens(p, k)'
    BY DEF Opens
  <1>4. ASSUME NEW i \in Unused' \cup Making'
        PROVE  testbed'[i] = None /\ \A j \in Id : db'[j] # None => db'[j].pointer # i
    <2>1. i \in Unused \cup Making /\ i \in Id /\ testbed[i] = None
      BY <1>1, <1>4 DEF Keyed
    <2> QED BY <1>2, <1>4, <2>1
  <1>5. ASSUME NEW i \in Id, db'[i] # None PROVE Safe(i)'
    <2>1. CASE /\ db[i] # None /\ db'[i].pointer = db[i].pointer
               /\ db'[i].key = db[i].key /\ db'[i].lost = db[i].lost
      BY <1>2, <1>3, <2>1 DEF Keyed, Safe
    <2> QED BY <1>5, <2>1
  <1>6. ASSUME NEW v \in Workers, pc'[v] = pc[v], job'[v] = job[v], ptr'[v] = ptr[v]
        PROVE  Keying(v)'
    <2>1. Keying(v) /\ ptr[v] \in Id \cup {None} /\ None \notin Id
      BY NoneIsNothing DEF Keyed, IInv, WorkersOK
    <2>2. ptr'[v] \notin Unused' \cup Making'
      BY <1>6, <2>1 DEF Keying
    <2>3. pc'[v] \in {"insert", "write"} /\ job'[v].key # None /\ ptr'[v] # None => Opens(ptr[v], job[v].key)'
      BY <1>3, <1>6, <2>1 DEF Keying
    <2>4. ASSUME pc[v] \in {"flush", "update", "write"}
          PROVE  /\ job'[v].row \notin Unused' \cup Pending'
                 /\ db'[job'[v].row] # None /\ ptr'[v] # None => db'[job'[v].row].pointer = ptr'[v]
      <3>1. job[v].row \in Id /\ job[v].row \notin Unused \cup Pending
        BY <2>1, <2>4, JobType DEF Keying, IInv
      <3> QED BY <1>6, <2>1, <2>4, <3>1 DEF Keying
    <2> QED BY <1>6, <2>2, <2>3, <2>4 DEF Keying, Opens
  <1> QED BY <1>4, <1>5, <1>6 DEF Keyed

\* One worker goes on or answers; it takes no new id.
LEMMA IdsTaken ==
  ASSUME IInv, NEW w \in Workers, requests' = requests,
         \A v \in Workers \ {w} : pc'[v] = pc[v] /\ job'[v] = job[v],
         pc'[w] \in Inserting => pc[w] \in Inserting /\ job'[w] = job[w],
         pc'[w] \in {"link", "find", "make"} => pc[w] \in {"link", "find", "make"}
  PROVE  Unused' = Unused /\ Pending' \subseteq Pending /\ Making' \subseteq Making
  <1>1. Unused' = Unused
    BY DEF Unused
  <1>2. Pending' \subseteq Pending
    BY DEF Pending
  <1>3. Making' \subseteq Making
    BY DEF Making, Inserting
  <1> QED BY <1>1, <1>2, <1>3

\* A step of one worker that leaves the rows, and on each object its keys.
LEMMA StepKeyed ==
  ASSUME IInv, Keyed, NEW w \in Workers, requests' = requests, db' = db,
         \A v \in Workers \ {w} : pc'[v] = pc[v] /\ job'[v] = job[v] /\ ptr'[v] = ptr[v],
         pc'[w] \in Inserting => pc[w] \in Inserting /\ job'[w] = job[w],
         pc'[w] \in {"link", "find", "make"} => pc[w] \in {"link", "find", "make"},
         \A p \in Id : testbed'[p] # None => testbed[p] # None /\ testbed[p].keys \subseteq testbed'[p].keys,
         Keying(w)'
  PROVE  Keyed'
  <1>1. Unused' = Unused /\ Pending' \subseteq Pending /\ Making' \subseteq Making
    BY IdsTaken
  <1> QED BY <1>1, KeyedStays

\* A worker that answers, whatever it leaves of the objects.
LEMMA AnswerKeyed ==
  ASSUME IInv, Keyed, NEW w \in Workers, Idle(w), requests' = requests, db' = db,
         \A p \in Id : testbed'[p] # None => testbed[p] # None /\ testbed[p].keys \subseteq testbed'[p].keys
  PROVE  Keyed'
  <1>1. /\ \A v \in Workers \ {w} : pc'[v] = pc[v] /\ job'[v] = job[v] /\ ptr'[v] = ptr[v]
        /\ pc'[w] = "idle" /\ ptr'[w] = None
    BY DEF Idle, Goto, IInv, WorkersOK
  <1>2. None \notin Unused \cup Making /\ Unused' = Unused /\ Making' \subseteq Making
    BY <1>1, AwaitedType, NoneIsNothing, IdsTaken DEF Inserting
  <1>3. Keying(w)'
    BY <1>1, <1>2 DEF Keying
  <1> QED BY <1>1, <1>3, StepKeyed DEF Inserting

LEMMA AbortKeyed ==
  ASSUME IInv, Keyed, NEW w \in Workers, Abort(w)
  PROVE  Keyed'
  BY AnswerKeyed DEF Abort, stores

LEMMA StartKeyed ==
  ASSUME IInv, Researchers, Keyed, NEW w \in Workers, NEW j \in Job, NEW p,
         NEW label \in {"find", "link", "flush", "update", "erase"}, Start(w, j, p, label),
         IF label \in {"find", "link"}
           THEN j.row = requests + 1 /\ p = None
           ELSE j.row \in Id /\ db[j.row] # None /\ p = db[j.row].pointer
  PROVE  Keyed'
  <1>1. /\ \A v \in Workers : pc'[v] = IF v = w THEN label ELSE pc[v]
        /\ \A v \in Workers : job'[v] = IF v = w THEN j ELSE job[v]
        /\ \A v \in Workers : ptr'[v] = IF v = w THEN p ELSE ptr[v]
        /\ requests' = requests + 1 /\ requests < MaxRequests /\ db' = db /\ testbed' = testbed
    BY DEF Start, Goto, stores, IInv, WorkersOK
  <1>2. requests \in Nat /\ MaxRequests \in Nat
    BY BoundsAssumption DEF IInv, HistoryOK
  <1>3. Unused' \subseteq Unused /\ requests + 1 \in Unused
    BY <1>1, <1>2 DEF Unused
  <1>4. Pending' \subseteq Pending \cup {requests + 1} /\ Making' \subseteq Making \cup {requests + 1}
    BY <1>1 DEF Pending, Making, Inserting
  <1>5. Unused' \cup Making' \subseteq Unused \cup Making /\ Unused' \cup Pending' \subseteq Unused \cup Pending
    BY <1>3, <1>4
  <1>6. Keying(w)'
    <2>1. CASE label \in {"find", "link"}
      BY <1>1, <1>5, <2>1, AwaitedType, NoneIsNothing DEF Keying
    <2>2. CASE label \notin {"find", "link"}
      <3>1. p \notin Unused \cup Making /\ j.row \notin Unused \cup Pending
        BY <2>2 DEF Keyed, Researchers, FreshRows
      <3> QED BY <1>1, <1>5, <2>2, <3>1 DEF Keying
    <2> QED BY <2>1, <2>2
  <1> QED BY <1>1, <1>5, <1>6, KeyedStays


\* The failure that is forgotten leaves no pointer to a worker with a key.
LEMMA SwallowKeyed ==
  ASSUME IInv, Keyed, NEW w \in Workers, pc[w] = "update", SwallowFailure(w), Goto(w, "write"),
         UNCHANGED <<db, job, requests>>
  PROVE  Keyed'
  <1>1. /\ \A v \in Workers : pc'[v] = IF v = w THEN "write" ELSE pc[v]
        /\ \A v \in Workers \ {w} : ptr'[v] = ptr[v]
        /\ testbed' = testbed /\ ptr'[w] \in {ptr[w], None} /\ (job[w].key # None => ptr'[w] = None)
    BY DEF SwallowFailure, Goto, IInv, WorkersOK
  <1>2. Unused' = Unused /\ Making' \subseteq Making /\ Pending' \subseteq Pending
    BY <1>1 DEF Unused, Making, Pending, Inserting
  <1>3. Keying(w) /\ None \notin Unused \cup Making
    BY AwaitedType, NoneIsNothing DEF Keyed
  <1>4. Keying(w)'
    BY <1>1, <1>2, <1>3 DEF Keying
  <1> QED BY <1>1, <1>4, StepKeyed DEF Inserting

\* Steps that leave both stores.
LEMMA QuietStepKeyed ==
  ASSUME IInv, Researchers, Keyed, NEW w \in Workers,
         LinkResearchers(w) \/ FindObject(w) \/ FlushRow(w) \/ LookupLinks(w) \/ CompareLinks(w)
  PROVE  Keyed'
  <1>0. Keying(w) /\ Found(w) /\ None \notin Unused \cup Making
    BY AwaitedType, NoneIsNothing DEF Keyed, Researchers
  <1>1. ASSUME LinkResearchers(w) PROVE Keyed'
    <2>1. /\ \A v \in Workers : pc'[v] = IF v = w THEN "find" ELSE pc[v]
          /\ pc[w] = "link" /\ UNCHANGED <<db, testbed, job, ptr, requests>>
      BY <1>1 DEF LinkResearchers, At, Goto, stores, IInv, WorkersOK
    <2>2. Unused' = Unused /\ Making' \subseteq Making
      BY <2>1 DEF Unused, Making
    <2>3. Keying(w)'
      BY <1>0, <2>1, <2>2 DEF Keying
    <2> QED BY <2>1, <2>3, StepKeyed DEF Inserting
  <1>2. ASSUME FindObject(w) PROVE Keyed'
    <2>1. /\ pc[w] = "find" /\ UNCHANGED <<db, testbed, job, requests>> /\ job[w].hrn \in Names
      BY <1>2, JobType DEF FindObject, At, stores, IInv
    <2>2. \E label \in {"make", Registered(w)} : Goto(w, label)
      BY <1>2 DEF FindObject
    <2>3. PICK label \in {"make", "account", "insert"} :
            \A v \in Workers : pc'[v] = IF v = w THEN label ELSE pc[v]
      BY <2>2 DEF Goto, Registered, IInv, WorkersOK
    <2>4. pc'[w] = "insert" => job[w].key = None
      BY <1>0, <1>2, <2>1 DEF FindObject, Goto, Registered, Found, IInv, WorkersOK
    <2>5. \A v \in Workers \ {w} : ptr'[v] = ptr[v]
      BY <1>2 DEF FindObject, IInv, WorkersOK
    <2>6. ptr'[w] = ptr[w] \/ testbed[ptr'[w]] # None
      BY <1>2 DEF FindObject, Namesakes, IInv, WorkersOK
    <2>7. ptr'[w] \notin Unused \cup Making
      BY <1>0, <2>6 DEF Keying, Keyed
    <2>8. Unused' = Unused /\ Making' \subseteq Making
      BY <2>1, <2>3 DEF Unused, Making
    <2>9. Keying(w)'
      BY <2>1, <2>3, <2>4, <2>7, <2>8 DEF Keying
    <2> QED BY <2>1, <2>3, <2>5, <2>9, StepKeyed DEF Inserting
  <1>3. ASSUME FlushRow(w), db[job[w].row] # None PROVE Keyed'
    <2>1. /\ \A v \in Workers : pc'[v] = IF v = w THEN "update" ELSE pc[v]
          /\ pc[w] = "flush" /\ UNCHANGED <<db, testbed, job, ptr, requests>>
      BY <1>3 DEF FlushRow, At, Goto, stores, IInv, WorkersOK
    <2>2. Unused' = Unused /\ Making' \subseteq Making /\ Pending' \subseteq Pending
      BY <2>1 DEF Unused, Making, Pending, Inserting
    <2>3. Keying(w)'
      BY <1>0, <2>1, <2>2 DEF Keying
    <2> QED BY <2>1, <2>3, StepKeyed DEF Inserting
  <1>4. ASSUME LookupLinks(w), db[job[w].row] # None PROVE Keyed'
    <2>1. /\ \A v \in Workers : pc'[v] = IF v = w THEN "compare" ELSE pc[v]
          /\ pc[w] = "lookup" /\ UNCHANGED <<db, testbed, job, ptr, requests>>
      BY <1>4 DEF LookupLinks, At, Goto, stores, IInv, WorkersOK
    <2>2. Unused' = Unused /\ Making' \subseteq Making
      BY <2>1 DEF Unused, Making
    <2>3. Keying(w)'
      BY <1>0, <2>1, <2>2 DEF Keying
    <2> QED BY <2>1, <2>3, StepKeyed DEF Inserting
  <1>5. ASSUME CompareLinks(w), testbed[ptr[w]] # None PROVE Keyed'
    <2>1. /\ \A v \in Workers : pc'[v] = IF v = w THEN "apply" ELSE pc[v]
          /\ pc[w] = "compare" /\ UNCHANGED <<db, testbed, job, ptr, requests>>
      BY <1>5 DEF CompareLinks, At, Goto, stores, IInv, WorkersOK
    <2>2. Unused' = Unused /\ Making' \subseteq Making
      BY <2>1 DEF Unused, Making
    <2>3. Keying(w)'
      BY <1>0, <2>1, <2>2 DEF Keying
    <2> QED BY <2>1, <2>3, StepKeyed DEF Inserting
  <1>6. ASSUME Abort(w) PROVE Keyed'
    BY <1>6, AbortKeyed
  <1> QED BY <1>1, <1>2, <1>3, <1>4, <1>5, <1>6 DEF FlushRow, LookupLinks, CompareLinks

\* A key goes to the object, or else the history has it lost.
LEMMA KeyStepKeyed ==
  ASSUME IInv, Researchers, Keyed, NEW w \in Workers, SetAccount(w) \/ UpdateObject(w)
  PROVE  Keyed'
  <1>0. Keying(w) /\ None \notin Unused \cup Making
    BY AwaitedType, NoneIsNothing DEF Keyed
  <1>1. pc[w] \in {"account", "update"} /\ ptr[w] \in Id /\ job[w].key \in Keys \cup {None}
    BY JobType DEF SetAccount, UpdateObject, At, IInv, WorkersOK, Control, Holds
  <1>2. ASSUME SetAccount(w), testbed[ptr[w]] # None PROVE Keyed'
    <2>1. /\ \A v \in Workers : pc'[v] = IF v = w THEN "insert" ELSE pc[v]
          /\ pc[w] = "account" /\ UNCHANGED <<db, job, ptr, requests>>
      BY <1>2 DEF SetAccount, At, Goto, locals, IInv, WorkersOK
    <2>2. ObjectsKept /\ (job[w].key # None => job[w].key \in testbed'[ptr[w]].keys)
      BY <1>1, <1>2, KeyAdded DEF SetAccount
    <2>3. Unused' = Unused /\ Making' \subseteq Making
      BY <2>1 DEF Unused, Making
    <2>4. Keying(w)'
      BY <1>0, <2>1, <2>2, <2>3 DEF Keying, Opens
    <2>5. \A p \in Id : testbed'[p] # None => testbed[p] # None /\ testbed[p].keys \subseteq testbed'[p].keys
      BY <2>2 DEF ObjectsKept
    <2> QED BY <2>1, <2>4, <2>5, StepKeyed DEF Inserting
  <1>3. ASSUME UpdateObject(w), testbed[ptr[w]] # None PROVE Keyed'
    <2>1. /\ \A v \in Workers : pc'[v] = IF v = w THEN "write" ELSE pc[v]
          /\ pc[w] = "update" /\ UNCHANGED <<db, job, ptr, requests>>
      BY <1>3 DEF UpdateObject, At, Goto, IInv, WorkersOK
    <2>2. ObjectsKept /\ (job[w].key # None => job[w].key \in testbed'[ptr[w]].keys)
      BY <1>1, <1>3, KeyAdded DEF UpdateObject
    <2>3. Unused' = Unused /\ Making' \subseteq Making /\ Pending' \subseteq Pending
      BY <2>1 DEF Unused, Making, Pending, Inserting
    <2>4. Keying(w)'
      BY <1>0, <2>1, <2>2, <2>3 DEF Keying, Opens
    <2>5. \A p \in Id : testbed'[p] # None => testbed[p] # None /\ testbed[p].keys \subseteq testbed'[p].keys
      BY <2>2 DEF ObjectsKept
    <2> QED BY <2>1, <2>4, <2>5, StepKeyed DEF Inserting
  <1>4. ASSUME UpdateObject(w), testbed[ptr[w]] = None PROVE Keyed'
    <2>1. /\ pc[w] = "update" /\ SwallowFailure(w) /\ Goto(w, "write") /\ UNCHANGED <<db, job, requests>>
      BY <1>4 DEF UpdateObject, At
    <2> QED BY <2>1, SwallowKeyed
  <1>5. ASSUME Abort(w) PROVE Keyed'
    BY <1>5, AbortKeyed
  <1> QED BY <1>2, <1>3, <1>4, <1>5 DEF SetAccount

\* The new object takes a pointer that was to come.
LEMMA MakeObjectKeyed ==
  ASSUME IInv, Researchers, Keyed, NEW w \in Workers, MakeObject(w)
  PROVE  Keyed'
  <1>0. PICK new : new = job[w].row
    OBVIOUS
  <1>1. CASE Namesakes(job[w].hrn) # {}
    BY <1>1, AbortKeyed DEF MakeObject
  <1>2. CASE Namesakes(job[w].hrn) = {}
    <2>1. /\ pc[w] = "make" /\ new \in Id /\ job[w].hrn \in Names
          /\ testbed' = [testbed EXCEPT ![new] = NewObject(job[w].hrn)]
          /\ UNCHANGED <<db, job, requests>>
      BY <1>0, <1>2, JobType DEF MakeObject, At, IInv
    <2>2. /\ \A v \in Workers : pc'[v] = IF v = w THEN Registered(w) ELSE pc[v]
          /\ \A v \in Workers : ptr'[v] = IF v = w THEN new ELSE ptr[v]
          /\ Registered(w) \in {"account", "insert"}
      BY <1>0, <1>2 DEF MakeObject, Goto, Registered, IInv, WorkersOK
    <2>3. new \in Making /\ Unused' = Unused /\ new \notin Unused
      BY <1>0, <2>1 DEF Making, Unused, Researchers, FreshRows, Inserting, IInv, HistoryOK
    <2>4. Making' \subseteq Making \ {new}
      BY <1>0, <2>1, <2>2 DEF Making, Researchers, FreshRows, Inserting
    <2>5. Pending' \subseteq Pending
      BY <2>1, <2>2 DEF Pending, Inserting
    <2>6. Registered(w) = "insert" => job[w].key = None
      BY <2>1 DEF Registered, Researchers, Found
    <2>7. Keying(w)'
      BY <2>1, <2>2, <2>3, <2>4, <2>6 DEF Keying
    <2>8. \A p \in Id : testbed'[p] # None =>
            \/ testbed[p] # None /\ testbed[p].keys \subseteq testbed'[p].keys
            \/ p \in (Unused \cup Making) \ (Unused' \cup Making')
      BY <2>1, <2>3, <2>4 DEF IInv, StoresOK
    <2> QED BY <2>1, <2>2, <2>3, <2>4, <2>5, <2>7, <2>8, KeyedStays
  <1> QED BY <1>1, <1>2

\* Links come and go, and an object goes; no key does.
LEMMA MembersKeyed ==
  ASSUME IInv, Keyed, NEW w \in Workers, ApplyLink(w) \/ EraseObject(w)
  PROVE  Keyed'
  <1>0. Keying(w) /\ \A p \in Id : testbed[p] \in Object \cup {None}
    BY DEF Keyed, IInv, StoresOK
  <1>1. ASSUME pc[w] = "apply", UNCHANGED <<db, pc, job, ptr, requests>>, ptr[w] \in Id,
               NEW m, testbed' = [testbed EXCEPT ![ptr[w]].members = m], testbed[ptr[w]] # None
        PROVE  Keyed'
    <2>1. \A p \in Id : testbed'[p] # None => testbed[p] # None /\ testbed[p].keys \subseteq testbed'[p].keys
      BY <1>0, <1>1 DEF Object, IInv, StoresOK
    <2>2. Unused' = Unused /\ Making' = Making
      BY <1>1 DEF Unused, Making
    <2>3. Keying(w)'
      BY <1>0, <1>1, <2>2 DEF Keying
    <2> QED BY <1>1, <2>1, <2>3, StepKeyed DEF Inserting
  <1>2. ASSUME ApplyLink(w) PROVE Keyed'
    <2>0. pc[w] = "apply" /\ ptr[w] \in Id
      BY <1>2 DEF ApplyLink, At, IInv, WorkersOK, Control, Holds
    <2>1. ASSUME NEW t, testbed' = [testbed EXCEPT ![ptr[w]].members = @ \cup {t}], testbed[ptr[w]] # None,
                 UNCHANGED <<db, pc, job, ptr, keep, link, del, requests, failures, torn, wanted>>
          PROVE  Keyed'
      BY <1>1, <2>0, <2>1
    <2>2. ASSUME NEW t, testbed' = [testbed EXCEPT ![ptr[w]].members = @ \ {t}], testbed[ptr[w]] # None,
                 UNCHANGED <<db, pc, job, ptr, keep, link, add, requests, failures, torn, wanted>>
          PROVE  Keyed'
      BY <1>1, <2>0, <2>2
    <2>3. ASSUME Idle(w), UNCHANGED <<stores, requests, failures, wanted>> PROVE Keyed'
      BY <2>3, AnswerKeyed DEF stores
    <2>4. ASSUME Abort(w) PROVE Keyed'
      BY <2>4, AbortKeyed
    <2> QED BY <1>2, <2>1, <2>2, <2>3, <2>4 DEF ApplyLink
  <1>3. ASSUME EraseObject(w) PROVE Keyed'
    <2>1. /\ \A v \in Workers : pc'[v] = IF v = w THEN "delete" ELSE pc[v]
          /\ pc[w] = "erase" /\ UNCHANGED <<db, job, ptr, requests>>
      BY <1>3 DEF EraseObject, At, Goto, locals, IInv, WorkersOK
    <2>2. \A p \in Id : testbed'[p] # None => testbed[p] # None /\ testbed[p].keys \subseteq testbed'[p].keys
      BY <1>0, <1>3 DEF EraseObject, Object
    <2>3. Unused' = Unused /\ Making' \subseteq Making
      BY <2>1 DEF Unused, Making
    <2>4. Keying(w)'
      BY <1>0, <2>1, <2>3 DEF Keying
    <2> QED BY <2>1, <2>2, <2>4, StepKeyed DEF Inserting
  <1> QED BY <1>2, <1>3

\* A commit: the new row, or the changed one, says what is true of its key.
LEMMA CommitKeyed ==
  ASSUME IInv, Researchers, Keyed, NEW w \in Workers, InsertRow(w) \/ WriteRow(w) \/ DeleteRow(w)
  PROVE  Keyed'
  <1>0. PICK row : row = job[w].row
    OBVIOUS
  <1>1. Keying(w) /\ None \notin Unused \cup Making /\ \A i \in Id : db[i] \in Row \cup {None}
    BY AwaitedType, NoneIsNothing DEF Keyed, IInv, StoresOK
  <1>2. pc[w] \in {"insert", "write", "delete"} /\ row \in Id /\ job[w] \in Job /\ job[w].key \in Keys \cup {None}
    BY <1>0, JobType DEF InsertRow, WriteRow, DeleteRow, At, IInv
  <1>3. ASSUME AfterCommit(w) \/ Idle(w), requests' = requests
        PROVE  /\ Unused' = Unused /\ Pending' \subseteq Pending /\ Making' \subseteq Making
               /\ \A v \in Workers : (pc'[v] = pc[v] /\ job'[v] = job[v] /\ ptr'[v] = ptr[v]) \/ Keying(v)'
    <2>1. /\ \A v \in Workers \ {w} : pc'[v] = pc[v] /\ job'[v] = job[v] /\ ptr'[v] = ptr[v]
          /\ pc'[w] \in {"idle", "lookup"} /\ ptr'[w] \in {ptr[w], None}
      BY <1>3 DEF AfterCommit, Idle, Goto, locals, IInv, WorkersOK
    <2>2. Unused' = Unused /\ Pending' \subseteq Pending /\ Making' \subseteq Making
      BY <1>3, <2>1, IdsTaken DEF Inserting
    <2>3. Keying(w)'
      BY <1>1, <2>1, <2>2 DEF Keying
    <2> QED BY <2>1, <2>2, <2>3
  <1>4. ASSUME InsertRow(w), \A i \in link[w] : db[i] # None PROVE Keyed'
    <2>1. PICK new : new = NewRow(job[w], ptr[w], link[w])
      OBVIOUS
    <2>2. /\ pc[w] = "insert" /\ db' = [db EXCEPT ![row] = new] /\ testbed' = testbed
          /\ AfterCommit(w) /\ requests' = requests
      BY <1>0, <1>4, <2>1 DEF InsertRow, At
    <2>3. new.pointer = ptr[w] /\ new.key = job[w].key /\ ptr[w] # None /\ ptr[w] \in Id
      BY <2>1, <2>2, NoneIsNothing DEF NewRow, IInv, WorkersOK, Control, Holds
    <2>4. \A i \in Id : db'[i] = IF i = row THEN new ELSE db[i]
      BY <2>2 DEF IInv, StoresOK
    <2>5. row \in Pending /\ db[row] = None
      BY <1>0, <2>2 DEF Pending, Inserting, Researchers, FreshRows
    <2>6. Safe(row)'
      BY <1>1, <1>2, <2>2, <2>3, <2>4 DEF Safe, Keying, Opens
    <2>7. \A i \in Id : db'[i] # None =>
           \/ /\ db[i] # None /\ db'[i].pointer = db[i].pointer
              /\ db'[i].key = db[i].key /\ db'[i].lost = db[i].lost
           \/ /\ db[i] = None /\ i \in Unused \cup Pending
              /\ db'[i].pointer \notin Unused \cup Making /\ Safe(i)'
      BY <1>1, <2>3, <2>4, <2>5, <2>6 DEF Keying
    <2> QED BY <1>3, <2>2, <2>7, KeyedStays
  <1>5. ASSUME WriteRow(w), db[job[w].row] # None /\ \A i \in link[w] : db[i] # None PROVE Keyed'
    <2>1. PICK new : new = UpdatedRow(db[row], w)
      OBVIOUS
    <2>2. /\ pc[w] = "write" /\ db' = [db EXCEPT ![row] = new] /\ testbed' = testbed
          /\ AfterCommit(w) /\ requests' = requests /\ db[row] \in Row
      BY <1>0, <1>1, <1>2, <1>5, <2>1 DEF WriteRow, At
    <2>3. /\ new.pointer = db[row].pointer
          /\ new.key = IF job[w].key = None THEN db[row].key ELSE job[w].key
          /\ new.lost = IF job[w].key = None THEN db[row].lost ELSE ptr[w] = None
      BY <2>1, <2>2, UpdatedRowFields
    <2>4. \A i \in Id : db'[i] = IF i = row THEN new ELSE db[i]
      BY <2>2 DEF IInv, StoresOK
    <2>5. job[w].key # None => Safe(row)'
      <3>1. ptr[w] # None => db[row].pointer = ptr[w]
        BY <1>0, <1>1, <1>5, <2>2 DEF Keying
      <3>2. ptr[w] # None /\ job[w].key # None => Opens(ptr[w], job[w].key)
        BY <1>1, <2>2 DEF Keying
      <3>3. CASE job[w].key # None /\ ptr[w] = None
        BY <1>2, <2>3, <2>4, <3>3 DEF Safe
      <3>4. CASE job[w].key # None /\ ptr[w] # None
        BY <1>2, <2>2, <2>3, <2>4, <3>1, <3>2, <3>4 DEF Safe, Opens
      <3> QED BY <3>3, <3>4
    <2>6. \A i \in Id : db'[i] # None =>
           \/ /\ db[i] # None /\ db'[i].pointer = db[i].pointer
              /\ db'[i].key = db[i].key /\ db'[i].lost = db[i].lost
           \/ /\ db[i] # None /\ db'[i].pointer = db[i].pointer /\ Safe(i)'
      BY <1>0, <1>5, <2>3, <2>4, <2>5
    <2> QED BY <1>3, <2>2, <2>6, KeyedStays
  <1>6. ASSUME DeleteRow(w) PROVE Keyed'
    <2>1. /\ testbed' = testbed /\ Idle(w) /\ requests' = requests
          /\ \A i \in Id : db'[i] = IF i = row \/ db[i] = None THEN None ELSE Unlinked(db[i], row)
      BY <1>0, <1>6 DEF DeleteRow
    <2>2. \A r \in Row : \A i : /\ Unlinked(r, i).pointer = r.pointer
                                /\ Unlinked(r, i).key = r.key /\ Unlinked(r, i).lost = r.lost
      BY DEF Unlinked, Row
    <2>3. \A i \in Id : db'[i] # None =>
           /\ db[i] # None /\ db'[i].pointer = db[i].pointer
           /\ db'[i].key = db[i].key /\ db'[i].lost = db[i].lost
      BY <1>1, <2>1, <2>2
    <2> QED BY <1>3, <2>1, <2>3, KeyedStays
  <1>7. ASSUME Abort(w) PROVE Keyed'
    BY <1>7, AbortKeyed
  <1> QED BY <1>4, <1>5, <1>6, <1>7 DEF InsertRow, WriteRow

LEMMA RequestKeyed ==
  ASSUME IInv, Researchers, Keyed, NEW w \in Workers, Request(w)
  PROVE  Keyed'
  <1>1. ASSUME Register(w) PROVE Keyed'
    <2>1. PICK n \in Names : \E us \in UsersArg(n), k \in KeyArg(n) :
             Start(w, [op |-> "Register", hrn |-> n, row |-> requests + 1, users |-> us, key |-> k],
                      None, IF us = None THEN "find" ELSE "link")
      BY <1>1 DEF Register
    <2>2. PICK us \in UsersArg(n), k \in KeyArg(n) :
             Start(w, [op |-> "Register", hrn |-> n, row |-> requests + 1, users |-> us, key |-> k],
                   None, IF us = None THEN "find" ELSE "link")
      BY <2>1
    <2> DEFINE j == [op |-> "Register", hrn |-> n, row |-> requests + 1, users |-> us, key |-> k]
               label == IF us = None THEN "find" ELSE "link"
    <2>3. requests + 1 \in Id
      BY <2>2, BoundsAssumption DEF Start, IInv, HistoryOK, Id
    <2>4. j \in Job /\ j.row = requests + 1
      BY <2>3 DEF Job, UsersArg, KeyArg
    <2>5. label \in {"find", "link"} /\ Start(w, j, None, label)
      BY <2>2
    <2> HIDE DEF j, label
    <2> QED BY <2>4, <2>5, StartKeyed
  <1>2. ASSUME Update(w) PROVE Keyed'
    <2>1. PICK n \in Names : \E us \in UsersArg(n), k \in KeyArg(n), i \in RowsOf({n}) :
             Start(w, [op |-> "Update", hrn |-> n, row |-> i, users |-> us, key |-> k],
                   db[i].pointer, IF us = None THEN "update" ELSE "flush")
      BY <1>2 DEF Update
    <2>2. PICK us \in UsersArg(n), k \in KeyArg(n), i \in RowsOf({n}) :
             Start(w, [op |-> "Update", hrn |-> n, row |-> i, users |-> us, key |-> k],
                   db[i].pointer, IF us = None THEN "update" ELSE "flush")
      BY <2>1
    <2> DEFINE j == [op |-> "Update", hrn |-> n, row |-> i, users |-> us, key |-> k]
               label == IF us = None THEN "update" ELSE "flush"
    <2>3. j \in Job /\ j.row = i /\ i \in Id /\ db[i] # None
      BY RowsOfType DEF Job, UsersArg, KeyArg, RowsOf
    <2>4. label \in {"update", "flush"} /\ Start(w, j, db[i].pointer, label)
      BY <2>2
    <2> HIDE DEF j, label
    <2> QED BY <2>3, <2>4, StartKeyed
  <1>3. ASSUME Remove(w) PROVE Keyed'
    <2>1. PICK n \in Names : \E i \in RowsOf({n}) :
             Start(w, [op |-> "Remove", hrn |-> n, row |-> i, users |-> None, key |-> None],
                   db[i].pointer, "erase")
      BY <1>3 DEF Remove
    <2>2. PICK i \in RowsOf({n}) :
             Start(w, [op |-> "Remove", hrn |-> n, row |-> i, users |-> None, key |-> None],
                   db[i].pointer, "erase")
      BY <2>1
    <2> DEFINE j == [op |-> "Remove", hrn |-> n, row |-> i, users |-> None, key |-> None]
    <2>3. j \in Job /\ j.row = i /\ i \in Id /\ db[i] # None
      BY RowsOfType DEF Job, RowsOf
    <2>4. Start(w, j, db[i].pointer, "erase")
      BY <2>2
    <2> HIDE DEF j
    <2> QED BY <2>3, <2>4, StartKeyed
  <1> QED BY <1>1, <1>2, <1>3 DEF Request

LEMMA NextKeyed == IInv /\ Researchers /\ Keyed /\ [Next]_vars => Keyed'
  <1> SUFFICES ASSUME IInv, Researchers, Keyed, [Next]_vars PROVE Keyed'
    OBVIOUS
  <1>1. CASE UNCHANGED vars
    <2>1. UNCHANGED <<db, testbed, pc, job, ptr, requests>>
      BY <1>1 DEF vars, stores, locals
    <2>2. Unused' = Unused /\ Making' = Making /\ Pending' = Pending
      BY <2>1 DEF Unused, Making, Pending
    <2> QED BY <2>1, <2>2, KeyedStays
  <1>2. CASE Crash
    <2>1. /\ \A w \in Workers : pc'[w] = "idle" /\ ptr'[w] = None
          /\ UNCHANGED <<db, testbed, requests>>
      BY <1>2 DEF Crash, stores
    <2>2. Unused' = Unused /\ Making' = {} /\ Pending' = {}
      BY <2>1 DEF Unused, Making, Pending, Inserting
    <2>3. None \notin Unused
      BY AwaitedType, NoneIsNothing
    <2>4. \A w \in Workers : Keying(w)'
      BY <2>1, <2>2, <2>3 DEF Keying
    <2> QED BY <2>1, <2>2, <2>4, KeyedStays
  <1>3. ASSUME NEW w \in Workers, Request(w) PROVE Keyed'
    BY <1>3, RequestKeyed
  <1>4. ASSUME NEW w \in Workers, Step(w) PROVE Keyed'
    BY <1>4, QuietStepKeyed, KeyStepKeyed, MakeObjectKeyed, MembersKeyed, CommitKeyed DEF Step
  <1>5. ASSUME NEW w \in Workers, TestbedFault(w) PROVE Keyed'
    <2>1. db' = db /\ requests' = requests
      BY <1>5 DEF TestbedFault
    <2>2. ASSUME Idle(w), UNCHANGED testbed PROVE Keyed'
      BY <2>1, <2>2, AnswerKeyed
    <2>3. ASSUME pc[w] = "update", SwallowFailure(w), Goto(w, "write"),
                 UNCHANGED <<job, keep, link, add, del>>
          PROVE  Keyed'
      BY <2>1, <2>3, SwallowKeyed
    <2> QED BY <1>5, <2>2, <2>3 DEF TestbedFault, At
  <1> QED BY <1>1, <1>2, <1>3, <1>4, <1>5 DEF Next

-----------------------------------------------------------------------------
(* The theorems *)

LEMMA NextAgreement ==
  ASSUME Distinct, IInv, Unique, Researchers, Agreement, [Next]_vars
  PROVE  Agreement'
  <1>1. CASE UNCHANGED vars
    <2>1. UNCHANGED <<db, testbed, pc, job, ptr, add, del, requests, torn, wanted>>
      BY <1>1 DEF vars, stores, locals
    <2>2. Unused' = Unused /\ Making' = Making
      BY <2>1 DEF Unused, Making
    <2>3. FreshObjects' /\ Pointers' /\ Members'
      BY <2>1, <2>2 DEF Agreement, FreshObjects, Pointers, Members, IsRow, IsObject
    <2>4. Matched' /\ LinksThere'
      BY <2>1 DEF Agreement, Matched, LinksThere, Serving, IsRow, IsObject
    <2>5. \A w \in Workers : Owns(w)' /\ Linking(w)'
      BY <2>1 DEF Agreement, Owns, Linking, IsRow, IsObject
    <2> QED BY <2>3, <2>4, <2>5 DEF Agreement
  <1>2. CASE Crash
    BY <1>2, CrashAgreement
  <1>3. ASSUME NEW w \in Workers, Request(w) PROVE Agreement'
    BY <1>3, RequestAgreement
  <1>4. ASSUME NEW w \in Workers, Step(w) PROVE Agreement'
    BY <1>4, QuietStepAgreement, KeyStepAgreement, MakeObjectAgreement, ApplyLinkAgreement,
       EraseObjectAgreement, InsertRowAgreement, WriteRowAgreement, DeleteRowAgreement DEF Step
  <1>5. ASSUME NEW w \in Workers, TestbedFault(w) PROVE Agreement'
    <2>1. CASE /\ pc[w] \in {"find", "make", "account", "compare", "apply", "erase"}
               /\ Idle(w)
               /\ torn' = torn \cup {job[w].hrn}
               /\ UNCHANGED testbed
      BY <1>5, <2>1, AnswerAgreement DEF TestbedFault, stores
    <2>2. CASE /\ At(w, "update")
               /\ SwallowFailure(w)
               /\ Goto(w, "write")
               /\ UNCHANGED <<job, keep, link, add, del>>
      BY <1>5, <2>2, SwallowAgreement DEF TestbedFault, At
    <2> QED BY <1>5, <2>1, <2>2 DEF TestbedFault
  <1> QED BY <1>1, <1>2, <1>3, <1>4, <1>5 DEF Next

Consistent == IInv /\ Unique /\ Researchers /\ Agreement

LEMMA ConsistentKept ==
  ASSUME Exclusive, Distinct
  PROVE  Spec => []Consistent
  <1>1. Init => Consistent
    BY InitInv, InitUnique, InitResearchers, InitAgreement DEF Consistent
  <1>2. Consistent /\ [Next]_vars => Consistent'
    BY NextInv, NextUnique, NextResearchers, NextAgreement DEF Consistent
  <1> QED BY <1>1, <1>2, PTL DEF Spec

\* A name that no request is changing is served by no worker.
LEMMA SettledRests ==
  ASSUME IInv, NEW n \in Names, Settled(n)
  PROVE  n \notin torn /\ \A labels : "idle" \notin labels => ~Serving(n, labels)
  BY DEF Settled, Busy, Serving, IInv, WorkersOK, Control, Holds

\* As long as clients do not send two requests on one name at once and no two
\* users have one e-mail, which would be one person of the testbed, a name
\* whose last request was not cut short has a record exactly when it has a
\* testbed object, and the record points to it, whatever failed or restarted
\* (Register, Update and Remove of RegistryManager, register, update and
\* remove of PlDriver).
THEOREM RecordsMatch ==
  ASSUME Exclusive, Distinct
  PROVE  Spec => []RecordsMatchTestbed
  <1>1. Consistent => RecordsMatchTestbed
    <2> SUFFICES ASSUME Consistent, NEW n \in Names, Settled(n)
                 PROVE  {db[i].pointer : i \in RowsOf({n})} = ObjectsOf(n)
      BY DEF RecordsMatchTestbed
    <2>1. /\ \A i \in Id : IsRow(i, n) => testbed[db[i].pointer] # None
          /\ \A p \in Id : IsObject(p, n) => \E i \in Id : IsRow(i, n)
      BY SettledRests DEF Consistent, Agreement, Matched, Inserting
    <2>2. ASSUME NEW i \in RowsOf({n}) PROVE db[i].pointer \in ObjectsOf(n)
      <3>1. IsRow(i, n) /\ i \in Id
        BY DEF RowsOf, IsRow
      <3>2. db[i].pointer \in Id
        BY <3>1, RowFacts DEF Consistent, IsRow
      <3> QED BY <2>1, <3>1, <3>2 DEF ObjectsOf, IsRow, Consistent, Agreement, Pointers
    <2>3. ASSUME NEW p \in ObjectsOf(n) PROVE \E i \in RowsOf({n}) : db[i].pointer = p
      <3>1. IsObject(p, n) /\ p \in Id
        BY DEF ObjectsOf, IsObject
      <3>2. PICK i \in Id : IsRow(i, n)
        BY <2>1, <3>1
      <3>3. db[i].pointer = p
        BY <3>1, <3>2 DEF Consistent, Agreement, Pointers
      <3> QED BY <3>2, <3>3 DEF RowsOf, IsRow
    <2> QED BY <2>2, <2>3
  <1> QED BY <1>1, ConsistentKept, PTL

\* However requests overlap, and whatever users have one person on the testbed
\* between them, the key that a user's gid certifies opens the account that the
\* record leads to, as long as that exists: only a key that Update recorded
\* after driver.update failed may be missing (Register and Update of
\* RegistryManager, register and update of PlDriver).
THEOREM KeysMatch == Spec => []KeysOnTestbed
  <1>1. IInv /\ Keyed => KeysOnTestbed
    BY DEF Keyed, KeysOnTestbed, Safe, Opens
  <1>2. IInv /\ Researchers /\ Keyed /\ [Next]_vars => (IInv /\ Researchers /\ Keyed)'
    BY NextInv, NextResearchers, NextKeyed
  <1> QED BY <1>1, <1>2, InitInv, InitResearchers, InitKeyed, PTL DEF Spec

\* As long as no two requests on one name are under way and no two names are
\* one on the testbed, a settled slice is linked on the testbed to users
\* of its last update only, and to each of its researchers that is settled too:
\* update_driver_relations, which reads the rows again after the commit and the
\* members after that, leaves no link out and none too many.
THEOREM LinksMatch ==
  ASSUME Exclusive, Distinct
  PROVE  Spec => []LinkedFromNowOn
  <1>1. Consistent => LinkedFromNowOn
    <2> SUFFICES ASSUME Consistent, NEW i \in Id, db[i] # None, db[i].hrn \in Slices, Settled(db[i].hrn),
                        testbed[db[i].pointer] # None
                 PROVE  /\ \A p \in testbed[db[i].pointer].members : testbed[p].name \in wanted[db[i].hrn]
                        /\ \A r \in db[i].researchers :
                             Settled(db[r].hrn) => db[r].pointer \in testbed[db[i].pointer].members
      BY DEF LinkedFromNowOn
    <2>1. db[i].hrn \notin torn /\ ~Serving(db[i].hrn, {"lookup", "compare", "apply"})
      BY SettledRests DEF Consistent, Names
    <2>2. /\ \A p \in testbed[db[i].pointer].members : testbed[p].name \in wanted[db[i].hrn]
          /\ \A r \in db[i].researchers :
               testbed[db[r].pointer] # None => db[r].pointer \in testbed[db[i].pointer].members
      BY <2>1 DEF Consistent, Agreement, LinksThere
    <2>3. ASSUME NEW r \in db[i].researchers, Settled(db[r].hrn) PROVE testbed[db[r].pointer] # None
      <3>1. r \in Id /\ db[r] # None /\ db[r].hrn \in Names
        BY RowFacts DEF Consistent, Names
      <3>2. db[r].hrn \notin torn /\ ~Serving(db[r].hrn, Inserting \cup {"delete"})
        BY <2>3, <3>1, SettledRests DEF Consistent, Inserting
      <3>3. IsRow(r, db[r].hrn)
        BY <3>1 DEF IsRow
      <3> QED BY <3>1, <3>2, <3>3 DEF Consistent, Agreement, Matched
    <2> QED BY <2>2, <2>3
  <1> QED BY <1>1, ConsistentKept, PTL

-----------------------------------------------------------------------------
(* The registry database implements the directory *)

EntryAt(i) == [researchers |-> {db[r].hrn : r \in db[i].researchers}, key |-> db[i].key]

\* What EntryOf chooses, since a name has at most one row.
Chosen ==
    \A n \in Names :
        /\ \A i \in Id : IsRow(i, n) => EntryOf(n) = EntryAt(i)
        /\ (\A i \in Id : ~IsRow(i, n)) => EntryOf(n) = None

LEMMA ChosenRow == Consistent => Chosen
  <1> SUFFICES ASSUME Consistent, NEW n \in Names
               PROVE  /\ \A i \in Id : IsRow(i, n) => EntryOf(n) = EntryAt(i)
                      /\ (\A i \in Id : ~IsRow(i, n)) => EntryOf(n) = None
    BY DEF Chosen
  <1>1. ASSUME NEW i \in Id, IsRow(i, n) PROVE EntryOf(n) = EntryAt(i)
    <2>1. RowsOf({n}) = {i}
      BY <1>1 DEF RowsOf, IsRow, Consistent, Unique, OneRecordPerName
    <2>2. (CHOOSE k \in RowsOf({n}) : TRUE) = i
      BY <2>1
    <2> QED BY <2>1, <2>2 DEF EntryOf, EntryAt
  <1>2. ASSUME \A i \in Id : ~IsRow(i, n) PROVE EntryOf(n) = None
    BY <1>2 DEF RowsOf, IsRow, EntryOf
  <1> QED BY <1>1, <1>2

\* An entry lists registered users.
LEMMA EntryType ==
  ASSUME IInv, Researchers, NEW i \in Id, db[i] # None
  PROVE  EntryAt(i) \in [researchers : SUBSET Users, key : Keys \cup {None}] /\ EntryAt(i) # None
  <1>1. \A r \in db[i].researchers : db[r].hrn \in Users
    BY RowFacts
  <1>2. db[i].key \in Keys \cup {None}
    BY DEF IInv, StoresOK, Row
  <1>3. EntryAt(i) \in [researchers : SUBSET Users, key : Keys \cup {None}]
    BY <1>1, <1>2 DEF EntryAt
  <1> QED BY <1>3, EntryAssumption DEF Directory!Entry

LEMMA InitDirectory == Init => Directory!Init
  <1> SUFFICES ASSUME Init PROVE [n \in Names |-> EntryOf(n)] \in [Directory!Names -> {None, Directory!Blank}]
    BY DEF Directory!Init
  <1> SUFFICES ASSUME NEW n \in Names PROVE EntryOf(n) \in {None, Directory!Blank}
    BY DEF Names, Directory!Names
  <1>1. Consistent
    BY InitInv, InitUnique, InitResearchers, InitAgreement DEF Consistent
  <1>2. CASE \A i \in Id : ~IsRow(i, n)
    BY <1>1, <1>2, ChosenRow DEF Chosen
  <1>3. ASSUME NEW i \in Id, IsRow(i, n) PROVE EntryOf(n) = Directory!Blank
    <2>1. db[i].researchers = {} /\ db[i].key = None
      BY <1>3 DEF IsRow, Init
    <2>2. EntryOf(n) = EntryAt(i)
      BY <1>1, <1>3, ChosenRow DEF Chosen
    <2> QED BY <2>1, <2>2 DEF EntryAt, Directory!Blank
  <1> QED BY <1>2, <1>3

LEMMA RegisteredUser ==
  ASSUME Consistent, NEW r \in Id, db[r] # None, db[r].hrn \in Users
  PROVE  db[r].hrn \in Directory!Registered
  <1>1. EntryOf(db[r].hrn) = EntryAt(r)
    BY ChosenRow DEF Chosen, IsRow, Names
  <1>2. EntryAt(r) # None
    BY EntryType DEF Consistent
  <1> QED BY <1>1, <1>2 DEF Directory!Registered, Names

\* One name's entry becomes e, the others stay.
LEMMA OneEntry ==
  ASSUME NEW n \in Names, NEW e, EntryOf(n)' = e, \A m \in Names : m # n => EntryOf(m)' = EntryOf(m)
  PROVE  [m \in Names |-> EntryOf(m)]' = [[m \in Names |-> EntryOf(m)] EXCEPT ![n] = e]
  OBVIOUS

LEMMA InsertRowDirectory ==
  ASSUME Consistent, Consistent', Chosen, Chosen', NEW w \in Workers, InsertRow(w),
         \A i \in link[w] : db[i] # None
  PROVE  \E n \in Names : Directory!Add(n)
  <1>0. PICK n, row, key, us : /\ n = job[w].hrn /\ row = job[w].row /\ key = job[w].key
                               /\ us = {db[r].hrn : r \in link[w]}
    OBVIOUS
  <1>1. PICK new : new = NewRow(job[w], ptr[w], link[w])
    OBVIOUS
  <1>2. /\ pc[w] = "insert" /\ n \in Names /\ row \in Id /\ db' = [db EXCEPT ![row] = new]
        /\ key \in Keys \cup {None}
    BY <1>0, <1>1, JobType DEF InsertRow, At, Consistent, IInv
  <1>3. new # None /\ new.hrn = n /\ new.researchers = link[w] /\ new.key = key
    <2>1. ptr[w] \in Id /\ link[w] \in SUBSET Id /\ job[w] \in Job
      BY <1>2, JobType DEF Consistent, IInv, WorkersOK, Control, Holds
    <2> QED BY <1>0, <1>1, <2>1, NewRowType, NoneIsNothing DEF NewRow
  <1>4. \A i \in Id : db'[i] = IF i = row THEN new ELSE db[i]
    BY <1>2 DEF Consistent, IInv, StoresOK
  <1>5. db[row] = None /\ \A i \in Id : ~IsRow(i, n)
    BY <1>0, <1>2
       DEF Consistent, Unique, Free, Inserting, RowsOf, IsRow, Researchers, FreshRows, Pending
  <1>6. \A i \in Id : db[i] # None =>
          \A r \in db[i].researchers : r \in Id /\ r # row /\ db'[r] = db[r]
    BY <1>4, <1>5, RowFacts DEF Consistent
  <1>7. \A r \in link[w] : r \in Id /\ r # row /\ db[r] # None /\ db'[r] = db[r] /\ db[r].hrn \in Users
    <2>1. \A r \in link[w] : r \in Id /\ r # row /\ db[r] # None /\ db'[r] = db[r]
      BY <1>4, <1>5 DEF Consistent, IInv, WorkersOK
    <2> QED BY <1>2, <2>1, LinksAreUsers DEF Consistent
  <1>8. ASSUME NEW m \in Names, m # n PROVE EntryOf(m)' = EntryOf(m)
    <2>1. \A i \in Id : IsRow(i, m)' <=> IsRow(i, m)
      BY <1>3, <1>4, <1>5, <1>8 DEF IsRow
    <2>2. CASE \A i \in Id : ~IsRow(i, m)
      BY <2>1, <2>2 DEF Chosen
    <2>3. ASSUME NEW i \in Id, IsRow(i, m) PROVE EntryOf(m)' = EntryOf(m)
      <3>1. EntryOf(m) = EntryAt(i) /\ EntryOf(m)' = EntryAt(i)'
        BY <2>1, <2>3 DEF Chosen
      <3>2. db[i] # None /\ db'[i] = db[i]
        BY <1>4, <1>5, <2>3 DEF IsRow
      <3>3. {db'[r].hrn : r \in db[i].researchers} = {db[r].hrn : r \in db[i].researchers}
        BY <1>6, <3>2
      <3> QED BY <3>1, <3>2, <3>3 DEF EntryAt
    <2> QED BY <2>2, <2>3
  <1>9. EntryOf(n) = None
    BY <1>2, <1>5 DEF Chosen
  <1>10. EntryOf(n)' = [researchers |-> us, key |-> key]
    <2>1. IsRow(row, n)'
      BY <1>2, <1>3, <1>4 DEF IsRow
    <2>2. EntryOf(n)' = EntryAt(row)'
      BY <1>2, <2>1 DEF Chosen
    <2>3. {db'[r].hrn : r \in link[w]} = us
      BY <1>0, <1>7
    <2> QED BY <1>2, <1>3, <1>4, <2>2, <2>3 DEF EntryAt
  <1>11. /\ n \in Users => us = {}
         /\ n \in Slices => key = None
         /\ us \in SUBSET Directory!Registered
    <2>1. n \in Users => n \notin Slices
      BY NamesAssumption
    <2>2. /\ link[w] # {} => n \in Slices
          /\ key # None => n \in Users
      BY <1>0, <1>2 DEF Consistent, Researchers, Found
    <2>3. n \in Users => link[w] = {}
      BY <2>1, <2>2
    <2>4. us \in SUBSET Directory!Registered
      BY <1>0, <1>7, RegisteredUser
    <2> QED BY <1>0, <2>1, <2>2, <2>3, <2>4
  <1> DEFINE e == [researchers |-> us, key |-> key]
  <1>12. e # None
    <2>1. us \in SUBSET Users
      BY <1>11 DEF Directory!Registered
    <2> QED BY <1>2, <2>1, EntryAssumption DEF Directory!Entry
  <1>13. /\ n \in Users => e = [Directory!Blank EXCEPT !.key = key]
         /\ n \in Slices => e = [Directory!Blank EXCEPT !.researchers = us]
    BY <1>11 DEF Directory!Blank
  <1> HIDE DEF e
  <1>14. [m \in Names |-> EntryOf(m)]' = [[m \in Names |-> EntryOf(m)] EXCEPT ![n] = e]
    BY <1>2, <1>8, <1>10, OneEntry DEF e
  <1>15. Directory!Becomes(n, e)
    BY <1>2, <1>9, <1>12, <1>14 DEF Directory!Becomes
  <1>16. Directory!Add(n)
    BY <1>2, <1>9, <1>11, <1>13, <1>15 DEF Directory!Add, Names
  <1> QED BY <1>2, <1>16

\* The entries of the names whose row a commit leaves as it is.
LEMMA OtherEntries ==
  ASSUME Chosen, Chosen', NEW n \in Names,
         \A i \in Id, m \in Names : m # n => (IsRow(i, m)' <=> IsRow(i, m)),
         \A i \in Id : db[i] # None /\ db[i].hrn # n => EntryAt(i)' = EntryAt(i)
  PROVE  \A m \in Names : m # n => EntryOf(m)' = EntryOf(m)
  <1> SUFFICES ASSUME NEW m \in Names, m # n PROVE EntryOf(m)' = EntryOf(m)
    OBVIOUS
  <1>1. CASE \A i \in Id : ~IsRow(i, m)
    BY <1>1 DEF Chosen
  <1>2. ASSUME NEW i \in Id, IsRow(i, m) PROVE EntryOf(m)' = EntryOf(m)
    <2>1. EntryOf(m) = EntryAt(i) /\ EntryOf(m)' = EntryAt(i)'
      BY <1>2 DEF Chosen
    <2>2. db[i] # None /\ db[i].hrn # n
      BY <1>2 DEF IsRow
    <2> QED BY <2>1, <2>2
  <1> QED BY <1>1, <1>2

LEMMA WriteRowDirectory ==
  ASSUME Consistent, Chosen, Chosen', NEW w \in Workers, WriteRow(w),
         db[job[w].row] # None, \A i \in link[w] : db[i] # None
  PROVE  \/ \E s \in Slices : Directory!Relink(s)
         \/ \E u \in Users : Directory!Rekey(u)
         \/ UNCHANGED [n \in Names |-> EntryOf(n)]
  <1>0. PICK n, row, key, linked : n = job[w].hrn /\ row = job[w].row /\ key = job[w].key /\ linked = (job[w].users # None)
    OBVIOUS
  <1>1. PICK new : new = UpdatedRow(db[row], w)
    OBVIOUS
  <1>2. /\ pc[w] = "write" /\ n \in Names /\ row \in Id /\ db' = [db EXCEPT ![row] = new]
        /\ key \in Keys \cup {None} /\ db[row] \in Row /\ db[row].hrn = n
    BY <1>0, <1>1, JobType DEF WriteRow, At, Consistent, IInv, StoresOK, Agreement, Owns, IsRow
  <1>3. /\ new # None /\ new.hrn = db[row].hrn
        /\ linked \/ new.researchers = db[row].researchers
        /\ linked => new.researchers \subseteq keep[w] \cup link[w]
        /\ new.key = IF key = None THEN db[row].key ELSE key
    <2>1. new \in Row /\ new # None
      BY <1>1, <1>2, UpdatedRowType, NoneIsNothing DEF Consistent
    <2>2. /\ new.hrn = db[row].hrn
          /\ new.researchers = IF job[w].users = None THEN db[row].researchers
                                ELSE (db[row].researchers \cap keep[w]) \cup link[w]
          /\ new.key = IF job[w].key = None THEN db[row].key ELSE job[w].key
      BY <1>1, <1>2, UpdatedRowFields
    <2> QED BY <1>0, <2>1, <2>2
  <1>4. \A i \in Id : db'[i] = IF i = row THEN new ELSE db[i]
    BY <1>2 DEF Consistent, IInv, StoresOK
  <1>5. \A i \in Id : (db'[i] # None <=> db[i] # None) /\ db'[i].hrn = db[i].hrn
    BY <1>0, <1>3, <1>4
  <1>6. \A m \in Names : m # n => EntryOf(m)' = EntryOf(m)
    <2>1. \A i \in Id, m \in Names : m # n => (IsRow(i, m)' <=> IsRow(i, m))
      BY <1>5 DEF IsRow
    <2>2. ASSUME NEW i \in Id, db[i] # None, db[i].hrn # n PROVE EntryAt(i)' = EntryAt(i)
      <3>1. db'[i] = db[i]
        BY <1>2, <1>4, <2>2
      <3>2. \A r \in db[i].researchers : db'[r].hrn = db[r].hrn
        BY <1>5, <2>2, RowFacts DEF Consistent
      <3>3. {db'[r].hrn : r \in db[i].researchers} = {db[r].hrn : r \in db[i].researchers}
        BY <3>2
      <3> QED BY <3>1, <3>3 DEF EntryAt
    <2> QED BY <1>2, <2>1, <2>2, OtherEntries
  <1>7. PICK old, us : /\ old = {db[r].hrn : r \in db[row].researchers}
                       /\ us = {db'[r].hrn : r \in new.researchers}
    OBVIOUS
  <1>8. EntryOf(n) = [researchers |-> old, key |-> db[row].key] /\ EntryOf(n) # None
    <2>1. IsRow(row, n) /\ db[row] # None
      BY <1>0, <1>2 DEF IsRow
    <2>2. EntryOf(n) = EntryAt(row) /\ EntryAt(row) # None
      BY <1>2, <2>1, EntryType DEF Chosen, Consistent
    <2> QED BY <1>7, <2>2 DEF EntryAt
  <1>9. EntryOf(n)' = [researchers |-> us, key |-> new.key]
    <2>1. IsRow(row, n)'
      BY <1>2, <1>3, <1>4 DEF IsRow
    <2>2. EntryOf(n)' = EntryAt(row)'
      BY <1>2, <2>1 DEF Chosen
    <2> QED BY <1>2, <1>4, <1>7, <2>2 DEF EntryAt
  <1>10. /\ linked => n \in Slices /\ key = None
         /\ key # None => n \in Users
    BY <1>0, <1>2 DEF Consistent, Researchers, Found, IInv, WorkersOK, Control, Holds
  <1>11. linked => us \in SUBSET Directory!Registered
    <2> SUFFICES ASSUME linked, NEW r \in new.researchers PROVE db'[r].hrn \in Directory!Registered
      BY <1>7
    <2>1. r \in Id /\ db'[r].hrn = db[r].hrn /\ db[r] # None /\ db[r].hrn \in Users
      <3>1. r \in keep[w] \cup link[w] /\ r \in Id
        BY <1>2, <1>3 DEF Consistent, IInv, WorkersOK
      <3>2. db[r] # None => db[r].hrn \in Users
        BY <1>2, <3>1, LinksAreUsers DEF Consistent
      <3>3. db[r] # None
        <4>1. CASE r \in link[w]
          BY <4>1
        <4>2. CASE r \notin link[w]
          <5>1. r \in db[row].researchers
            BY <1>0, <1>1, <1>2, <4>2, UpdatedRowFields
          <5> QED BY <1>0, <1>2, <5>1, RowFacts DEF Consistent
        <4> QED BY <4>1, <4>2
      <3> QED BY <1>5, <3>1, <3>2, <3>3
    <2> QED BY <2>1, RegisteredUser
  <1>12. ~linked => us = old
    <2> SUFFICES ASSUME ~linked PROVE us = old
      OBVIOUS
    <2>1. new.researchers = db[row].researchers
      BY <1>3
    <2>2. \A r \in db[row].researchers : db'[r].hrn = db[r].hrn
      BY <1>0, <1>2, <1>5, RowFacts DEF Consistent
    <2> QED BY <1>7, <2>1, <2>2
  <1>13. PICK e : e = [researchers |-> us, key |-> new.key]
    OBVIOUS
  <1>14. [m \in Names |-> EntryOf(m)]' = [[m \in Names |-> EntryOf(m)] EXCEPT ![n] = e]
    BY <1>2, <1>6, <1>9, <1>13, OneEntry
  <1>15. CASE EntryOf(n) = e
    BY <1>6, <1>9, <1>13, <1>15
  <1>16. CASE EntryOf(n) # e
    <2>1. Directory!Becomes(n, e)
      BY <1>2, <1>14, <1>16 DEF Directory!Becomes
    <2>2. CASE linked
      <3>1. e = [EntryOf(n) EXCEPT !.researchers = us]
        BY <1>3, <1>8, <1>10, <1>13, <2>2
      <3> QED BY <1>2, <1>8, <1>10, <1>11, <2>1, <2>2, <3>1 DEF Directory!Relink
    <2>3. CASE ~linked
      <3>1. key # None
        BY <1>3, <1>8, <1>12, <1>13, <1>16, <2>3
      <3>2. e = [EntryOf(n) EXCEPT !.key = key]
        BY <1>3, <1>8, <1>12, <1>13, <2>3, <3>1
      <3> QED BY <1>2, <1>8, <1>10, <2>1, <3>1, <3>2 DEF Directory!Rekey
    <2> QED BY <2>2, <2>3
  <1> QED BY <1>15, <1>16

LEMMA DeleteRowDirectory ==
  ASSUME Consistent, Chosen, Chosen', NEW w \in Workers, DeleteRow(w)
  PROVE  \E n \in Names : Directory!Drop(n)
  <1>0. PICK n, row : n = job[w].hrn /\ row = job[w].row
    OBVIOUS
  <1>1. /\ pc[w] = "delete" /\ n \in Names /\ row \in Id
    BY <1>0, JobType DEF DeleteRow, At, Consistent, IInv
  <1>2. IsRow(row, n) /\ \A i \in Id : IsRow(i, n) => i = row
    BY <1>0, <1>1 DEF Consistent, Agreement, Owns, Unique, OneRecordPerName, IsRow
  <1>3. \A i \in Id : /\ i = row \/ db[i] = None => db'[i] = None
                      /\ i # row /\ db[i] # None =>
                           /\ db'[i] # None /\ db'[i].hrn = db[i].hrn /\ db'[i].key = db[i].key
                           /\ db'[i].researchers = db[i].researchers \ {row}
    <2> SUFFICES ASSUME NEW i \in Id
                 PROVE  /\ i = row \/ db[i] = None => db'[i] = None
                        /\ i # row /\ db[i] # None =>
                             /\ db'[i] # None /\ db'[i].hrn = db[i].hrn /\ db'[i].key = db[i].key
                             /\ db'[i].researchers = db[i].researchers \ {row}
      OBVIOUS
    <2>1. db'[i] = IF i = row \/ db[i] = None THEN None ELSE [db[i] EXCEPT !.researchers = @ \ {row}]
      BY <1>0 DEF DeleteRow, Unlinked
    <2>2. db[i] # None => db[i] \in Row
      BY DEF Consistent, IInv, StoresOK
    <2>3. \A o \in Row : LET e == [o EXCEPT !.researchers = @ \ {row}]
                         IN  e \in Row /\ e.hrn = o.hrn /\ e.key = o.key /\ e.researchers = o.researchers \ {row}
      BY DEF Row
    <2> QED BY <2>1, <2>2, <2>3, NoneIsNothing
  <1>4. EntryOf(n)' = None /\ EntryOf(n) # None
    <2>1. \A i \in Id : ~IsRow(i, n)'
      BY <1>2, <1>3 DEF IsRow
    <2>2. EntryOf(n) = EntryAt(row) /\ EntryAt(row) # None
      BY <1>1, <1>2, EntryType DEF Chosen, Consistent, IsRow
    <2> QED BY <1>1, <2>1, <2>2 DEF Chosen
  <1>5. ASSUME NEW m \in Names, m # n
        PROVE  EntryOf(m)' = IF EntryOf(m) = None THEN None
                               ELSE [EntryOf(m) EXCEPT !.researchers = @ \ {n}]
    <2>1. \A i \in Id : IsRow(i, m)' <=> IsRow(i, m)
      BY <1>2, <1>3, <1>5 DEF IsRow
    <2>2. CASE \A i \in Id : ~IsRow(i, m)
      BY <2>1, <2>2 DEF Chosen
    <2>3. ASSUME NEW i \in Id, IsRow(i, m)
          PROVE  EntryOf(m)' = IF EntryOf(m) = None THEN None
                                 ELSE [EntryOf(m) EXCEPT !.researchers = @ \ {n}]
      <3>1. i # row /\ db[i] # None
        BY <1>2, <1>5, <2>3 DEF IsRow
      <3>2. EntryOf(m) = EntryAt(i) /\ EntryOf(m)' = EntryAt(i)' /\ EntryAt(i) # None
        BY <2>1, <2>3, <3>1, EntryType DEF Chosen, Consistent
      <3>3. \A r \in db[i].researchers : r \in Id /\ db[r] # None
        BY <3>1, RowFacts DEF Consistent
      <3>4. \A r \in db[i].researchers : /\ r # row => db'[r].hrn = db[r].hrn /\ db[r].hrn # n
                                         /\ r = row => db[r].hrn = n
        BY <1>2, <1>3, <3>3 DEF IsRow
      <3>5. {db'[r].hrn : r \in db[i].researchers \ {row}} = {db[r].hrn : r \in db[i].researchers} \ {n}
        BY <3>4
      <3>6. db'[i].researchers = db[i].researchers \ {row} /\ db'[i].key = db[i].key
        BY <1>3, <3>1
      <3>7. EntryAt(i)' = [researchers |-> {db[r].hrn : r \in db[i].researchers} \ {n}, key |-> db[i].key]
        BY <3>5, <3>6 DEF EntryAt
      <3>8. [EntryAt(i) EXCEPT !.researchers = @ \ {n}] =
              [researchers |-> {db[r].hrn : r \in db[i].researchers} \ {n}, key |-> db[i].key]
        <4>1. \A us, k : [[researchers |-> us, key |-> k] EXCEPT !.researchers = @ \ {n}] =
                            [researchers |-> us \ {n}, key |-> k]
          OBVIOUS
        <4> QED BY <4>1 DEF EntryAt
      <3> QED BY <3>2, <3>7, <3>8
    <2> QED BY <2>2, <2>3
  <1>6. Directory!Drop(n)
    BY <1>1, <1>4, <1>5 DEF Directory!Drop, Directory!Names, Names
  <1> QED BY <1>1, <1>6

LEMMA NextDirectory ==
  ASSUME Consistent, Chosen, Chosen', [Next]_vars, Consistent'
  PROVE  [Directory!Next]_([n \in Names |-> EntryOf(n)])
  <1>1. ASSUME db' = db PROVE UNCHANGED [n \in Names |-> EntryOf(n)]
    BY <1>1 DEF EntryOf, RowsOf
  <1>2. ASSUME NEW w \in Workers, InsertRow(w) PROVE db' = db \/ Directory!Next
    <2>1. CASE \A i \in link[w] : db[i] # None
      BY <1>2, <2>1, InsertRowDirectory DEF Directory!Next, Directory!Names, Names
    <2>2. CASE ~ \A i \in link[w] : db[i] # None
      BY <1>2, <2>2 DEF InsertRow, Abort, stores
    <2> QED BY <2>1, <2>2
  <1>3. ASSUME NEW w \in Workers, WriteRow(w)
        PROVE  db' = db \/ Directory!Next \/ UNCHANGED [n \in Names |-> EntryOf(n)]
    <2>1. CASE db[job[w].row] # None /\ \A i \in link[w] : db[i] # None
      BY <1>3, <2>1, WriteRowDirectory DEF Directory!Next
    <2>2. CASE ~ (db[job[w].row] # None /\ \A i \in link[w] : db[i] # None)
      BY <1>3, <2>2 DEF WriteRow, Abort, stores
    <2> QED BY <2>1, <2>2
  <1>4. ASSUME NEW w \in Workers, DeleteRow(w) PROVE Directory!Next
    BY <1>4, DeleteRowDirectory DEF Directory!Next, Directory!Names, Names
  <1>5. ASSUME UNCHANGED vars \/ Crash PROVE db' = db
    BY <1>5 DEF vars, stores, Crash
  <1>6. ASSUME NEW w \in Workers, Request(w) \/ TestbedFault(w) PROVE db' = db
    BY <1>6 DEF Request, Register, Update, Remove, Start, TestbedFault, stores
  <1>7. ASSUME NEW w \in Workers, Step(w), ~InsertRow(w), ~WriteRow(w), ~DeleteRow(w) PROVE db' = db
    BY <1>7 DEF Step, LinkResearchers, FindObject, MakeObject, SetAccount, FlushRow, UpdateObject,
                LookupLinks, CompareLinks, ApplyLink, EraseObject, Abort, stores
  <1> QED BY <1>1, <1>2, <1>3, <1>4, <1>5, <1>6, <1>7 DEF Next

\* What readers of the registry see is a directory: as long as clients do not
\* send two requests on one name at once and no two names are one on the testbed,
\* each commit of Register, Update or Remove adds, changes or drops one entry,
\* every researcher of a slice is registered at that moment, and a user that goes
\* is unlinked in the same step.
THEOREM ImplementsTheDirectory ==
  ASSUME Exclusive, Distinct
  PROVE  Spec => ImplementsDirectory
  <1>1. Consistent => Chosen
    BY ChosenRow
  <1>2. Consistent /\ Chosen /\ Consistent' /\ Chosen' /\ [Next]_vars
          => [Directory!Next]_([n \in Names |-> EntryOf(n)])
    BY NextDirectory
  <1> QED
    BY <1>1, <1>2, InitDirectory, ConsistentKept, PTL DEF Spec, ImplementsDirectory, Directory!Spec

-----------------------------------------------------------------------------
(* The trusted roots                                                         *)

USE InterfacesAssumption, FilesAssumption

\* The gid of an interface signs itself; the one of its site follows it, and
\* the one of the user follows both.
RootOf(g, i) == g \in Gid /\ g.name = i /\ g.key[1] = i /\ g.issuer = g.key

SiteUnder(s, r, i) ==
  s \in Gid /\ s.name = SiteOf(i) /\ s.key[1] = SiteOf(i) /\ s.issuer = r.key

UserUnder(u, s, i) ==
  u \in Gid /\ u.name = UserOf(i) /\ u.issuer = s.key

SiteChain(c, i) == c \in Gid \X Gid /\ RootOf(c[2], i) /\ SiteUnder(c[1], c[2], i)
UserChain(c, i) ==
  c \in Gid \X Gid \X Gid /\ RootOf(c[3], i) /\ SiteUnder(c[2], c[3], i) /\ UserUnder(c[1], c[2], i)

TrustTypeOK ==
  /\ clock \in Nat
  /\ DOMAIN rootGid = Interfaces /\ DOMAIN siteGid = Interfaces
  /\ DOMAIN held = Interfaces
  /\ rootFile \in [Interfaces -> Gid \cup {NoFile, NoText}]
  /\ startup \in [Processes -> {"down", "own", "missing", "asking", "installing", "serving"}]
  /\ toAsk \subseteq Peers

\* Whatever is made anew, chains stay whole and files are where they belong.
ChainsWhole ==
  \A i \in Interfaces :
    /\ RootOf(rootGid[i], i) /\ SiteChain(siteGid[i], i) /\ UserChain(held[i], i)
    /\ rootFile[i] \in Gid => RootOf(rootFile[i], i)

\* The peer whose answer the tool is about to install.
AnswerOfPeer ==
  startup["tool"] = "installing" => \E i \in Peers \cap received : RootOf(answer, i)

\* The root of a running process's interface is not made anew behind it.
RootStays ==
  (\E p \in Processes : startup[p] # "down") => rootFile[Home] \in {NoText, rootGid[Home]}

\* The tool remembers the peers whose records it still has to make.
ToRecord == IF startup["tool"] \in {"asking", "installing"} THEN received ELSE {}
Accounted ==
  ~interrupted => \A i \in Peers : rootFile[i] # NoFile => i \in peerRecords \cup ToRecord

-----------------------------------------------------------------------------
(* Names *)

Hrn == Seq(STRING) \ {<< >>}

LEMMA InterfaceIsHrn == \A i \in Interfaces : i \in Hrn /\ Len(i) \in Nat \ {0}
  <1>1. \A s \in Hrn : Len(s) \in Nat \ {0}
    BY SMTT(30) DEF Hrn
  <1> QED BY <1>1 DEF Hrn

LEMMA PrefixOfAppend ==
  ASSUME NEW s \in Hrn, NEW x \in STRING
  PROVE  /\ Append(s, x) \in Hrn
         /\ Append(s, x)[Len(Append(s, x))] = x
         /\ HrnAuthFor(s, Append(s, x)) /\ HrnAuthFor(s, s)
  <1>1. Append(s, x) \in Hrn /\ Append(s, x)[Len(Append(s, x))] = x
    BY DEF Hrn
  <1>2. Len(s) \in 1 .. Len(s) /\ Len(s) \in 1 .. Len(Append(s, x))
    BY DEF Hrn
  <1>3. s = SubSeq(s, 1, Len(s)) /\ s = SubSeq(Append(s, x), 1, Len(s))
    BY DEF Hrn
  <1> QED BY <1>1, <1>2, <1>3 DEF HrnAuthFor

LEMMA Names3 ==
  ASSUME NEW i \in Interfaces
  PROVE  /\ SiteOf(i) \in Hrn /\ UserOf(i) \in Hrn
         /\ HrnAuthFor(i, i) /\ HrnAuthFor(i, SiteOf(i)) /\ HrnAuthFor(SiteOf(i), UserOf(i))
         /\ SiteOf(i)[Len(SiteOf(i))] = "site" /\ i[Len(i)] # "user"
         /\ \A j \in Interfaces : j # SiteOf(i)
  <1> QED BY InterfaceIsHrn, PrefixOfAppend DEF SiteOf, UserOf

-----------------------------------------------------------------------------
(* Gids made anew *)

LEMMA RootMade ==
  ASSUME NEW i \in Interfaces, NEW n \in Nat, clock \in Nat
  PROVE  RootOf(RootAnew(i, n), i)
  <1>1. i \in Seq(STRING) /\ clock + Life \in Nat
    BY InterfaceIsHrn DEF Hrn
  <1> QED BY <1>1 DEF RootAnew, Cert, RootOf, Gid

LEMMA SiteMade ==
  ASSUME NEW i \in Interfaces, NEW n \in Nat, NEW r, RootOf(r, i), clock \in Nat
  PROVE  SiteChain(SiteAnew(i, n, r), i)
  <1>1. SiteOf(i) \in Seq(STRING) /\ clock + Life \in Nat
    BY Names3 DEF Hrn
  <1>2. r \in Gid /\ r.key \in Seq(STRING) \X Nat
    BY DEF RootOf, Gid
  <1> DEFINE c == Cert(SiteOf(i), n, r.key)
  <1>3. SiteUnder(c, r, i)
    BY <1>1, <1>2 DEF Cert, SiteUnder, Gid
  <1>4. SiteAnew(i, n, r) = <<c, r>>
    BY DEF SiteAnew
  <1>5. c \in Gid
    BY <1>3 DEF SiteUnder
  <1> HIDE DEF c
  <1> QED BY <1>2, <1>3, <1>4, <1>5 DEF SiteChain

LEMMA UserMade ==
  ASSUME NEW i \in Interfaces, NEW s, SiteChain(s, i), clock \in Nat
  PROVE  UserChain(UserAnew(i, s), i)
  <1>1. UserOf(i) \in Seq(STRING) /\ clock + Life \in Nat
    BY Names3 DEF Hrn
  <1>2. s \in Gid \X Gid /\ s[1] \in Gid /\ s[1].key \in Seq(STRING) \X Nat
    BY DEF SiteChain, SiteUnder, Gid
  <1> DEFINE c == Cert(UserOf(i), 0, s[1].key)
  <1>3. UserUnder(c, s[1], i)
    BY <1>1, <1>2 DEF Cert, UserUnder, Gid
  <1>4. UserAnew(i, s) = <<c, s[1], s[2]>>
    BY DEF UserAnew
  <1>5. c \in Gid
    BY <1>3 DEF UserUnder
  <1> HIDE DEF c
  <1> QED BY <1>2, <1>3, <1>4, <1>5 DEF UserChain, SiteChain

-----------------------------------------------------------------------------
(* The inductive invariant; AnswersFollowChains is about the state a request *)
(* is answered in, and follows from the rest of it.                          *)

Base == TrustTypeOK /\ ChainsWhole /\ AnswerOfPeer /\ RootStays /\ Accounted

LEMMA HomeIsInterface == Home \in Interfaces /\ Peers \subseteq Interfaces /\ Home \notin Peers
  BY DEF Interfaces

LEMMA InitTrust == TrustInit => Base /\ AnswersFollowChains
  <1> SUFFICES ASSUME TrustInit PROVE Base /\ AnswersFollowChains
    OBVIOUS
  <1>1. clock \in Nat /\ 0 \in Nat
    BY DEF TrustInit
  <1>2. TrustTypeOK
    <2>1. DOMAIN rootGid = Interfaces /\ DOMAIN siteGid = Interfaces /\ DOMAIN held = Interfaces
      BY DEF TrustInit
    <2>2. rootFile \in [Interfaces -> Gid \cup {NoFile, NoText}]
      BY DEF TrustInit
    <2>3. startup \in [Processes -> {"down", "own", "missing", "asking", "installing", "serving"}]
      BY DEF TrustInit
    <2> QED BY <1>1, <2>1, <2>2, <2>3 DEF TrustInit, TrustTypeOK
  <1>3. ChainsWhole
    <2> SUFFICES ASSUME NEW i \in Interfaces
                 PROVE  /\ RootOf(rootGid[i], i) /\ SiteChain(siteGid[i], i) /\ UserChain(held[i], i)
                        /\ rootFile[i] \in Gid => RootOf(rootFile[i], i)
      BY DEF ChainsWhole
    <2>1. RootOf(rootGid[i], i)
      BY <1>1, RootMade DEF TrustInit
    <2>2. SiteChain(siteGid[i], i)
      BY <1>1, <2>1, SiteMade DEF TrustInit
    <2>3. UserChain(held[i], i)
      BY <1>1, <2>2, UserMade DEF TrustInit
    <2> QED BY <2>1, <2>2, <2>3 DEF TrustInit
  <1>4. AnswerOfPeer /\ RootStays /\ AnswersFollowChains
    BY DEF TrustInit, AnswerOfPeer, RootStays, AnswersFollowChains, Processes
  <1>5. Accounted
    BY HomeIsInterface DEF TrustInit, Accounted
  <1> QED BY <1>2, <1>3, <1>4, <1>5 DEF Base

LEMMA OpenOwnRootInv == ASSUME Base, NEW p \in Processes, OpenOwnRoot(p) PROVE Base'
  <1> USE DEF Base, OpenOwnRoot, Outside, hierarchies, Quiet, Move
  <1>1. TrustTypeOK'
    BY HomeIsInterface DEF TrustTypeOK
  <1>2. rootFile'[Home] = NoText /\ \A i \in Interfaces \ {Home} : rootFile'[i] = rootFile[i]
    BY HomeIsInterface DEF TrustTypeOK
  <1>3. ChainsWhole'
    BY <1>2 DEF ChainsWhole
  <1>4. AnswerOfPeer' /\ RootStays'
    BY <1>2 DEF AnswerOfPeer, RootStays, TrustTypeOK
  <1>5. Accounted'
    BY <1>2, HomeIsInterface DEF Accounted, ToRecord, TrustTypeOK, Processes
  <1> QED BY <1>1, <1>3, <1>4, <1>5

LEMMA WriteOwnRootInv == ASSUME Base, NEW p \in Processes, WriteOwnRoot(p) PROVE Base'
  <1> USE DEF Base, WriteOwnRoot, Outside, hierarchies, Quiet, Move
  <1>1. RootOf(rootGid[Home], Home) /\ rootGid[Home] \in Gid
    BY HomeIsInterface DEF ChainsWhole, RootOf
  <1>2. rootFile'[Home] = rootGid[Home] /\ \A i \in Interfaces \ {Home} : rootFile'[i] = rootFile[i]
    BY HomeIsInterface DEF TrustTypeOK
  <1>3. TrustTypeOK'
    BY <1>1, HomeIsInterface DEF TrustTypeOK
  <1>4. ChainsWhole'
    BY <1>1, <1>2 DEF ChainsWhole
  <1>5. AnswerOfPeer' /\ RootStays'
    BY <1>2 DEF AnswerOfPeer, RootStays, TrustTypeOK, Processes
  <1>6. Accounted'
    BY <1>2, HomeIsInterface DEF Accounted, ToRecord, TrustTypeOK, Processes
  <1> QED BY <1>3, <1>4, <1>5, <1>6

\* What the tool has to record is nothing before it asks.
LEMMA FindMissingInv == ASSUME Base, FindMissing PROVE Base'
  <1> USE DEF Base, FindMissing, Outside, hierarchies, Quiet, Move
  <1>1. "tool" \in Processes /\ startup'["tool"] \in {"down", "asking"}
        /\ \A p \in Processes \ {"tool"} : startup'[p] = startup[p]
    BY DEF TrustTypeOK, Processes
  <1>2. TrustTypeOK'
    BY <1>1 DEF TrustTypeOK, Interfaces
  <1>3. ChainsWhole' /\ AnswerOfPeer'
    BY <1>1 DEF ChainsWhole, AnswerOfPeer
  <1>4. RootStays' /\ Accounted'
    BY <1>1 DEF RootStays, Accounted, ToRecord
  <1> QED BY <1>2, <1>3, <1>4

LEMMA AskPeerInv == ASSUME Base, AskPeer PROVE Base'
  <1> USE DEF Base, AskPeer, Outside, hierarchies, Quiet, Move
  <1>1. PICK i \in toAsk : /\ toAsk' = toAsk \ {i} /\ received' = received \cup {i}
                           /\ answer' = rootGid[i] /\ rootFile' = [rootFile EXCEPT ![i] = NoText]
    OBVIOUS
  <1>2. i \in Peers /\ i \in Interfaces /\ i # Home
    BY HomeIsInterface DEF TrustTypeOK
  <1>3. "tool" \in Processes /\ startup'["tool"] = "installing"
        /\ \A p \in Processes \ {"tool"} : startup'[p] = startup[p]
    BY DEF TrustTypeOK, Processes
  <1>4. rootFile'[i] = NoText /\ \A j \in Interfaces \ {i} : rootFile'[j] = rootFile[j]
    BY <1>1, <1>2 DEF TrustTypeOK
  <1>5. TrustTypeOK'
    BY <1>1, <1>2 DEF TrustTypeOK
  <1>6. ChainsWhole'
    BY <1>4 DEF ChainsWhole
  <1>7. AnswerOfPeer' /\ RootStays'
    BY <1>1, <1>2, <1>3, <1>4, HomeIsInterface DEF AnswerOfPeer, RootStays, ChainsWhole
  <1>8. Accounted'
    <2> SUFFICES ASSUME ~interrupted, NEW j \in Peers, rootFile'[j] # NoFile
                 PROVE  j \in peerRecords \cup received'
      BY <1>3 DEF Accounted, ToRecord
    <2>1. startup["tool"] = "asking" /\ ToRecord = received
      BY DEF ToRecord
    <2>2. CASE j = i
      BY <1>1, <2>2
    <2>3. CASE j # i
      BY <1>1, <1>4, <2>1, <2>3, HomeIsInterface DEF Accounted
    <2> QED BY <2>2, <2>3
  <1> QED BY <1>5, <1>6, <1>7, <1>8

LEMMA PassOverInv == ASSUME Base, PassOver PROVE Base'
  BY DEF Base, PassOver, Outside, hierarchies, Quiet, TrustTypeOK, ChainsWhole, AnswerOfPeer,
         RootStays, Accounted, ToRecord

LEMMA InstallPeerInv == ASSUME Base, InstallPeer PROVE Base'
  <1> USE DEF Base, InstallPeer, Outside, hierarchies, Quiet, Move
  <1>1. PICK i \in Peers \cap received : RootOf(answer, i)
    BY DEF AnswerOfPeer
  <1>2. answer \in Gid /\ answer.name = i /\ i \in Interfaces /\ i # Home
    BY <1>1, HomeIsInterface DEF RootOf
  <1>3. "tool" \in Processes /\ startup'["tool"] = "asking"
        /\ \A p \in Processes \ {"tool"} : startup'[p] = startup[p]
    BY DEF TrustTypeOK, Processes
  <1>4. rootFile'[i] = answer /\ \A j \in Interfaces \ {i} : rootFile'[j] = rootFile[j]
    BY <1>2 DEF TrustTypeOK
  <1>5. TrustTypeOK'
    BY <1>2 DEF TrustTypeOK
  <1>6. ChainsWhole'
    BY <1>1, <1>4 DEF ChainsWhole
  <1>7. AnswerOfPeer' /\ RootStays'
    BY <1>2, <1>3, <1>4, HomeIsInterface DEF AnswerOfPeer, RootStays
  <1>8. Accounted'
    <2> SUFFICES ASSUME ~interrupted, NEW j \in Peers, rootFile'[j] # NoFile
                 PROVE  j \in peerRecords \cup received
      BY <1>3 DEF Accounted, ToRecord
    <2>1. ToRecord = received
      BY DEF ToRecord
    <2>2. CASE j = i
      BY <1>1, <2>2
    <2>3. CASE j # i
      BY <1>4, <2>1, <2>3, HomeIsInterface DEF Accounted
    <2> QED BY <2>2, <2>3
  <1> QED BY <1>5, <1>6, <1>7, <1>8

LEMMA UpdateCertRecordsInv == ASSUME Base, UpdateCertRecords PROVE Base'
  <1> USE DEF Base, UpdateCertRecords, Outside, hierarchies, Quiet, Move
  <1>1. "tool" \in Processes /\ startup'["tool"] = "down"
        /\ \A p \in Processes \ {"tool"} : startup'[p] = startup[p]
    BY DEF TrustTypeOK, Processes
  <1>2. TrustTypeOK' /\ ChainsWhole' /\ AnswerOfPeer'
    BY <1>1 DEF TrustTypeOK, ChainsWhole, AnswerOfPeer
  <1>3. RootStays' /\ Accounted'
    BY <1>1 DEF RootStays, Accounted, ToRecord
  <1> QED BY <1>2, <1>3

LEMMA KillInv == ASSUME Base, Kill PROVE Base'
  <1> USE DEF Base, Kill, hierarchies, Move
  <1>1. PICK p \in Processes :
          /\ startup[p] # "down" /\ startup' = [startup EXCEPT ![p] = "down"]
          /\ interrupted' = (interrupted \/ (p = "tool" /\ received # {}))
          /\ IF p = "tool" THEN toAsk' = {} /\ received' = {} /\ answer' = NoFile
                           ELSE UNCHANGED <<toAsk, received, answer>>
    OBVIOUS
  <1>2. "tool" \in Processes /\ startup'[p] = "down"
        /\ \A q \in Processes \ {p} : startup'[q] = startup[q]
    BY <1>1 DEF TrustTypeOK, Processes
  <1>3. TrustTypeOK'
    BY <1>1 DEF TrustTypeOK
  <1>4. ChainsWhole' /\ RootStays'
    BY <1>1, <1>2 DEF ChainsWhole, RootStays
  <1>5. CASE p = "tool"
    <2>1. AnswerOfPeer'
      BY <1>2, <1>5 DEF AnswerOfPeer
    <2>2. Accounted'
      BY <1>1, <1>2, <1>5 DEF Accounted, ToRecord
    <2> QED BY <1>3, <1>4, <2>1, <2>2
  <1>6. CASE p # "tool"
    <2>1. AnswerOfPeer' /\ Accounted'
      BY <1>1, <1>2, <1>6 DEF AnswerOfPeer, Accounted, ToRecord
    <2> QED BY <1>3, <1>4, <2>1
  <1> QED BY <1>5, <1>6

\* Gids are made anew under the key they had or the next one; those of Home
\* only while nothing runs there.
LEMMA ResetGidsInv == ASSUME Base, ResetGids PROVE Base'
  <1> USE DEF Base, ResetGids, Quiet, starts
  <1>1. PICK i \in Interfaces, safe \in BOOLEAN, removed \in BOOLEAN :
          /\ i = Home => \A p \in Processes : startup[p] = "down"
          /\ LET n    == rootGid[i].key[2] + (IF removed THEN 1 ELSE 0)
                 root == IF safe THEN rootGid[i] ELSE RootAnew(i, n)
             IN /\ rootGid' = [rootGid EXCEPT ![i] = root]
                /\ siteGid' = [siteGid EXCEPT ![i] = SiteAnew(i, n, root)]
    OBVIOUS
  <1> DEFINE n == rootGid[i].key[2] + (IF removed THEN 1 ELSE 0)
             root == IF safe THEN rootGid[i] ELSE RootAnew(i, n)
  <1>2. rootGid' = [rootGid EXCEPT ![i] = root] /\ siteGid' = [siteGid EXCEPT ![i] = SiteAnew(i, n, root)]
    BY <1>1
  <1>3. RootOf(rootGid[i], i) /\ clock \in Nat
    BY DEF ChainsWhole, TrustTypeOK
  <1>4. n \in Nat
    BY <1>3 DEF RootOf, Gid
  <1> HIDE DEF n
  <1>5. RootOf(root, i)
    BY <1>3, <1>4, RootMade
  <1> HIDE DEF root
  <1>6. SiteChain(SiteAnew(i, n, root), i)
    BY <1>3, <1>4, <1>5, SiteMade
  <1>7. TrustTypeOK'
    BY <1>2 DEF TrustTypeOK
  <1>8. ChainsWhole'
    BY <1>2, <1>5, <1>6 DEF ChainsWhole, TrustTypeOK
  <1>9. AnswerOfPeer' /\ Accounted'
    BY DEF AnswerOfPeer, Accounted, ToRecord
  <1>10. RootStays'
    BY <1>1, <1>2 DEF RootStays, TrustTypeOK
  <1> QED BY <1>7, <1>8, <1>9, <1>10

LEMMA CreateGidInv == ASSUME Base, CreateGid PROVE Base'
  <1> USE DEF Base, CreateGid, Quiet, starts, hierarchies
  <1>1. PICK i \in Interfaces : held' = [held EXCEPT ![i] = UserAnew(i, siteGid[i])]
    OBVIOUS
  <1>2. UserChain(UserAnew(i, siteGid[i]), i)
    BY UserMade DEF ChainsWhole, TrustTypeOK
  <1>3. TrustTypeOK' /\ ChainsWhole'
    BY <1>1, <1>2 DEF TrustTypeOK, ChainsWhole
  <1>4. AnswerOfPeer' /\ Accounted' /\ RootStays'
    BY DEF AnswerOfPeer, Accounted, ToRecord, RootStays
  <1> QED BY <1>3, <1>4

\* Neither time nor a request changes what the invariant is about.
LEMMA TickInv == ASSUME Base, Tick PROVE Base'
  BY DEF Base, Tick, Quiet, starts, hierarchies, TrustTypeOK, ChainsWhole, AnswerOfPeer,
         RootStays, Accounted, ToRecord

LEMMA SendRequestInv == ASSUME Base, SendRequest PROVE Base'
  BY DEF Base, SendRequest, Outside, starts, hierarchies, TrustTypeOK, ChainsWhole, AnswerOfPeer,
         RootStays, Accounted, ToRecord

-----------------------------------------------------------------------------
(* Verification of a chain                                                    *)

\* A trusted root is a file of its own interface; there is one for each.
LEMMA OneRootEach ==
  ASSUME Base, NEW g \in Gids
  PROVE  /\ g \in Gid /\ g.name \in Interfaces /\ g.key[1] = g.name /\ rootFile[g.name] = g
  <1>1. PICK i \in Interfaces : g = rootFile[i] /\ g # NoFile /\ g # NoText
    BY DEF Gids
  <1>2. RootOf(g, i)
    BY <1>1 DEF Base, TrustTypeOK, ChainsWhole
  <1> QED BY <1>1, <1>2 DEF RootOf

\* What a chain has to be accepted: all of it valid, and a valid trusted root
\* of its interface with the key it ends in.
Good(chain) ==
  /\ \A k \in DOMAIN chain : ~HasExpired(chain[k])
  /\ \E g \in Gids : /\ g.name = chain[Len(chain)].name
                     /\ g.key = chain[Len(chain)].key /\ ~HasExpired(g)

\* No trusted root signed the last gid of a chain but one with its name and key.
LEMMA SignersOfRoot ==
  ASSUME Base, NEW i \in Interfaces, NEW r, RootOf(r, i), NEW g \in Signers(r)
  PROVE  g \in Gids /\ g.name = i /\ g.key = r.key /\ g = rootFile[i]
  <1>1. g \in Gids /\ g.key = r.key
    BY DEF Signers, RootOf
  <1> QED BY <1>1, OneRootEach DEF RootOf

LEMMA AcceptedOnlyIfGood ==
  ASSUME Base, NEW i \in Interfaces, NEW textlessLast \in BOOLEAN, NEW chain,
         Len(chain) \in DOMAIN chain, RootOf(chain[Len(chain)], i), VerifyChain(chain, textlessLast)
  PROVE  Good(chain)
  <1>1. \A k \in DOMAIN chain : ~HasExpired(chain[k])
    BY DEF VerifyChain
  <1>2. PICK g \in Signers(chain[Len(chain)]) : ~HasExpired(g)
    BY DEF VerifyChain, SignedByTrusted
  <1>3. chain[Len(chain)].name = i
    BY DEF RootOf
  <1> QED BY <1>1, <1>2, <1>3, SignersOfRoot DEF Good

\* The root of a good chain, and any gid below that it signed, is signed by a
\* trusted root.
LEMMA SignedIfGood ==
  ASSUME Base, AllHaveText, NEW i \in Interfaces, NEW r, RootOf(r, i), NEW gid, gid.issuer = r.key,
         NEW h \in Gids, h.name = r.name, h.key = r.key, ~HasExpired(h), NEW textlessLast \in BOOLEAN
  PROVE  SignedByTrusted(gid, textlessLast) /\ h \in Signers(gid)
  BY DEF SignedByTrusted, Signers

\* A site's key signs nothing that is trusted by itself.
LEMMA UserSignedByNone ==
  ASSUME Base, AllHaveText, NEW i \in Interfaces, NEW u, NEW s, NEW r, SiteUnder(s, r, i), UserUnder(u, s, i)
  PROVE  SignedByNone(u)
  <1>1. u.issuer[1] = SiteOf(i)
    BY DEF SiteUnder, UserUnder
  <1>2. \A g \in Gids : g.key[1] # SiteOf(i)
    BY OneRootEach, Names3
  <1> QED BY <1>1, <1>2 DEF SignedByNone, Signers

LEMMA RootAcceptedIfGood ==
  ASSUME Base, AllHaveText, NEW i \in Interfaces, NEW r, RootOf(r, i), Good(<<r>>), NEW textlessLast \in BOOLEAN
  PROVE  VerifyChain(<<r>>, textlessLast)
  <1> DEFINE chain == <<r>>
  <1>1. Len(chain) = 1 /\ DOMAIN chain = {1} /\ chain[1] = r
    OBVIOUS
  <1> HIDE DEF chain
  <1>2. PICK h \in Gids : h.name = r.name /\ h.key = r.key /\ ~HasExpired(h)
    BY <1>1 DEF Good, chain
  <1>3. ~HasExpired(r) /\ SignedByTrusted(r, textlessLast) /\ h \in Signers(r)
    BY <1>1, <1>2, SignedIfGood DEF Good, RootOf, chain
  <1>4. HrnAuthFor(h.name, r.name) /\ IsAuthority(h)
    BY <1>2, Names3 DEF RootOf, IsAuthority
  <1>5. VerifyChain(chain, textlessLast)
    BY <1>1, <1>3, <1>4 DEF VerifyChain
  <1> QED BY <1>5 DEF chain

LEMMA UserAcceptedIfGood ==
  ASSUME Base, AllHaveText, NEW i \in Interfaces, NEW chain, UserChain(chain, i), Good(chain),
         NEW textlessLast \in BOOLEAN
  PROVE  VerifyChain(chain, textlessLast)
  <1>1. Len(chain) = 3 /\ DOMAIN chain = {1, 2, 3}
    BY DEF UserChain
  <1> DEFINE u == chain[1]  s == chain[2]  r == chain[3]
  <1>2. RootOf(r, i) /\ SiteUnder(s, r, i) /\ UserUnder(u, s, i)
    BY DEF UserChain
  <1>3. PICK h \in Gids : h.name = r.name /\ h.key = r.key /\ ~HasExpired(h)
    BY <1>1 DEF Good
  <1>4. ~HasExpired(u) /\ ~HasExpired(s) /\ ~HasExpired(r)
    BY <1>1 DEF Good
  <1>5. r.name = i /\ s.name = SiteOf(i) /\ u.name = UserOf(i) /\ u.issuer = s.key /\ s.issuer = r.key
    BY <1>2 DEF RootOf, SiteUnder, UserUnder
  <1>6. SignedByTrusted(r, textlessLast) /\ h \in Signers(r) /\ SignedByTrusted(s, textlessLast)
    BY <1>2, <1>3, <1>5, SignedIfGood DEF RootOf
  <1>7. SignedByNone(u)
    BY <1>2, UserSignedByNone
  <1>8. IsAuthority(r) /\ IsAuthority(s) /\ IsAuthority(h)
    BY <1>3, <1>5, Names3 DEF IsAuthority
  <1>9. HrnAuthFor(r.name, s.name) /\ HrnAuthFor(s.name, u.name) /\ HrnAuthFor(h.name, r.name)
    BY <1>3, <1>5, Names3
  <1> HIDE DEF u, s, r
  <1>10. chain[1] = u /\ chain[2] = s /\ chain[3] = r /\ 1 + 1 = 2 /\ 2 + 1 = 3
    BY DEF u, s, r
  <1> QED BY <1>1, <1>4, <1>5, <1>6, <1>7, <1>8, <1>9, <1>10 DEF VerifyChain

LEMMA SendRequestAnswer ==
  ASSUME Base, SendRequest PROVE AnswersFollowChains'
  <1>1. PICK i \in Interfaces, textlessLast \in BOOLEAN :
          \E chain \in {held[i], <<rootGid[i]>>} :
             verdict' = [chain |-> chain, accepted |-> VerifyChain(chain, textlessLast)]
    BY DEF SendRequest
  <1>2. PICK chain \in {held[i], <<rootGid[i]>>} :
             verdict' = [chain |-> chain, accepted |-> VerifyChain(chain, textlessLast)]
    BY <1>1
  <1>3. RootOf(rootGid[i], i) /\ UserChain(held[i], i)
    BY DEF Base, ChainsWhole
  <1>4. Len(chain) \in DOMAIN chain /\ RootOf(chain[Len(chain)], i)
    <2>1. CASE chain = held[i]
      BY <1>3, <2>1 DEF UserChain
    <2>2. CASE chain = <<rootGid[i]>>
      BY <1>3, <2>2
    <2> QED BY <2>1, <2>2
  <1>5. VerifyChain(chain, textlessLast) => Good(chain)
    BY <1>4, AcceptedOnlyIfGood
  <1>6. Good(chain) /\ AllHaveText => VerifyChain(chain, textlessLast)
    BY <1>2, <1>3, RootAcceptedIfGood, UserAcceptedIfGood
  <1>7. clock' = clock /\ rootFile' = rootFile
    BY DEF SendRequest, Outside
  <1>8. Good(chain)' = Good(chain) /\ AllHaveText' = AllHaveText
    BY <1>7 DEF Good, AllHaveText, HasExpired, Gids
  <1>9. verdict'.chain = chain /\ verdict'.accepted = VerifyChain(chain, textlessLast)
    BY <1>2
  <1> QED BY <1>5, <1>6, <1>8, <1>9 DEF AnswersFollowChains, Good

-----------------------------------------------------------------------------
(* Theorems                                                                   *)

LEMMA TrustNextInv == ASSUME Base, TrustNext PROVE Base' /\ AnswersFollowChains'
  <1>1. Base'
    BY OpenOwnRootInv, WriteOwnRootInv, FindMissingInv, AskPeerInv, PassOverInv, InstallPeerInv,
       UpdateCertRecordsInv, KillInv, ResetGidsInv, CreateGidInv, TickInv, SendRequestInv DEF TrustNext
  <1>2. CASE verdict' = NoVerdict
    BY <1>1, <1>2 DEF AnswersFollowChains
  <1>3. CASE SendRequest
    BY <1>1, <1>3, SendRequestAnswer
  <1>4. TrustNext => verdict' = NoVerdict \/ SendRequest
    BY DEF TrustNext, OpenOwnRoot, WriteOwnRoot, FindMissing, AskPeer, PassOver, InstallPeer,
           UpdateCertRecords, Kill, ResetGids, CreateGid, Tick, Quiet
  <1> QED BY <1>1, <1>2, <1>3, <1>4

LEMMA TrustStutter ==
  ASSUME Base, AnswersFollowChains, UNCHANGED trustVars
  PROVE  Base' /\ AnswersFollowChains'
  <1>1. UNCHANGED <<clock, rootGid, siteGid, held, rootFile>>
        /\ UNCHANGED <<peerRecords, startup, toAsk, received, answer, interrupted, verdict>>
    BY DEF trustVars, hierarchies, starts
  <1>2. Base'
    BY <1>1 DEF Base, TrustTypeOK, ChainsWhole, AnswerOfPeer, RootStays, Accounted, ToRecord
  <1>3. Gids' = Gids /\ AllHaveText' = AllHaveText
    BY <1>1 DEF Gids, AllHaveText
  <1>4. AnswersFollowChains'
    BY <1>1, <1>3 DEF AnswersFollowChains, HasExpired
  <1> QED BY <1>2, <1>4

LEMMA TrustInvariance == ServerSpec => [](Base /\ AnswersFollowChains)
  <1>1. ServerInit => Base /\ AnswersFollowChains
    BY InitTrust DEF ServerInit
  <1>2. Base /\ AnswersFollowChains /\ [ServerNext]_serverVars => (Base /\ AnswersFollowChains)'
    <2> SUFFICES ASSUME Base, AnswersFollowChains, [ServerNext]_serverVars
                 PROVE  (Base /\ AnswersFollowChains)'
      OBVIOUS
    <2>1. TrustNext \/ UNCHANGED trustVars
      BY DEF ServerNext, OnRecords, OnTrust, serverVars
    <2> QED BY <2>1, TrustNextInv, TrustStutter
  <1> QED BY <1>1, <1>2, PTL DEF ServerSpec

\* While gids are made anew, files are written in two steps and processes are
\* killed: requests are judged by their whole chain, a running server trusts
\* its own root, and roots that were installed are on record.
THEOREM TrustKept == ServerSpec => []TrustHolds
  <1>1. Base => OwnRootCurrent /\ InstalledOnRecord
    BY DEF Base, RootStays, Accounted, ToRecord, OwnRootCurrent, InstalledOnRecord, Processes
  <1>2. Base /\ AnswersFollowChains => TrustHolds
    BY <1>1 DEF TrustHolds
  <1> QED BY <1>2, TrustInvariance, PTL

\* Every gid file and every gid handed out stays a whole chain: each gid in it
\* is signed with the key of the one above it, up to a root of its interface.
THEOREM ChainsStayWhole == ServerSpec => []ChainsWhole
  <1>1. Base => ChainsWhole
    BY DEF Base
  <1> QED BY <1>1, TrustInvariance, PTL

=============================================================================
