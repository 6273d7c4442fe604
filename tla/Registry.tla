------------------------------ MODULE Registry ------------------------------
(***************************************************************************)
(* The registry's write methods, Register, Update and Remove, as the       *)
(* worker threads of the registry server run them: each request reads and  *)
(* commits rows of the registry database and calls the testbed (through    *)
(* the PlanetLab driver) in between, and none of that is one transaction.  *)
(*                                                                         *)
(* Slices and users are modelled, with the 'researcher' relation; an       *)
(* authority and its 'pi's follow the same path in the registry.  Row ids  *)
(* and testbed pointers are drawn from one set: the object the importer    *)
(* found under name n has id n, request number i creates the row and the   *)
(* testbed object of id i.                                                 *)
(***************************************************************************)
EXTENDS Naturals, FiniteSets

CONSTANTS
    Slices, Users,       \* the hrns of the slices and of the users
    Keys,                \* ssh keys of users
    Called,              \* what the testbed knows a name by: a user's e-mail,
                         \* the PL name of a slice
    Workers,             \* the threads of the server's pool
    None,                \* no row, no object, no argument
    Exclusive,           \* clients never send two requests on one name at once
    MaxRequests,         \* bound: requests that reach the database
    MaxFailures          \* bound: testbed calls that fail, and server restarts

ASSUME NamesAssumption == Slices \cap Users = {} /\ None \notin Slices \cup Users \cup Keys
ASSUME CalledAssumption == \A s \in Slices, u \in Users : Called[s] # Called[u]
ASSUME ExclusiveAssumption == Exclusive \in BOOLEAN
ASSUME BoundsAssumption == MaxRequests \in Nat /\ MaxFailures \in Nat
ASSUME IdsAssumption == (Slices \cup Users) \cap Nat = {} /\ None \notin Nat

VARIABLES
    db,        \* registry database: the committed row of an id, or None
    testbed,   \* testbed: the object a pointer designates, or None
    pc,        \* what each worker does next
    job,       \* the request each worker serves, or None
    ptr,       \* worker's pointer to the testbed object, None when it has none
    keep,      \* worker's researcher rows that the subject row already had
    link,      \* worker's researcher rows to attach to the subject row
    add, del,  \* worker's pending AddPersonToSlice and DeletePersonFromSlice
    requests, failures,
    torn,      \* history: names whose last change was cut short
    wanted     \* history: the researchers last committed for a slice

stores == <<db, testbed>>
locals == <<ptr, keep, link, add, del>>
vars == <<db, testbed, pc, job, locals, requests, failures, torn, wanted>>

Names == Slices \cup Users
Id == Names \cup (1 .. MaxRequests)

\* The key of a row is the one that its gid certifies; as history, lost tells
\* that driver.update failed when the key was sent.  The name of an object is
\* that of the record it was made for, its hrn tag.
Row == [hrn : Names, pointer : Id, researchers : SUBSET Id,
        key : Keys \cup {None}, lost : BOOLEAN]
Object == [name : Names, members : SUBSET Id, keys : SUBSET Keys]

\* The key of a request is the first that it has: of the others, Register keeps
\* a copy in the registry and nothing else uses them.
Job == [op : {"Register", "Update", "Remove"}, hrn : Names, row : Id,
        users : (SUBSET Users) \cup {None}, key : Keys \cup {None}]

ASSUME NoneAssumption == None \notin Row \cup Object \cup Job

Label == {"idle", "link", "find", "make", "account", "insert", "flush", "update",
          "write", "lookup", "compare", "apply", "erase", "delete"}

\* The rows a query on hrns returns, and the testbed objects of a name.
RowsOf(hrns) == {i \in Id : db[i] # None /\ db[i].hrn \in hrns}
ObjectsOf(n) == {p \in Id : testbed[p] # None /\ testbed[p].name = n}

\* What GetPersons finds for the e-mail of a user, or GetSlices for the name of a
\* slice: two users with one e-mail are one person on the testbed.
Namesakes(n) == {p \in Id : testbed[p] # None /\ Called[testbed[p].name] = Called[n]}

\* No two names are one on the testbed.
Distinct == \A m, n \in Names : Called[m] = Called[n] => m = n

Busy(n) == \E w \in Workers : job[w] # None /\ job[w].hrn = n

\* Mutation: the pointer that driver.register returned is dropped.
NewRowNoPointer(j, p, rs) == [hrn |-> j.hrn, pointer |-> None, researchers |-> rs,
                              key |-> j.key, lost |-> FALSE]

\* A new row and a new testbed object.  A gid certifies the user's key, or a
\* fresh one when the request has none.
NewRow(j, p, rs) == [hrn |-> j.hrn, pointer |-> p, researchers |-> rs,
                     key |-> j.key, lost |-> FALSE]
NewObject(n) == [name |-> n, members |-> {}, keys |-> {}]

-----------------------------------------------------------------------------
(* Any set of names may have been imported before the server starts. *)
Init ==
    /\ \E known \in SUBSET Names :
         /\ db = [i \in Id |-> IF i \in known
                    THEN [hrn |-> i, pointer |-> i, researchers |-> {},
                          key |-> None, lost |-> FALSE]
                    ELSE None]
         /\ testbed = [p \in Id |-> IF p \in known THEN NewObject(p) ELSE None]
    /\ pc = [w \in Workers |-> "idle"]
    /\ job = [w \in Workers |-> None]
    /\ ptr = [w \in Workers |-> None]
    /\ keep = [w \in Workers |-> {}]
    /\ link = [w \in Workers |-> {}]
    /\ add = [w \in Workers |-> {}]
    /\ del = [w \in Workers |-> {}]
    /\ requests = 0 /\ failures = 0
    /\ torn = {}
    /\ wanted = [s \in Slices |-> {}]

At(w, label) == pc[w] = label
Goto(w, label) == pc' = [pc EXCEPT ![w] = label]

\* The worker answers its request and forgets it.
Idle(w) ==
    /\ Goto(w, "idle")
    /\ job' = [job EXCEPT ![w] = None]
    /\ ptr' = [ptr EXCEPT ![w] = None]
    /\ keep' = [keep EXCEPT ![w] = {}]
    /\ link' = [link EXCEPT ![w] = {}]
    /\ add' = [add EXCEPT ![w] = {}]
    /\ del' = [del EXCEPT ![w] = {}]

\* The request is answered with a fault; what it did before stays done.
Abort(w) ==
    /\ Idle(w)
    /\ torn' = torn \cup {job[w].hrn}
    /\ UNCHANGED <<stores, requests, failures, wanted>>

\* A worker takes a request whose first query succeeded.
Start(w, j, p, label) ==
    /\ At(w, "idle")
    /\ requests < MaxRequests
    /\ Exclusive => ~Busy(j.hrn)
    /\ requests' = requests + 1
    /\ job' = [job EXCEPT ![w] = j]
    /\ ptr' = [ptr EXCEPT ![w] = p]
    /\ Goto(w, label)
    /\ UNCHANGED <<stores, keep, link, add, del, failures, torn, wanted>>

\* The optional arguments a client may give for a name.
UsersArg(n) == IF n \in Slices THEN (SUBSET Users) \cup {None} ELSE {None}
KeyArg(n) == IF n \in Users THEN Keys \cup {None} ELSE {None}

-----------------------------------------------------------------------------
(* Register *)

\* Mutation: the query for an existing record is left out.
UnregisteredUnchecked(n) == TRUE

Unregistered(n) == RowsOf({n}) = {}

\* A name that has a row is refused (ExistingRecord) and nothing changes.
Register(w) ==
    \E n \in Names : \E us \in UsersArg(n), k \in KeyArg(n) :
        /\ Unregistered(n)
        /\ Start(w, [op |-> "Register", hrn |-> n, row |-> requests + 1,
                     users |-> us, key |-> k],
                 None, IF us = None THEN "find" ELSE "link")

\* record.update_researchers: the researcher rows as they are now.
LinkResearchers(w) ==
    /\ At(w, "link")
    /\ link' = [link EXCEPT ![w] = RowsOf(job[w].users)]
    /\ Goto(w, "find")
    /\ UNCHANGED <<stores, job, ptr, keep, add, del, requests, failures, torn, wanted>>

\* Only a user has an account to set up before driver.register returns.
Registered(w) == IF job[w].hrn \in Users THEN "account" ELSE "insert"

\* driver.register looks the object up by its e-mail or PL name, to adopt it when
\* it exists, whoever it was made for.
FindObject(w) ==
    /\ At(w, "find")
    /\ IF Namesakes(job[w].hrn) = {}
         THEN ptr' = ptr /\ Goto(w, "make")
         ELSE \E p \in Namesakes(job[w].hrn) :
                ptr' = [ptr EXCEPT ![w] = p] /\ Goto(w, Registered(w))
    /\ UNCHANGED <<stores, job, keep, link, add, del, requests, failures, torn, wanted>>

\* ... and creates it otherwise; the testbed refuses a name it already has.
MakeObject(w) ==
    /\ At(w, "make")
    /\ IF Namesakes(job[w].hrn) = {}
         THEN /\ testbed' = [testbed EXCEPT ![job[w].row] = NewObject(job[w].hrn)]
              /\ ptr' = [ptr EXCEPT ![w] = job[w].row]
              /\ Goto(w, Registered(w))
              /\ UNCHANGED <<db, job, keep, link, add, del, requests, failures, torn, wanted>>
         ELSE Abort(w)

\* Mutation: the account is set up without AddPersonKey.
SetAccountNoKey(w) ==
    /\ At(w, "account")
    /\ Goto(w, "insert")
    /\ UNCHANGED <<stores, job, locals, requests, failures, torn, wanted>>

\* A user's account is enabled, put on its site and given its key.
SetAccount(w) ==
    /\ At(w, "account")
    /\ IF testbed[ptr[w]] = None
         THEN Abort(w)
         ELSE /\ testbed' = IF job[w].key = None THEN testbed
                              ELSE [testbed EXCEPT ![ptr[w]].keys = @ \cup {job[w].key}]
              /\ Goto(w, "insert")
              /\ UNCHANGED <<db, job, locals, requests, failures, torn, wanted>>

\* Only a slice with a 'researcher' field goes on to the testbed relation.
AfterCommit(w) ==
    IF job[w].users # None
      THEN /\ Goto(w, "lookup")
           /\ wanted' = [wanted EXCEPT ![job[w].hrn] = job[w].users]
           /\ UNCHANGED <<job, locals, torn>>
      ELSE /\ Idle(w)
           /\ wanted' = IF job[w].op = "Register" /\ job[w].hrn \in Slices
                          THEN [wanted EXCEPT ![job[w].hrn] = {}] ELSE wanted
           /\ torn' = IF job[w].op = "Register" \/ (job[w].key # None /\ ptr[w] # None)
                        THEN torn \ {job[w].hrn} ELSE torn

\* dbsession.commit: a researcher row that vanished breaks the foreign key.
InsertRow(w) ==
    /\ At(w, "insert")
    /\ IF \A i \in link[w] : db[i] # None
         THEN /\ db' = [db EXCEPT ![job[w].row] = NewRow(job[w], ptr[w], link[w])]
              /\ AfterCommit(w)
              /\ UNCHANGED <<testbed, requests, failures>>
         ELSE Abort(w)

-----------------------------------------------------------------------------
(* Update *)

\* Mutation: the row is locked by the first query already.
LockedEarly(i, w) ==
    \E v \in Workers \ {w} :
        /\ pc[v] \in {"flush", "update", "write"}
        /\ job[v].row = i
        /\ job[v].users # None

\* The lock PostgreSQL holds on a row between its UPDATE and the commit: only
\* the update of a slice's researchers writes the row before its last query.
Locked(i, w) ==
    \E v \in Workers \ {w} :
        /\ pc[v] \in {"update", "write"}
        /\ job[v].row = i
        /\ job[v].users # None

Update(w) ==
    \E n \in Names : \E us \in UsersArg(n), k \in KeyArg(n), i \in RowsOf({n}) :
        Start(w, [op |-> "Update", hrn |-> n, row |-> i, users |-> us, key |-> k],
              db[i].pointer, IF us = None THEN "update" ELSE "flush")

\* record.update_researchers: its query flushes last_updated, which takes the
\* row lock; a row deleted meanwhile is a StaleDataError.
FlushRow(w) ==
    /\ At(w, "flush")
    /\ ~Locked(job[w].row, w)
    /\ IF db[job[w].row] = None
         THEN Abort(w)
         ELSE LET found == RowsOf(job[w].users)
                  old == db[job[w].row].researchers
              IN /\ keep' = [keep EXCEPT ![w] = found \cap old]
                 /\ link' = [link EXCEPT ![w] = found \ old]
                 /\ Goto(w, "update")
                 /\ UNCHANGED <<stores, job, ptr, add, del, requests, failures, torn, wanted>>

\* driver.update under "try: ... except: pass": a failure is forgotten, and
\* new_key_pointer, still -1, counts as an answer.  For the history, a user's
\* ptr, which is not used again, becomes None when the key was not taken.
SwallowFailure(w) ==
    /\ ptr' = IF job[w].key = None THEN ptr ELSE [ptr EXCEPT ![w] = None]
    /\ UNCHANGED <<testbed, torn>>

\* The tag that driver.update sets again is the object's own, unless two users
\* are one person; only the importer goes by it.
UpdateObject(w) ==
    /\ At(w, "update")
    /\ IF testbed[ptr[w]] = None
         THEN SwallowFailure(w)
         ELSE /\ testbed' = IF job[w].key = None THEN testbed
                              ELSE [testbed EXCEPT ![ptr[w]].keys = @ \cup {job[w].key}]
              /\ UNCHANGED <<ptr, torn>>
    /\ Goto(w, "write")
    /\ UNCHANGED <<db, job, keep, link, add, del, requests, failures, wanted>>

\* Mutation: key and gid are assigned without "if new_key".
UpdatedRowAnyKey(row, w) ==
    [row EXCEPT !.researchers = IF job[w].users = None THEN @ ELSE (@ \cap keep[w]) \cup link[w],
                !.key = job[w].key]

\* Key and gid change together, whether or not the testbed took the key.
UpdatedRow(row, w) ==
    [row EXCEPT !.researchers = IF job[w].users = None THEN @ ELSE (@ \cap keep[w]) \cup link[w],
                !.key = IF job[w].key = None THEN @ ELSE job[w].key,
                !.lost = IF job[w].key = None THEN @ ELSE ptr[w] = None]

WriteRow(w) ==
    /\ At(w, "write")
    /\ ~Locked(job[w].row, w)
    /\ IF db[job[w].row] # None /\ \A i \in link[w] : db[i] # None
         THEN /\ db' = [db EXCEPT ![job[w].row] = UpdatedRow(@, w)]
              /\ AfterCommit(w)
              /\ UNCHANGED <<testbed, requests, failures>>
         ELSE Abort(w)

-----------------------------------------------------------------------------
(* update_driver_relations, after the commit of Register and Update *)

\* The pointers of the users to link, from the database as it is now; the
\* subject is read again too, since the commit expired it.
LookupLinks(w) ==
    /\ At(w, "lookup")
    /\ IF db[job[w].row] = None
         THEN Abort(w)
         ELSE /\ add' = [add EXCEPT ![w] = {db[i].pointer : i \in RowsOf(job[w].users)}]
              /\ Goto(w, "compare")
              /\ UNCHANGED <<stores, job, ptr, keep, link, del, requests, failures, torn, wanted>>

\* Mutation: only the additions are computed.
CompareLinksAddOnly(w) ==
    /\ At(w, "compare")
    /\ IF testbed[ptr[w]] = None
         THEN Abort(w)
         ELSE /\ add' = [add EXCEPT ![w] = @ \ testbed[ptr[w]].members]
              /\ Goto(w, "apply")
              /\ UNCHANGED <<stores, job, ptr, keep, link, del, requests, failures, torn, wanted>>

\* driver.update_relation: GetSlices(subject_id)[0], then the two differences.
CompareLinks(w) ==
    /\ At(w, "compare")
    /\ IF testbed[ptr[w]] = None
         THEN Abort(w)
         ELSE /\ add' = [add EXCEPT ![w] = @ \ testbed[ptr[w]].members]
              /\ del' = [del EXCEPT ![w] = testbed[ptr[w]].members \ add[w]]
              /\ Goto(w, "apply")
              /\ UNCHANGED <<stores, job, ptr, keep, link, requests, failures, torn, wanted>>

\* One AddPersonToSlice or DeletePersonFromSlice, additions first; the testbed
\* refuses a slice or a person it does not have.
ApplyLink(w) ==
    /\ At(w, "apply")
    /\ \/ /\ add[w] # {}
          /\ \E t \in add[w] :
               IF testbed[t] = None \/ testbed[ptr[w]] = None
                 THEN Abort(w)
                 ELSE /\ testbed' = [testbed EXCEPT ![ptr[w]].members = @ \cup {t}]
                      /\ add' = [add EXCEPT ![w] = @ \ {t}]
                      /\ UNCHANGED <<db, pc, job, ptr, keep, link, del, requests, failures, torn, wanted>>
       \/ /\ add[w] = {} /\ del[w] # {}
          /\ \E t \in del[w] :
               IF testbed[t] = None \/ testbed[ptr[w]] = None
                 THEN Abort(w)
                 ELSE /\ testbed' = [testbed EXCEPT ![ptr[w]].members = @ \ {t}]
                      /\ del' = [del EXCEPT ![w] = @ \ {t}]
                      /\ UNCHANGED <<db, pc, job, ptr, keep, link, add, requests, failures, torn, wanted>>
       \/ /\ add[w] = {} /\ del[w] = {}
          /\ Idle(w)
          /\ torn' = torn \ {job[w].hrn}
          /\ UNCHANGED <<stores, requests, failures, wanted>>

-----------------------------------------------------------------------------
(* Remove *)

Remove(w) ==
    \E n \in Names : \E i \in RowsOf({n}) :
        Start(w, [op |-> "Remove", hrn |-> n, row |-> i, users |-> None, key |-> None],
              db[i].pointer, "erase")

\* Mutation: the testbed callback is not called.
EraseObjectSkipped(w) ==
    /\ At(w, "erase")
    /\ Goto(w, "delete")
    /\ UNCHANGED <<stores, job, locals, requests, failures, torn, wanted>>

\* driver.remove comes first: a deleted person leaves every slice.  It spares a
\* person without a site, but the person of a record has one: SetAccount, or the
\* testbed that it was imported from, put it there before the row was added.
EraseObject(w) ==
    /\ At(w, "erase")
    /\ testbed' = [p \in Id |-> IF p = ptr[w] \/ testbed[p] = None THEN None
                                  ELSE [testbed[p] EXCEPT !.members = @ \ {ptr[w]}]]
    /\ Goto(w, "delete")
    /\ UNCHANGED <<db, job, locals, requests, failures, torn, wanted>>

\* Mutation: the rows of slice_researcher are left behind.
UnlinkedNot(row, i) == row

Unlinked(row, i) == [row EXCEPT !.researchers = @ \ {i}]

\* The row goes with its rows in slice_researcher; deleting no row is a warning.
DeleteRow(w) ==
    /\ At(w, "delete")
    /\ ~Locked(job[w].row, w)
    /\ db' = [i \in Id |-> IF i = job[w].row \/ db[i] = None THEN None
                             ELSE Unlinked(db[i], job[w].row)]
    /\ Idle(w)
    /\ torn' = torn \ {job[w].hrn}
    /\ UNCHANGED <<testbed, requests, failures, wanted>>

-----------------------------------------------------------------------------
(* Failures *)

\* A testbed call fails on its own: the request faults, but for driver.update.
TestbedFault(w) ==
    /\ failures < MaxFailures
    /\ failures' = failures + 1
    /\ \/ /\ pc[w] \in {"find", "make", "account", "compare", "apply", "erase"}
          /\ Idle(w)
          /\ torn' = torn \cup {job[w].hrn}
          /\ UNCHANGED testbed
       \/ /\ At(w, "update")
          /\ SwallowFailure(w)
          /\ Goto(w, "write")
          /\ UNCHANGED <<job, keep, link, add, del>>
    /\ UNCHANGED <<db, requests, wanted>>

\* The server stops and restarts: requests and open transactions are lost.
Crash ==
    /\ failures < MaxFailures
    /\ failures' = failures + 1
    /\ \E w \in Workers : ~At(w, "idle")
    /\ torn' = torn \cup {n \in Names : Busy(n)}
    /\ pc' = [w \in Workers |-> "idle"]
    /\ job' = [w \in Workers |-> None]
    /\ ptr' = [w \in Workers |-> None]
    /\ keep' = [w \in Workers |-> {}]
    /\ link' = [w \in Workers |-> {}]
    /\ add' = [w \in Workers |-> {}]
    /\ del' = [w \in Workers |-> {}]
    /\ UNCHANGED <<stores, requests, wanted>>

\* What a worker does with the request it has.
Step(w) ==
    \/ LinkResearchers(w) \/ FindObject(w) \/ MakeObject(w) \/ SetAccount(w) \/ InsertRow(w)
    \/ FlushRow(w) \/ UpdateObject(w) \/ WriteRow(w)
    \/ LookupLinks(w) \/ CompareLinks(w) \/ ApplyLink(w)
    \/ EraseObject(w) \/ DeleteRow(w)

Request(w) == Register(w) \/ Update(w) \/ Remove(w)

Next == Crash \/ \E w \in Workers : Request(w) \/ Step(w) \/ TestbedFault(w)

Spec == Init /\ [][Next]_vars

\* A thread that has a request keeps running: the pool never drops one, and
\* the testbed and the database answer or fail.
FairSpec == Spec /\ \A w \in Workers : WF_vars(Step(w))

-----------------------------------------------------------------------------
(* Correctness *)

TypeOK ==
    /\ db \in [Id -> Row \cup {None}]
    /\ testbed \in [Id -> Object \cup {None}]
    /\ pc \in [Workers -> Label]
    /\ job \in [Workers -> Job \cup {None}]
    /\ ptr \in [Workers -> Id \cup {None}]
    /\ keep \in [Workers -> SUBSET Id]
    /\ link \in [Workers -> SUBSET Id]
    /\ add \in [Workers -> SUBSET Id]
    /\ del \in [Workers -> SUBSET Id]
    /\ requests \in 0 .. MaxRequests
    /\ failures \in 0 .. MaxFailures
    /\ torn \in SUBSET Names
    /\ wanted \in [Slices -> SUBSET Users]

\* No request is changing the name, and its last change was not cut short.
Settled(n) == ~Busy(n) /\ n \notin torn

\* Registry names are unique: the database has no constraint that says so,
\* only Register's query stands between a client and a second record.
OneRecordPerName ==
    \A i, j \in Id :
        db[i] # None /\ db[j] # None /\ db[i].hrn = db[j].hrn => i = j

\* Only a request cut short leaves the two stores apart: a settled name has a
\* row exactly when it has a testbed object, and the row points to it.
RecordsMatchTestbed ==
    \A n \in Names :
        Settled(n) => {db[i].pointer : i \in RowsOf({n})} = ObjectsOf(n)

\* The testbed links a settled slice to nobody but the users of the last
\* update, and to all its researchers in the registry that are settled too.
LinkedFromNowOn ==
    \A i \in Id : (db[i] # None /\ db[i].hrn \in Slices /\ Settled(db[i].hrn)) =>
        LET members == testbed[db[i].pointer].members
        IN testbed[db[i].pointer] # None =>
           /\ \A p \in members : testbed[p].name \in wanted[db[i].hrn]
           /\ \A r \in db[i].researchers : Settled(db[r].hrn) => db[r].pointer \in members

\* The key that a user's gid certifies opens the account that the record leads
\* to, as long as that exists: whatever requests overlap, whoever shares the
\* account, and although Update ignores the answer of driver.update and records
\* the key even so, which is the one case in which a key may be missing.
KeysOnTestbed ==
    \A i \in Id : (db[i] # None /\ db[i].hrn \in Users /\ testbed[db[i].pointer] # None) =>
        db[i].key = None \/ db[i].lost \/ db[i].key \in testbed[db[i].pointer].keys

\* The researchers of a slice are rows of users, whatever was removed meanwhile.
ResearchersExist ==
    \A i \in Id : db[i] # None =>
        \A r \in db[i].researchers : db[r] # None /\ db[r].hrn \in Users

\* The registry database, seen by its readers, is a directory: whatever the
\* testbed does and wherever a request stops, each commit is one entry added,
\* changed or dropped.
EntryOf(n) ==
    IF RowsOf({n}) = {} THEN None
    ELSE LET row == db[CHOOSE i \in RowsOf({n}) : TRUE]
         IN [researchers |-> {db[r].hrn : r \in row.researchers}, key |-> row.key]
Directory == INSTANCE RegistryDirectory WITH dir <- [n \in Names |-> EntryOf(n)]
ImplementsDirectory == Directory!Spec

ASSUME EntryAssumption == None \notin Directory!Entry

\* Every request a worker takes is answered, row locks and failures included.
Answered == \A w \in Workers : ~At(w, "idle") ~> At(w, "idle")

=============================================================================
