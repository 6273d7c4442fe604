---------------------------- MODULE ImporterProofs ----------------------------
(***************************************************************************)
(* Theorems about Importers, for any names, keys, workers and bounds:      *)
(* whichever the flavour of the registry, every table of the importer      *)
(* keeps its type, and an import deletes no record of something that was   *)
(* on the testbed all the time, whatever is served meanwhile.              *)
(* For RepairProofs: what undisturbed imports of a dummy testbed leave.    *)
(***************************************************************************)
EXTENDS Importers, RegistryProofs, FiniteSetTheorems, SequenceTheorems, WellFoundedInduction

-----------------------------------------------------------------------------
(* PlanetLab: the types                                                      *)

\* The importer's own variables.
TablesOK ==
    /\ phase \in Phase
    /\ read \in SUBSET Id /\ stale \in SUBSET read
    /\ known \in [Names -> Id \cup {None}]
    /\ located \in [Id -> Id \cup {None}]
    /\ seen \in [Id -> Object \cup {None}]
    /\ todo \in SUBSET Id
    /\ changes \in 0 .. MaxChanges /\ imports \in 0 .. MaxImports
    /\ quiet \in BOOLEAN
    /\ gone \in SUBSET Names /\ missed \in SUBSET Users

\* Ids that no object has yet, those of inserts to come among them: the
\* importer never sees such an object change its name.
Awaited == Unused \cup Making

NewIds ==
    /\ \A i \in Unused : db[i] = None /\ i \notin read
    /\ \A i \in Awaited : testbed[i] = None /\ i \notin todo
    /\ \A w \in Workers : pc[w] \in Inserting => job[w].row \in 1 .. requests
    /\ \A v, w \in Workers :
         /\ pc[v] \in {"link", "find", "make"} /\ pc[w] \in {"link", "find", "make"}
         /\ job[v].row = job[w].row
         => v = w

\* An object that is still to import has been seen, under the name it has.
Sighted ==
    /\ phase \in {"import", "delete"} => \A p \in todo : seen[p] # None
    /\ \A p \in todo : seen[p] # None /\ testbed[p] # None => seen[p].name = testbed[p].name

Blank == phase \in {"idle", "sites"} => todo = {} /\ \A p \in Id : seen[p] = None

\* What was never off the testbed is still to import, or its row is not stale.
Coming(n) == \E p \in todo : seen[p] # None /\ seen[p].name = n
Underway ==
    /\ phase # "idle" => Absent(testbed) \subseteq gone
    /\ phase \in {"persons", "slices"} =>
         \A p \in Id : testbed[p] # None /\ testbed[p].name \notin gone
                       /\ (phase = "slices" => testbed[p].name \in Slices) => p \in todo
    /\ phase = "slices" => \A n \in Users \ gone : Coming(n)
    /\ phase \in {"import", "delete"} =>
         \A n \in Names \ (gone \cup missed) : known[n] \in stale => Coming(n)
    /\ phase = "delete" => todo = {}

ImportInv == IInv /\ TablesOK /\ NewIds /\ Sighted /\ Blank /\ Underway

LEMMA IdFacts ==
  /\ Names \subseteq Id /\ Users \cup Slices = Names /\ Users \cap Slices = {}
  /\ None \notin Id /\ None \notin Names
  /\ \A i \in 1 .. MaxRequests : i \in Id /\ i \notin Names
  BY NamesAssumption, IdsAssumption, NoneIsNothing, BoundsAssumption DEF Names, Id

LEMMA InitImport == ImporterInit => ImportInv
  <1> SUFFICES ASSUME ImporterInit PROVE ImportInv
    OBVIOUS
  <1>1. IInv
    BY InitInv DEF ImporterInit
  <1>2. TablesOK
    <2>1. seen \in [Id -> Object \cup {None}] /\ known \in [Names -> Id \cup {None}]
          /\ located \in [Id -> Id \cup {None}]
      BY DEF ImporterInit, NoObjects
    <2>2. changes \in 0 .. MaxChanges /\ imports \in 0 .. MaxImports
      BY ImportBoundsAssumption DEF ImporterInit
    <2> QED BY <2>1, <2>2 DEF ImporterInit, TablesOK, Phase
  <1>3. \A w \in Workers : pc[w] = "idle"
    BY DEF ImporterInit, Init
  <1>4. Unused = 1 .. MaxRequests /\ Making = {}
    BY <1>3, BoundsAssumption DEF Unused, Making, ImporterInit, Init
  <1>5. \A i \in 1 .. MaxRequests : db[i] = None /\ testbed[i] = None
    BY IdFacts DEF ImporterInit, Init
  <1>6. NewIds
    BY <1>3, <1>4, <1>5 DEF NewIds, Awaited, ImporterInit, Inserting
  <1>7. Sighted /\ Blank /\ Underway
    BY DEF Sighted, Blank, Underway, ImporterInit, NoObjects
  <1> QED BY <1>1, <1>2, <1>6, <1>7 DEF ImportInv

-----------------------------------------------------------------------------
(* What others do while the importer runs                                    *)

\* An object is new only under a name that the testbed did not have.
NewNames ==
    \A p \in Id : testbed'[p] # None =>
        \/ testbed[p] # None /\ testbed'[p].name = testbed[p].name
        \/ p \in Awaited /\ testbed'[p].name \in Absent(testbed)

LEMMA MeanwhileInv ==
  ASSUME ImportInv, Meanwhile, NewNames, changes' \in 0 .. MaxChanges
  PROVE  TablesOK' /\ Sighted' /\ Blank' /\ Underway'
  <1>1. UNCHANGED <<phase, read, known, located, stale, seen, todo, missed, imports>>
    BY DEF Meanwhile, importer, tables
  <1>2. gone' = (IF phase = "idle" THEN {} ELSE gone \cup Absent(testbed'))
    BY DEF Meanwhile
  <1>3. gone' \in SUBSET Names
    BY <1>2 DEF Absent, ImportInv, TablesOK
  <1>4. quiet' \in BOOLEAN
    BY Zenon DEF Meanwhile
  <1>5. TablesOK'
    BY <1>1, <1>3, <1>4 DEF TablesOK, ImportInv
  <1>6. Sighted'
    <2>1. \A p \in todo : p \in Id /\ p \notin Awaited
      BY DEF ImportInv, NewIds, TablesOK
    <2> QED BY <1>1, <2>1 DEF Sighted, ImportInv, NewNames
  <1>7. Underway'
    <2>1. phase' # "idle" => Absent(testbed)' \subseteq gone' /\ gone \subseteq gone'
      BY <1>1, <1>2 DEF Absent
    <2>2. ASSUME phase' \in {"persons", "slices"}, NEW p \in Id, testbed'[p] # None, testbed'[p].name \notin gone',
                 phase' = "slices" => testbed'[p].name \in Slices
          PROVE  p \in todo'
      <3>1. phase \in {"persons", "slices"} /\ phase # "idle"
        BY <1>1, <2>2
      <3>2. Absent(testbed) \subseteq gone
        BY <3>1 DEF ImportInv, Underway
      <3>3. testbed[p] # None /\ testbed'[p].name = testbed[p].name
        BY <2>1, <2>2, <3>1, <3>2, <1>1 DEF NewNames
      <3> QED BY <1>1, <2>1, <2>2, <3>1, <3>3 DEF ImportInv, Underway
    <2>3. \A n : Coming(n)' <=> Coming(n)
      BY <1>1 DEF Coming
    <2>4. phase' = "slices" => \A n \in Users \ gone' : Coming(n)'
      BY <1>1, <2>1, <2>3 DEF ImportInv, Underway
    <2>5. phase' \in {"import", "delete"} => \A n \in Names \ (gone' \cup missed') : known'[n] \in stale' => Coming(n)'
      BY <1>1, <2>1, <2>3 DEF ImportInv, Underway
    <2>6. phase' = "delete" => todo' = {}
      BY <1>1 DEF ImportInv, Underway
    <2> QED BY <2>1, <2>2, <2>4, <2>5, <2>6 DEF Underway
  <1>8. Blank'
    BY <1>1 DEF Blank, ImportInv
  <1> QED BY <1>5, <1>6, <1>7, <1>8

\* A step of the registry that takes no new request.
MakeLabels == {"link", "find", "make"}
PcsOnward ==
    \A w \in Workers : /\ pc'[w] \in Inserting => pc[w] \in Inserting /\ job'[w] = job[w]
                       /\ pc'[w] \in MakeLabels => pc[w] \in MakeLabels
RowsOnward == \A i \in Id : db'[i] # None => db[i] # None \/ i \notin Unused
Made(p) ==
    \E w \in Workers : /\ pc[w] = "make" /\ pc'[w] \notin MakeLabels /\ p = job[w].row
                       /\ testbed'[p].name \in Absent(testbed)
ObjectsOnward ==
    \A p \in Id : testbed'[p] # None =>
        (testbed[p] # None /\ testbed'[p].name = testbed[p].name) \/ Made(p)

Onward == requests' = requests /\ PcsOnward /\ RowsOnward /\ ObjectsOnward

LEMMA OnwardInv ==
  ASSUME ImportInv, Onward, UNCHANGED <<read, todo>>
  PROVE  NewIds' /\ NewNames
  <1>1. Unused' = Unused /\ Making' \subseteq Making
    <2>1. \A v \in Workers : pc'[v] \in MakeLabels => pc[v] \in MakeLabels /\ job'[v].row = job[v].row
      BY DEF Onward, PcsOnward, MakeLabels, Inserting
    <2>2. Making' \subseteq Making
      BY <2>1 DEF Making, MakeLabels
    <2>3. requests' = requests
      BY DEF Onward
    <2> QED BY <2>2, <2>3 DEF Unused
  <1>2. Unused \subseteq Id /\ Making \subseteq Id
    BY AwaitedType DEF ImportInv
  <1>3. \A p \in Id : Made(p) => p \in Awaited /\ testbed'[p].name \in Absent(testbed)
    BY DEF Made, Awaited, Making
  <1>4. NewNames
    BY <1>3 DEF NewNames, Onward, ObjectsOnward
  <1>5. \A i \in Unused' : db'[i] = None /\ i \notin read'
    BY <1>1, <1>2 DEF Onward, RowsOnward, ImportInv, NewIds
  <1>6. ASSUME NEW i \in Awaited' PROVE testbed'[i] = None /\ i \notin todo'
    <2>1. i \in Awaited /\ i \in Id
      BY <1>1, <1>2, <1>6 DEF Awaited
    <2>2. testbed[i] = None /\ i \notin todo
      BY <2>1 DEF ImportInv, NewIds
    <2>3. ASSUME Made(i) PROVE FALSE
      <3>1. PICK w \in Workers : pc[w] = "make" /\ pc'[w] \notin MakeLabels /\ i = job[w].row
        BY <2>3 DEF Made
      <3>2. CASE i \in Unused'
        <4>1. i \in 1 .. requests
          BY <3>1 DEF ImportInv, NewIds, Inserting
        <4>2. i \in Unused /\ requests \in Nat
          BY <3>2, <1>1 DEF ImportInv, IInv, HistoryOK
        <4> QED BY <4>1, <4>2 DEF Unused
      <3>3. CASE i \in Making'
        <4>1. PICK v \in Workers : pc'[v] \in MakeLabels /\ i = job'[v].row
          BY <3>3 DEF Making, MakeLabels
        <4>2. pc[v] \in MakeLabels /\ job'[v] = job[v]
          BY <4>1 DEF Onward, PcsOnward, MakeLabels, Inserting
        <4>3. v = w
          BY <3>1, <4>1, <4>2 DEF ImportInv, NewIds, MakeLabels
        <4> QED BY <3>1, <4>1, <4>3
      <3> QED BY <3>2, <3>3, <1>6 DEF Awaited
    <2> QED BY <2>1, <2>2, <2>3 DEF Onward, ObjectsOnward
  <1>7. \A w \in Workers : pc'[w] \in Inserting => job'[w].row \in 1 .. requests'
    BY DEF Onward, PcsOnward, ImportInv, NewIds
  <1>8. \A v, w \in Workers :
         /\ pc'[v] \in MakeLabels /\ pc'[w] \in MakeLabels
         /\ job'[v].row = job'[w].row
         => v = w
    <2>1. \A w \in Workers : pc'[w] \in MakeLabels => pc[w] \in MakeLabels /\ job'[w] = job[w]
      BY DEF Onward, PcsOnward, MakeLabels, Inserting
    <2> QED BY <2>1 DEF ImportInv, NewIds, MakeLabels
  <1> QED BY <1>4, <1>5, <1>6, <1>7, <1>8 DEF NewIds, MakeLabels

\* A worker answers, or goes on; it is back at no earlier step of an insert.
LEMMA PcsGoOn ==
  ASSUME IInv, NEW w \in Workers, NEW label \in Label,
         Idle(w) \/ (Goto(w, label) /\ job' = job),
         label \in Inserting => pc[w] \in Inserting, label \in MakeLabels => pc[w] \in MakeLabels
  PROVE  PcsOnward
  BY DEF PcsOnward, IInv, WorkersOK, Idle, Goto, MakeLabels, Inserting

LEMMA StoresRest ==
  ASSUME UNCHANGED stores
  PROVE  RowsOnward /\ ObjectsOnward
  BY DEF stores, RowsOnward, ObjectsOnward

LEMMA AbortOnward ==
  ASSUME IInv, NEW w \in Workers, Abort(w)
  PROVE  Onward
  <1>1. PcsOnward
    BY PcsGoOn, "idle" \in Label, "idle" \notin Inserting, "idle" \notin MakeLabels
       DEF Abort, Label, Inserting, MakeLabels
  <1> QED BY <1>1, StoresRest DEF Abort, Onward

\* A worker writes no row but its own, under an id that a request has taken.
LEMMA RowOnward ==
  ASSUME ImportInv, NEW w \in Workers, pc[w] = "insert",
         \A i \in Id : db'[i] # None => db[i] # None \/ i = job[w].row
  PROVE  RowsOnward
  <1>1. job[w].row \in 1 .. requests
    BY DEF ImportInv, NewIds, Inserting
  <1>2. job[w].row \notin Unused
    BY <1>1 DEF Unused, ImportInv, IInv, HistoryOK
  <1> QED BY <1>2 DEF RowsOnward

\* A worker goes on, and no store gets an object or a row.
LEMMA QuietOnward ==
  ASSUME IInv, NEW w \in Workers, NEW label \in Label, Idle(w) \/ (Goto(w, label) /\ job' = job),
         label \in Inserting => pc[w] \in Inserting, label \in MakeLabels => pc[w] \in MakeLabels,
         requests' = requests,
         \A i \in Id : db'[i] # None => db[i] # None,
         \A p \in Id : testbed'[p] # None => testbed[p] # None /\ testbed'[p].name = testbed[p].name
  PROVE  Onward
  <1>1. PcsOnward
    BY PcsGoOn
  <1>2. RowsOnward /\ ObjectsOnward
    BY DEF RowsOnward, ObjectsOnward
  <1> QED BY <1>1, <1>2 DEF Onward

\* An object that stays keeps its name when its keys or members change.
LEMMA NamesStay ==
  ASSUME IInv, NEW p \in Id, testbed[p] # None,
         \/ testbed' = testbed
         \/ \E ks : testbed' = [testbed EXCEPT ![p].keys = ks]
         \/ \E ms : testbed' = [testbed EXCEPT ![p].members = ms]
  PROVE  \A q \in Id : testbed'[q] # None => testbed[q] # None /\ testbed'[q].name = testbed[q].name
  BY DEF IInv, StoresOK, Object

LEMMA ReadsOnward ==
  ASSUME ImportInv, NEW w \in Workers,
         LinkResearchers(w) \/ FindObject(w) \/ FlushRow(w) \/ LookupLinks(w) \/ CompareLinks(w)
  PROVE  Onward
  <1>1. CASE LinkResearchers(w)
    BY <1>1, QuietOnward, "find" \in Label DEF LinkResearchers, ImportInv, At, Inserting, MakeLabels, stores, Label
  <1>2. CASE FindObject(w)
    <2>1. PICK label \in {"make", "account", "insert"} : Goto(w, label)
      BY <1>2 DEF FindObject, Registered
    <2> QED BY <1>2, <2>1, QuietOnward DEF FindObject, ImportInv, At, Inserting, MakeLabels, stores, Label
  <1>3. CASE FlushRow(w)
    BY <1>3, QuietOnward, AbortOnward, "update" \in Label DEF FlushRow, ImportInv, At, Inserting, MakeLabels, stores, Label
  <1>4. CASE LookupLinks(w)
    BY <1>4, QuietOnward, AbortOnward, "compare" \in Label DEF LookupLinks, ImportInv, At, Inserting, MakeLabels, stores, Label
  <1>5. CASE CompareLinks(w)
    BY <1>5, QuietOnward, AbortOnward, "apply" \in Label DEF CompareLinks, ImportInv, At, Inserting, MakeLabels, stores, Label
  <1> QED BY <1>1, <1>2, <1>3, <1>4, <1>5

LEMMA MakeOnward ==
  ASSUME ImportInv, NEW w \in Workers, MakeObject(w)
  PROVE  Onward
  <1>1. CASE Namesakes(job[w].hrn) # {}
    BY <1>1, AbortOnward DEF MakeObject, ImportInv
  <1>2. CASE Namesakes(job[w].hrn) = {}
    <2>1. /\ pc[w] = "make" /\ testbed' = [testbed EXCEPT ![job[w].row] = NewObject(job[w].hrn)]
          /\ Goto(w, Registered(w)) /\ UNCHANGED <<db, job, requests>>
      BY <1>2 DEF MakeObject, At
    <2>2. Registered(w) \in {"account", "insert"}
      BY DEF Registered
    <2>3. pc'[w] = Registered(w)
      BY <2>1 DEF Goto, ImportInv, IInv, WorkersOK
    <2>4. PcsOnward
      BY <2>1, <2>2, PcsGoOn DEF ImportInv, Label, Inserting, MakeLabels
    <2>5. job[w].hrn \in Absent(testbed)
      BY <1>2, <2>1, JobType DEF Absent, Namesakes, ImportInv, IInv
    <2>6. ASSUME NEW p \in Id, testbed'[p] # None
          PROVE  (testbed[p] # None /\ testbed'[p].name = testbed[p].name) \/ Made(p)
      <3>1. CASE p = job[w].row
        <4>1. testbed'[p] = NewObject(job[w].hrn)
          BY <2>1, <3>1 DEF ImportInv, IInv, StoresOK
        <4>2. testbed'[p].name = job[w].hrn
          BY <4>1 DEF NewObject
        <4> QED BY <2>1, <2>2, <2>3, <2>5, <3>1, <4>2 DEF Made, MakeLabels
      <3>2. CASE p # job[w].row
        BY <2>1, <2>6, <3>2 DEF ImportInv, IInv, StoresOK
      <3> QED BY <3>1, <3>2
    <2> QED BY <2>1, <2>4, <2>6 DEF Onward, RowsOnward, ObjectsOnward
  <1> QED BY <1>1, <1>2

LEMMA KeysOnward ==
  ASSUME ImportInv, NEW w \in Workers, SetAccount(w) \/ UpdateObject(w) \/ TestbedFault(w)
  PROVE  Onward
  <1>0. ptr[w] \in Id \/ testbed[ptr[w]] = None \/ pc[w] \notin {"account", "update"}
    BY DEF ImportInv, IInv, WorkersOK, Control, Holds
  <1>1. CASE SetAccount(w)
    <2>1. CASE testbed[ptr[w]] = None
      BY <1>1, <2>1, AbortOnward DEF SetAccount, ImportInv
    <2>2. CASE testbed[ptr[w]] # None
      <3>1. /\ pc[w] = "account" /\ Goto(w, "insert") /\ UNCHANGED <<db, job, requests>> /\ ptr[w] \in Id
            /\ testbed' = testbed \/ \E ks : testbed' = [testbed EXCEPT ![ptr[w]].keys = ks]
        BY <1>0, <1>1, <2>2 DEF SetAccount, At
      <3>2. \A q \in Id : testbed'[q] # None => testbed[q] # None /\ testbed'[q].name = testbed[q].name
        BY <2>2, <3>1, NamesStay DEF ImportInv
      <3> QED BY <3>1, <3>2, QuietOnward, "insert" \in Label DEF ImportInv, Inserting, MakeLabels, Label
    <2> QED BY <2>1, <2>2
  <1>2. CASE UpdateObject(w)
    <2>1. /\ pc[w] = "update" /\ Goto(w, "write") /\ UNCHANGED <<db, job, requests>>
      BY <1>2 DEF UpdateObject, At
    <2>2. \A q \in Id : testbed'[q] # None => testbed[q] # None /\ testbed'[q].name = testbed[q].name
      <3>1. CASE testbed[ptr[w]] = None
        BY <1>2, <3>1 DEF UpdateObject, SwallowFailure
      <3>2. CASE testbed[ptr[w]] # None
        <4>1. ptr[w] \in Id /\ (testbed' = testbed \/ \E ks : testbed' = [testbed EXCEPT ![ptr[w]].keys = ks])
          BY <1>0, <1>2, <2>1, <3>2 DEF UpdateObject
        <4> QED BY <3>2, <4>1, NamesStay DEF ImportInv
      <3> QED BY <3>1, <3>2
    <2> QED BY <2>1, <2>2, QuietOnward, "write" \in Label DEF ImportInv, Inserting, MakeLabels, Label
  <1>3. CASE TestbedFault(w)
    <2>1. UNCHANGED <<db, testbed, requests>> /\ (Idle(w) \/ (Goto(w, "write") /\ job' = job))
      BY <1>3 DEF TestbedFault, SwallowFailure
    <2> QED BY <2>1, QuietOnward, "write" \in Label DEF ImportInv, Inserting, MakeLabels, Label
  <1> QED BY <1>1, <1>2, <1>3

LEMMA ApplyOnward ==
  ASSUME ImportInv, NEW w \in Workers, ApplyLink(w)
  PROVE  Onward
  <1>1. pc[w] = "apply" /\ ptr[w] \in Id
    BY DEF ApplyLink, At, ImportInv, IInv, WorkersOK, Control, Holds
  <1>2. CASE Abort(w)
    BY <1>2, AbortOnward DEF ImportInv
  <1>3. CASE Idle(w) /\ UNCHANGED <<stores, requests>>
    BY <1>1, <1>3, QuietOnward, "idle" \in Label DEF ImportInv, Inserting, MakeLabels, Label, stores
  <1>4. CASE /\ testbed[ptr[w]] # None /\ UNCHANGED <<db, pc, job, requests>>
             /\ \E ms : testbed' = [testbed EXCEPT ![ptr[w]].members = ms]
    <2>1. \A q \in Id : testbed'[q] # None => testbed[q] # None /\ testbed'[q].name = testbed[q].name
      BY <1>1, <1>4, NamesStay DEF ImportInv
    <2> QED BY <1>4, <2>1 DEF Onward, PcsOnward, RowsOnward, ObjectsOnward
  <1>5. Abort(w) \/ (Idle(w) /\ UNCHANGED <<stores, requests>>)
        \/ /\ testbed[ptr[w]] # None /\ UNCHANGED <<db, pc, job, requests>>
           /\ \E ms : testbed' = [testbed EXCEPT ![ptr[w]].members = ms]
    BY DEF ApplyLink
  <1> QED BY <1>2, <1>3, <1>4, <1>5

LEMMA EraseOnward ==
  ASSUME ImportInv, NEW w \in Workers, EraseObject(w)
  PROVE  Onward
  <1>1. \A q \in Id : testbed'[q] # None => testbed[q] # None /\ testbed'[q].name = testbed[q].name
    BY DEF EraseObject, ImportInv, IInv, StoresOK, Object
  <1> QED BY <1>1, QuietOnward, "delete" \in Label DEF EraseObject, ImportInv, Inserting, MakeLabels, Label

LEMMA CommitPcs ==
  ASSUME ImportInv, NEW w \in Workers, AfterCommit(w)
  PROVE  PcsOnward
  <1>1. Idle(w) \/ (Goto(w, "lookup") /\ job' = job)
    BY DEF AfterCommit
  <1> QED BY <1>1, PcsGoOn, "lookup" \in Label DEF ImportInv, Inserting, MakeLabels, Label

LEMMA CommitOnward ==
  ASSUME ImportInv, NEW w \in Workers, InsertRow(w) \/ WriteRow(w) \/ DeleteRow(w)
  PROVE  Onward
  <1>1. CASE Abort(w)
    BY <1>1, AbortOnward DEF ImportInv
  <1>2. ASSUME InsertRow(w), ~Abort(w) PROVE Onward
    <2>1. /\ pc[w] = "insert" /\ AfterCommit(w) /\ UNCHANGED <<testbed, requests>>
          /\ db' = [db EXCEPT ![job[w].row] = NewRow(job[w], ptr[w], link[w])]
      BY <1>2 DEF InsertRow, At
    <2>2. RowsOnward
      BY <2>1, RowOnward DEF ImportInv, IInv, StoresOK
    <2> QED BY <2>1, <2>2, CommitPcs DEF Onward, ObjectsOnward
  <1>3. ASSUME WriteRow(w), ~Abort(w) PROVE Onward
    <2>1. /\ db[job[w].row] # None /\ AfterCommit(w) /\ UNCHANGED <<testbed, requests>>
          /\ db' = [db EXCEPT ![job[w].row] = UpdatedRow(@, w)]
      BY <1>3 DEF WriteRow
    <2>2. RowsOnward
      BY <2>1 DEF RowsOnward, ImportInv, IInv, StoresOK
    <2> QED BY <2>1, <2>2, CommitPcs DEF Onward, ObjectsOnward
  <1>4. CASE DeleteRow(w)
    <2>1. \A i \in Id : db'[i] # None => db[i] # None
      BY <1>4 DEF DeleteRow
    <2> QED BY <1>4, <2>1, QuietOnward, "idle" \in Label DEF DeleteRow, ImportInv, Inserting, MakeLabels, Label
  <1> QED BY <1>1, <1>2, <1>3, <1>4

LEMMA CrashOnward == ASSUME ImportInv, Crash PROVE Onward
  BY DEF Crash, Onward, PcsOnward, RowsOnward, ObjectsOnward, stores, Inserting, MakeLabels

\* A worker takes a request, which may have an insert of its own to come.
LEMMA StartNewIds ==
  ASSUME ImportInv, NEW w \in Workers, NEW j, NEW p, NEW label, Start(w, j, p, label),
         label \in Inserting => j.row = requests + 1, UNCHANGED <<read, todo>>
  PROVE  NewIds' /\ NewNames
  <1>1. /\ UNCHANGED <<db, testbed>> /\ requests' = requests + 1
        /\ requests \in Nat /\ requests < MaxRequests
        /\ \A v \in Workers : /\ pc'[v] = IF v = w THEN label ELSE pc[v]
                              /\ job'[v] = IF v = w THEN j ELSE job[v]
    BY BoundsAssumption DEF Start, At, Goto, stores, ImportInv, IInv, WorkersOK, HistoryOK
  <1>2. Unused' \subseteq Unused /\ requests + 1 \in Unused /\ requests + 1 \notin Unused'
    BY <1>1, BoundsAssumption DEF Unused
  <1>3. MakeLabels \subseteq Inserting
    BY DEF MakeLabels, Inserting
  <1>4. \A i \in Making' : i \in Making \/ (i = requests + 1 /\ i \in Unused)
    BY <1>1, <1>2, <1>3 DEF Making, MakeLabels
  <1>5. Awaited' \subseteq Awaited
    BY <1>2, <1>4 DEF Awaited
  <1>6. NewNames
    BY <1>1 DEF NewNames
  <1>7. /\ \A i \in Unused' : db'[i] = None /\ i \notin read'
        /\ \A i \in Awaited' : testbed'[i] = None /\ i \notin todo'
    BY <1>1, <1>2, <1>5 DEF ImportInv, NewIds
  <1>8. \A v \in Workers : v # w /\ pc[v] \in Inserting => job[v].row \in 1 .. requests
    BY DEF ImportInv, NewIds
  <1>9. \A v \in Workers : pc'[v] \in Inserting => job'[v].row \in 1 .. requests'
    BY <1>1, <1>8
  <1>10. \A u, v \in Workers :
           pc'[u] \in MakeLabels /\ pc'[v] \in MakeLabels /\ job'[u].row = job'[v].row => u = v
    BY <1>1, <1>3, <1>8 DEF ImportInv, NewIds, MakeLabels
  <1> QED BY <1>6, <1>7, <1>9, <1>10 DEF NewIds, MakeLabels

LEMMA RequestNewIds ==
  ASSUME ImportInv, NEW w \in Workers, Request(w), UNCHANGED <<read, todo>>
  PROVE  NewIds' /\ NewNames
  <1>1. PICK j, p, label : Start(w, j, p, label) /\ (label \in Inserting => j.row = requests + 1)
    <2>1. CASE Register(w)
      BY <2>1 DEF Register
    <2>2. CASE Update(w)
      <3>1. \E j, p : Start(w, j, p, "update") \/ Start(w, j, p, "flush")
        BY <2>2 DEF Update
      <3> QED BY <3>1 DEF Inserting
    <2>3. CASE Remove(w)
      <3>1. \E j, p : Start(w, j, p, "erase")
        BY <2>3 DEF Remove
      <3> QED BY <3>1 DEF Inserting
    <2> QED BY <2>1, <2>2, <2>3 DEF Request
  <1> QED BY <1>1, StartNewIds

LEMMA RegistryNewIds ==
  ASSUME ImportInv, Next, UNCHANGED <<read, todo>>
  PROVE  NewIds' /\ NewNames
  <1>1. ASSUME NEW w \in Workers, Step(w) \/ TestbedFault(w) PROVE Onward
    BY <1>1, ReadsOnward, MakeOnward, KeysOnward, ApplyOnward, EraseOnward, CommitOnward DEF Step
  <1>2. CASE Crash
    BY <1>2, CrashOnward, OnwardInv
  <1>3. ASSUME NEW w \in Workers, Request(w) PROVE NewIds' /\ NewNames
    BY <1>3, RequestNewIds
  <1>4. ASSUME NEW w \in Workers, Step(w) \/ TestbedFault(w) PROVE NewIds' /\ NewNames
    BY <1>1, <1>4, OnwardInv
  <1> QED BY <1>2, <1>3, <1>4 DEF Next

LEMMA WorkersStay ==
  ASSUME WorkersOK, UNCHANGED <<pc, job, locals>>
  PROVE  WorkersOK'
  <1>1. UNCHANGED <<pc, job, ptr, keep, link, add, del>>
    BY DEF locals
  <1> QED BY <1>1 DEF WorkersOK, Control, Holds

LEMMA MakesObjectInv ==
  ASSUME ImportInv, MakesObject, UNCHANGED <<db, pc, job, locals, failures, torn, wanted, read, todo>>
  PROVE  IInv' /\ NewIds' /\ NewNames
  <1>1. PICK n \in Absent(testbed) :
          /\ requests < MaxRequests /\ requests' = requests + 1
          /\ testbed' = [testbed EXCEPT ![requests + 1] = NewObject(n)]
    BY DEF MakesObject
  <1>2. requests \in Nat /\ requests + 1 \in Id /\ n \in Names /\ NewObject(n).name = n
    BY <1>1, BoundsAssumption DEF ImportInv, IInv, HistoryOK, Id, Absent, NewObject
  <1>3. testbed' \in [Id -> Object \cup {None}]
    BY <1>1, <1>2, NewObjectType DEF ImportInv, IInv, StoresOK
  <1>4. IInv'
    <2>1. StoresOK'
      BY <1>3 DEF StoresOK, ImportInv, IInv
    <2>2. HistoryOK'
      BY <1>1, <1>2, BoundsAssumption DEF HistoryOK, ImportInv, IInv
    <2>3. WorkersOK'
      BY WorkersStay DEF ImportInv, IInv
    <2> QED BY <2>1, <2>2, <2>3 DEF IInv
  <1>5. Unused' \subseteq Unused /\ requests + 1 \in Unused /\ requests + 1 \notin Unused'
    BY <1>1, <1>2, BoundsAssumption DEF Unused
  <1>6. Making' = Making
    BY DEF Making
  <1>7. requests + 1 \notin Making
    <2>1. \A w \in Workers : pc[w] \in {"link", "find", "make"} => job[w].row \in 1 .. requests
      BY DEF ImportInv, NewIds, Inserting
    <2> QED BY <1>2, <2>1 DEF Making
  <1>8. Unused \subseteq Id /\ Making \subseteq Id
    BY AwaitedType DEF ImportInv
  <1>9. NewNames
    <2>1. \A p \in Id : p # requests + 1 => testbed'[p] = testbed[p]
      BY <1>1, <1>2 DEF ImportInv, IInv, StoresOK
    <2>2. testbed'[requests + 1].name = n
      BY <1>1, <1>2 DEF ImportInv, IInv, StoresOK
    <2> QED BY <1>5, <2>1, <2>2 DEF NewNames, Awaited
  <1>10. \A i \in Awaited' : testbed'[i] = None /\ i \notin todo'
    <2> TAKE i \in Awaited'
    <2>1. i \in Awaited /\ i # requests + 1 /\ i \in Id
      BY <1>5, <1>6, <1>7, <1>8 DEF Awaited
    <2> QED BY <1>1, <1>2, <2>1 DEF ImportInv, NewIds, IInv, StoresOK
  <1>11. \A w \in Workers : pc'[w] \in Inserting => job'[w].row \in 1 .. requests'
    <2>1. \A w \in Workers : pc[w] \in Inserting => job[w].row \in 1 .. requests
      BY DEF ImportInv, NewIds
    <2> QED BY <1>1, <1>2, <2>1
  <1>12. \A v, w \in Workers :
         /\ pc'[v] \in {"link", "find", "make"} /\ pc'[w] \in {"link", "find", "make"}
         /\ job'[v].row = job'[w].row
         => v = w
    BY DEF ImportInv, NewIds
  <1>13. \A i \in Unused' : db'[i] = None /\ i \notin read'
    BY <1>5 DEF ImportInv, NewIds
  <1> QED BY <1>4, <1>9, <1>10, <1>11, <1>12, <1>13 DEF NewIds

LEMMA TestbedChangeInv ==
  ASSUME ImportInv, TestbedChange
  PROVE  IInv' /\ NewIds' /\ NewNames
  <1>1. UNCHANGED <<db, pc, job, locals, failures, torn, wanted, read, todo>>
    BY DEF TestbedChange, Meanwhile, importer, tables
  <1>2. CASE MakesObject
    BY <1>1, <1>2, MakesObjectInv
  <1>3. ASSUME requests' = requests, testbed' \in [Id -> Object \cup {None}],
               \A q \in Id : testbed'[q] # None => testbed[q] # None /\ testbed'[q].name = testbed[q].name
        PROVE  IInv' /\ NewIds' /\ NewNames
    <2>1. IInv'
      <3>1. WorkersOK'
        BY <1>1, WorkersStay DEF ImportInv, IInv
      <3> QED BY <1>1, <1>3, <3>1 DEF IInv, StoresOK, HistoryOK, ImportInv
    <2>2. Onward
      BY <1>1, <1>3 DEF Onward, PcsOnward, RowsOnward, ObjectsOnward
    <2> QED BY <1>1, <2>1, <2>2, OnwardInv
  <1>4. CASE DropsObject
    <2>1. PICK t \in Id : testbed' = [p \in Id |-> IF p = t \/ testbed[p] = None THEN None
                                      ELSE [testbed[p] EXCEPT !.members = @ \ {t}]]
      BY <1>4 DEF DropsObject
    <2>2. \A p \in Id : testbed[p] # None =>
            /\ [testbed[p] EXCEPT !.members = @ \ {t}] \in Object
            /\ [testbed[p] EXCEPT !.members = @ \ {t}].name = testbed[p].name
      BY DEF ImportInv, IInv, StoresOK, Object
    <2>3. testbed' \in [Id -> Object \cup {None}]
      BY <2>1, <2>2
    <2> QED BY <1>3, <1>4, <2>1, <2>2, <2>3 DEF DropsObject
  <1>5. CASE ChangesKeys
    <2>1. PICK p \in Id, ks \in SUBSET Keys :
            testbed[p] # None /\ testbed' = [testbed EXCEPT ![p].keys = ks]
      BY <1>5 DEF ChangesKeys
    <2>2. testbed' \in [Id -> Object \cup {None}]
      BY <2>1 DEF ImportInv, IInv, StoresOK, Object
    <2> QED BY <1>3, <1>5, <2>1, <2>2, NamesStay DEF ChangesKeys, ImportInv
  <1>6. CASE ChangesMembers
    <2>1. PICK p \in Id : \E ms \in SUBSET Id :
            testbed[p] # None /\ testbed' = [testbed EXCEPT ![p].members = ms]
      BY <1>6 DEF ChangesMembers
    <2>2. testbed' \in [Id -> Object \cup {None}]
      BY <2>1 DEF ImportInv, IInv, StoresOK, Object
    <2> QED BY <1>3, <1>6, <2>1, <2>2, NamesStay DEF ChangesMembers, ImportInv
  <1> QED BY <1>2, <1>4, <1>5, <1>6 DEF TestbedChange

LEMMA OthersInv ==
  ASSUME ImportInv, TestbedChange \/ (Next /\ Meanwhile /\ UNCHANGED changes)
  PROVE  ImportInv'
  <1>1. Meanwhile /\ UNCHANGED <<read, todo>>
    BY DEF TestbedChange, Meanwhile, importer, tables
  <1>2. changes' \in 0 .. MaxChanges
    BY ImportBoundsAssumption DEF TestbedChange, ImportInv, TablesOK
  <1>3. IInv'
    BY TestbedChangeInv, NextInv DEF ImportInv
  <1>4. NewIds' /\ NewNames
    BY <1>1, TestbedChangeInv, RegistryNewIds
  <1>5. TablesOK' /\ Sighted' /\ Blank' /\ Underway'
    BY <1>1, <1>2, <1>4, MeanwhileInv
  <1> QED BY <1>3, <1>4, <1>5 DEF ImportInv

-----------------------------------------------------------------------------
(* The steps of the importer                                                 *)

LEMMA StoresOfImport ==
  ASSUME ImportInv, Import, requests' \in requests .. MaxRequests, failures' \in 0 .. MaxFailures,
         db' \in [Id -> Row \cup {None}]
  PROVE  IInv'
  <1>1. WorkersOK'
    BY WorkersStay DEF Import, ImportInv, IInv
  <1>2. StoresOK'
    BY DEF Import, ImportInv, IInv, StoresOK
  <1>3. HistoryOK'
    BY BoundsAssumption DEF Import, ImportInv, IInv, HistoryOK
  <1> QED BY <1>1, <1>2, <1>3 DEF IInv

\* The importer makes no object, and a row only under the next id.
LEMMA IdsOfImport ==
  ASSUME ImportInv, Import, requests' \in requests .. MaxRequests,
         \A i \in Unused' : db'[i] = None,
         read' \subseteq read \cup {i \in Id : db[i] # None},
         todo' \subseteq todo \cup {p \in Id : testbed[p] # None}
  PROVE  NewIds'
  <1>1. requests \in Nat /\ requests' \in Nat /\ requests' >= requests
    BY BoundsAssumption DEF ImportInv, IInv, HistoryOK
  <1>2. Unused' \subseteq Unused
    BY <1>1, BoundsAssumption DEF Unused
  <1>3. Making' = Making
    BY DEF Making, Import
  <1>4. \A i \in Awaited' : i \in Awaited /\ testbed'[i] = None /\ i \notin todo'
    BY <1>2, <1>3 DEF Awaited, ImportInv, NewIds, Import
  <1>5. \A i \in Unused' : db'[i] = None /\ i \notin read'
    BY <1>2 DEF ImportInv, NewIds
  <1>6. \A w \in Workers : pc[w] \in Inserting => job[w].row \in 1 .. requests
    BY DEF ImportInv, NewIds
  <1>7. \A w \in Workers : pc'[w] \in Inserting => job'[w].row \in 1 .. requests'
    BY <1>1, <1>6 DEF Import
  <1>8. \A v, w \in Workers :
         /\ pc'[v] \in {"link", "find", "make"} /\ pc'[w] \in {"link", "find", "make"}
         /\ job'[v].row = job'[w].row
         => v = w
    BY DEF ImportInv, NewIds, Import
  <1> QED BY <1>4, <1>5, <1>7, <1>8 DEF NewIds

\* ... the same, of a step that adds no row.
LEMMA QuietImport ==
  ASSUME ImportInv, Import, UNCHANGED requests, failures' \in 0 .. MaxFailures,
         db' \in [Id -> Row \cup {None}], \A i \in Id : db'[i] # None => db[i] # None,
         read' \subseteq read \cup {i \in Id : db[i] # None},
         todo' \subseteq todo \cup {p \in Id : testbed[p] # None}
  PROVE  IInv' /\ NewIds'
  <1>1. requests' \in requests .. MaxRequests
    BY BoundsAssumption DEF ImportInv, IInv, HistoryOK
  <1>2. Unused' = Unused
    BY DEF Unused
  <1>3. Unused \subseteq Id
    BY AwaitedType DEF ImportInv
  <1>4. \A i \in Unused' : db'[i] = None
    BY <1>2, <1>3 DEF ImportInv, NewIds
  <1> QED BY <1>1, <1>4, StoresOfImport, IdsOfImport

LEMMA EndInv ==
  ASSUME ImportInv, NEW ok \in BOOLEAN, End(ok), Import, UNCHANGED <<db, requests, failures>>
  PROVE  ImportInv'
  <1>1. IInv' /\ NewIds'
    <2>1. db' \in [Id -> Row \cup {None}] /\ failures' \in 0 .. MaxFailures
      BY DEF ImportInv, IInv, StoresOK, HistoryOK
    <2>2. read' = {} /\ todo' = {}
      BY DEF End
    <2> QED BY <2>1, <2>2, QuietImport
  <1>2. TablesOK'
    <2>1. quiet' \in BOOLEAN
      BY Zenon DEF End, ImportInv, TablesOK
    <2> QED BY <2>1 DEF End, Import, TablesOK, ImportInv, Phase, NoObjects
  <1>3. Sighted' /\ Blank' /\ Underway'
    BY DEF End, Sighted, Blank, Underway, NoObjects
  <1> QED BY <1>1, <1>2, <1>3 DEF ImportInv

LEMMA ReadRecordsInv ==
  ASSUME ImportInv, ReadRecords
  PROVE  ImportInv'
  <1>1. IInv' /\ NewIds'
    <2>1. db' \in [Id -> Row \cup {None}] /\ failures' \in 0 .. MaxFailures
      BY DEF ImportInv, IInv, StoresOK, HistoryOK, ReadRecords
    <2> QED BY <2>1, QuietImport DEF ReadRecords
  <1>2. known' \in [Names -> Id \cup {None}]
    BY DEF ReadRecords, Dicts
  <1>3. located' \in [Id -> Id \cup {None}]
    <2>1. PICK last \in [Names -> Id \cup {None}] :
            located' \in
              {f \in [Id -> UNION {IF {i \in Id : db[i] # None /\ db[i].pointer = p} = {} THEN {None}
                                    ELSE {i \in Id : db[i] # None /\ db[i].pointer = p} : p \in Id}] :
                 \A p \in Id : f[p] \in
                   IF (IF \E n \in Names : last[n] \in {i \in Id : db[i] # None /\ db[i].pointer = p}
                       THEN {last[n] : n \in Names} \cap {i \in Id : db[i] # None /\ db[i].pointer = p}
                       ELSE {i \in Id : db[i] # None /\ db[i].pointer = p}) = {} THEN {None}
                   ELSE (IF \E n \in Names : last[n] \in {i \in Id : db[i] # None /\ db[i].pointer = p}
                       THEN {last[n] : n \in Names} \cap {i \in Id : db[i] # None /\ db[i].pointer = p}
                       ELSE {i \in Id : db[i] # None /\ db[i].pointer = p})}
      BY DEF ReadRecords, Dicts
    <2> QED BY <2>1
  <1>4. TablesOK'
    BY <1>2, <1>3, ImportBoundsAssumption DEF ReadRecords, Import, TablesOK, ImportInv, Phase, Absent
  <1>5. Sighted' /\ Blank' /\ Underway'
    BY DEF ReadRecords, Sighted, Blank, Underway, ImportInv, Import, Absent
  <1> QED BY <1>1, <1>4, <1>5 DEF ImportInv

LEMMA ReadSitesInv ==
  ASSUME ImportInv, ReadSites
  PROVE  ImportInv'
  <1>1. IInv' /\ NewIds'
    <2>1. db' \in [Id -> Row \cup {None}] /\ failures' \in 0 .. MaxFailures
      BY DEF ImportInv, IInv, StoresOK, HistoryOK, ReadSites
    <2> QED BY <2>1, QuietImport DEF ReadSites
  <1>2. TablesOK'
    BY DEF ReadSites, Import, TablesOK, ImportInv, Phase
  <1>3. seen' = seen /\ phase' = "persons" /\ phase = "sites" /\ testbed' = testbed /\ gone' = gone
        /\ todo' = {p \in Id : testbed[p] # None}
    BY DEF ReadSites, Import
  <1>4. \A p \in Id : seen[p] = None
    BY DEF ImportInv, Blank, ReadSites
  <1>5. Sighted'
    BY <1>3, <1>4 DEF Sighted
  <1>6. Underway'
    BY <1>3 DEF Underway, ImportInv, Absent
  <1>7. Blank'
    BY <1>3 DEF Blank
  <1> QED BY <1>1, <1>2, <1>5, <1>6, <1>7 DEF ImportInv

LEMMA ReadPersonsInv ==
  ASSUME ImportInv, ReadPersons
  PROVE  ImportInv'
  <1>1. IInv' /\ NewIds'
    <2>1. db' \in [Id -> Row \cup {None}] /\ failures' \in 0 .. MaxFailures
      BY DEF ImportInv, IInv, StoresOK, HistoryOK, ReadPersons
    <2> QED BY <2>1, QuietImport DEF ReadPersons
  <1>2. TablesOK'
    BY DEF ReadPersons, Saw, Import, TablesOK, ImportInv, Phase, IInv, StoresOK
  <1>3. phase' = "slices" /\ phase = "persons" /\ testbed' = testbed /\ gone' = gone /\ todo' = todo
        /\ \A p \in Id : seen'[p] = IF p \in todo /\ testbed[p] # None /\ testbed[p].name \in Users
                                      THEN testbed[p] ELSE seen[p]
    BY DEF ReadPersons, Import, Saw
  <1>4. Sighted'
    BY <1>3 DEF Sighted, ImportInv, TablesOK
  <1>5. ASSUME NEW n \in Users \ gone' PROVE Coming(n)'
    <2>1. PICK p \in Id : testbed[p] # None /\ testbed[p].name = n
      BY <1>3, <1>5 DEF ImportInv, Underway, Absent, Names
    <2>2. p \in todo
      BY <1>3, <1>5, <2>1 DEF ImportInv, Underway
    <2> QED BY <1>3, <1>5, <2>1, <2>2 DEF Coming
  <1>6. Underway'
    BY <1>3, <1>5 DEF Underway, ImportInv, Absent
  <1>7. Blank'
    BY <1>3 DEF Blank
  <1> QED BY <1>1, <1>2, <1>4, <1>6, <1>7 DEF ImportInv

LEMMA ReadSlicesInv ==
  ASSUME ImportInv, ReadSlices
  PROVE  ImportInv'
  <1>1. IInv' /\ NewIds'
    <2>1. db' \in [Id -> Row \cup {None}] /\ failures' \in 0 .. MaxFailures
      BY DEF ImportInv, IInv, StoresOK, HistoryOK, ReadSlices
    <2> QED BY <2>1, QuietImport DEF ReadSlices
  <1>2. TablesOK'
    BY DEF ReadSlices, Saw, Import, TablesOK, ImportInv, Phase, IInv, StoresOK
  <1>3. phase' = "import" /\ phase = "slices" /\ testbed' = testbed /\ gone' = gone
        /\ todo' = {p \in todo : seen'[p] # None}
        /\ \A p \in Id : seen'[p] = IF p \in todo /\ testbed[p] # None /\ testbed[p].name \in Slices
                                      THEN testbed[p] ELSE seen[p]
    BY DEF ReadSlices, Import, Saw
  <1>4. Sighted'
    BY <1>3 DEF Sighted, ImportInv, TablesOK
  <1>5. ASSUME NEW n \in Names \ gone' PROVE Coming(n)'
    <2>1. CASE n \in Slices
      <3>1. PICK p \in Id : testbed[p] # None /\ testbed[p].name = n
        BY <1>3, <1>5 DEF ImportInv, Underway, Absent
      <3>2. p \in todo
        BY <1>3, <1>5, <2>1, <3>1 DEF ImportInv, Underway
      <3> QED BY <1>3, <2>1, <3>1, <3>2 DEF Coming
    <2>2. CASE n \in Users
      <3>1. PICK p \in todo : seen[p] # None /\ seen[p].name = n
        BY <1>3, <1>5, <2>2 DEF ImportInv, Underway, Coming
      <3>2. p \in Id /\ ~(testbed[p] # None /\ testbed[p].name \in Slices)
        BY <2>2, <3>1, IdFacts DEF ImportInv, Sighted, TablesOK
      <3> QED BY <1>3, <3>1, <3>2 DEF Coming
    <2> QED BY <1>5, <2>1, <2>2 DEF Names
  <1>6. Underway'
    BY <1>3, <1>5 DEF Underway, ImportInv, Absent
  <1>7. Blank'
    BY <1>3 DEF Blank
  <1> QED BY <1>1, <1>2, <1>4, <1>6, <1>7 DEF ImportInv

\* Whoever is taken from those to import is the only one of his name to go.
LEMMA StillComing ==
  ASSUME ImportInv, phase = "import", NEW p \in todo, todo' = todo \ {p}, UNCHANGED seen,
         NEW n, n # seen[p].name, Coming(n)
  PROVE  Coming(n)'
  BY DEF Coming

\* A new row is not one of those that the import began with.
LEMMA InsertFacts ==
  ASSUME ImportInv, NEW p \in todo, seen[p] # None, NEW key \in Keys \cup {None}, Insert(p, key)
  PROVE  /\ db' \in [Id -> Row \cup {None}]
         /\ requests' \in requests .. MaxRequests
         /\ \A i \in Unused' : db'[i] = None
         /\ known' \in [Names -> Id \cup {None}] /\ located' \in [Id -> Id \cup {None}]
         /\ \A n \in Names \ {seen[p].name} : known'[n] = known[n]
         /\ known'[seen[p].name] \notin stale
  <1>1. requests \in Nat /\ requests < MaxRequests /\ requests' = requests + 1 /\ requests + 1 \in Id
    BY BoundsAssumption DEF Insert, ImportInv, IInv, HistoryOK, Id
  <1>2. p \in Id /\ seen[p].name \in Names
    BY DEF ImportInv, TablesOK, Object
  <1> DEFINE row == [hrn |-> seen[p].name, pointer |-> p, researchers |-> {}, key |-> key, lost |-> FALSE]
  <1>3. row \in Row
    BY <1>2 DEF Row
  <1>4. db' = [db EXCEPT ![requests + 1] = row]
    BY DEF Insert
  <1> HIDE DEF row
  <1>5. db' \in [Id -> Row \cup {None}]
    BY <1>1, <1>3, <1>4 DEF ImportInv, IInv, StoresOK
  <1>6. Unused' \subseteq Unused /\ requests + 1 \in Unused /\ requests + 1 \notin Unused'
    BY <1>1, BoundsAssumption DEF Unused
  <1>7. \A i \in Unused' : db'[i] = None
    BY <1>1, <1>4, <1>6, AwaitedType DEF ImportInv, NewIds, IInv, StoresOK
  <1>8. known' \in [Names -> Id \cup {None}] /\ located' \in [Id -> Id \cup {None}]
    BY <1>1 DEF Insert, ImportInv, TablesOK
  <1>9. (\A n \in Names \ {seen[p].name} : known'[n] = known[n]) /\ known'[seen[p].name] = requests + 1
    BY <1>2 DEF Insert, ImportInv, TablesOK
  <1>10. requests + 1 \notin stale
    BY <1>6 DEF ImportInv, NewIds, TablesOK
  <1>11. requests' \in requests .. MaxRequests
    BY <1>1, BoundsAssumption
  <1> QED BY <1>5, <1>7, <1>8, <1>9, <1>10, <1>11

\* What importing one object has to keep.
LEMMA OneImported ==
  ASSUME ImportInv, phase = "import", phase' = "import", NEW p \in todo, Import,
         todo' = todo \ {p}, UNCHANGED <<read, seen, imports, gone>>, quiet' \in BOOLEAN,
         known' \in [Names -> Id \cup {None}], located' \in [Id -> Id \cup {None}],
         stale' \subseteq stale, missed' \in SUBSET Users, missed \subseteq missed',
         \A n \in Names \ {seen[p].name} : known'[n] = known[n],
         known'[seen[p].name] \notin stale' \/ seen[p].name \in missed'
  PROVE  TablesOK' /\ Sighted' /\ Blank' /\ Underway'
  <1>1. TablesOK'
    BY DEF TablesOK, ImportInv, Import, Phase
  <1>2. Sighted'
    BY DEF Sighted, ImportInv, Import
  <1>3. Blank'
    BY DEF Blank
  <1>4. ASSUME NEW n \in Names \ (gone' \cup missed'), known'[n] \in stale' PROVE Coming(n)'
    <2>1. n # seen[p].name
      BY <1>4
    <2>2. Coming(n)
      BY <1>4, <2>1 DEF ImportInv, Underway
    <2> QED BY <2>1, <2>2, StillComing
  <1>5. Underway'
    BY <1>4 DEF Underway, ImportInv, Import, Absent
  <1> QED BY <1>1, <1>2, <1>3, <1>5

LEMMA ImportPersonInv ==
  ASSUME ImportInv, ImportPerson
  PROVE  ImportInv'
  <1>1. PICK p \in Todo(Users) : \E key \in SomeKey(p) :
         LET i == known[seen[p].name]
         IN /\ todo' = todo \ {p}
            /\ \/ /\ i = None
                  /\ Insert(p, key)
                  /\ UNCHANGED <<stale, missed>>
               \/ /\ i # None /\ db[i] # None
                  /\ db' = IF KeysOutdated(i, p)
                             THEN [db EXCEPT ![i].key = key, ![i].lost = FALSE] ELSE db
                  /\ stale' = stale \ {i}
                  /\ UNCHANGED <<requests, known, located, missed>>
               \/ /\ i # None /\ db[i] = None
                  /\ missed' = missed \cup {seen[p].name}
                  /\ UNCHANGED <<db, requests, known, located, stale>>
    BY ZenonT(40) DEF ImportPerson
  <1> DEFINE i == known[seen[p].name]
  <1>2. PICK key \in SomeKey(p) :
            /\ todo' = todo \ {p}
            /\ \/ /\ i = None
                  /\ Insert(p, key)
                  /\ UNCHANGED <<stale, missed>>
               \/ /\ i # None /\ db[i] # None
                  /\ db' = IF KeysOutdated(i, p)
                             THEN [db EXCEPT ![i].key = key, ![i].lost = FALSE] ELSE db
                  /\ stale' = stale \ {i}
                  /\ UNCHANGED <<requests, known, located, missed>>
               \/ /\ i # None /\ db[i] = None
                  /\ missed' = missed \cup {seen[p].name}
                  /\ UNCHANGED <<db, requests, known, located, stale>>
    BY <1>1
  <1>3. /\ phase = "import" /\ phase' = "import" /\ UNCHANGED <<read, seen, imports, failures, quiet, gone>>
        /\ Import /\ p \in todo /\ seen[p].name \in Users
    BY DEF ImportPerson, Todo
  <1>4. seen[p] # None /\ seen[p] \in Object /\ p \in Id
    BY <1>3 DEF ImportInv, Sighted, TablesOK
  <1>5. key \in Keys \cup {None} /\ seen[p].name \in Names /\ i \in Id \cup {None}
    BY <1>3, <1>4 DEF SomeKey, Object, ImportInv, TablesOK, Names
  <1>6. quiet' \in BOOLEAN /\ failures' \in 0 .. MaxFailures
    BY <1>3 DEF ImportInv, TablesOK, IInv, HistoryOK
  <1> HIDE DEF i
  <1>7. CASE i = None /\ Insert(p, key) /\ UNCHANGED <<stale, missed>>
    <2>1. /\ db' \in [Id -> Row \cup {None}] /\ requests' \in requests .. MaxRequests
          /\ \A r \in Unused' : db'[r] = None
          /\ known' \in [Names -> Id \cup {None}] /\ located' \in [Id -> Id \cup {None}]
          /\ \A n \in Names \ {seen[p].name} : known'[n] = known[n]
          /\ known'[seen[p].name] \notin stale
      BY <1>3, <1>4, <1>5, <1>7, InsertFacts
    <2>2. IInv'
      BY <1>3, <1>6, <2>1, StoresOfImport
    <2>3. NewIds'
      BY <1>2, <1>3, <2>1, IdsOfImport
    <2>4. missed' \in SUBSET Users
      BY <1>7 DEF ImportInv, TablesOK
    <2>5. TablesOK' /\ Sighted' /\ Blank' /\ Underway'
      BY <1>2, <1>3, <1>6, <1>7, <2>1, <2>4, OneImported
    <2> QED BY <2>2, <2>3, <2>5 DEF ImportInv
  <1>8. CASE /\ i # None /\ db[i] # None
             /\ db' = IF KeysOutdated(i, p) THEN [db EXCEPT ![i].key = key, ![i].lost = FALSE] ELSE db
             /\ stale' = stale \ {i}
             /\ UNCHANGED <<requests, known, located, missed>>
    <2>1. db' \in [Id -> Row \cup {None}] /\ \A r \in Id : db'[r] # None => db[r] # None
      <3>1. db[i] \in Row /\ i \in Id
        BY <1>5, <1>8 DEF ImportInv, IInv, StoresOK
      <3>2. PICK row \in Row : row = [db[i] EXCEPT !.key = key, !.lost = FALSE]
        BY <1>5, <3>1 DEF Row
      <3>3. db' = db \/ db' = [db EXCEPT ![i] = row]
        BY <1>8, <3>1, <3>2 DEF ImportInv, IInv, StoresOK
      <3> QED BY <1>8, <3>1, <3>3 DEF ImportInv, IInv, StoresOK
    <2>2. IInv' /\ NewIds'
      BY <1>2, <1>3, <1>6, <1>8, <2>1, QuietImport
    <2>3. /\ known' \in [Names -> Id \cup {None}] /\ located' \in [Id -> Id \cup {None}]
          /\ missed' \in SUBSET Users
      BY <1>8 DEF ImportInv, TablesOK
    <2>4. known'[seen[p].name] \notin stale'
      BY <1>8 DEF i
    <2>5. TablesOK' /\ Sighted' /\ Blank' /\ Underway'
      BY <1>2, <1>3, <1>6, <1>8, <2>3, <2>4, OneImported
    <2> QED BY <2>2, <2>5 DEF ImportInv
  <1>9. CASE /\ i # None /\ db[i] = None
             /\ missed' = missed \cup {seen[p].name}
             /\ UNCHANGED <<db, requests, known, located, stale>>
    <2>1. db' \in [Id -> Row \cup {None}]
      BY <1>9 DEF ImportInv, IInv, StoresOK
    <2>2. IInv' /\ NewIds'
      BY <1>2, <1>3, <1>6, <1>9, <2>1, QuietImport
    <2>3. /\ known' \in [Names -> Id \cup {None}] /\ located' \in [Id -> Id \cup {None}]
          /\ missed' \in SUBSET Users
      BY <1>3, <1>9 DEF ImportInv, TablesOK
    <2>4. TablesOK' /\ Sighted' /\ Blank' /\ Underway'
      BY <1>2, <1>3, <1>6, <1>9, <2>3, OneImported
    <2> QED BY <2>2, <2>4 DEF ImportInv
  <1> QED BY SMTT(30), <1>2, <1>7, <1>8, <1>9

LEMMA MissPersonInv ==
  ASSUME ImportInv, MissPerson
  PROVE  ImportInv'
  <1>1. PICK p \in Todo(Users) : todo' = todo \ {p} /\ missed' = missed \cup {seen[p].name}
    BY DEF MissPerson
  <1>2. /\ phase = "import" /\ UNCHANGED <<phase, read, known, located, stale, seen, imports, db, requests, gone>>
        /\ Import /\ p \in todo /\ seen[p].name \in Users /\ quiet' \in BOOLEAN
        /\ failures' = failures + 1 /\ failures < MaxFailures
    BY DEF MissPerson, Todo
  <1>3. failures' \in 0 .. MaxFailures /\ db' \in [Id -> Row \cup {None}]
    BY <1>2, BoundsAssumption DEF ImportInv, IInv, HistoryOK, StoresOK
  <1>4. IInv' /\ NewIds'
    BY <1>1, <1>2, <1>3, QuietImport
  <1>5. /\ known' \in [Names -> Id \cup {None}] /\ located' \in [Id -> Id \cup {None}]
        /\ missed' \in SUBSET Users
    BY <1>1, <1>2 DEF ImportInv, TablesOK
  <1>6. TablesOK' /\ Sighted' /\ Blank' /\ Underway'
    BY <1>1, <1>2, <1>5, OneImported
  <1> QED BY <1>4, <1>6 DEF ImportInv

LEMMA AddSliceRecordInv ==
  ASSUME ImportInv, AddSliceRecord
  PROVE  ImportInv'
  <1>1. PICK p \in Todo(Slices) : Insert(p, None)
    BY DEF AddSliceRecord
  <1>2. /\ phase = "import" /\ Import /\ p \in todo
        /\ UNCHANGED <<phase, read, stale, seen, todo, missed, imports, failures, quiet, gone>>
    BY DEF AddSliceRecord, Todo
  <1>3. seen[p] # None
    BY <1>2 DEF ImportInv, Sighted
  <1>4. /\ db' \in [Id -> Row \cup {None}] /\ requests' \in requests .. MaxRequests
        /\ \A r \in Unused' : db'[r] = None
        /\ known' \in [Names -> Id \cup {None}] /\ located' \in [Id -> Id \cup {None}]
        /\ \A n \in Names \ {seen[p].name} : known'[n] = known[n]
        /\ known'[seen[p].name] \notin stale
    BY <1>1, <1>2, <1>3, InsertFacts
  <1>5. IInv'
    BY <1>2, <1>4, StoresOfImport DEF ImportInv, IInv, HistoryOK
  <1>6. NewIds'
    BY <1>2, <1>4, IdsOfImport
  <1>7. TablesOK'
    BY <1>2, <1>4 DEF TablesOK, ImportInv, Import
  <1>8. Sighted' /\ Blank'
    BY <1>2 DEF Sighted, Blank, ImportInv, Import
  <1>9. \A n \in Names \ (gone' \cup missed') : known'[n] \in stale' => Coming(n)'
    BY <1>2, <1>4 DEF ImportInv, Underway, Coming
  <1>10. Underway'
    BY <1>2, <1>9 DEF ImportInv, Underway, Import, Absent
  <1> QED BY <1>5, <1>6, <1>7, <1>8, <1>10 DEF ImportInv

LEMMA ImportSliceInv ==
  ASSUME ImportInv, ImportSlice
  PROVE  ImportInv'
  <1>1. PICK p \in Todo(Slices) :
         LET i == known[seen[p].name]
         IN /\ i # None
            /\ \/ /\ \A r \in {i} \cup Located(p) : db[r] # None
                  /\ SetResearchers(i, p)
                  /\ todo' = todo \ {p}
                  /\ UNCHANGED <<phase, read, known, located, seen, missed, imports,
                                 quiet, gone>>
               \/ /\ \E r \in {i} \cup Located(p) : db[r] = None
                  /\ End(FALSE)
                  /\ UNCHANGED db
    BY DEF ImportSlice
  <1> DEFINE i == known[seen[p].name]
  <1>2. /\ phase = "import" /\ Import /\ p \in todo /\ UNCHANGED <<requests, failures>>
    BY DEF ImportSlice, Todo
  <1>3. CASE End(FALSE) /\ UNCHANGED db
    BY <1>2, <1>3, EndInv
  <1>4. CASE /\ i # None /\ db[i] # None
             /\ SetResearchers(i, p)
             /\ todo' = todo \ {p}
             /\ UNCHANGED <<phase, read, known, located, seen, missed, imports, quiet, gone>>
    <2>1. seen[p] \in Object /\ p \in Id /\ seen[p].name \in Names
      BY <1>2 DEF ImportInv, Sighted, TablesOK, Object
    <2>2. i \in Id /\ Located(p) \in SUBSET Id
      BY <1>4, <2>1 DEF ImportInv, TablesOK, Located, Object
    <2>3. PICK row \in Row : row = [db[i] EXCEPT !.researchers = Located(p)]
      BY <1>4, <2>2 DEF Row, ImportInv, IInv, StoresOK
    <2>4. db' = [db EXCEPT ![i] = row] /\ stale' = stale \ {i}
      BY <1>4, <2>2, <2>3 DEF SetResearchers, ImportInv, IInv, StoresOK
    <2>5. db' \in [Id -> Row \cup {None}] /\ \A r \in Id : db'[r] # None => db[r] # None
      BY <1>4, <2>2, <2>4 DEF ImportInv, IInv, StoresOK
    <2>6. failures' \in 0 .. MaxFailures
      BY <1>2 DEF ImportInv, IInv, HistoryOK
    <2>7. IInv' /\ NewIds'
      BY <1>2, <1>4, <2>5, <2>6, QuietImport
    <2>8. /\ known' \in [Names -> Id \cup {None}] /\ located' \in [Id -> Id \cup {None}]
          /\ missed' \in SUBSET Users /\ quiet' \in BOOLEAN
      BY <1>4 DEF ImportInv, TablesOK
    <2>9. known'[seen[p].name] \notin stale' /\ UNCHANGED <<phase, read, seen, imports, gone, known, missed>>
      BY <1>4, <2>4
    <2>10. TablesOK' /\ Sighted' /\ Blank' /\ Underway'
      BY <1>2, <1>4, <2>4, <2>8, <2>9, OneImported
    <2> QED BY <2>7, <2>10 DEF ImportInv
  <1> HIDE DEF i
  <1>5. (End(FALSE) /\ UNCHANGED db)
        \/ /\ i # None /\ db[i] # None
           /\ SetResearchers(i, p)
           /\ todo' = todo \ {p}
           /\ UNCHANGED <<phase, read, known, located, seen, missed, imports, quiet, gone>>
    BY <1>1 DEF i
  <1> QED BY <1>3, <1>4, <1>5

LEMMA CheckRecordsInv ==
  ASSUME ImportInv, CheckRecords
  PROVE  ImportInv'
  <1>1. phase = "import" /\ todo = {} /\ Import /\ UNCHANGED <<db, requests, failures>>
    BY DEF CheckRecords
  <1>2. CASE End(FALSE)
    BY <1>1, <1>2, EndInv
  <1>3. CASE phase' = "delete" /\ UNCHANGED <<tables, imports, quiet, gone>>
    <2>1. UNCHANGED <<read, known, located, stale, seen, todo, missed, imports, quiet, gone>>
      BY <1>3 DEF tables
    <2>2. db' \in [Id -> Row \cup {None}] /\ failures' \in 0 .. MaxFailures
      BY <1>1 DEF ImportInv, IInv, HistoryOK, StoresOK
    <2>3. IInv' /\ NewIds'
      BY <1>1, <2>1, <2>2, QuietImport
    <2>4. TablesOK'
      BY <1>1, <1>3, <2>1 DEF TablesOK, ImportInv, Import, Phase
    <2>5. Sighted' /\ Blank' /\ Underway'
      BY <1>1, <1>3, <2>1 DEF Sighted, Blank, Underway, Coming, ImportInv, Import, Absent
    <2> QED BY <2>3, <2>4, <2>5 DEF ImportInv
  <1> QED BY <1>2, <1>3 DEF CheckRecords

LEMMA DeleteStaleInv ==
  ASSUME ImportInv, DeleteStale
  PROVE  ImportInv'
  <1>1. phase = "delete" /\ Import /\ UNCHANGED <<requests, failures>>
    BY DEF DeleteStale
  <1>2. CASE End(FALSE) /\ UNCHANGED db
    BY <1>1, <1>2, EndInv
  <1>3. ASSUME NEW i \in stale,
               db' = [r \in Id |-> IF r = i \/ db[r] = None THEN None ELSE Unlinked(db[r], i)],
               stale' = stale \ {i},
               UNCHANGED <<phase, read, known, located, seen, todo, missed, imports, quiet, gone>>
        PROVE  ImportInv'
    <2>1. \A row \in Row : Unlinked(row, i) \in Row
      BY DEF Row, Unlinked
    <2>2. db' \in [Id -> Row \cup {None}] /\ \A r \in Id : db'[r] # None => db[r] # None
      BY <1>3, <2>1 DEF ImportInv, IInv, StoresOK
    <2>3. failures' \in 0 .. MaxFailures
      BY <1>1 DEF ImportInv, IInv, HistoryOK
    <2>4. IInv' /\ NewIds'
      BY <1>1, <1>3, <2>2, <2>3, QuietImport
    <2>5. TablesOK'
      BY <1>1, <1>3 DEF TablesOK, ImportInv, Import, Phase
    <2>6. Sighted' /\ Blank' /\ Underway'
      BY <1>1, <1>3 DEF Sighted, Blank, Underway, Coming, ImportInv, Import, Absent
    <2> QED BY <2>4, <2>5, <2>6 DEF ImportInv
  <1> QED BY <1>2, <1>3 DEF DeleteStale

LEMMA ImporterInv == ImportInv /\ [ImporterNext]_allVars => ImportInv'
  <1>1. ASSUME ImportInv, EndImport PROVE ImportInv'
    BY <1>1, EndInv DEF EndImport
  <1>2. ASSUME ImportInv, UNCHANGED allVars PROVE ImportInv'
    <2>1. UNCHANGED <<db, testbed, pc, job, ptr, keep, link, add, del, requests, failures, torn, wanted,
                      phase, read, known, located, stale, seen, todo, missed, imports, changes, quiet, gone>>
      BY <1>2 DEF allVars, vars, importer, tables, locals
    <2>2. IInv'
      BY <1>2, StutterInv DEF ImportInv, allVars
    <2>3. TablesOK' /\ Sighted' /\ Blank'
      BY <1>2, <2>1 DEF ImportInv, TablesOK, Sighted, Blank
    <2>4. NewIds'
      BY <1>2, <2>1 DEF ImportInv, NewIds, Awaited, Unused, Making
    <2>5. Underway'
      BY <1>2, <2>1 DEF ImportInv, Underway, Coming, Absent
    <2> QED BY <2>2, <2>3, <2>4, <2>5 DEF ImportInv
  <1> QED BY <1>1, <1>2, OthersInv, ReadRecordsInv, ReadSitesInv, ReadPersonsInv, ReadSlicesInv, ImportPersonInv,
             MissPersonInv, AddSliceRecordInv, ImportSliceInv, CheckRecordsInv, DeleteStaleInv
          DEF ImporterNext, ImporterStep

\* What an import deletes has been off the testbed, or was not its row.
LivingKeptStep ==
    \A i \in Id :
         phase = "delete" /\ i \in stale /\ i \notin stale' /\ phase' = "delete" =>
             \/ db[i].hrn \in gone \cup missed
             \/ known[db[i].hrn] # i

LEMMA LivingKeptHolds ==
  ASSUME ImportInv, [ImporterNext]_allVars
  PROVE  LivingKeptStep
  <1> SUFFICES ASSUME NEW i \in Id, phase = "delete", i \in stale, i \notin stale', phase' = "delete",
                      db[i].hrn \notin gone \cup missed, known[db[i].hrn] = i
               PROVE  FALSE
    BY DEF LivingKeptStep
  <1>1. DeleteStale
    BY DEF ImporterNext, ImporterStep, TestbedChange, Meanwhile, importer, tables, allVars,
           ReadRecords, ReadSites, ReadPersons, ReadSlices, ImportPerson, MissPerson, AddSliceRecord, ImportSlice,
           CheckRecords, EndImport
  <1>2. db[i] # None
    BY <1>1 DEF DeleteStale, End
  <1>3. db[i].hrn \in Names
    BY <1>2 DEF ImportInv, IInv, StoresOK, Row
  <1> QED BY <1>3 DEF ImportInv, Underway, Coming

-----------------------------------------------------------------------------
(* A dummy testbed: the types                                                *)

Leaves == Accounts \cup Projects
Known == Hrns \cup {Imported(n) : n \in Leaves}
Keyring == PublicKeys \cup FirstKeys
DRow == [hrn : Known, pointer : Nat, key : {Void} \cup Keyring, users : SUBSET Nat]
Account == [name : Accounts, keys : {Void} \cup SUBSET Keyring]
DSlice == [name : Projects, users : {Void} \cup Seq(Nat)]

CallOK ==
    /\ call \in Call \cup {Void}
    /\ (call = Void) <=> (at = "idle")
    /\ at = "key" => call.key \in PublicKeys

PeopleOK ==
    /\ lastId \in Nat
    /\ accounts \in [DOMAIN accounts -> Account] /\ DOMAIN accounts \subseteq 1 .. lastId
    /\ projects \in [DOMAIN projects -> DSlice] /\ DOMAIN projects \subseteq 1 .. lastId

RowsOK ==
    /\ lastRow \in Nat
    /\ rows \in [DOMAIN rows -> DRow] /\ DOMAIN rows \subseteq 1 .. lastRow
    /\ \A i \in DOMAIN rows : rows[i].users \subseteq DOMAIN rows

\* The importer's tables: what it has still to import, the testbed gave it;
\* a row that it read is known under the name it has.
RunOK ==
    /\ settled \in 0 .. 2
    /\ unmet \subseteq records /\ records \subseteq 1 .. lastRow
    /\ stage = "idle" => records = {}
    /\ listed[1] \in [DOMAIN listed[1] -> Account] /\ DOMAIN listed[1] \subseteq Nat
    /\ listed[2] \in [DOMAIN listed[2] -> DSlice] /\ DOMAIN listed[2] \subseteq Nat
    /\ left \subseteq ({"user"} \X DOMAIN listed[1]) \cup ({"slice"} \X DOMAIN listed[2])
    /\ stage \in {"idle", "users", "slices"} => left = {}
    /\ \A i \in records \cap DOMAIN rows : rows[i].hrn \in DOMAIN byName

\* A leaf that was never off the testbed is still to import, or its row is met.
ToImport(n) ==
    \/ \E u \in DOMAIN listed[1] : listed[1][u].name = n /\ <<"user", u>> \in left
    \/ \E k \in DOMAIN listed[2] : listed[2][k].name = n /\ <<"slice", k>> \in left
Stale(n) == Imported(n) \in DOMAIN byName /\ byName[Imported(n)] \in unmet
Reached ==
    /\ stage # "idle" => Missing(accounts, projects) \subseteq away
    /\ stage = "slices" =>
         \A n \in Accounts \ away : \E u \in DOMAIN listed[1] : listed[1][u].name = n
    /\ stage = "site" => \A n \in Leaves \ away : ToImport(n)
    /\ stage \in {"import", "delete"} => \A n \in Leaves \ (away \cup skipped) : Stale(n) => ToImport(n)
    /\ stage = "delete" => left = {}

DummyInv == CallOK /\ PeopleOK /\ RowsOK /\ RunOK /\ Reached

\* A set of ids has a least one.
LEMMA LeastIs ==
  ASSUME NEW S \in SUBSET Nat, S # {}
  PROVE  Least(S) \in S /\ \A y \in S : Least(S) <= y
  <1> DEFINE Below(x) == {n \in Nat : n < x}
             All == {Below(x) : x \in S}
  <1>1. \A x \in S : Below(x) \in FiniteSubsetsOf(Nat)
    <2> TAKE x \in S
    <2>1. Below(x) \subseteq 0 .. x
      OBVIOUS
    <2>2. IsFiniteSet(Below(x))
      BY <2>1, FS_Interval, FS_Subset, 0 \in Int, x \in Int
    <2> QED BY <2>2 DEF FiniteSubsetsOf
  <1>2. All \subseteq FiniteSubsetsOf(Nat) /\ All # {}
    BY <1>1
  <1>3. IsWellFoundedOn(StrictSubsetOrdering(Nat), FiniteSubsetsOf(Nat))
    BY FS_StrictSubsetOrderingWellFounded
  <1> HIDE DEF All, Below
  <1>4. PICK least \in All : \A other \in All : <<other, least>> \notin StrictSubsetOrdering(Nat)
    BY <1>2, <1>3, WFMin
  <1>5. PICK x \in S : least = Below(x)
    BY DEF All
  <1>6. ASSUME NEW y \in S, y < x PROVE FALSE
    <2>1. Below(y) \subseteq Below(x) /\ y \in Below(x) /\ y \notin Below(y) 
      BY <1>6 DEF Below
    <2>2. Below(y) \in SUBSET Nat /\ Below(x) \in SUBSET Nat
      BY DEF Below
    <2>3. <<Below(y), Below(x)>> \in StrictSubsetOrdering(Nat)
      BY <2>1, <2>2 DEF StrictSubsetOrdering
    <2> QED BY <1>4, <1>5, <2>3 DEF All
  <1>7. \A y \in S : x <= y
    BY <1>6
  <1> QED BY <1>7 DEF Least

\* A list of ids, one of them taken out.
LEMMA WithoutType ==
  ASSUME NEW us \in Seq(Nat), NEW u
  PROVE  Without(us, u) \in Seq(Nat)
  <1> DEFINE K == {k \in DOMAIN us : us[k] = u}
  <1>1. CASE u \in Seqs!ToSet(us)
    <2>1. K # {} /\ K \in SUBSET (1 .. Len(us)) /\ K \in SUBSET Nat
      BY <1>1 DEF Seqs!ToSet
    <2> HIDE DEF K
    <2>2. Least(K) \in K
      BY <2>1, LeastIs
    <2>3. PICK m \in 1 .. Len(us) : m = Least(K)
      BY <2>1, <2>2
    <2>4. SubSeq(us, 1, m - 1) \in Seq(Nat) /\ SubSeq(us, m + 1, Len(us)) \in Seq(Nat)
      BY <2>3, SubSeqProperties
    <2>5. Seqs!RemoveAt(us, m) \in Seq(Nat)
      BY <2>4, ConcatProperties DEF Seqs!RemoveAt
    <2>6. Without(us, u) = Seqs!RemoveAt(us, Least(K))
      BY <1>1 DEF Without, K
    <2> QED BY <2>3, <2>5, <2>6
  <1>2. CASE u \notin Seqs!ToSet(us)
    BY <1>2 DEF Without
  <1> QED BY <1>1, <1>2

LEMMA AddedFacts ==
  ASSUME NEW S, NEW f, f \in [DOMAIN f -> S], NEW x, NEW v \in S
  PROVE  /\ DOMAIN Added(f, x, v) = DOMAIN f \cup {x}
         /\ Added(f, x, v) \in [DOMAIN Added(f, x, v) -> S]
         /\ \A y \in DOMAIN f : Added(f, x, v)[y] = f[y]
         /\ x \notin DOMAIN f => Added(f, x, v)[x] = v
  BY DEF Added

-----------------------------------------------------------------------------
(* The testbed                                                               *)

LEMMA UserAdded ==
  ASSUME PeopleOK, NEW leaf \in Accounts, AddUser(leaf), UNCHANGED projects, lastId' = lastId + 1
  PROVE  PeopleOK'
  <1>1. PICK new \in Account : new = [name |-> leaf, keys |-> Void]
    BY DEF Account
  <1>2. accounts' = Added(accounts, lastId + 1, new)
    BY <1>1 DEF AddUser
  <1>3. DOMAIN accounts' = DOMAIN accounts \cup {lastId + 1} /\ accounts' \in [DOMAIN accounts' -> Account]
    BY <1>2 DEF Added, PeopleOK
  <1> QED BY <1>3 DEF PeopleOK

LEMMA SliceAdded ==
  ASSUME PeopleOK, NEW leaf \in Projects, AddProject(leaf), UNCHANGED accounts, lastId' = lastId + 1
  PROVE  PeopleOK'
  <1>1. PICK new \in DSlice : new = [name |-> leaf, users |-> Void]
    BY DEF DSlice
  <1>2. projects' = Added(projects, lastId + 1, new)
    BY <1>1 DEF AddProject
  <1>3. DOMAIN projects' = DOMAIN projects \cup {lastId + 1} /\ projects' \in [DOMAIN projects' -> DSlice]
    BY <1>2 DEF Added, PeopleOK
  <1> QED BY <1>3 DEF PeopleOK

LEMMA KeyGiven ==
  ASSUME PeopleOK, NEW a, NEW key \in PublicKeys, AddUserKey(a, key), UNCHANGED <<projects, lastId>>
  PROVE  PeopleOK'
  <1>1. CASE a \in DOMAIN accounts
    <2>1. accounts[a] \in Account
      BY <1>1 DEF PeopleOK
    <2>2. PICK new \in Account : new = [accounts[a] EXCEPT !.keys = IF @ = Void THEN {key} ELSE @ \cup {key}]
      BY <2>1 DEF Account, Keyring
    <2>3. accounts' = [accounts EXCEPT ![a] = new]
      BY <1>1, <2>2 DEF AddUserKey
    <2> QED BY <1>1, <2>3 DEF PeopleOK
  <1>2. CASE a \notin DOMAIN accounts
    BY <1>2 DEF AddUserKey, PeopleOK
  <1> QED BY <1>1, <1>2

LEMMA UserPutOnSlice ==
  ASSUME PeopleOK, NEW u \in Nat, NEW id, AddUserToSlice(u, id), UNCHANGED <<accounts, lastId>>
  PROVE  PeopleOK'
  <1>1. DOMAIN projects' = DOMAIN projects
    BY DEF AddUserToSlice
  <1>2. ASSUME NEW k \in DOMAIN projects PROVE projects'[k] \in DSlice
    <2>1. projects[k] \in DSlice
      BY <1>2 DEF PeopleOK
    <2>2. projects[k].users # Void => Append(projects[k].users, u) \in Seq(Nat)
      BY <2>1, AppendProperties DEF DSlice
    <2>3. <<u>> \in Seq(Nat)
      OBVIOUS
    <2>4. PICK us \in Seq(Nat) : us = IF projects[k].users = Void THEN <<u>> ELSE Append(projects[k].users, u)
      BY <2>2, <2>3
    <2>5. [projects[k] EXCEPT !.users = us] \in DSlice
      BY <2>1 DEF DSlice
    <2>6. projects'[k] = projects[k] \/ projects'[k] = [projects[k] EXCEPT !.users = us]
      BY <1>2, <2>1, <2>4 DEF AddUserToSlice, DSlice
    <2> QED BY <2>1, <2>5, <2>6
  <1>3. projects' \in [DOMAIN projects' -> DSlice]
    BY <1>1, <1>2 DEF AddUserToSlice
  <1> QED BY <1>1, <1>3 DEF PeopleOK

LEMMA WithoutSlice ==
  ASSUME PeopleOK, NEW k \in DOMAIN projects, projects[k].users # Void, NEW u
  PROVE  [projects[k] EXCEPT !.users = Without(@, u)] \in DSlice
  <1>1. projects[k] \in DSlice
    BY DEF PeopleOK
  <1>2. projects[k].users \in Seq(Nat)
    BY <1>1 DEF DSlice
  <1>3. PICK us \in Seq(Nat) : us = Without(projects[k].users, u)
    BY <1>2, WithoutType
  <1>4. [projects[k] EXCEPT !.users = us] \in DSlice
    BY <1>1 DEF DSlice
  <1> QED BY <1>1, <1>3, <1>4

LEMMA UserOffSlice ==
  ASSUME PeopleOK, NEW u, NEW id, DeleteUserFromSlice(u, id), UNCHANGED <<accounts, lastId>>
  PROVE  PeopleOK'
  <1>1. DOMAIN projects' = DOMAIN projects
    BY DEF DeleteUserFromSlice
  <1>2. ASSUME NEW k \in DOMAIN projects PROVE projects'[k] \in DSlice
    <2>1. CASE k \notin WithId(id) \/ projects[k].users = Void
      BY <2>1, <1>2 DEF PeopleOK, DeleteUserFromSlice
    <2>2. CASE ~(k \notin WithId(id) \/ projects[k].users = Void)
      <3>1. projects'[k] = [projects[k] EXCEPT !.users = Without(@, u)]
        BY <2>2, <1>2 DEF DeleteUserFromSlice
      <3> QED BY <2>2, <3>1, WithoutSlice
    <2> QED BY <2>1, <2>2
  <1>3. projects' \in [DOMAIN projects' -> DSlice]
    BY <1>1, <1>2 DEF DeleteUserFromSlice
  <1> QED BY <1>1, <1>3 DEF PeopleOK

LEMMA UserGone ==
  ASSUME PeopleOK, NEW u, DeleteUser(u), UNCHANGED lastId
  PROVE  PeopleOK'
  <1>1. DOMAIN accounts' \subseteq DOMAIN accounts /\ accounts' \in [DOMAIN accounts' -> Account]
    BY DEF PeopleOK, DeleteUser
  <1> DEFINE stops == {k \in DOMAIN projects : projects[k].users = Void \/ u \in Seqs!ToSet(projects[k].users)}
  <1>2. projects' = projects
        \/ /\ stops # {} /\ projects[Least(stops)].users # Void
           /\ projects' = [projects EXCEPT ![Least(stops)].users = Without(@, u)]
    BY DEF DeleteUser
  <1>3. ASSUME stops # {}, projects[Least(stops)].users # Void,
               projects' = [projects EXCEPT ![Least(stops)].users = Without(@, u)]
        PROVE  DOMAIN projects' = DOMAIN projects /\ projects' \in [DOMAIN projects' -> DSlice]
    <2>1. stops \in SUBSET Nat /\ stops \subseteq DOMAIN projects
      BY DEF PeopleOK
    <2> HIDE DEF stops
    <2>2. PICK k \in DOMAIN projects : k = Least(stops)
      BY <1>3, <2>1, LeastIs
    <2>3. PICK new \in DSlice : new = [projects[k] EXCEPT !.users = Without(@, u)]
      BY <1>3, <2>2, WithoutSlice
    <2>4. projects' = [projects EXCEPT ![k] = new]
      BY <1>3, <2>2, <2>3
    <2> QED BY <2>4 DEF PeopleOK
  <1> HIDE DEF stops
  <1> QED BY <1>1, <1>2, <1>3 DEF PeopleOK

LEMMA SliceGone ==
  ASSUME PeopleOK, NEW id, DeleteSlice(id), UNCHANGED <<accounts, lastId>>
  PROVE  PeopleOK'
  BY DEF PeopleOK, DeleteSlice

-----------------------------------------------------------------------------
(* Serving a call                                                            *)

\* Rows keep their names, and new ones get an id that none had.
HrnsStay ==
    /\ lastRow' \in Nat /\ lastRow <= lastRow'
    /\ \A i \in DOMAIN rows' : (i \in DOMAIN rows /\ rows'[i].hrn = rows[i].hrn) \/ i \notin 1 .. lastRow

Stores == CallOK /\ PeopleOK /\ RowsOK

LEMMA DRowFacts ==
  ASSUME RowsOK
  PROVE  /\ DOMAIN rows \in SUBSET Nat
         /\ \A i \in DOMAIN rows : rows[i] \in DRow /\ rows[i].hrn \in Known /\ rows[i].pointer \in Nat
                                   /\ rows[i].users \in SUBSET Nat /\ i \in Nat /\ i # 0
  <1>1. DOMAIN rows \in SUBSET Nat /\ 0 \notin DOMAIN rows
    BY DEF RowsOK
  <1>2. \A i \in DOMAIN rows : rows[i] \in DRow
    BY DEF RowsOK
  <1> QED BY <1>1, <1>2 DEF DRow

LEMMA RowsRest ==
  ASSUME RowsOK, UNCHANGED <<rows, lastRow>>
  PROVE  RowsOK' /\ HrnsStay
  BY DEF RowsOK, HrnsStay

LEMMA PeopleRest ==
  ASSUME PeopleOK, UNCHANGED testbedOf
  PROVE  PeopleOK'
  BY DEF PeopleOK, testbedOf

LEMMA LeafOf ==
  ASSUME NEW h \in Known
  PROVE  Leaf(h) \in Leaves
  BY LeavesAssumption DEF Known, Leaf, Leaves, Imported

\* The call that a worker goes on with.
LEMMA CallGoesOn ==
  ASSUME NEW c \in Call, call' = c, at' # "idle", at' = "key" => c.key \in PublicKeys
  PROVE  CallOK'
  BY VoidAssumption DEF CallOK

LEMMA CallOver ==
  ASSUME Done
  PROVE  CallOK'
  BY DEF Done, CallOK

LEMMA CallType ==
  ASSUME CallOK, at # "idle"
  PROVE  /\ call \in Call /\ call.hrn \in Known /\ call.row \in Nat /\ call.key \in {Void} \cup PublicKeys
         /\ call.users \in {Void} \cup SUBSET UserHrns /\ call.linked \in SUBSET Nat /\ call.old \in SUBSET Nat
         /\ call.ptr \in Nat /\ call.add \in SUBSET Nat /\ call.del \in SUBSET Nat
  <1>1. call \in Call
    BY DEF CallOK
  <1> QED BY <1>1 DEF Call, Known, Leaves

LEMMA AskCall ==
  ASSUME Stores, NEW op \in {"Register", "Update", "Remove"}, NEW h \in Known, NEW row,
         row = 0 \/ row \in DOMAIN rows, NEW key \in {Void} \cup PublicKeys,
         NEW us \in {Void} \cup SUBSET UserHrns, Ask(op, h, row, key, us), at' \in {"object", "touch", "erase"}
  PROVE  Stores' /\ HrnsStay
  <1>1. Named(us) \in SUBSET Nat
    BY DRowFacts DEF Stores, Named
  <1>2. PICK linked \in SUBSET Nat : linked = IF us = Void THEN {} ELSE Named(us)
    BY <1>1
  <1>3. PICK old \in SUBSET Nat : old = IF row = 0 THEN {} ELSE rows[row].users
    BY DRowFacts DEF Stores
  <1>4. PICK ptr0 \in Nat : ptr0 = IF row = 0 THEN 0 ELSE rows[row].pointer
    BY DRowFacts DEF Stores
  <1>5. row \in Nat
    BY DRowFacts DEF Stores
  <1>6. PICK c \in Call : c = [op |-> op, hrn |-> h, row |-> row, key |-> key, users |-> us, linked |-> linked,
                               old |-> old, ptr |-> ptr0, add |-> {}, del |-> {}]
    BY <1>5 DEF Call, Known, Leaves
  <1>7. call' = c
    BY <1>2, <1>3, <1>4, <1>6 DEF Ask
  <1>8. CallOK'
    BY <1>7, CallGoesOn
  <1>9. PeopleOK' /\ RowsOK' /\ HrnsStay
    BY PeopleRest, RowsRest DEF Stores, Ask, database
  <1> QED BY <1>8, <1>9 DEF Stores

LEMMA AsksServed ==
  ASSUME Stores, Enrol \/ Change \/ Withdraw
  PROVE  Stores' /\ HrnsStay /\ Disturb
  <1>1. CASE Enrol
    <2>1. PICK h \in Hrns : \E key \in KeysFor(h), us \in UsersFor(h) : Ask("Register", h, 0, key, us)
      BY <1>1 DEF Enrol
    <2>0. PICK key \in KeysFor(h), us \in UsersFor(h) : Ask("Register", h, 0, key, us)
      BY <2>1
    <2>2. h \in Known /\ key \in {Void} \cup PublicKeys /\ us \in {Void} \cup SUBSET UserHrns
      BY <2>1 DEF Known, KeysFor, UsersFor
    <2>3. at' = "object"
      BY <1>1 DEF Enrol
    <2>4. Stores' /\ HrnsStay
      BY <2>0, <2>2, <2>3, AskCall
    <2> QED BY <2>0, <2>4 DEF Ask
  <1>2. CASE Change
    <2>1. PICK i \in DOMAIN rows : \E key \in KeysFor(rows[i].hrn), us \in UsersFor(rows[i].hrn) :
                 Ask("Update", rows[i].hrn, i, key, us)
      BY <1>2 DEF Change
    <2>2. PICK key \in KeysFor(rows[i].hrn), us \in UsersFor(rows[i].hrn) : Ask("Update", rows[i].hrn, i, key, us)
      BY <2>1
    <2>3. rows[i].hrn \in Known /\ key \in {Void} \cup PublicKeys /\ us \in {Void} \cup SUBSET UserHrns
      BY <2>1, DRowFacts DEF KeysFor, UsersFor, Stores
    <2>4. at' = "touch"
      BY <1>2 DEF Change
    <2>5. Stores' /\ HrnsStay
      BY <2>2, <2>3, <2>4, AskCall
    <2> QED BY <2>2, <2>5 DEF Ask
  <1>3. CASE Withdraw
    <2>1. PICK i \in DOMAIN rows : Ask("Remove", rows[i].hrn, i, Void, Void)
      BY <1>3 DEF Withdraw
    <2>2. rows[i].hrn \in Known
      BY <2>1, DRowFacts DEF Stores
    <2>3. at' = "erase"
      BY <1>3 DEF Withdraw
    <2>4. Stores' /\ HrnsStay
      BY <2>1, <2>2, <2>3, AskCall
    <2> QED BY <2>1, <2>4 DEF Ask
  <1> QED BY <1>1, <1>2, <1>3

LEMMA TakeObjectServed ==
  ASSUME Stores, TakeObject
  PROVE  Stores' /\ HrnsStay /\ Disturb
  <1> DEFINE leaf == Leaf(call.hrn)
             there == IF IsUser(call.hrn) THEN AccountsNamed(leaf) ELSE ProjectsNamed(leaf)
             pointer == IF there = {} THEN lastId + 1 ELSE Least(there)
  <1>1. at = "object" /\ call \in Call /\ call.hrn \in Known /\ call.key \in {Void} \cup PublicKeys
    BY CallType DEF TakeObject, Stores
  <1>2. there \in SUBSET Nat
    BY DEF Stores, PeopleOK, AccountsNamed, ProjectsNamed
  <1>3. pointer \in Nat /\ lastId \in Nat
    BY <1>2, LeastIs DEF Stores, PeopleOK
  <1>4. PICK p \in Nat : p = pointer
    BY <1>3
  <1>5. /\ call' = [call EXCEPT !.ptr = p] /\ at' = IF call.key = Void THEN "insert" ELSE "key"
        /\ lastId' = IF there = {} THEN p ELSE lastId
        /\ UNCHANGED <<rows, lastRow>> /\ ByServer
    BY <1>4 DEF TakeObject
  <1>6. /\ there # {} => UNCHANGED <<accounts, projects>>
        /\ there = {} /\ IsUser(call.hrn) => AddUser(leaf) /\ UNCHANGED projects
        /\ there = {} /\ ~IsUser(call.hrn) => AddProject(leaf) /\ UNCHANGED accounts
    BY DEF TakeObject
  <1>7. there = {} => lastId' = lastId + 1
    BY <1>4, <1>5
  <1>8. leaf \in Accounts \cup Projects
    BY <1>1, LeafOf DEF Leaves
  <1> HIDE DEF there, pointer, leaf
  <1>9. PeopleOK'
    <2>1. CASE there # {}
      BY <2>1, <1>5, <1>6, PeopleRest DEF testbedOf, Stores
    <2>2. CASE there = {} /\ IsUser(call.hrn)
      BY <2>2, <1>6, <1>7, UserAdded DEF Stores, IsUser, leaf
    <2>3. CASE there = {} /\ ~IsUser(call.hrn)
      BY <2>3, <1>6, <1>7, <1>8, SliceAdded DEF Stores, IsUser, leaf
    <2> QED BY <2>1, <2>2, <2>3
  <1>10. CallOK'
    <2>1. PICK c \in Call : c = [call EXCEPT !.ptr = p]
      BY <1>1 DEF Call
    <2>2. c.key = call.key
      BY <1>1, <2>1 DEF Call
    <2> QED BY <1>1, <1>5, <2>1, <2>2, CallGoesOn
  <1>11. RowsOK' /\ HrnsStay
    BY <1>5, RowsRest DEF Stores
  <1> QED BY <1>5, <1>9, <1>10, <1>11 DEF Stores, ByServer

LEMMA KeysServed ==
  ASSUME Stores, AddKey \/ TouchObject
  PROVE  Stores' /\ HrnsStay /\ Disturb
  <1>1. UNCHANGED <<rows, lastRow>> /\ ByServer /\ UNCHANGED <<projects, lastId>> /\ UNCHANGED call
    BY DEF AddKey, TouchObject, To
  <1>2. at \in {"key", "touch"} /\ at' \in {"insert", "write"}
    BY DEF AddKey, TouchObject, To
  <1>3. call \in Call /\ call.key \in {Void} \cup PublicKeys /\ at = "key" => call.key \in PublicKeys
    BY <1>2, CallType DEF Stores, CallOK
  <1>4. CallOK'
    <2>1. call \in Call
      BY <1>2, CallType DEF Stores
    <2> QED BY <1>1, <1>2, <2>1, CallGoesOn
  <1>5. PeopleOK'
    <2>1. CASE AddUserKey(call.ptr, call.key) /\ call.key \in PublicKeys
      BY <1>1, <2>1, KeyGiven DEF Stores
    <2>2. CASE UNCHANGED accounts
      BY <1>1, <2>2, PeopleRest DEF Stores, testbedOf
    <2>3. (AddUserKey(call.ptr, call.key) /\ call.key \in PublicKeys) \/ UNCHANGED accounts
      <3>1. CASE AddKey
        BY <3>1 DEF AddKey, Stores, CallOK
      <3>2. CASE TouchObject
        <4>1. call.key \in {Void} \cup PublicKeys
          BY <1>2, CallType DEF Stores
        <4> QED BY <3>2, <4>1 DEF TouchObject
      <3> QED BY <3>1, <3>2
    <2> QED BY <2>1, <2>2, <2>3
  <1>6. RowsOK' /\ HrnsStay
    BY <1>1, RowsRest DEF Stores
  <1> QED BY <1>1, <1>4, <1>5, <1>6 DEF Stores, ByServer

\* After a commit the call is over, or its users are put in relation.
LEMMA CommitCall ==
  ASSUME CallOK, at # "idle", NEW i \in Nat, AfterRow(i)
  PROVE  CallOK'
  <1>1. CASE call.users = Void
    BY <1>1, CallOver DEF AfterRow
  <1>2. CASE call.users # Void
    <2>1. PICK c \in Call : c = [call EXCEPT !.row = i]
      BY CallType DEF Call
    <2> QED BY <1>2, <2>1, CallGoesOn DEF AfterRow
  <1> QED BY <1>1, <1>2

\* A row is added, with users that are there.
LEMMA RowAdded ==
  ASSUME RowsOK, NEW new \in DRow, new.users \subseteq DOMAIN rows,
         lastRow' = lastRow + 1, rows' = Added(rows, lastRow + 1, new)
  PROVE  RowsOK' /\ HrnsStay
  <1>1. lastRow \in Nat /\ DOMAIN rows \subseteq 1 .. lastRow /\ lastRow + 1 \notin DOMAIN rows
    BY DEF RowsOK
  <1>2. DOMAIN rows' = DOMAIN rows \cup {lastRow + 1} /\ rows' \in [DOMAIN rows' -> DRow]
        /\ rows'[lastRow + 1] = new /\ \A i \in DOMAIN rows : rows'[i] = rows[i]
    BY <1>1 DEF Added, RowsOK
  <1>3. DOMAIN rows' \subseteq 1 .. lastRow'
    BY <1>1, <1>2
  <1>4. \A i \in DOMAIN rows' : rows'[i].users \subseteq DOMAIN rows'
    BY <1>2 DEF RowsOK
  <1>5. HrnsStay
    BY <1>1, <1>2 DEF HrnsStay
  <1> QED BY <1>1, <1>2, <1>3, <1>4, <1>5 DEF RowsOK

\* A row changes, but for its name.
LEMMA RowChanged ==
  ASSUME RowsOK, NEW i \in DOMAIN rows, NEW new \in DRow, new.users \subseteq DOMAIN rows, new.hrn = rows[i].hrn,
         lastRow' = lastRow, rows' = [rows EXCEPT ![i] = new]
  PROVE  RowsOK' /\ HrnsStay
  BY DEF RowsOK, HrnsStay

LEMMA RowsDropped ==
  ASSUME RowsOK, NEW out, lastRow' = lastRow, rows' = Dropped(out)
  PROVE  RowsOK' /\ HrnsStay
  <1>1. DOMAIN rows' = DOMAIN rows \ out
    BY DEF Dropped
  <1>2. ASSUME NEW i \in DOMAIN rows'
        PROVE  /\ rows'[i] \in DRow /\ rows'[i].hrn = rows[i].hrn
               /\ rows'[i].users \subseteq DOMAIN rows'
    <2>1. rows[i] \in DRow /\ rows[i].users \subseteq DOMAIN rows
      BY <1>1, <1>2 DEF RowsOK
    <2>2. rows'[i] = [rows[i] EXCEPT !.users = rows[i].users \ out]
      BY <1>1, <1>2 DEF Dropped
    <2> QED BY <1>1, <2>1, <2>2 DEF DRow
  <1>3. rows' \in [DOMAIN rows' -> DRow]
    BY <1>1, <1>2 DEF Dropped
  <1> QED BY <1>1, <1>2, <1>3 DEF RowsOK, HrnsStay

LEMMA CommitRowServed ==
  ASSUME Stores, CommitRow
  PROVE  Stores' /\ HrnsStay /\ Disturb
  <1>1. at = "insert" /\ UNCHANGED testbedOf /\ ByServer
    BY DEF CommitRow
  <1>2. PeopleOK'
    BY <1>1, PeopleRest DEF Stores
  <1>3. CASE /\ call.linked \subseteq DOMAIN rows
             /\ lastRow' = lastRow + 1
             /\ rows' = Added(rows, lastRow + 1,
                  [DummyRow(call.hrn, call.ptr, call.key) EXCEPT !.users = call.linked])
             /\ AfterRow(lastRow + 1)
    <2>1. lastRow + 1 \in Nat
      BY DEF Stores, RowsOK
    <2>2. CallOK'
      BY <1>1, <1>3, <2>1, CommitCall DEF Stores
    <2>3. PICK new \in DRow : new = [DummyRow(call.hrn, call.ptr, call.key) EXCEPT !.users = call.linked]
      BY <1>1, CallType DEF Stores, DRow, DummyRow, Keyring
    <2>4. new.users = call.linked
      BY <2>3 DEF DummyRow
    <2>5. RowsOK' /\ HrnsStay
      BY <1>3, <2>3, <2>4, RowAdded DEF Stores
    <2> QED BY <1>1, <1>2, <2>2, <2>5 DEF Stores, ByServer
  <1>4. CASE Done /\ UNCHANGED <<rows, lastRow>>
    BY <1>1, <1>2, <1>4, CallOver, RowsRest DEF Stores, ByServer
  <1> QED BY <1>3, <1>4 DEF CommitRow

LEMMA CommitChangeServed ==
  ASSUME Stores, CommitChange
  PROVE  Stores' /\ HrnsStay /\ Disturb
  <1>1. at = "write" /\ UNCHANGED <<lastRow, testbedOf>> /\ ByServer
    BY DEF CommitChange
  <1>2. PeopleOK'
    BY <1>1, PeopleRest DEF Stores
  <1>3. CASE /\ call.row \in DOMAIN rows /\ Fits(rows[call.row].users)
             /\ rows' = [rows EXCEPT
                  ![call.row].users = IF call.users = Void THEN @ ELSE (@ \ Out) \cup In,
                  ![call.row].key = IF call.key = Void THEN @ ELSE call.key]
             /\ AfterRow(call.row)
    <2>1. call.row \in Nat /\ call.key \in {Void} \cup PublicKeys
      BY <1>1, CallType DEF Stores
    <2>2. CallOK'
      BY <1>1, <1>3, <2>1, CommitCall DEF Stores
    <2>3. PICK i \in DOMAIN rows : i = call.row
      BY <1>3
    <2>4. rows[i] \in DRow /\ rows[i].users \subseteq DOMAIN rows /\ DOMAIN rows \in SUBSET Nat
      BY DRowFacts DEF Stores, RowsOK
    <2>5. PICK us \in SUBSET Nat : us = IF call.users = Void THEN rows[i].users ELSE (rows[i].users \ Out) \cup In
      <3>1. call.users # Void => In \subseteq DOMAIN rows
        BY <1>3 DEF Fits
      <3> QED BY <2>4, <3>1
    <2>6. us \subseteq DOMAIN rows
      BY <1>3, <2>4, <2>5 DEF Fits
    <2>7. PICK key \in {Void} \cup Keyring : key = IF call.key = Void THEN rows[i].key ELSE call.key
      BY <2>1, <2>4 DEF DRow, Keyring
    <2>8. PICK new \in DRow : new = [rows[i] EXCEPT !.users = us, !.key = key]
      BY <2>4 DEF DRow
    <2>9. rows' = [rows EXCEPT ![i] = new]
      <3>1. rows' = [rows EXCEPT ![i].users = us, ![i].key = key]
        BY <1>3, <2>3, <2>5, <2>7, <2>4 DEF DRow
      <3> QED BY <2>4, <2>8, <3>1 DEF DRow
    <2>10. new.users = us /\ new.hrn = rows[i].hrn
      BY <2>4, <2>8 DEF DRow
    <2>11. RowsOK' /\ HrnsStay
      BY <1>1, <2>6, <2>9, <2>10, RowChanged DEF Stores
    <2> QED BY <1>1, <1>2, <2>2, <2>11 DEF Stores, ByServer
  <1>4. CASE Done /\ UNCHANGED rows
    BY <1>1, <1>2, <1>4, CallOver, RowsRest DEF Stores, ByServer
  <1> QED BY <1>3, <1>4 DEF CommitChange

LEMMA RelateServed ==
  ASSUME Stores, Relate
  PROVE  Stores' /\ HrnsStay /\ Disturb
  <1> DEFINE targets == {rows[i].pointer : i \in Named(call.users)}
             first == projects[Least(DOMAIN projects)].users
             current == IF first = Void THEN {} ELSE Seqs!ToSet(first)
  <1>1. at = "relate" /\ UNCHANGED <<rows, lastRow, testbedOf>> /\ ByServer
    BY DEF Relate
  <1>2. PeopleOK' /\ RowsOK' /\ HrnsStay
    BY <1>1, PeopleRest, RowsRest DEF Stores
  <1>3. CASE Done
    BY <1>1, <1>2, <1>3, CallOver DEF Stores, ByServer
  <1>4. ASSUME DOMAIN projects # {}, at' = "link",
               call' = [call EXCEPT !.add = targets \ current, !.del = current \ targets]
        PROVE  CallOK'
    <2>1. targets \in SUBSET Nat
      BY DRowFacts DEF Stores, Named
    <2>2. current \in SUBSET Nat
      <3>1. Least(DOMAIN projects) \in DOMAIN projects
        BY <1>4, LeastIs DEF Stores, PeopleOK
      <3>2. first \in {Void} \cup Seq(Nat)
        BY <3>1 DEF Stores, PeopleOK, DSlice
      <3> QED BY <3>2 DEF Seqs!ToSet
    <2>3. PICK plus \in SUBSET Nat, minus \in SUBSET Nat : plus = targets \ current /\ minus = current \ targets
      BY <2>1, <2>2
    <2>4. PICK c \in Call : c = [call EXCEPT !.add = plus, !.del = minus]
      BY <1>1, CallType DEF Call, Stores
    <2> QED BY <1>4, <2>3, <2>4, CallGoesOn
  <1>5. Done \/ (DOMAIN projects # {} /\ at' = "link"
                 /\ call' = [call EXCEPT !.add = targets \ current, !.del = current \ targets])
    BY DEF Relate
  <1> HIDE DEF targets, first, current
  <1> QED BY <1>1, <1>2, <1>3, <1>4, <1>5 DEF Stores, ByServer

LEMMA ApplyChangeServed ==
  ASSUME Stores, ApplyChange
  PROVE  Stores' /\ HrnsStay /\ Disturb
  <1>1. at = "link" /\ UNCHANGED <<rows, lastRow, accounts, lastId>> /\ ByServer
    BY DEF ApplyChange
  <1>2. RowsOK' /\ HrnsStay
    BY <1>1, RowsRest DEF Stores
  <1>3. call \in Call /\ call.add \in SUBSET Nat /\ call.del \in SUBSET Nat
    BY <1>1, CallType DEF Stores
  <1>4. ASSUME NEW u \in call.add, AddUserToSlice(u, call.ptr), call' = [call EXCEPT !.add = @ \ {u}], UNCHANGED at
        PROVE  PeopleOK' /\ CallOK'
    <2>1. PeopleOK'
      BY <1>1, <1>3, <1>4, UserPutOnSlice DEF Stores
    <2>2. PICK c \in Call : c = [call EXCEPT !.add = @ \ {u}]
      BY <1>3 DEF Call
    <2> QED BY <1>1, <1>4, <2>1, <2>2, CallGoesOn
  <1>5. ASSUME NEW u \in call.del, DeleteUserFromSlice(u, call.ptr), call' = [call EXCEPT !.del = @ \ {u}], UNCHANGED at
        PROVE  PeopleOK' /\ CallOK'
    <2>1. PeopleOK'
      BY <1>1, <1>5, UserOffSlice DEF Stores
    <2>2. PICK c \in Call : c = [call EXCEPT !.del = @ \ {u}]
      BY <1>3 DEF Call
    <2> QED BY <1>1, <1>5, <2>1, <2>2, CallGoesOn
  <1>6. ASSUME Done, UNCHANGED projects PROVE PeopleOK' /\ CallOK'
    BY <1>1, <1>6, CallOver, PeopleRest DEF Stores, testbedOf
  <1> QED BY <1>1, <1>2, <1>4, <1>5, <1>6 DEF ApplyChange, Stores, ByServer

LEMMA EraseServed ==
  ASSUME Stores, Erase
  PROVE  Stores' /\ HrnsStay /\ Disturb
  <1>1. at = "erase" /\ at' = "drop" /\ UNCHANGED <<call, rows, lastRow, lastId>> /\ ByServer
    BY DEF Erase, To
  <1>2. RowsOK' /\ HrnsStay
    BY <1>1, RowsRest DEF Stores
  <1>3. CallOK'
    BY <1>1, CallType, CallGoesOn DEF Stores
  <1>4. PeopleOK'
    <2>1. CASE IsUser(call.hrn)
      BY <2>1, <1>1, UserGone DEF Erase, Stores
    <2>2. CASE ~IsUser(call.hrn)
      BY <2>2, <1>1, SliceGone DEF Erase, Stores
    <2> QED BY <2>1, <2>2
  <1> QED BY <1>1, <1>2, <1>3, <1>4 DEF Stores, ByServer

LEMMA DropRowServed ==
  ASSUME Stores, DropRow
  PROVE  Stores' /\ HrnsStay /\ Disturb
  BY CallOver, PeopleRest, RowsDropped DEF DropRow, Stores, ByServer

LEMMA ServerFailsServed ==
  ASSUME Stores, ServerFails
  PROVE  Stores' /\ HrnsStay /\ Disturb
  <1>1. CallOK'
    <2>1. CASE at = "touch" /\ To("write")
      BY <2>1, CallType, CallGoesOn DEF To, Stores
    <2> QED BY <2>1, CallOver DEF ServerFails
  <1>2. PeopleOK' /\ RowsOK' /\ HrnsStay /\ Disturb
    BY PeopleRest, RowsRest DEF ServerFails, Stores, database
  <1> QED BY <1>1, <1>2 DEF Stores

-----------------------------------------------------------------------------
(* What a call that is served means to the importer                          *)

LEMMA DisturbInv ==
  ASSUME DummyInv, HrnsStay, Disturb
  PROVE  RunOK' /\ Reached'
  <1>1. UNCHANGED <<stage, records, byName, byPointer, unmet, listed, left, skipped>>
    BY DEF Disturb, tablesOf
  <1>2. settled' = 0 /\ away' = IF stage = "idle" THEN {} ELSE away \cup Missing(accounts', projects')
    BY DEF Disturb
  <1>3. records' \subseteq 1 .. lastRow'
    BY <1>1 DEF DummyInv, RunOK, RowsOK, HrnsStay
  <1>4. \A i \in records' \cap DOMAIN rows' : rows'[i].hrn \in DOMAIN byName'
    BY <1>1 DEF DummyInv, RunOK, HrnsStay
  <1>5. RunOK'
    BY <1>1, <1>2, <1>3, <1>4 DEF DummyInv, RunOK
  <1>6. \A n : (ToImport(n)' <=> ToImport(n)) /\ (Stale(n)' <=> Stale(n))
    BY <1>1 DEF ToImport, Stale
  <1>7. stage # "idle" => away \subseteq away' /\ Missing(accounts', projects') \subseteq away'
    BY <1>2
  <1>8. stage' # "idle" => Missing(accounts, projects)' \subseteq away'
    BY <1>1, <1>7 DEF Missing
  <1>9. stage' = "slices" => \A n \in Accounts \ away' : \E u \in DOMAIN listed'[1] : listed'[1][u].name = n
    BY <1>1, <1>7 DEF DummyInv, Reached
  <1>10. stage' = "site" => \A n \in Leaves \ away' : ToImport(n)'
    BY <1>1, <1>6, <1>7 DEF DummyInv, Reached
  <1>11. stage' \in {"import", "delete"} => \A n \in Leaves \ (away' \cup skipped') : Stale(n)' => ToImport(n)'
    BY <1>1, <1>6, <1>7 DEF DummyInv, Reached
  <1>12. stage' = "delete" => left' = {}
    BY <1>1 DEF DummyInv, Reached
  <1> QED BY <1>5, <1>8, <1>9, <1>10, <1>11, <1>12 DEF Reached

LEMMA NukeInv ==
  ASSUME DummyInv, Nuke
  PROVE  DummyInv'
  <1>1. stage = "idle" /\ stage' = "idle" /\ rows' = EmptyMap /\ lastRow' = 0 /\ settled' = 0
        /\ UNCHANGED <<testbedOf, call, at, records, byName, unmet, listed, left>>
    BY DEF Nuke, Disturb, tablesOf
  <1>2. records = {}
    BY <1>1 DEF DummyInv, RunOK
  <1>3. RowsOK'
    BY <1>1 DEF RowsOK, EmptyMap
  <1>4. RunOK'
    BY <1>1, <1>2 DEF DummyInv, RunOK
  <1>5. Reached'
    BY <1>1 DEF Reached
  <1>6. CallOK' /\ PeopleOK'
    BY <1>1 DEF DummyInv, CallOK, PeopleOK, testbedOf
  <1> QED BY <1>3, <1>4, <1>5, <1>6 DEF DummyInv

LEMMA CallingInv ==
  ASSUME DummyInv, Calling
  PROVE  DummyInv'
  <1>1. CASE Nuke
    BY <1>1, NukeInv
  <1>2. CASE ~Nuke
    <2>1. Stores
      BY DEF DummyInv, Stores
    <2>2. Stores' /\ HrnsStay /\ Disturb
      BY <1>2, <2>1, AsksServed, TakeObjectServed, KeysServed, CommitRowServed, CommitChangeServed, RelateServed,
         ApplyChangeServed, EraseServed, DropRowServed, ServerFailsServed
         DEF Calling
    <2>3. RunOK' /\ Reached'
      BY <2>2, DisturbInv
    <2> QED BY <2>2, <2>3 DEF Stores, DummyInv
  <1> QED BY <1>1, <1>2

LEMMA InitDummy == DummyInit => DummyInv
  <1> SUFFICES ASSUME DummyInit PROVE DummyInv
    OBVIOUS
  <1>1. CallOK
    BY DEF DummyInit, CallOK
  <1>2. \A a \in DOMAIN FirstAccounts : FirstAccounts[a].keys \subseteq Keyring
    BY DEF Keyring, FirstKeys
  <1>3. accounts \in [DOMAIN accounts -> Account] /\ projects \in [DOMAIN projects -> DSlice]
    BY <1>2, FirstAssumption DEF DummyInit, Account, DSlice
  <1>4. PeopleOK
    BY <1>3, FirstAssumption DEF DummyInit, PeopleOK
  <1>5. RowsOK
    BY DEF DummyInit, RowsOK, EmptyMap
  <1>6. RunOK
    BY DEF DummyInit, RunOK, EmptyMap
  <1>7. Reached
    BY DEF DummyInit, Reached
  <1> QED BY <1>1, <1>4, <1>5, <1>6, <1>7 DEF DummyInv

-----------------------------------------------------------------------------
(* The importer's own steps                                                  *)

LEMMA ImportStores ==
  ASSUME DummyInv, Importing
  PROVE  CallOK' /\ PeopleOK'
  BY DEF DummyInv, Importing, CallOK, PeopleOK, testbedOf

\* A run that ends leaves no table.
LEMMA FinishInv ==
  ASSUME DummyInv, Importing, NEW ok \in BOOLEAN, Finish(ok), RowsOK'
  PROVE  DummyInv'
  <1>1. stage' = "idle" /\ records' = {} /\ unmet' = {} /\ listed' = <<EmptyMap, EmptyMap>> /\ left' = {}
    BY DEF Finish, NoTables
  <1>2. settled' \in 0 .. 2
    BY DEF Finish, DummyInv, RunOK
  <1>3. RunOK'
    BY <1>1, <1>2 DEF RunOK, EmptyMap
  <1>4. Reached'
    BY <1>1 DEF Reached
  <1> QED BY <1>3, <1>4, ImportStores DEF DummyInv

LEMMA QueryRowsInv ==
  ASSUME DummyInv, QueryRows
  PROVE  DummyInv'
  <1>1. /\ stage' = "users" /\ records' = DOMAIN rows /\ unmet' = DOMAIN rows /\ away' = Missing(accounts, projects)
        /\ UNCHANGED <<rows, lastRow, accounts, projects, listed, left, settled>> /\ Importing
    BY DEF QueryRows, database, Importing, testbedOf
  <1>2. stage = "idle" /\ DOMAIN byName' = {rows[i].hrn : i \in DOMAIN rows}
    BY DEF QueryRows
  <1>3. RowsOK'
    BY <1>1 DEF DummyInv, RowsOK
  <1>4. RunOK'
    BY <1>1, <1>2 DEF DummyInv, RunOK, RowsOK
  <1>5. Reached'
    BY <1>1 DEF Reached, Missing
  <1> QED BY <1>1, <1>3, <1>4, <1>5, ImportStores DEF DummyInv

LEMMA ListAccountsInv ==
  ASSUME DummyInv, ListAccounts
  PROVE  DummyInv'
  <1>1. /\ stage = "users" /\ stage' = "slices" /\ listed' = <<accounts, listed[2]>>
        /\ UNCHANGED <<rows, lastRow, accounts, projects, records, byName, unmet, left, skipped, settled, away>>
        /\ Importing
    BY DEF ListAccounts, Then, database, Importing, testbedOf
  <1>2. RowsOK'
    BY <1>1 DEF DummyInv, RowsOK
  <1>3. left = {} /\ listed'[1] = accounts /\ listed'[2] = listed[2]
    BY <1>1 DEF DummyInv, RunOK
  <1>4. RunOK'
    BY <1>1, <1>3 DEF DummyInv, RunOK, PeopleOK
  <1>5. Missing(accounts, projects) \subseteq away
    BY <1>1 DEF DummyInv, Reached
  <1>6. \A n \in Accounts \ away' : \E u \in DOMAIN listed'[1] : listed'[1][u].name = n
    BY <1>1, <1>3, <1>5 DEF Missing
  <1>7. Reached'
    BY <1>1, <1>5, <1>6 DEF Reached, Missing
  <1> QED BY <1>1, <1>2, <1>4, <1>7, ImportStores DEF DummyInv

LEMMA ListProjectsInv ==
  ASSUME DummyInv, ListProjects
  PROVE  DummyInv'
  <1>1. /\ stage = "slices" /\ stage' = "site" /\ listed' = <<listed[1], projects>>
        /\ left' = ({"user"} \X DOMAIN listed[1]) \cup ({"slice"} \X DOMAIN projects)
        /\ UNCHANGED <<rows, lastRow, accounts, projects, records, byName, unmet, skipped, settled, away>>
        /\ Importing
    BY DEF ListProjects, Then, database, Importing, testbedOf
  <1>2. RowsOK'
    BY <1>1 DEF DummyInv, RowsOK
  <1>3. listed'[1] = listed[1] /\ listed'[2] = projects
    BY <1>1
  <1>4. RunOK'
    BY <1>1, <1>3 DEF DummyInv, RunOK, PeopleOK
  <1>5. Missing(accounts, projects) \subseteq away
    BY <1>1 DEF DummyInv, Reached
  <1>6. ASSUME NEW n \in Leaves \ away' PROVE ToImport(n)'
    <2>1. CASE n \in Accounts
      <3>1. PICK u \in DOMAIN listed[1] : listed[1][u].name = n
        BY <1>1, <1>6, <2>1 DEF DummyInv, Reached
      <3>2. <<"user", u>> \in left'
        BY <1>1
      <3> QED BY <1>3, <3>1, <3>2 DEF ToImport
    <2>2. CASE n \in Projects
      <3>1. PICK k \in DOMAIN projects : projects[k].name = n
        BY <1>1, <1>5, <1>6, <2>2 DEF Missing
      <3>2. <<"slice", k>> \in left'
        BY <1>1
      <3> QED BY <1>3, <3>1, <3>2 DEF ToImport
    <2> QED BY <1>6, <2>1, <2>2 DEF Leaves
  <1>7. Reached'
    BY <1>1, <1>5, <1>6 DEF Reached, Missing
  <1> QED BY <1>1, <1>2, <1>4, <1>7, ImportStores DEF DummyInv

LEMMA ImportSiteInv ==
  ASSUME DummyInv, ImportSite
  PROVE  DummyInv'
  <1>1. /\ stage = "site" /\ stage' = "import"
        /\ UNCHANGED <<rows, lastRow, accounts, projects, records, byName, unmet, listed, settled, away>>
        /\ Importing
    BY DEF ImportSite, Then, Caught, Importing, testbedOf
  <1>2. UNCHANGED <<left, skipped>> \/ (left' = {} /\ skipped' = Accounts \cup Projects)
    BY DEF ImportSite
  <1>3. RowsOK'
    BY <1>1 DEF DummyInv, RowsOK
  <1>4. RunOK'
    BY <1>1, <1>2 DEF DummyInv, RunOK
  <1>5. \A n \in Leaves \ (away' \cup skipped') : ToImport(n)'
    <2>1. CASE UNCHANGED <<left, skipped>>
      BY <1>1, <2>1 DEF DummyInv, Reached, ToImport
    <2>2. CASE skipped' = Accounts \cup Projects
      BY <2>2 DEF Leaves
    <2> QED BY <1>2, <2>1, <2>2
  <1>6. Reached'
    BY <1>1, <1>5 DEF DummyInv, Reached, Missing
  <1> QED BY <1>1, <1>3, <1>4, <1>6, ImportStores DEF DummyInv

\* One object has been imported, and its leaf was met or missed.
LEMMA OneReached ==
  ASSUME DummyInv, NEW x, NEW m, left' = left \ {x},
         \/ \E u : x = <<"user", u>> /\ listed[1][u].name = m
         \/ \E k : x = <<"slice", k>> /\ listed[2][k].name = m,
         stage = "import", stage' = "import", UNCHANGED <<accounts, projects, listed, away>>,
         skipped \subseteq skipped',
         \A n \in Leaves : Stale(n)' => Stale(n) \/ n \in skipped', m \in skipped' \/ ~Stale(m)'
  PROVE  Reached'
  <1>1. ASSUME NEW n \in Leaves \ (away' \cup skipped'), Stale(n)' PROVE ToImport(n)'
    <2>1. ToImport(n) /\ n # m
      BY <1>1 DEF DummyInv, Reached
    <2>2. CASE \E u \in DOMAIN listed[1] : listed[1][u].name = n /\ <<"user", u>> \in left
      <3>1. PICK u \in DOMAIN listed[1] : listed[1][u].name = n /\ <<"user", u>> \in left
        BY <2>2
      <3>2. <<"user", u>> # x
        BY <2>1, <3>1
      <3> QED BY <3>1, <3>2 DEF ToImport
    <2>3. CASE \E k \in DOMAIN listed[2] : listed[2][k].name = n /\ <<"slice", k>> \in left
      <3>1. PICK k \in DOMAIN listed[2] : listed[2][k].name = n /\ <<"slice", k>> \in left
        BY <2>3
      <3>2. <<"slice", k>> # x
        BY <2>1, <3>1
      <3> QED BY <3>1, <3>2 DEF ToImport
    <2> QED BY <2>1, <2>2, <2>3 DEF ToImport
  <1>2. Missing(accounts, projects)' \subseteq away'
    BY DEF DummyInv, Reached, Missing
  <1> QED BY <1>1, <1>2 DEF Reached

\* What the importer removes from its tables, and the rows it adds, keep them.
LEMMA OneRun ==
  ASSUME DummyInv, HrnsStay, stage = "import", stage' = "import", UNCHANGED <<records, listed, settled>>,
         unmet' \subseteq unmet, left' \subseteq left, DOMAIN byName \subseteq DOMAIN byName'
  PROVE  RunOK'
  <1>1. records' \subseteq 1 .. lastRow'
    BY DEF DummyInv, RunOK, RowsOK, HrnsStay
  <1>2. \A i \in records' \cap DOMAIN rows' : rows'[i].hrn \in DOMAIN byName'
    BY DEF DummyInv, RunOK, HrnsStay
  <1> QED BY <1>1, <1>2 DEF DummyInv, RunOK

\* A row for a leaf, known under its name when none was.
LEMMA AddRowFacts ==
  ASSUME DummyInv, NEW n \in Leaves, NEW p \in Nat, NEW key \in {Void} \cup Keyring,
         AddRow(Imported(n), p, key), unmet' \subseteq unmet
  PROVE  /\ RowsOK' /\ HrnsStay /\ DOMAIN byName \subseteq DOMAIN byName'
         /\ \A m \in Leaves : Stale(m)' => Stale(m)
         /\ ~IsKnown(Imported(n)) => ~Stale(n)'
  <1>1. PICK new \in DRow : new = DummyRow(Imported(n), p, key)
    BY DEF DRow, DummyRow, Known, Leaves
  <1>2. new.users = {}
    BY <1>1 DEF DummyRow
  <1>3. RowsOK' /\ HrnsStay
    BY <1>1, <1>2, RowAdded DEF AddRow, DummyInv
  <1>4. lastRow + 1 \notin unmet
    BY DEF DummyInv, RunOK, RowsOK
  <1>5. DOMAIN byName' = DOMAIN byName \cup {Imported(n)}
        /\ \A h \in DOMAIN byName' : byName'[h] = IF h \in DOMAIN byName THEN byName[h] ELSE lastRow + 1
    BY DEF AddRow, Added
  <1>6. \A m \in Leaves : Stale(m)' => Stale(m)
    BY <1>4, <1>5 DEF Stale
  <1>7. ~IsKnown(Imported(n)) => ~Stale(n)'
    BY <1>4, <1>5 DEF Stale, IsKnown
  <1> QED BY <1>3, <1>5, <1>6, <1>7

LEMMA ListedFacts ==
  ASSUME DummyInv
  PROVE  /\ \A u \in DOMAIN listed[1] : listed[1][u].name \in Leaves /\ listed[1][u].keys \in {Void} \cup SUBSET Keyring
         /\ \A k \in DOMAIN listed[2] : listed[2][k].name \in Leaves
         /\ \A u : <<"user", u>> \in left => u \in DOMAIN listed[1]
         /\ \A k : <<"slice", k>> \in left => k \in DOMAIN listed[2]
  <1>1. \A u \in DOMAIN listed[1] : listed[1][u] \in Account
    BY DEF DummyInv, RunOK
  <1>2. \A k \in DOMAIN listed[2] : listed[2][k] \in DSlice
    BY DEF DummyInv, RunOK
  <1>3. left \subseteq ({"user"} \X DOMAIN listed[1]) \cup ({"slice"} \X DOMAIN listed[2])
    BY DEF DummyInv, RunOK
  <1> QED BY <1>1, <1>2, <1>3 DEF Account, DSlice, Leaves

LEMMA ImportAccountInv ==
  ASSUME DummyInv, ImportAccount
  PROVE  DummyInv'
  <1>1. /\ stage = "import" /\ Importing /\ UNCHANGED <<records, hadSite, listed>>
        /\ stage' = "import" /\ UNCHANGED <<settled, away>>
    BY DEF ImportAccount, Then, Caught
  <1>2. PICK u \in NextOf({x[2] : x \in {y \in left : y[1] = "user"}}) :
         LET h == Imported(listed[1][u].name)
             keys == listed[1][u].keys
         IN  /\ left' = left \ {<<"user", u>>}
             /\ \/ Miss(u)
                \/ /\ keys # Void /\ ~IsKnown(h)
                   /\ \E k \in keys : AddRow(h, u, k)
                   /\ UNCHANGED <<unmet, skipped>>
                \/ /\ keys # Void /\ IsKnown(h) /\ byName[h] \in DOMAIN rows
                   /\ rows' \in Rekeyed(byName[h], keys)
                   /\ Met(byName[h])
                   /\ UNCHANGED <<lastRow, site, byName, byPointer, skipped>>
    BY DEF ImportAccount, Miss
  <1>3. <<"user", u>> \in left
    <2>1. left \subseteq ({"user"} \X DOMAIN listed[1]) \cup ({"slice"} \X DOMAIN listed[2])
      BY DEF DummyInv, RunOK
    <2> QED BY <1>2, <2>1 DEF NextOf
  <1>4. PICK n \in Leaves : n = listed[1][u].name
    BY <1>3, ListedFacts
  <1>5. PICK keys \in {Void} \cup SUBSET Keyring : keys = listed[1][u].keys
    BY <1>3, ListedFacts
  <1>6. u \in Nat
    BY <1>3, ListedFacts DEF DummyInv, RunOK
  <1>7. UNCHANGED <<accounts, projects>> /\ left' \subseteq left
    BY <1>1, <1>2 DEF Importing, testbedOf
  <1>8. PICK x : x = <<"user", u>>
    OBVIOUS
  <1>9. left' = left \ {x} /\ \E v : x = <<"user", v>> /\ listed[1][v].name = n
    BY <1>2, <1>4, <1>8
  <1>10. ASSUME RowsOK', HrnsStay, DOMAIN byName \subseteq DOMAIN byName', unmet' \subseteq unmet,
               skipped \subseteq skipped',
               \A m \in Leaves : Stale(m)' => Stale(m), n \in skipped' \/ ~Stale(n)'
        PROVE  DummyInv'
    <2>1. RunOK'
      BY <1>1, <1>7, <1>10, OneRun
    <2>2. Reached'
      BY <1>1, <1>7, <1>9, <1>10, OneReached
    <2> QED BY <1>1, <1>10, <2>1, <2>2, ImportStores DEF DummyInv
  <1>11. CASE Miss(u)
    <2>1. UNCHANGED <<rows, lastRow, byName, unmet>> /\ skipped' = skipped \cup {n}
      BY <1>4, <1>11 DEF Miss, database
    <2>2. RowsOK' /\ HrnsStay
      BY <2>1, RowsRest DEF DummyInv
    <2>3. \A m \in Leaves : Stale(m)' => Stale(m)
      BY <2>1 DEF Stale
    <2> QED BY <1>10, <2>1, <2>2, <2>3
  <1>12. CASE keys # Void /\ ~IsKnown(Imported(n)) /\ (\E k \in keys : AddRow(Imported(n), u, k)) /\ UNCHANGED <<unmet, skipped>>
    <2>1. PICK k \in keys : AddRow(Imported(n), u, k)
      BY <1>12
    <2>2. k \in {Void} \cup Keyring
      BY <1>12, <2>1
    <2>3. /\ RowsOK' /\ HrnsStay /\ DOMAIN byName \subseteq DOMAIN byName'
          /\ \A m \in Leaves : Stale(m)' => Stale(m)
          /\ ~IsKnown(Imported(n)) => ~Stale(n)'
      BY <1>12, <1>6, <2>1, <2>2, AddRowFacts
    <2> QED BY <1>10, <1>12, <2>3
  <1>13. CASE /\ keys # Void /\ IsKnown(Imported(n)) /\ byName[Imported(n)] \in DOMAIN rows
              /\ rows' \in Rekeyed(byName[Imported(n)], keys)
              /\ Met(byName[Imported(n)])
              /\ UNCHANGED <<lastRow, site, byName, byPointer, skipped>>
    <2>1. PICK i \in DOMAIN rows : i = byName[Imported(n)]
      BY <1>13
    <2>2. keys \subseteq Keyring
      BY <1>13
    <2>3. RowsOK' /\ HrnsStay
      <3>1. CASE rows' = rows
        BY <1>13, <3>1, RowsRest DEF DummyInv
      <3>2. CASE rows' # rows
        <4>1. PICK k \in keys : rows' = [rows EXCEPT ![i].key = k]
          BY <1>13, <2>1, <3>2 DEF Rekeyed
        <4>2. rows[i] \in DRow /\ rows[i].users \subseteq DOMAIN rows
          BY DEF DummyInv, RowsOK
        <4>3. PICK new \in DRow : new = [rows[i] EXCEPT !.key = k]
          BY <2>2, <4>1, <4>2 DEF DRow
        <4>4. new.users = rows[i].users /\ new.hrn = rows[i].hrn
          BY <4>2, <4>3 DEF DRow
        <4>5. rows' = [rows EXCEPT ![i] = new]
          BY <4>1, <4>3
        <4> QED BY <1>13, <4>2, <4>4, <4>5, RowChanged DEF DummyInv
      <3> QED BY <3>1, <3>2
    <2>4. unmet' = unmet \ {byName[Imported(n)]}
      BY <1>13 DEF Met
    <2>5. (\A m \in Leaves : Stale(m)' => Stale(m)) /\ ~Stale(n)'
      BY <1>13, <2>4 DEF Stale
    <2> QED BY <1>10, <1>13, <2>3, <2>4, <2>5
  <1>14. \/ Miss(u)
         \/ keys # Void /\ ~IsKnown(Imported(n)) /\ (\E k \in keys : AddRow(Imported(n), u, k)) /\ UNCHANGED <<unmet, skipped>>
         \/ /\ keys # Void /\ IsKnown(Imported(n)) /\ byName[Imported(n)] \in DOMAIN rows
            /\ rows' \in Rekeyed(byName[Imported(n)], keys)
            /\ Met(byName[Imported(n)])
            /\ UNCHANGED <<lastRow, site, byName, byPointer, skipped>>
    BY <1>2, <1>4, <1>5
  <1> QED BY <1>11, <1>12, <1>13, <1>14

LEMMA NextProjectFacts ==
  ASSUME DummyInv, NEW k \in NextProject
  PROVE  <<"slice", k>> \in left /\ k \in DOMAIN listed[2] /\ k \in Nat /\ Project(k).name \in Leaves
  <1>1. left \subseteq ({"user"} \X DOMAIN listed[1]) \cup ({"slice"} \X DOMAIN listed[2])
    BY DEF DummyInv, RunOK
  <1>2. PICK x \in left : x[2] = k /\ x[1] # "user"
    BY DEF NextProject, NextOf
  <1>3. x = <<"slice", k>>
    BY <1>1, <1>2
  <1>4. k \in DOMAIN listed[2] /\ Project(k).name \in Leaves
    BY <1>2, <1>3, ListedFacts DEF Project
  <1> QED BY <1>2, <1>3, <1>4 DEF DummyInv, RunOK

LEMMA AddProjectRowInv ==
  ASSUME DummyInv, AddProjectRow
  PROVE  DummyInv'
  <1>1. /\ stage = "import" /\ stage' = "import" /\ Importing
        /\ UNCHANGED <<records, unmet, listed, left, skipped, settled, away>>
    BY DEF AddProjectRow, Then
  <1>2. PICK k \in NextProject : ~IsKnown(Imported(Project(k).name)) /\ AddRow(Imported(Project(k).name), k, Void)
    BY DEF AddProjectRow
  <1>3. k \in Nat /\ Project(k).name \in Leaves
    BY NextProjectFacts
  <1>4. PICK n \in Leaves : n = Project(k).name
    BY <1>3
  <1>5. /\ RowsOK' /\ HrnsStay /\ DOMAIN byName \subseteq DOMAIN byName'
        /\ \A m \in Leaves : Stale(m)' => Stale(m)
    BY <1>1, <1>2, <1>3, <1>4, AddRowFacts
  <1>6. RunOK'
    BY <1>1, <1>5, OneRun
  <1>7. UNCHANGED <<accounts, projects>>
    BY <1>1 DEF Importing, testbedOf
  <1>8. \A m : ToImport(m)' <=> ToImport(m)
    BY <1>1 DEF ToImport
  <1>9. Reached'
    BY <1>1, <1>5, <1>7, <1>8 DEF DummyInv, Reached, Missing
  <1> QED BY <1>1, <1>5, <1>6, <1>9, ImportStores DEF DummyInv

LEMMA ImportProjectInv ==
  ASSUME DummyInv, ImportProject
  PROVE  DummyInv'
  <1>1. stage = "import" /\ UNCHANGED <<lastRow, site, faults>> /\ Importing
    BY DEF ImportProject
  <1>2. PICK k \in NextProject :
          /\ IsKnown(Imported(Project(k).name))
          /\ \/ /\ Linkable(byName[Imported(Project(k).name)], Project(k).users)
                /\ SetUsers(byName[Imported(Project(k).name)], Project(k).users)
                /\ Met(byName[Imported(Project(k).name)]) /\ left' = left \ {<<"slice", k>>}
                /\ Then("import")
                /\ UNCHANGED <<records, byName, byPointer, hadSite, listed, skipped>>
             \/ Finish(FALSE) /\ UNCHANGED rows
    BY DEF ImportProject
  <1>3. <<"slice", k>> \in left /\ k \in DOMAIN listed[2] /\ Project(k).name \in Leaves
    BY NextProjectFacts
  <1>4. PICK n \in Leaves : n = Project(k).name
    BY <1>3
  <1>5. CASE Finish(FALSE) /\ UNCHANGED rows
    <2>1. RowsOK'
      BY <1>1, <1>5, RowsRest DEF DummyInv
    <2> QED BY <1>1, <1>5, <2>1, FinishInv, FALSE \in BOOLEAN
  <1>6. CASE /\ Linkable(byName[Imported(n)], Project(k).users)
             /\ SetUsers(byName[Imported(n)], Project(k).users)
             /\ Met(byName[Imported(n)]) /\ left' = left \ {<<"slice", k>>}
             /\ Then("import")
             /\ UNCHANGED <<records, byName, byPointer, hadSite, listed, skipped>>
    <2>1. PICK i \in DOMAIN rows : i = byName[Imported(n)]
      BY <1>6 DEF Linkable
    <2>2. PICK us \in SUBSET DOMAIN rows : us = {byPointer[u] : u \in Seqs!ToSet(Project(k).users)}
      BY <1>6 DEF Linkable
    <2>3. rows' = [rows EXCEPT ![i].users = us]
      BY <1>6, <2>1, <2>2 DEF SetUsers
    <2>4. rows[i] \in DRow /\ us \in SUBSET Nat
      BY DRowFacts DEF DummyInv, RowsOK
    <2>5. PICK new \in DRow : new = [rows[i] EXCEPT !.users = us]
      BY <2>4 DEF DRow
    <2>6. new.users = us /\ new.hrn = rows[i].hrn
      BY <2>4, <2>5 DEF DRow
    <2>7. rows' = [rows EXCEPT ![i] = new]
      BY <2>3, <2>5
    <2>8. RowsOK' /\ HrnsStay
      BY <1>1, <2>6, <2>7, RowChanged DEF DummyInv
    <2>9. unmet' = unmet \ {byName[Imported(n)]}
      BY <1>6 DEF Met
    <2>10. stage' = "import" /\ UNCHANGED <<settled, away, accounts, projects>>
      BY <1>1, <1>6 DEF Then, Importing, testbedOf
    <2>11. RunOK'
      BY <1>1, <1>6, <2>8, <2>9, <2>10, OneRun
    <2>12. (\A m \in Leaves : Stale(m)' => Stale(m)) /\ ~Stale(n)'
      BY <1>6, <2>9 DEF Stale
    <2>13. PICK x : x = <<"slice", k>>
      OBVIOUS
    <2>14. left' = left \ {x} /\ \E j : x = <<"slice", j>> /\ listed[2][j].name = n
      BY <1>4, <1>6, <2>13 DEF Project
    <2>15. Reached'
      BY <1>1, <1>6, <2>10, <2>12, <2>14, OneReached
    <2> QED BY <1>1, <2>8, <2>11, <2>15, ImportStores DEF DummyInv
  <1> QED BY <1>2, <1>4, <1>5, <1>6

LEMMA LoadAgainInv ==
  ASSUME DummyInv, LoadAgain
  PROVE  DummyInv'
  <1>1. stage = "import" /\ left = {} /\ UNCHANGED <<rows, lastRow>> /\ Importing
    BY DEF LoadAgain, database
  <1>2. RowsOK' /\ HrnsStay
    BY <1>1, RowsRest DEF DummyInv
  <1>3. CASE Finish(FALSE)
    BY <1>1, <1>2, <1>3, FinishInv, FALSE \in BOOLEAN
  <1>4. CASE Then("delete") /\ UNCHANGED tablesOf
    <2>1. stage' = "delete" /\ UNCHANGED <<records, byName, unmet, listed, left, skipped, settled, away, accounts, projects>>
      BY <1>1, <1>4 DEF Then, tablesOf, Importing, testbedOf
    <2>2. RunOK'
      BY <1>1, <2>1 DEF DummyInv, RunOK
    <2>3. \A m : (ToImport(m)' <=> ToImport(m)) /\ (Stale(m)' <=> Stale(m))
      BY <2>1 DEF ToImport, Stale
    <2>4. Reached'
      BY <1>1, <2>1, <2>3 DEF DummyInv, Reached, Missing
    <2> QED BY <1>1, <1>2, <2>2, <2>4, ImportStores DEF DummyInv
  <1> QED BY <1>3, <1>4 DEF LoadAgain

LEMMA DeleteUnmetInv ==
  ASSUME DummyInv, DeleteUnmet
  PROVE  DummyInv'
  <1>1. stage = "delete" /\ UNCHANGED lastRow /\ Importing
    BY DEF DeleteUnmet
  <1>2. CASE Finish(FALSE) /\ UNCHANGED rows
    <2>1. RowsOK'
      BY <1>1, <1>2, RowsRest DEF DummyInv
    <2> QED BY <1>1, <1>2, <2>1, FinishInv, FALSE \in BOOLEAN
  <1>3. ASSUME NEW i \in unmet, rows' = Dropped({i}), unmet' = unmet \ {i}, Then("delete"),
               UNCHANGED <<records, byName, byPointer, hadSite, listed, left, skipped>>
        PROVE  DummyInv'
    <2>1. RowsOK' /\ HrnsStay
      BY <1>1, <1>3, RowsDropped DEF DummyInv
    <2>2. stage' = "delete" /\ UNCHANGED <<settled, away, accounts, projects>>
      BY <1>1, <1>3 DEF Then, Importing, testbedOf
    <2>3. records' \subseteq 1 .. lastRow' /\ \A j \in records' \cap DOMAIN rows' : rows'[j].hrn \in DOMAIN byName'
      BY <1>1, <1>3, <2>1 DEF DummyInv, RunOK, HrnsStay
    <2>4. RunOK'
      BY <1>1, <1>3, <2>2, <2>3 DEF DummyInv, RunOK
    <2>5. \A m : (ToImport(m)' <=> ToImport(m)) /\ (Stale(m)' => Stale(m))
      BY <1>3 DEF ToImport, Stale
    <2>6. Reached'
      BY <1>1, <1>3, <2>2, <2>5 DEF DummyInv, Reached, Missing
    <2> QED BY <1>1, <2>1, <2>4, <2>6, ImportStores DEF DummyInv
  <1> QED BY <1>2, <1>3 DEF DeleteUnmet

LEMMA EndRunInv ==
  ASSUME DummyInv, EndRun
  PROVE  DummyInv'
  <1>1. Finish(TRUE) /\ Importing /\ UNCHANGED <<rows, lastRow>>
    BY DEF EndRun, database
  <1>2. RowsOK'
    BY <1>1, RowsRest DEF DummyInv
  <1> QED BY <1>1, <1>2, FinishInv, TRUE \in BOOLEAN

LEMMA DummyStepInv == DummyInv /\ [DummyNext]_dummyVars => DummyInv'
  <1>1. ASSUME DummyInv, UNCHANGED dummyVars PROVE DummyInv'
    <2>1. UNCHANGED <<rows, lastRow, accounts, projects, lastId, call, at, stage, records, byName, unmet, listed, left,
                      skipped, settled, away>>
      BY <1>1 DEF dummyVars, database, testbedOf, tablesOf
    <2>2. CallOK' /\ PeopleOK' /\ RowsOK' /\ RunOK'
      BY <1>1, <2>1 DEF DummyInv, CallOK, PeopleOK, RowsOK, RunOK
    <2>3. \A m : (ToImport(m)' <=> ToImport(m)) /\ (Stale(m)' <=> Stale(m))
      BY <2>1 DEF ToImport, Stale
    <2>4. Reached'
      BY <1>1, <2>1, <2>3 DEF DummyInv, Reached, Missing
    <2> QED BY <2>2, <2>4 DEF DummyInv
  <1> QED BY <1>1, CallingInv, QueryRowsInv, ListAccountsInv, ListProjectsInv, ImportSiteInv, ImportAccountInv,
             AddProjectRowInv, ImportProjectInv, LoadAgainInv, DeleteUnmetInv, EndRunInv
          DEF DummyNext

\* What an import of a dummy testbed deletes was off the testbed, was missed, or
\* is not the row that is known under its name.
StaleOnlyStep ==
    \A i \in DOMAIN rows :
       stage = "delete" /\ i \in unmet /\ i \notin unmet' /\ stage' = "delete" =>
         \/ rows[i].hrn # Imported(Leaf(rows[i].hrn))
         \/ Leaf(rows[i].hrn) \in away \cup skipped
         \/ byName[rows[i].hrn] # i

LEMMA StaleOnlyHolds ==
  ASSUME DummyInv
  PROVE  StaleOnlyStep
  <1> SUFFICES ASSUME NEW i \in DOMAIN rows, stage = "delete", i \in unmet,
                      rows[i].hrn = Imported(Leaf(rows[i].hrn)),
                      Leaf(rows[i].hrn) \notin away \cup skipped, byName[rows[i].hrn] = i
               PROVE  FALSE
    BY DEF StaleOnlyStep
  <1>1. PICK n \in Leaves : n = Leaf(rows[i].hrn)
    BY DRowFacts, LeafOf DEF DummyInv
  <1>2. Imported(n) \in DOMAIN byName
    BY <1>1 DEF DummyInv, RunOK
  <1>3. Stale(n)
    BY <1>1, <1>2 DEF Stale
  <1>4. ToImport(n) /\ left = {}
    BY <1>1, <1>3 DEF DummyInv, Reached
  <1> QED BY <1>4 DEF ToImport

-----------------------------------------------------------------------------
(* A dummy testbed: what an undisturbed import leaves                        *)

\* Nobody has two accounts, no two slices a name; an empty list of keys is none.
Apart ==
    /\ \A a, b \in DOMAIN accounts : accounts[a].name = accounts[b].name => a = b
    /\ \A a, b \in DOMAIN projects : projects[a].name = projects[b].name => a = b
    /\ \A a \in DOMAIN accounts : accounts[a].keys # {}

\* The leaves that an import gives a record, and the row known for one of them.
There == Leaves \ Missing(accounts, projects)
KnownAs(n, i) == Imported(n) \in DOMAIN byName /\ byName[Imported(n)] = i
IsMet(n) == \E i \in DOMAIN rows \ unmet : KnownAs(n, i)

\* How far the tables and the rows are while nobody disturbs the import: what is
\* met is known for a leaf that is there, what is imported is met.
Tables ==
    /\ stage \in {"slices", "site", "import", "delete"} => listed[1] = accounts
    /\ stage \in {"site", "import", "delete"} => listed[2] = projects
    /\ stage = "site" => left = ({"user"} \X DOMAIN accounts) \cup ({"slice"} \X DOMAIN projects)
    /\ unmet \subseteq DOMAIN rows
    /\ \A h \in DOMAIN byName : IF byName[h] \in DOMAIN rows THEN rows[byName[h]].hrn = h
                                ELSE stage = "delete"
    /\ \A i \in DOMAIN rows \ unmet : \E n \in There : KnownAs(n, i)
KeyFits(a, i) == rows[i].hrn = Imported(accounts[a].name) => rows[i].key \in accounts[a].keys
Brought ==
    stage \in {"import", "delete"} =>
      /\ \A a \in DOMAIN accounts : <<"user", a>> \notin left /\ accounts[a].keys # Void =>
           IsMet(accounts[a].name) /\ \A i \in DOMAIN rows \ unmet : KeyFits(a, i)
      /\ \A k \in DOMAIN projects : <<"slice", k>> \notin left => IsMet(projects[k].name)

\* One row for each leaf that is there, and no other.
OneEach ==
    /\ \A i \in DOMAIN rows : \E n \in There : rows[i].hrn = Imported(n)
    /\ \A n \in There : \E i \in DOMAIN rows : rows[i].hrn = Imported(n)
    /\ \A i, j \in DOMAIN rows : rows[i].hrn = rows[j].hrn => i = j
    /\ \A a \in DOMAIN accounts, i \in DOMAIN rows : KeyFits(a, i)

\* From then on the users of a slice have one row each.
Linked(k) ==
    \A i \in Named({Imported(projects[k].name)}) :
      /\ projects[k].users # Void
      /\ PointersOf(i) = Seqs!ToSet(projects[k].users)
      /\ \A r, s \in rows[i].users : rows[r].pointer = rows[s].pointer => r = s
DictsFit ==
    /\ \A i \in DOMAIN rows : rows[i].hrn \in DOMAIN byName
    /\ \A p \in DOMAIN byPointer : byPointer[p] \in DOMAIN rows /\ rows[byPointer[p]].pointer = p
    /\ stage \in {"import", "delete"} =>
         \A k \in DOMAIN projects : <<"slice", k>> \notin left => Linked(k)

Settling ==
    /\ calm => stage # "idle" /\ Tables /\ Brought
    /\ settled > 0 /\ (calm \/ stage = "idle") => OneEach
    /\ settled > 0 /\ calm => DictsFit
    /\ settled = 2 /\ stage = "idle" => \A k \in DOMAIN projects : Linked(k)

\* The accounts, and the slices, are those from before under the same names.
AccountsStay ==
    \A a \in DOMAIN accounts' : a \in DOMAIN accounts /\ accounts'[a].name = accounts[a].name /\ accounts'[a].keys # {}
SlicesStay == \A k \in DOMAIN projects' : k \in DOMAIN projects /\ projects'[k].name = projects[k].name

LEMMA InitApart == DummyInit => Apart
  <1> SUFFICES ASSUME DummyInit PROVE Apart
    OBVIOUS
  <1>1. \A a \in DOMAIN FirstAccounts : FirstAccounts[a] \in [name : Accounts, keys : (SUBSET FirstKeys) \ {{}}]
    BY FirstAssumption
  <1>2. \A a \in DOMAIN FirstAccounts : FirstAccounts[a].keys # {}
    BY <1>1
  <1> QED BY <1>2, FirstAssumption DEF DummyInit, Apart

LEMMA StaysApart ==
  ASSUME Apart, AccountsStay \/ UNCHANGED accounts, SlicesStay \/ UNCHANGED projects
  PROVE  Apart'
  <1>1. CASE UNCHANGED accounts
    BY <1>1 DEF Apart, SlicesStay
  <1>2. CASE AccountsStay
    BY <1>2 DEF Apart, AccountsStay, SlicesStay
  <1> QED BY <1>1, <1>2

LEMMA TakeObjectApart ==
  ASSUME Stores, Apart, TakeObject
  PROVE  Apart'
  <1> DEFINE leaf == Leaf(call.hrn)
             there == IF IsUser(call.hrn) THEN AccountsNamed(leaf) ELSE ProjectsNamed(leaf)
  <1>1. /\ there # {} => UNCHANGED <<accounts, projects>>
        /\ there = {} /\ IsUser(call.hrn) => AddUser(leaf) /\ UNCHANGED projects
        /\ there = {} /\ ~IsUser(call.hrn) => AddProject(leaf) /\ UNCHANGED accounts
    BY DEF TakeObject
  <1>2. CASE there # {}
    BY <1>1, <1>2 DEF Apart
  <1>3. CASE there = {} /\ IsUser(call.hrn)
    <2>1. \A a \in DOMAIN accounts : accounts[a].name # leaf
      BY <1>3 DEF AccountsNamed
    <2>2. DOMAIN accounts' = DOMAIN accounts \cup {lastId + 1} /\ lastId + 1 \notin DOMAIN accounts
      BY <1>1, <1>3 DEF AddUser, Added, Stores, PeopleOK
    <2>3. /\ \A a \in DOMAIN accounts : accounts'[a] = accounts[a]
          /\ accounts'[lastId + 1] = [name |-> leaf, keys |-> Void]
      BY <1>1, <1>3, <2>2 DEF AddUser, Added
    <2>4. accounts'[lastId + 1].name = leaf /\ accounts'[lastId + 1].keys # {}
      BY <2>3, VoidAssumption
    <2> QED BY <1>1, <1>3, <2>1, <2>2, <2>3, <2>4 DEF Apart
  <1>4. CASE there = {} /\ ~IsUser(call.hrn)
    <2>1. \A k \in DOMAIN projects : projects[k].name # leaf
      BY <1>4 DEF ProjectsNamed
    <2>2. DOMAIN projects' = DOMAIN projects \cup {lastId + 1} /\ lastId + 1 \notin DOMAIN projects
      BY <1>1, <1>4 DEF AddProject, Added, Stores, PeopleOK
    <2>3. /\ \A k \in DOMAIN projects : projects'[k] = projects[k]
          /\ projects'[lastId + 1].name = leaf
      BY <1>1, <1>4, <2>2 DEF AddProject, Added
    <2> QED BY <1>1, <1>4, <2>1, <2>2, <2>3 DEF Apart
  <1> QED BY <1>2, <1>3, <1>4

LEMMA KeyStays ==
  ASSUME Stores, Apart, NEW a, NEW key, AddUserKey(a, key)
  PROVE  AccountsStay \/ UNCHANGED accounts
  <1>1. CASE a \in DOMAIN accounts
    <2>1. accounts[a] \in Account
      BY <1>1 DEF Stores, PeopleOK
    <2>2. PICK ks : ks = IF accounts[a].keys = Void THEN {key} ELSE accounts[a].keys \cup {key}
      OBVIOUS
    <2>3. accounts' = [accounts EXCEPT ![a] = [accounts[a] EXCEPT !.keys = ks]]
      BY <1>1, <2>2 DEF AddUserKey
    <2>4. [accounts[a] EXCEPT !.keys = ks].name = accounts[a].name /\ [accounts[a] EXCEPT !.keys = ks].keys = ks
      BY <2>1 DEF Account
    <2>5. ks # {}
      BY <2>2
    <2> QED BY <1>1, <2>3, <2>4, <2>5 DEF AccountsStay, Apart
  <1>2. CASE a \notin DOMAIN accounts
    BY <1>2 DEF AddUserKey
  <1> QED BY <1>1, <1>2

LEMMA UserListStays ==
  ASSUME Stores, NEW u, NEW id, AddUserToSlice(u, id) \/ DeleteUserFromSlice(u, id)
  PROVE  SlicesStay
  <1>1. DOMAIN projects' = DOMAIN projects
    BY DEF AddUserToSlice, DeleteUserFromSlice
  <1>2. ASSUME NEW k \in DOMAIN projects PROVE projects'[k].name = projects[k].name
    <2>1. projects[k] \in DSlice
      BY DEF Stores, PeopleOK
    <2>2. projects'[k] = projects[k] \/ \E us : projects'[k] = [projects[k] EXCEPT !.users = us]
      BY DEF AddUserToSlice, DeleteUserFromSlice
    <2> QED BY <2>1, <2>2 DEF DSlice
  <1> QED BY <1>1, <1>2 DEF SlicesStay

LEMMA EraseStays ==
  ASSUME Stores, Apart, Erase
  PROVE  (AccountsStay \/ UNCHANGED accounts) /\ (SlicesStay \/ UNCHANGED projects)
  <1>1. CASE IsUser(call.hrn)
    <2>1. DeleteUser(call.ptr)
      BY <1>1 DEF Erase
    <2>2. AccountsStay
      BY <2>1 DEF DeleteUser, AccountsStay, Apart
    <2> DEFINE stops == {k \in DOMAIN projects : projects[k].users = Void \/ call.ptr \in Seqs!ToSet(projects[k].users)}
    <2>3. \/ projects' = projects
          \/ stops # {} /\ projects' = [projects EXCEPT ![Least(stops)].users = Without(@, call.ptr)]
      BY <2>1 DEF DeleteUser
    <2>4. ASSUME stops # {}, projects' = [projects EXCEPT ![Least(stops)].users = Without(@, call.ptr)]
          PROVE  SlicesStay
      <3>1. stops \in SUBSET Nat /\ stops \subseteq DOMAIN projects
        BY DEF Stores, PeopleOK
      <3> HIDE DEF stops
      <3>2. PICK k \in DOMAIN projects : k = Least(stops)
        BY <2>4, <3>1, LeastIs
      <3>3. projects[k] \in DSlice
        BY DEF Stores, PeopleOK
      <3>4. PICK us : us = Without(projects[k].users, call.ptr)
        OBVIOUS
      <3>5. projects' = [projects EXCEPT ![k] = [projects[k] EXCEPT !.users = us]]
        BY <2>4, <3>2, <3>4
      <3>6. [projects[k] EXCEPT !.users = us].name = projects[k].name
        BY <3>3 DEF DSlice
      <3> QED BY <3>5, <3>6 DEF SlicesStay
    <2> HIDE DEF stops
    <2> QED BY <2>2, <2>3, <2>4
  <1>2. CASE ~IsUser(call.hrn)
    BY <1>2 DEF Erase, DeleteSlice, SlicesStay
  <1> QED BY <1>1, <1>2

LEMMA DummyApart == DummyInv /\ Apart /\ [DummyNext]_dummyVars => Apart'
  <1> SUFFICES ASSUME DummyInv, Apart, [DummyNext]_dummyVars PROVE Apart'
    OBVIOUS
  <1>1. Stores
    BY DEF DummyInv, Stores
  <1>2. CASE UNCHANGED testbedOf
    BY <1>2 DEF testbedOf, Apart
  <1>3. CASE TakeObject
    BY <1>1, <1>3, TakeObjectApart
  <1>4. CASE AddKey \/ TouchObject
    <2>1. UNCHANGED projects /\ (UNCHANGED accounts \/ AddUserKey(call.ptr, call.key))
      BY <1>4 DEF AddKey, TouchObject
    <2> QED BY <1>1, <2>1, KeyStays, StaysApart
  <1>5. CASE ApplyChange
    <2>1. UNCHANGED accounts /\ (UNCHANGED projects \/ \E u : AddUserToSlice(u, call.ptr) \/ DeleteUserFromSlice(u, call.ptr))
      BY <1>5 DEF ApplyChange
    <2> QED BY <1>1, <2>1, UserListStays, StaysApart
  <1>6. CASE Erase
    BY <1>1, <1>6, EraseStays, StaysApart
  <1>7. ASSUME Enrol \/ Change \/ Withdraw PROVE UNCHANGED testbedOf
    BY <1>7 DEF Enrol, Change, Withdraw, Ask
  <1>8. ASSUME CommitRow \/ CommitChange \/ Relate \/ DropRow \/ ServerFails \/ Nuke PROVE UNCHANGED testbedOf
    BY <1>8 DEF CommitRow, CommitChange, Relate, DropRow, ServerFails, Nuke
  <1>9. ASSUME QueryRows \/ ListAccounts \/ ListProjects \/ ImportSite \/ ImportAccount \/ AddProjectRow
               \/ ImportProject \/ LoadAgain \/ DeleteUnmet \/ EndRun
        PROVE  UNCHANGED testbedOf
    BY <1>9 DEF QueryRows, ListAccounts, ListProjects, ImportSite, ImportAccount, AddProjectRow, ImportProject,
                LoadAgain, DeleteUnmet, EndRun, Importing
  <1>10. UNCHANGED dummyVars => UNCHANGED testbedOf
    BY DEF dummyVars
  <1>11. Enrol \/ Change \/ Withdraw \/ TakeObject \/ AddKey \/ CommitRow \/ TouchObject \/ CommitChange
         \/ Relate \/ ApplyChange \/ Erase \/ DropRow \/ ServerFails \/ Nuke
         \/ QueryRows \/ ListAccounts \/ ListProjects \/ ImportSite \/ ImportAccount \/ AddProjectRow
         \/ ImportProject \/ LoadAgain \/ DeleteUnmet \/ EndRun \/ UNCHANGED dummyVars
    BY Zenon DEF DummyNext, Calling
  <1> QED BY <1>2, <1>3, <1>4, <1>5, <1>6, <1>7, <1>8, <1>9, <1>10, <1>11

\* A leaf is there when a user with a list of keys has it, or a slice.
LEMMA ThereFacts ==
  ASSUME DummyInv
  PROVE  /\ There \subseteq Leaves
         /\ \A a \in DOMAIN accounts : accounts[a].name \in Leaves /\ (accounts[a].keys # Void => accounts[a].name \in There)
         /\ \A k \in DOMAIN projects : projects[k].name \in There
         /\ \A n \in There : \/ \E a \in DOMAIN accounts : accounts[a].name = n /\ accounts[a].keys # Void
                             \/ \E k \in DOMAIN projects : projects[k].name = n
         /\ \A a \in DOMAIN accounts, k \in DOMAIN projects : accounts[a].name # projects[k].name
  <1>1. \A a \in DOMAIN accounts : accounts[a].name \in Accounts
    <2>1. \A a \in DOMAIN accounts : accounts[a] \in Account
      BY DEF DummyInv, PeopleOK
    <2> QED BY <2>1 DEF Account
  <1>2. \A k \in DOMAIN projects : projects[k].name \in Projects
    <2>1. \A k \in DOMAIN projects : projects[k] \in DSlice
      BY DEF DummyInv, PeopleOK
    <2> QED BY <2>1 DEF DSlice
  <1> QED BY <1>1, <1>2, LeavesAssumption DEF There, Leaves, Missing

LEMMA ImportedApart == \A m, n : Imported(m) = Imported(n) => m = n
  BY DEF Imported

\* While nobody disturbs the import, a row that is met has its leaf's name.
LEMMA MetRows ==
  ASSUME Tables
  PROVE  /\ \A n, i : KnownAs(n, i) /\ i \in DOMAIN rows => rows[i].hrn = Imported(n)
         /\ \A i \in DOMAIN rows \ unmet : \E n \in There : KnownAs(n, i) /\ rows[i].hrn = Imported(n)
         /\ \A i \in DOMAIN rows \ unmet : \A n : rows[i].hrn = Imported(n) => n \in There /\ KnownAs(n, i)
  <1>1. \A n, i : KnownAs(n, i) /\ i \in DOMAIN rows => rows[i].hrn = Imported(n)
    BY DEF Tables, KnownAs
  <1>2. \A i \in DOMAIN rows \ unmet : \E n \in There : KnownAs(n, i) /\ rows[i].hrn = Imported(n)
    BY <1>1 DEF Tables
  <1> QED BY <1>1, <1>2, ImportedApart

\* What disturbs an import undoes what it has settled.
LEMMA Unsettled ==
  ASSUME ~calm', settled' = 0 \/ stage' # "idle", DummyInv'
  PROVE  Settling'
  <1>1. settled' = 0 => ~(settled' > 0) /\ settled' # 2
    OBVIOUS
  <1> QED BY <1>1 DEF Settling

\* The rows keep their names and their pointers.
RowsStand ==
    /\ DOMAIN rows' = DOMAIN rows
    /\ \A i \in DOMAIN rows : rows'[i].hrn = rows[i].hrn /\ rows'[i].pointer = rows[i].pointer

LEMMA StayOneEach ==
  ASSUME OneEach, RowsStand, UNCHANGED <<accounts, projects>>,
         \A a \in DOMAIN accounts, i \in DOMAIN rows : KeyFits(a, i)'
  PROVE  OneEach'
  BY DEF OneEach, RowsStand, There, Missing

LEMMA StayLinked ==
  ASSUME RowsOK, RowsStand, UNCHANGED projects, NEW k \in DOMAIN projects, Linked(k),
         \A i \in Named({Imported(projects[k].name)}) : rows'[i].users = rows[i].users
  PROVE  Linked(k)'
  <1>1. Named({Imported(projects[k].name)})' = Named({Imported(projects[k].name)})
    BY DEF Named, RowsStand
  <1>2. ASSUME NEW i \in Named({Imported(projects[k].name)})
        PROVE  /\ projects[k].users # Void
               /\ PointersOf(i)' = Seqs!ToSet(projects[k].users)
               /\ \A r, s \in rows'[i].users : rows'[r].pointer = rows'[s].pointer => r = s
    <2>1. rows[i].users \subseteq DOMAIN rows
      BY DEF RowsOK, Named
    <2>2. rows'[i].users = rows[i].users /\ \A r \in rows[i].users : rows'[r].pointer = rows[r].pointer
      BY <2>1 DEF RowsStand
    <2>3. PointersOf(i)' = PointersOf(i)
      BY <2>2 DEF PointersOf
    <2> QED BY <2>2, <2>3, <1>2 DEF Linked
  <1> QED BY <1>1, <1>2 DEF Linked

\* A last one of some rows, in an order of all of them.
LEMMA LatestIs ==
  ASSUME RowsOK, NEW rank \in Maps!Injection(DOMAIN rows, DOMAIN rows), NEW S \in SUBSET DOMAIN rows, S # {}
  PROVE  (CHOOSE i \in S : \A j \in S : rank[j] <= rank[i]) \in S
  <1>1. rank \in [DOMAIN rows -> 1 .. lastRow] /\ lastRow \in Nat
    BY DEF Maps!Injection, RowsOK
  <1>2. PICK T \in SUBSET Nat : T = {lastRow - rank[i] : i \in S}
    <2>1. \A i \in S : rank[i] \in 1 .. lastRow
      BY <1>1
    <2>2. \A i \in S : lastRow - rank[i] \in Nat
      BY <1>1, <2>1
    <2> QED BY <2>2
  <1>3. T # {}
    BY <1>2
  <1>4. PICK i \in S : Least(T) = lastRow - rank[i]
    BY <1>2, <1>3, LeastIs
  <1>5. \A j \in S : lastRow - rank[i] <= lastRow - rank[j]
    BY <1>2, <1>3, <1>4, LeastIs
  <1>6. \A j \in S : rank[i] \in Nat /\ rank[j] \in Nat
    BY <1>1
  <1>7. \A j \in S : rank[j] <= rank[i]
    BY <1>1, <1>5, <1>6
  <1> QED BY <1>7

LEMMA QueryRowsSettling ==
  ASSUME DummyInv, Settling, QueryRows
  PROVE  Settling'
  <1>1. /\ stage = "idle" /\ stage' = "users" /\ unmet' = DOMAIN rows /\ calm'
        /\ UNCHANGED <<rows, accounts, projects, settled>>
    BY DEF QueryRows, database, Importing, testbedOf
  <1> DEFINE people == {i \in DOMAIN rows : IsUser(rows[i].hrn)}
  <1>2. PICK rank \in Maps!Injection(DOMAIN rows, DOMAIN rows) :
          /\ byName' = [h \in {rows[i].hrn : i \in DOMAIN rows} |->
                          CHOOSE i \in Named({h}) : \A j \in Named({h}) : rank[j] <= rank[i]]
          /\ byPointer' = [p \in {rows[i].pointer : i \in people} |->
                             CHOOSE i \in {i \in people : rows[i].pointer = p} :
                               \A j \in {r \in people : rows[r].pointer = p} : rank[j] <= rank[i]]
    BY DEF QueryRows
  <1>3. DOMAIN byName' = {rows[i].hrn : i \in DOMAIN rows}
    BY <1>2
  <1>4. ASSUME NEW h \in DOMAIN byName' PROVE byName'[h] \in DOMAIN rows /\ rows[byName'[h]].hrn = h
    <2>1. Named({h}) \in SUBSET DOMAIN rows /\ Named({h}) # {}
      BY <1>3, <1>4 DEF Named
    <2>2. byName'[h] \in Named({h})
      BY <1>2, <1>4, <2>1, LatestIs DEF DummyInv
    <2> QED BY <2>2 DEF Named
  <1>5. ASSUME NEW p \in DOMAIN byPointer' PROVE byPointer'[p] \in DOMAIN rows /\ rows[byPointer'[p]].pointer = p
    <2>1. PICK S \in SUBSET DOMAIN rows : S = {i \in people : rows[i].pointer = p}
      OBVIOUS
    <2>2. S # {}
      BY <1>2, <1>5, <2>1
    <2>3. byPointer'[p] = CHOOSE i \in S : \A j \in S : rank[j] <= rank[i]
      BY <1>2, <1>5, <2>1
    <2>4. byPointer'[p] \in S
      BY <2>2, <2>3, LatestIs DEF DummyInv
    <2> QED BY <2>1, <2>4
  <1> HIDE DEF people
  <1>6. Tables' /\ Brought'
    BY <1>1, <1>4 DEF Tables, Brought
  <1>7. settled' > 0 => OneEach'
    BY <1>1 DEF Settling, OneEach, There, Missing, KeyFits
  <1>8. DictsFit'
    BY <1>1, <1>3, <1>5 DEF DictsFit
  <1> QED BY <1>1, <1>6, <1>7, <1>8 DEF Settling

\* While only the importer's lists change, the rows stay as they are.
LEMMA ListsSettling ==
  ASSUME DummyInv, Settling, stage # "idle", stage' \notin {"idle"},
         UNCHANGED <<rows, accounts, projects, byName, byPointer, unmet, calm, settled>>,
         calm => Tables' /\ Brought',
         calm /\ stage' \in {"import", "delete"} =>
           \A k \in DOMAIN projects : <<"slice", k>> \notin left' => stage \in {"import", "delete"} /\ <<"slice", k>> \notin left
  PROVE  Settling'
  <1>1. settled' > 0 /\ calm' => OneEach'
    BY DEF Settling, OneEach, There, Missing, KeyFits
  <1>2. \A k : Linked(k)' <=> Linked(k)
    BY DEF Linked, Named, PointersOf
  <1>3. settled' > 0 /\ calm' => DictsFit'
    BY <1>2 DEF Settling, DictsFit
  <1> QED BY <1>1, <1>3 DEF Settling

LEMMA ListAccountsSettling ==
  ASSUME DummyInv, Settling, ListAccounts
  PROVE  Settling'
  <1>1. /\ stage = "users" /\ stage' = "slices" /\ listed' = <<accounts, listed[2]>>
        /\ UNCHANGED <<rows, accounts, projects, byName, byPointer, unmet, left, calm, settled>>
    BY DEF ListAccounts, Then, database, Importing, testbedOf
  <1>2. listed'[1] = accounts
    BY <1>1
  <1>3. calm => Tables' /\ Brought'
    BY <1>1, <1>2 DEF Settling, Tables, Brought, KnownAs, There, Missing
  <1> QED BY <1>1, <1>3, ListsSettling

LEMMA ListProjectsSettling ==
  ASSUME DummyInv, Settling, ListProjects
  PROVE  Settling'
  <1>1. /\ stage = "slices" /\ stage' = "site" /\ listed' = <<listed[1], projects>>
        /\ left' = ({"user"} \X DOMAIN listed[1]) \cup ({"slice"} \X DOMAIN projects)
        /\ UNCHANGED <<rows, accounts, projects, byName, byPointer, unmet, calm, settled>>
    BY DEF ListProjects, Then, database, Importing, testbedOf
  <1>2. listed'[1] = listed[1] /\ listed'[2] = projects
    BY <1>1
  <1>3. calm => Tables' /\ Brought'
    BY <1>1, <1>2 DEF Settling, Tables, Brought, KnownAs, There, Missing
  <1> QED BY <1>1, <1>3, ListsSettling

LEMMA ImportSiteSettling ==
  ASSUME DummyInv, DummyInv', Settling, ImportSite
  PROVE  Settling'
  <1>1. /\ stage = "site" /\ stage' = "import"
        /\ UNCHANGED <<rows, accounts, projects, byName, byPointer, unmet, listed>>
    BY DEF ImportSite, Then, Caught, Importing, testbedOf
  <1>2. CASE ~calm'
    BY <1>1, <1>2, Unsettled
  <1>3. CASE calm'
    <2>1. UNCHANGED <<left, calm, settled>>
      BY <1>3 DEF ImportSite, Then, Caught
    <2>2. ASSUME calm PROVE left = ({"user"} \X DOMAIN accounts) \cup ({"slice"} \X DOMAIN projects)
      BY <1>1, <2>2 DEF Settling, Tables
    <2>3. calm => Brought'
      BY <1>1, <2>1, <2>2 DEF Brought
    <2>4. calm => Tables'
      BY <1>1 DEF Settling, Tables, KnownAs, There, Missing
    <2> QED BY <1>1, <2>1, <2>2, <2>3, <2>4, ListsSettling
  <1> QED BY <1>2, <1>3

LEMMA LoadAgainSettling ==
  ASSUME DummyInv, DummyInv', Settling, LoadAgain
  PROVE  Settling'
  <1>1. stage = "import" /\ left = {} /\ UNCHANGED <<rows, accounts, projects>>
    BY DEF LoadAgain, database, Importing, testbedOf
  <1>2. CASE Finish(FALSE)
    BY <1>2, Unsettled DEF Finish
  <1>3. CASE Then("delete") /\ UNCHANGED tablesOf
    <2>1. stage' = "delete" /\ UNCHANGED <<byName, byPointer, unmet, listed, left, calm, settled>>
      BY <1>3 DEF Then, tablesOf
    <2>2. calm => Tables'
      BY <1>1, <2>1 DEF Settling, Tables, KnownAs, There, Missing
    <2>3. calm => Brought'
      BY <1>1, <2>1 DEF Settling, Brought, IsMet, KnownAs, KeyFits
    <2> QED BY <1>1, <2>1, <2>2, <2>3, ListsSettling
  <1> QED BY <1>2, <1>3 DEF LoadAgain

\* A new row, known under the name of a leaf that had none.
LEMMA AddRowSettling ==
  ASSUME DummyInv, Apart, Settling, calm, stage = "import",
         NEW n \in There, NEW p, NEW key, ~IsKnown(Imported(n)), AddRow(Imported(n), p, key)
  PROVE  /\ settled = 0
         /\ \A i \in DOMAIN rows' \ unmet : i \notin DOMAIN rows \ unmet =>
              i = lastRow + 1 /\ rows'[i].hrn = Imported(n) /\ rows'[i].key = key
         /\ \A i \in DOMAIN rows : i \in DOMAIN rows' /\ rows'[i] = rows[i]
         /\ UNCHANGED <<accounts, projects, unmet, listed, stage, calm>> => Tables'
         /\ UNCHANGED unmet => IsMet(n)' /\ \A m : IsMet(m) => IsMet(m)'
         /\ \A i \in DOMAIN rows \ unmet : rows[i].hrn # Imported(n)
  <1>1. Tables
    BY DEF Settling
  <1>0. PICK new : new = lastRow + 1
    OBVIOUS
  <1>2. new \notin DOMAIN rows
    BY <1>0 DEF DummyInv, RowsOK
  <1>3. DOMAIN rows' = DOMAIN rows \cup {new} /\ \A i \in DOMAIN rows : rows'[i] = rows[i]
    BY <1>2, <1>0 DEF AddRow, Added
  <1>4. rows'[new] = DummyRow(Imported(n), p, key)
    BY <1>2, <1>0 DEF AddRow, Added
  <1>5. rows'[new].hrn = Imported(n) /\ rows'[new].key = key
    BY <1>4 DEF DummyRow
  <1>6. /\ DOMAIN byName' = DOMAIN byName \cup {Imported(n)} /\ byName'[Imported(n)] = new
        /\ \A h \in DOMAIN byName : byName'[h] = byName[h]
    BY <1>0 DEF AddRow, Added, IsKnown
  <1>7. \A i \in DOMAIN rows \ unmet : rows[i].hrn # Imported(n)
    BY <1>1, MetRows DEF IsKnown, KnownAs
  <1>8. settled = 0
    <2>1. SUFFICES ASSUME settled > 0 PROVE FALSE
      BY DEF DummyInv, RunOK
    <2>2. PICK i \in DOMAIN rows : rows[i].hrn = Imported(n)
      BY <2>1 DEF Settling, OneEach
    <2> QED BY <2>1, <2>2 DEF Settling, DictsFit, IsKnown
  <1>9. new \notin unmet
    BY <1>1, <1>2 DEF Tables
  <1>10. KnownAs(n, new)' /\ \A m, i : KnownAs(m, i) => KnownAs(m, i)'
    BY <1>6 DEF KnownAs
  <1>11. ASSUME UNCHANGED <<accounts, projects, unmet, listed, stage, calm>> PROVE Tables'
    <2>1. There' = There
      BY <1>11 DEF There, Missing
    <2>2. \A i \in DOMAIN rows' \ unmet' : \E m \in There' : KnownAs(m, i)'
      BY <1>1, <1>3, <1>10, <1>11, <2>1 DEF Tables
    <2>3. \A h \in DOMAIN byName' : byName'[h] \in DOMAIN rows' /\ rows'[byName'[h]].hrn = h
      BY <1>1, <1>3, <1>5, <1>6 DEF Tables
    <2> QED BY <1>1, <1>3, <1>11, <2>2, <2>3 DEF Tables
  <1>12. ASSUME UNCHANGED unmet PROVE IsMet(n)' /\ \A m : IsMet(m) => IsMet(m)'
    BY <1>3, <1>9, <1>10, <1>12 DEF IsMet
  <1> QED BY <1>3, <1>5, <1>7, <1>8, <1>11, <1>12, <1>0

\* What is imported now is met; what was, stays so.
LEMMA MoreBrought ==
  ASSUME Settling, calm, stage = "import", UNCHANGED <<accounts, projects>>,
         \A m : IsMet(m) => IsMet(m)',
         \A a \in DOMAIN accounts : <<"user", a>> \notin left' /\ accounts[a].keys # Void =>
           \/ <<"user", a>> \notin left
           \/ IsMet(accounts[a].name)',
         \A k \in DOMAIN projects : <<"slice", k>> \notin left' => <<"slice", k>> \notin left \/ IsMet(projects[k].name)',
         \A a \in DOMAIN accounts : <<"user", a>> \notin left' /\ accounts[a].keys # Void =>
           \A i \in DOMAIN rows' \ unmet' : KeyFits(a, i)'
  PROVE  Brought'
  BY DEF Settling, Brought

LEMMA ImportAccountSettling ==
  ASSUME DummyInv, DummyInv', Apart, Settling, ImportAccount
  PROVE  Settling'
  <1>1. stage = "import" /\ stage' = "import" /\ UNCHANGED <<accounts, projects, listed>>
    BY DEF ImportAccount, Then, Caught, Importing, testbedOf
  <1>2. CASE ~calm'
    BY <1>1, <1>2, Unsettled
  <1>3. CASE calm'
    <2>1. calm /\ UNCHANGED <<calm, settled>>
      BY <1>3 DEF ImportAccount, Then, Caught
    <2>2. Tables /\ Brought /\ listed[1] = accounts
      BY <1>1, <2>1 DEF Settling, Tables
    <2>3. PICK u \in NextOf({x[2] : x \in {y \in left : y[1] = "user"}}) :
         LET h == Imported(accounts[u].name)
             keys == accounts[u].keys
         IN  /\ left' = left \ {<<"user", u>>}
             /\ \/ (keys = Void \/ (IsKnown(h) /\ byName[h] \notin DOMAIN rows)) /\ Miss(u)
                \/ /\ keys # Void /\ ~IsKnown(h)
                   /\ \E k \in keys : AddRow(h, u, k)
                   /\ UNCHANGED unmet
                \/ /\ keys # Void /\ IsKnown(h) /\ byName[h] \in DOMAIN rows
                   /\ rows' \in Rekeyed(byName[h], keys)
                   /\ Met(byName[h])
                   /\ UNCHANGED <<byName, byPointer>>
      BY <1>3, <2>2 DEF ImportAccount, Caught
    <2>4. <<"user", u>> \in left /\ u \in DOMAIN accounts
      <3>1. left \subseteq ({"user"} \X DOMAIN listed[1]) \cup ({"slice"} \X DOMAIN listed[2])
        BY DEF DummyInv, RunOK
      <3>2. <<"user", u>> \in left
        BY <2>3, <3>1 DEF NextOf
      <3> QED BY <2>2, <3>2, ListedFacts
    <2>5. PICK n : n = accounts[u].name
      OBVIOUS
    <2>6. \A a \in DOMAIN accounts : accounts[a].name = n => a = u
      BY <2>4, <2>5 DEF Apart
    <2>7. accounts[u].keys # Void => n \in There
      BY <2>4, <2>5, ThereFacts
    <2>8. \A a : <<"user", a>> \notin left' => <<"user", a>> \notin left \/ a = u
      BY <2>3
    <2>9. \A k : <<"slice", k>> \notin left' => <<"slice", k>> \notin left
      BY <2>3
    <2>10. There' = There
      BY <1>1 DEF There, Missing
    <2>11. CASE (accounts[u].keys = Void \/ (IsKnown(Imported(n)) /\ byName[Imported(n)] \notin DOMAIN rows)) /\ Miss(u)
      <3>1. accounts[u].keys = Void
        BY <1>1, <2>2, <2>11 DEF Tables, IsKnown
      <3>2. UNCHANGED <<rows, byName, byPointer, unmet>>
        BY <2>11 DEF Miss, database
      <3>3. Tables'
        BY <1>1, <2>2, <2>10, <3>2 DEF Tables, KnownAs
      <3>4. (\A m : IsMet(m) => IsMet(m)') /\ \A a, i : KeyFits(a, i)' <=> KeyFits(a, i)
        BY <1>1, <3>2 DEF IsMet, KnownAs, KeyFits
      <3>5. Brought'
        BY <1>1, <2>2, <2>8, <2>9, <3>1, <3>2, <3>4 DEF Brought
      <3> QED BY <1>1, <2>1, <2>9, <3>2, <3>3, <3>5, ListsSettling
    <2>12. CASE accounts[u].keys # Void /\ ~IsKnown(Imported(n)) /\ (\E k \in accounts[u].keys : AddRow(Imported(n), u, k)) /\ UNCHANGED unmet
      <3>1. PICK k \in accounts[u].keys : AddRow(Imported(n), u, k)
        BY <2>12
      <3>2. /\ settled = 0
            /\ \A i \in DOMAIN rows' \ unmet : i \notin DOMAIN rows \ unmet =>
                 i = lastRow + 1 /\ rows'[i].hrn = Imported(n) /\ rows'[i].key = k
            /\ \A i \in DOMAIN rows : i \in DOMAIN rows' /\ rows'[i] = rows[i]
            /\ Tables' /\ IsMet(n)' /\ \A m : IsMet(m) => IsMet(m)'
            /\ \A i \in DOMAIN rows \ unmet : rows[i].hrn # Imported(n)
        BY <1>1, <2>1, <2>7, <2>12, <3>1, AddRowSettling
      <3>3. ASSUME NEW a \in DOMAIN accounts, <<"user", a>> \notin left', accounts[a].keys # Void,
                   NEW i \in DOMAIN rows' \ unmet', rows'[i].hrn = Imported(accounts[a].name)
            PROVE  rows'[i].key \in accounts[a].keys
        <4>1. CASE i \in DOMAIN rows \ unmet
          BY <1>1, <2>2, <2>5, <2>8, <3>2, <3>3, <4>1 DEF Brought, KeyFits
        <4>2. CASE i \notin DOMAIN rows \ unmet
          BY <2>6, <2>12, <3>1, <3>2, <3>3, <4>2, ImportedApart
        <4> QED BY <4>1, <4>2
      <3>4. Brought'
        BY <1>1, <2>1, <2>5, <2>8, <2>9, <3>2, <3>3, MoreBrought DEF KeyFits
      <3>5. settled' = 0 /\ stage' # "idle" /\ calm'
        BY <1>1, <1>3, <2>1, <3>2
      <3> QED BY <3>2, <3>4, <3>5 DEF Settling
    <2>13. CASE /\ accounts[u].keys # Void /\ IsKnown(Imported(n)) /\ byName[Imported(n)] \in DOMAIN rows
                /\ rows' \in Rekeyed(byName[Imported(n)], accounts[u].keys)
                /\ Met(byName[Imported(n)])
                /\ UNCHANGED <<byName, byPointer>>
      <3>1. PICK i \in DOMAIN rows : i = byName[Imported(n)]
        BY <2>13
      <3>2. KnownAs(n, i) /\ rows[i].hrn = Imported(n)
        BY <2>2, <2>13, <3>1, MetRows DEF KnownAs, IsKnown
      <3>3. unmet' = unmet \ {i}
        BY <2>13, <3>1 DEF Met
      <3>4. rows[i] \in DRow
        BY DEF DummyInv, RowsOK
      <3>5. RowsStand /\ rows'[i].key \in accounts[u].keys /\ (\A j \in DOMAIN rows : rows'[j].users = rows[j].users)
            /\ \A j \in DOMAIN rows \ {i} : rows'[j] = rows[j]
        <4>1. CASE accounts[u].keys \subseteq {rows[i].key}
          <5>1. rows' = rows
            BY <2>13, <3>1, <4>1 DEF Rekeyed
          <5> QED BY <2>4, <4>1, <5>1 DEF RowsStand, Apart
        <4>2. CASE ~(accounts[u].keys \subseteq {rows[i].key})
          <5>1. PICK k \in accounts[u].keys : rows' = [rows EXCEPT ![i].key = k]
            BY <2>13, <3>1, <4>2 DEF Rekeyed
          <5> QED BY <3>4, <5>1 DEF RowsStand, DRow
        <4> QED BY <4>1, <4>2
      <3>6. \A m, j : KnownAs(m, j)' <=> KnownAs(m, j)
        BY <2>13 DEF KnownAs
      <3>7. Tables'
        <4>1. \A j \in DOMAIN rows' \ unmet' : \E m \in There' : KnownAs(m, j)'
          BY <2>2, <2>7, <2>10, <2>13, <3>2, <3>3, <3>5, <3>6 DEF Tables, RowsStand
        <4> QED BY <1>1, <2>2, <2>13, <3>3, <3>5, <4>1 DEF Tables, RowsStand
      <3>8. IsMet(n)' /\ \A m : IsMet(m) => IsMet(m)'
        BY <3>2, <3>3, <3>5, <3>6 DEF IsMet, RowsStand
      <3>9. ASSUME NEW a \in DOMAIN accounts, NEW j \in DOMAIN rows, KeyFits(a, j) \/ (a = u /\ j \notin unmet')
            PROVE  KeyFits(a, j)'
        <4>1. CASE j = i
          BY <1>1, <2>6, <3>2, <3>5, <4>1, ImportedApart DEF KeyFits, RowsStand
        <4>2. CASE j # i /\ KeyFits(a, j)
          BY <1>1, <3>5, <4>2 DEF KeyFits
        <4>3. CASE j # i /\ a = u /\ j \notin unmet'
          <5>1. rows[j].hrn # Imported(n)
            BY <2>2, <3>1, <3>3, <4>3, MetRows DEF KnownAs
          <5> QED BY <1>1, <2>5, <3>5, <4>3, <5>1 DEF KeyFits
        <4> QED BY <3>9, <4>1, <4>2, <4>3
      <3>10. ASSUME NEW a \in DOMAIN accounts, <<"user", a>> \notin left', accounts[a].keys # Void,
                    NEW j \in DOMAIN rows' \ unmet'
             PROVE  KeyFits(a, j)'
        <4>1. j \in DOMAIN rows /\ (j \notin unmet \/ j = i)
          BY <3>3, <3>5 DEF RowsStand
        <4>2. CASE a = u
          BY <3>9, <3>10, <4>1, <4>2
        <4>3. CASE a # u /\ j \notin unmet
          BY <1>1, <2>2, <2>8, <3>9, <3>10, <4>1, <4>3 DEF Brought
        <4>4. CASE a # u /\ j = i
          BY <1>1, <2>6, <3>2, <3>5, <4>4, ImportedApart DEF KeyFits, RowsStand
        <4> QED BY <4>1, <4>2, <4>3, <4>4
      <3>11. Brought'
        BY <1>1, <2>1, <2>5, <2>8, <2>9, <3>8, <3>10, MoreBrought
      <3>12. ASSUME settled > 0 PROVE OneEach' /\ DictsFit'
        <4>1. OneEach /\ DictsFit
          BY <2>1, <3>12 DEF Settling
        <4>2. OneEach'
          BY <1>1, <3>5, <3>9, <4>1, StayOneEach DEF OneEach
        <4>3. ASSUME NEW k \in DOMAIN projects, <<"slice", k>> \notin left' PROVE Linked(k)'
          BY <1>1, <2>9, <3>5, <4>1, <4>3, StayLinked DEF DictsFit, Named, DummyInv
        <4> QED BY <1>1, <2>13, <3>5, <4>1, <4>2, <4>3 DEF DictsFit, RowsStand
      <3> QED BY <1>1, <2>1, <3>7, <3>11, <3>12 DEF Settling
    <2> QED BY <2>3, <2>5, <2>11, <2>12, <2>13
  <1> QED BY <1>2, <1>3

\* A slice is imported as the testbed lists it.
LEMMA NextListed ==
  ASSUME DummyInv, Tables, stage = "import", NEW k \in NextProject
  PROVE  <<"slice", k>> \in left /\ k \in DOMAIN projects /\ Project(k) = projects[k] /\ projects[k].name \in There
  BY NextProjectFacts, ThereFacts DEF Tables, Project

LEMMA AddProjectRowSettling ==
  ASSUME DummyInv, DummyInv', Apart, Settling, AddProjectRow
  PROVE  Settling'
  <1>1. stage = "import" /\ stage' = "import" /\ UNCHANGED <<accounts, projects, listed, left, unmet, calm, settled>>
    BY DEF AddProjectRow, Then, Importing, testbedOf
  <1>2. CASE ~calm'
    BY <1>1, <1>2, Unsettled
  <1>3. CASE calm'
    <2>1. calm /\ Tables
      BY <1>1, <1>3 DEF Settling
    <2>2. PICK k \in NextProject : ~IsKnown(Imported(Project(k).name)) /\ AddRow(Imported(Project(k).name), k, Void)
      BY DEF AddProjectRow
    <2>3. PICK n \in There : n = projects[k].name /\ n = Project(k).name /\ k \in DOMAIN projects
      BY <1>1, <2>1, NextListed
    <2>4. /\ settled = 0
          /\ \A i \in DOMAIN rows' \ unmet : i \notin DOMAIN rows \ unmet =>
               i = lastRow + 1 /\ rows'[i].hrn = Imported(n)
          /\ \A i \in DOMAIN rows : i \in DOMAIN rows' /\ rows'[i] = rows[i]
          /\ Tables' /\ \A m : IsMet(m) => IsMet(m)'
      BY <1>1, <2>1, <2>2, <2>3, AddRowSettling
    <2>5. ASSUME NEW a \in DOMAIN accounts, <<"user", a>> \notin left, accounts[a].keys # Void,
                 NEW i \in DOMAIN rows' \ unmet', rows'[i].hrn = Imported(accounts[a].name)
          PROVE  rows'[i].key \in accounts[a].keys
      <3>1. CASE i \in DOMAIN rows \ unmet
        BY <1>1, <2>1, <2>4, <2>5, <3>1 DEF Settling, Brought, KeyFits
      <3>2. CASE i \notin DOMAIN rows \ unmet
        <4>1. rows'[i].hrn = Imported(n)
          BY <1>1, <2>4, <2>5, <3>2
        <4>2. accounts[a].name = projects[k].name
          BY <2>3, <2>5, <4>1, ImportedApart
        <4> QED BY <2>3, <4>2, ThereFacts
      <3> QED BY <3>1, <3>2
    <2>6. Brought'
      BY <1>1, <2>1, <2>4, <2>5, MoreBrought DEF KeyFits
    <2> QED BY <1>1, <1>3, <2>4, <2>6 DEF Settling
  <1> QED BY <1>2, <1>3

\* The users that a slice gets are one row for each that it lists.
LEMMA SetUsersLinked ==
  ASSUME OneEach, DictsFit, RowsStand, UNCHANGED projects, NEW k \in DOMAIN projects,
         NEW i \in DOMAIN rows, rows[i].hrn = Imported(projects[k].name),
         Linkable(i, projects[k].users),
         rows'[i].users = {byPointer[u] : u \in Seqs!ToSet(projects[k].users)}
  PROVE  Linked(k)'
  <1> DEFINE us == Seqs!ToSet(projects[k].users)
  <1>1. Named({Imported(projects[k].name)})' = {i}
    BY DEF OneEach, RowsStand, Named
  <1>2. projects[k].users # Void /\ \A u \in us : u \in DOMAIN byPointer /\ byPointer[u] \in DOMAIN rows
    BY DEF Linkable
  <1> HIDE DEF us
  <1>3. \A u \in us : byPointer[u] \in DOMAIN rows /\ rows'[byPointer[u]].pointer = u
    BY <1>2 DEF DictsFit, RowsStand
  <1>4. rows'[i].users = {byPointer[u] : u \in us}
    BY DEF us
  <1>5. {rows'[r].pointer : r \in rows'[i].users} = us
    BY <1>3, <1>4
  <1>6. \A r, s \in rows'[i].users : rows'[r].pointer = rows'[s].pointer => r = s
    BY <1>3, <1>4
  <1> QED BY <1>1, <1>2, <1>5, <1>6 DEF Linked, PointersOf, us

LEMMA ImportProjectSettling ==
  ASSUME DummyInv, DummyInv', Apart, Settling, ImportProject
  PROVE  Settling'
  <1>1. stage = "import" /\ UNCHANGED <<accounts, projects>>
    BY DEF ImportProject, Importing, testbedOf
  <1>2. CASE ~calm' /\ (settled' = 0 \/ stage' # "idle")
    BY <1>2, Unsettled
  <1>3. CASE ~(~calm' /\ (settled' = 0 \/ stage' # "idle"))
    <2>1. PICK k \in NextProject :
          /\ IsKnown(Imported(Project(k).name))
          /\ Linkable(byName[Imported(Project(k).name)], Project(k).users)
          /\ SetUsers(byName[Imported(Project(k).name)], Project(k).users)
          /\ Met(byName[Imported(Project(k).name)]) /\ left' = left \ {<<"slice", k>>}
          /\ Then("import")
          /\ UNCHANGED <<byName, byPointer, listed>>
      <3>1. ~Finish(FALSE)
        BY <1>3 DEF Finish
      <3> QED BY <3>1 DEF ImportProject
    <2>2. stage' = "import" /\ calm /\ calm' /\ UNCHANGED <<calm, settled, listed, byName, byPointer>>
      BY <1>3, <2>1 DEF Then
    <2>3. Tables /\ Brought
      BY <2>2 DEF Settling
    <2>4. PICK n \in There : n = projects[k].name /\ k \in DOMAIN projects /\ Project(k) = projects[k]
      BY <1>1, <2>3, NextListed
    <2>5. PICK i \in DOMAIN rows : i = byName[Imported(n)]
      BY <2>1, <2>4 DEF Linkable
    <2>6. KnownAs(n, i) /\ rows[i].hrn = Imported(n)
      BY <2>1, <2>3, <2>4, <2>5, MetRows DEF KnownAs, IsKnown
    <2>7. unmet' = unmet \ {i}
      BY <2>1, <2>4, <2>5 DEF Met
    <2>8. PICK us : us = {byPointer[u] : u \in Seqs!ToSet(projects[k].users)}
      OBVIOUS
    <2>9. rows' = [rows EXCEPT ![i].users = us]
      BY <2>1, <2>4, <2>5, <2>8 DEF SetUsers
    <2>10. rows[i] \in DRow
      BY DEF DummyInv, RowsOK
    <2>11. RowsStand /\ (\A j \in DOMAIN rows : rows'[j].key = rows[j].key) /\ rows'[i].users = us
           /\ \A j \in DOMAIN rows \ {i} : rows'[j].users = rows[j].users
      BY <2>9, <2>10 DEF RowsStand, DRow
    <2>12. There' = There
      BY <1>1 DEF There, Missing
    <2>13. \A m, j : KnownAs(m, j)' <=> KnownAs(m, j)
      BY <2>2 DEF KnownAs
    <2>14. Tables'
      <3>1. \A j \in DOMAIN rows' \ unmet' : \E m \in There' : KnownAs(m, j)'
        BY <2>3, <2>6, <2>7, <2>11, <2>12, <2>13 DEF Tables, RowsStand
      <3> QED BY <1>1, <2>2, <2>3, <2>7, <2>11, <3>1 DEF Tables, RowsStand
    <2>15. IsMet(n)' /\ \A m : IsMet(m) => IsMet(m)'
      BY <2>6, <2>7, <2>11, <2>13 DEF IsMet, RowsStand
    <2>16. \A a, j : j \in DOMAIN rows => (KeyFits(a, j)' <=> KeyFits(a, j))
      BY <1>1, <2>11 DEF KeyFits, RowsStand
    <2>17. \A a \in DOMAIN accounts : KeyFits(a, i)
      BY ZenonT(40), <2>4, <2>6, ImportedApart, ThereFacts DEF KeyFits
    <2>18. \A a : <<"user", a>> \notin left' => <<"user", a>> \notin left
      BY <2>1
    <2>19. \A m : <<"slice", m>> \notin left' => <<"slice", m>> \notin left \/ m = k
      BY <2>1
    <2>20. ASSUME NEW a \in DOMAIN accounts, <<"user", a>> \notin left', accounts[a].keys # Void,
                  NEW j \in DOMAIN rows' \ unmet'
           PROVE  KeyFits(a, j)'
      BY <1>1, <2>3, <2>7, <2>11, <2>16, <2>17, <2>18, <2>20 DEF Brought, RowsStand
    <2>21. Brought'
      BY <1>1, <2>2, <2>4, <2>15, <2>18, <2>19, <2>20, MoreBrought
    <2>22. ASSUME settled > 0 PROVE OneEach' /\ DictsFit'
      <3>1. OneEach /\ DictsFit
        BY <2>2, <2>22 DEF Settling
      <3>2. OneEach'
        BY <1>1, <2>11, <2>16, <3>1, StayOneEach DEF OneEach
      <3>3. ASSUME NEW m \in DOMAIN projects, <<"slice", m>> \notin left' PROVE Linked(m)'
        <4>1. CASE m = k
          BY <1>1, <2>1, <2>4, <2>5, <2>6, <2>8, <2>11, <3>1, <4>1, SetUsersLinked
        <4>2. CASE m # k
          <5>1. Linked(m)
            BY <1>1, <2>19, <3>1, <3>3, <4>2 DEF DictsFit
          <5>2. \A j \in Named({Imported(projects[m].name)}) : j \in DOMAIN rows \ {i}
            BY <2>4, <2>6, <4>2, ImportedApart DEF Named, Apart
          <5> QED BY <1>1, <2>11, <5>1, <5>2, StayLinked DEF DummyInv
        <4> QED BY <4>1, <4>2
      <3> QED BY <1>1, <2>2, <2>11, <3>1, <3>2, <3>3 DEF DictsFit, RowsStand
    <2> QED BY <2>2, <2>14, <2>21, <2>22 DEF Settling
  <1> QED BY <1>2, <1>3

\* When all has been imported, every leaf that is there is met.
LEMMA AllMet ==
  ASSUME DummyInv, Settling, calm, stage = "delete"
  PROVE  \A n \in There : IsMet(n)
  <1>1. left = {} /\ Brought
    BY DEF DummyInv, Reached, Settling
  <1> QED BY <1>1, ThereFacts DEF Brought

LEMMA DeleteUnmetSettling ==
  ASSUME DummyInv, DummyInv', Apart, Settling, DeleteUnmet
  PROVE  Settling'
  <1>1. stage = "delete" /\ UNCHANGED <<accounts, projects>>
    BY DEF DeleteUnmet, Importing, testbedOf
  <1>2. CASE ~calm' /\ (settled' = 0 \/ stage' # "idle")
    BY <1>2, Unsettled
  <1>3. CASE ~(~calm' /\ (settled' = 0 \/ stage' # "idle"))
    <2>1. PICK i \in unmet : i \in DOMAIN rows /\ rows' = Dropped({i}) /\ unmet' = unmet \ {i} /\ Then("delete")
                             /\ UNCHANGED <<byName, listed, left>>
      <3>1. ~Finish(FALSE)
        BY <1>3 DEF Finish
      <3> QED BY <3>1 DEF DeleteUnmet
    <2>2. stage' = "delete" /\ calm /\ calm' /\ UNCHANGED settled
      BY <1>3, <2>1 DEF Then
    <2>3. Tables /\ Brought
      BY <2>2 DEF Settling
    <2>4. \A j \in DOMAIN rows : rows[j] \in DRow
      BY DEF DummyInv, RowsOK
    <2>5. DOMAIN rows' = DOMAIN rows \ {i} /\ \A j \in DOMAIN rows' : rows'[j].hrn = rows[j].hrn /\ rows'[j].key = rows[j].key
      BY <2>1, <2>4 DEF Dropped, DRow
    <2>6. DOMAIN rows' \ unmet' = DOMAIN rows \ unmet
      BY <2>1, <2>5
    <2>7. There' = There
      BY <1>1 DEF There, Missing
    <2>8. \A m, j : KnownAs(m, j)' <=> KnownAs(m, j)
      BY <2>1 DEF KnownAs
    <2>9. Tables'
      <3>1. \A j \in DOMAIN rows' \ unmet' : \E m \in There' : KnownAs(m, j)'
        BY <2>3, <2>6, <2>7, <2>8 DEF Tables
      <3>2. unmet' \subseteq DOMAIN rows'
        BY <2>1, <2>3, <2>5 DEF Tables
      <3> QED BY <1>1, <2>1, <2>2, <2>3, <2>5, <3>1, <3>2 DEF Tables
    <2>10. \A m : IsMet(m)' <=> IsMet(m)
      BY <2>6, <2>8 DEF IsMet
    <2>11. Brought'
      BY <1>1, <2>1, <2>2, <2>3, <2>5, <2>6, <2>10 DEF Brought, KeyFits
    <2>12. settled = 0
      <3>1. SUFFICES ASSUME settled > 0 PROVE FALSE
        BY DEF DummyInv, RunOK
      <3>2. PICK n \in There : rows[i].hrn = Imported(n)
        BY <2>1, <2>2, <3>1 DEF Settling, OneEach
      <3>3. PICK j \in DOMAIN rows \ unmet : KnownAs(n, j)
        BY <1>1, <2>2, AllMet DEF IsMet
      <3>4. rows[j].hrn = Imported(n)
        BY <2>3, <3>3, MetRows
      <3> QED BY <2>1, <2>2, <3>1, <3>2, <3>3, <3>4 DEF Settling, OneEach
    <2> QED BY <2>2, <2>9, <2>11, <2>12 DEF Settling
  <1> QED BY <1>2, <1>3

\* An undisturbed import that ends leaves one row for each leaf.
LEMMA EndRunSettling ==
  ASSUME DummyInv, DummyInv', Apart, Settling, EndRun
  PROVE  Settling'
  <1>1. stage = "delete" /\ unmet = {} /\ stage' = "idle" /\ ~calm' /\ UNCHANGED <<rows, accounts, projects>>
        /\ settled' = IF calm THEN IF settled < 2 THEN settled + 1 ELSE 2 ELSE 0
    BY DEF EndRun, Finish, database, Importing, testbedOf
  <1>2. CASE ~calm
    BY <1>1, <1>2, Unsettled
  <1>3. CASE calm
    <2>1. Tables /\ Brought /\ left = {}
      BY <1>1, <1>3 DEF Settling, DummyInv, Reached
    <2>2. \A i \in DOMAIN rows : \E n \in There : KnownAs(n, i) /\ rows[i].hrn = Imported(n)
      BY <1>1, <2>1, MetRows
    <2>3. \A n \in There : \E i \in DOMAIN rows : rows[i].hrn = Imported(n)
      BY <1>1, <1>3, <2>1, AllMet, MetRows DEF IsMet
    <2>4. \A i, j \in DOMAIN rows : rows[i].hrn = rows[j].hrn => i = j
      BY <2>2, ImportedApart DEF KnownAs
    <2>5. ASSUME NEW a \in DOMAIN accounts, NEW i \in DOMAIN rows PROVE KeyFits(a, i)
      <3>1. CASE accounts[a].keys # Void
        BY <1>1, <2>1, <3>1 DEF Brought
      <3>2. CASE accounts[a].keys = Void
        <4>1. accounts[a].name \notin There
          BY <3>2, ThereFacts DEF Apart
        <4> QED BY <2>2, <4>1, ImportedApart DEF KeyFits
      <3> QED BY <3>1, <3>2
    <2>6. OneEach
      BY <2>2, <2>3, <2>4, <2>5 DEF OneEach
    <2>7. OneEach'
      BY <1>1, <2>6 DEF OneEach, There, Missing, KeyFits
    <2>8. ASSUME settled' = 2 PROVE \A k \in DOMAIN projects : Linked(k)
      <3>1. settled > 0
        BY <1>1, <1>3, <2>8 DEF DummyInv, RunOK
      <3> QED BY <1>1, <1>3, <2>1, <3>1 DEF Settling, DictsFit
    <2>9. settled' = 2 => \A k \in DOMAIN projects' : Linked(k)'
      BY <1>1, <2>8 DEF Linked, Named, PointersOf
    <2> QED BY <1>1, <2>7, <2>9 DEF Settling
  <1> QED BY <1>2, <1>3

\* What every state of a dummy testbed's registry keeps.
DummyKept == DummyInv /\ Apart /\ Settling

LEMMA InitDummyKept == DummyInit => DummyKept
  <1> SUFFICES ASSUME DummyInit PROVE DummyKept
    OBVIOUS
  <1>1. ~calm /\ settled = 0
    BY DEF DummyInit
  <1>2. Settling
    BY <1>1 DEF Settling
  <1> QED BY <1>2, InitDummy, InitApart DEF DummyKept

LEMMA DummyKeptStep == DummyKept /\ [DummyNext]_dummyVars => DummyKept'
  <1> SUFFICES ASSUME DummyKept, [DummyNext]_dummyVars PROVE DummyKept'
    OBVIOUS
  <1>1. DummyInv /\ Apart /\ Settling
    BY DEF DummyKept
  <1>2. DummyInv' /\ Apart'
    BY <1>1, DummyStepInv, DummyApart
  <1>3. CASE Calling
    <2>1. Disturb
      BY <1>3 DEF Calling, Enrol, Change, Withdraw, Ask, TakeObject, AddKey, CommitRow, TouchObject, CommitChange,
                  Relate, ApplyChange, Erase, DropRow, ServerFails, Nuke, ByServer
    <2> QED BY <1>2, <2>1, Unsettled DEF Disturb, DummyKept
  <1>4. CASE UNCHANGED dummyVars
    <2>1. UNCHANGED <<rows, accounts, projects, stage, byName, byPointer, unmet, listed, left, calm, settled>>
      BY <1>4 DEF dummyVars, database, testbedOf, tablesOf
    <2>2. \A k : Linked(k)' <=> Linked(k)
      BY <2>1 DEF Linked, Named, PointersOf
    <2>3. (Tables' <=> Tables) /\ (Brought' <=> Brought)
      BY <2>1 DEF Tables, Brought, IsMet, KnownAs, KeyFits, There, Missing
    <2>4. (OneEach' <=> OneEach) /\ (DictsFit' <=> DictsFit)
      BY <2>1, <2>2 DEF OneEach, DictsFit, KeyFits, There, Missing
    <2>5. Settling'
      BY <1>1, <2>1, <2>2, <2>3, <2>4 DEF Settling
    <2> QED BY <1>2, <2>5 DEF DummyKept
  <1>5. ASSUME QueryRows \/ ListAccounts \/ ListProjects \/ ImportSite \/ ImportAccount \/ AddProjectRow
               \/ ImportProject \/ LoadAgain \/ DeleteUnmet \/ EndRun
        PROVE  Settling'
    BY <1>1, <1>2, <1>5, QueryRowsSettling, ListAccountsSettling, ListProjectsSettling, ImportSiteSettling,
       ImportAccountSettling, AddProjectRowSettling, ImportProjectSettling, LoadAgainSettling, DeleteUnmetSettling,
       EndRunSettling
  <1> QED BY <1>2, <1>3, <1>4, <1>5, Zenon DEF DummyNext, DummyKept

\* An import that is over settles what the invariant says of it.
LEMMA DummySettles ==
  ASSUME DummyKept
  PROVE  DummyImportSettles
  <1> SUFFICES ASSUME stage = "idle", settled > 0 PROVE
        /\ \A i \in DOMAIN rows : rows[i].hrn = Imported(Leaf(rows[i].hrn))
        /\ \A n \in Leaves :
             Cardinality(Named({Imported(n)})) = IF n \in Missing(accounts, projects) THEN 0 ELSE 1
        /\ \A a \in DOMAIN accounts : \A i \in Named({Imported(accounts[a].name)}) : rows[i].key \in accounts[a].keys
        /\ settled = 2 =>
             \A k \in DOMAIN projects : \A i \in Named({Imported(projects[k].name)}) :
               /\ PointersOf(i) = Seqs!ToSet(projects[k].users)
               /\ Cardinality(rows[i].users) = Cardinality(PointersOf(i))
    BY DEF DummyImportSettles, Leaves
  <1>1. OneEach
    BY DEF DummyKept, Settling
  <1>2. \A i \in DOMAIN rows : rows[i].hrn = Imported(Leaf(rows[i].hrn))
    BY <1>1 DEF OneEach, Imported, Leaf
  <1>3. ASSUME NEW n \in Leaves
        PROVE  Cardinality(Named({Imported(n)})) = IF n \in Missing(accounts, projects) THEN 0 ELSE 1
    <2>1. CASE n \in Missing(accounts, projects)
      <3>1. Named({Imported(n)}) = {}
        BY <1>1, <2>1, ImportedApart DEF OneEach, Named, There
      <3> QED BY <2>1, <3>1, FS_EmptySet
    <2>2. CASE n \notin Missing(accounts, projects)
      <3>1. PICK i \in DOMAIN rows : rows[i].hrn = Imported(n)
        BY <1>1, <2>2 DEF OneEach, There
      <3>2. Named({Imported(n)}) = {i}
        BY <1>1, <3>1 DEF OneEach, Named
      <3> QED BY <2>2, <3>2, FS_Singleton
    <2> QED BY <2>1, <2>2
  <1>4. \A a \in DOMAIN accounts : \A i \in Named({Imported(accounts[a].name)}) : rows[i].key \in accounts[a].keys
    BY <1>1 DEF OneEach, KeyFits, Named
  <1>5. ASSUME settled = 2, NEW k \in DOMAIN projects, NEW i \in Named({Imported(projects[k].name)})
        PROVE  /\ PointersOf(i) = Seqs!ToSet(projects[k].users)
               /\ Cardinality(rows[i].users) = Cardinality(PointersOf(i))
    <2>1. /\ PointersOf(i) = Seqs!ToSet(projects[k].users)
          /\ \A r, s \in rows[i].users : rows[r].pointer = rows[s].pointer => r = s
      BY <1>5 DEF DummyKept, Settling, Linked
    <2>2. rows[i].users \subseteq 1 .. lastRow /\ lastRow \in Nat
      BY DEF DummyKept, DummyInv, RowsOK, Named
    <2>3. IsFiniteSet(rows[i].users)
      BY <2>2, FS_Interval, FS_Subset, 1 \in Int, lastRow \in Int
    <2> DEFINE f == [r \in rows[i].users |-> rows[r].pointer]
    <2>4. f \in Bijection(rows[i].users, PointersOf(i))
      BY <2>1 DEF PointersOf, Bijection, Injection, Surjection, IsInjective
    <2>5. ExistsBijection(rows[i].users, PointersOf(i))
      BY <2>4 DEF ExistsBijection
    <2> QED BY <2>1, <2>3, <2>5, FS_Bijection
  <1> QED BY <1>2, <1>3, <1>4, <1>5

-----------------------------------------------------------------------------
(* Both flavours                                                             *)

\* What every state of either importer keeps: each step is one flavour's, and
\* leaves the other's variables alone.
ImportersInv == ImportInv /\ DummyInv

LEMMA ImportersStep == ImportersInv /\ [ImportersNext]_importersVars => ImportersInv'
  <1> SUFFICES ASSUME ImportersInv, [ImportersNext]_importersVars PROVE ImportersInv'
    OBVIOUS
  <1>1. [ImporterNext]_allVars /\ [DummyNext]_dummyVars
    BY Zenon DEF ImportersNext, WithPl, WithDummy, importersVars
  <1> QED BY <1>1, ImporterInv, DummyStepInv DEF ImportersInv

LEMMA ImportersAlways == ImportersSpec => []ImportersInv
  <1>1. ImportersInit => ImportersInv
    BY InitImport, InitDummy DEF ImportersInit, ImportersInv
  <1> QED BY <1>1, ImportersStep, PTL DEF ImportersSpec

\* Whatever the flavour, and however calls, failures and imports interleave:
\* the database, the testbed, the call that is served and all the importer has
\* read keep their types, and its stale rows are rows it read.
THEOREM ImportersTyped == ImportersSpec => []ImportersTypeOK
  <1>1. ImportersInv => ImportersTypeOK
    <2> SUFFICES ASSUME ImportersInv PROVE ImportersTypeOK
      OBVIOUS
    <2>1. TypeOK
      BY DEF ImportersInv, ImportInv, IInv, StoresOK, WorkersOK, HistoryOK, TypeOK
    <2>2. ImporterTypeOK
      BY <2>1 DEF ImportersInv, ImportInv, TablesOK, ImporterTypeOK
    <2>3. \A i \in DOMAIN rows : /\ rows[i].hrn \in Hrns \cup {Imported(n) : n \in Accounts \cup Projects}
                                 /\ rows[i].key \in {Void} \cup PublicKeys \cup FirstKeys
      BY DEF ImportersInv, DummyInv, RowsOK, DRow, Known, Leaves, Keyring
    <2>4. call # Void => call.op \in {"Register", "Update", "Remove"}
      BY DEF ImportersInv, DummyInv, CallOK, Call
    <2>5. DummyImportTypeOK
      BY <2>3, <2>4 DEF ImportersInv, DummyInv, RowsOK, PeopleOK, CallOK, RunOK, DummyImportTypeOK
    <2> QED BY <2>2, <2>5 DEF ImportersTypeOK
  <1> QED BY <1>1, ImportersAlways, PTL

\* Whatever the flavour: an import deletes no record of something that was on
\* the testbed all the time and that it did not fail to import, unless it is not
\* the record that it found under that name; so no call that is served while the
\* importer runs loses its record.
THEOREM RecordsAreKept == ImportersSpec => RecordsKept
  <1>1. ImportersInv /\ [ImportersNext]_importersVars => LivingKeptStep /\ StaleOnlyStep
    <2> SUFFICES ASSUME ImportersInv, [ImportersNext]_importersVars PROVE LivingKeptStep /\ StaleOnlyStep
      OBVIOUS
    <2>1. [ImporterNext]_allVars
      BY Zenon DEF ImportersNext, WithPl, WithDummy, importersVars
    <2> QED BY <2>1, LivingKeptHolds, StaleOnlyHolds DEF ImportersInv
  <1>2. ImportersSpec => [][LivingKeptStep]_allVars /\ [][StaleOnlyStep]_dummyVars
    BY <1>1, ImportersAlways, PTL DEF ImportersSpec
  <1> QED BY <1>2, PTL DEF RecordsKept, LivingKept, StaleOnly, LivingKeptStep, StaleOnlyStep
=============================================================================
