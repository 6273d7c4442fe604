----------------------------- MODULE RepairProofs -----------------------------
(***************************************************************************)
(* That an import repairs the registry, for any names, keys, accounts,     *)
(* workers and bounds: what failed, overlapping or half-done calls left    *)
(* there is as the testbed has it after an import that nothing disturbs,   *)
(* or after two of them on a dummy testbed.  For PlanetLab the argument    *)
(* is that pointers and rows keep their names, that the two dictionaries   *)
(* of the importer follow the rows, and that what is imported has its      *)
(* row.  For a dummy testbed it is in ImporterProofs.                      *)
(***************************************************************************)
EXTENDS ImporterProofs

-----------------------------------------------------------------------------
(* PlanetLab: names, members and jobs                                        *)

\* A pointer is of one name, wherever it is kept, and so is the id of a row; an
\* id that is still to be given has none.
Bears(p, n) ==
    \/ testbed[p] # None /\ testbed[p].name = n
    \/ seen[p] # None /\ seen[p].name = n
    \/ \E i \in Id : db[i] # None /\ db[i].pointer = p /\ db[i].hrn = n
    \/ \E w \in Workers : pc[w] # "idle" /\ ptr[w] = p /\ job[w].hrn = n
RowBears(i, n) ==
    \/ db[i] # None /\ db[i].hrn = n
    \/ known[n] = i
    \/ \E w \in Workers : pc[w] # "idle" /\ job[w].row = i /\ job[w].hrn = n
OneName ==
    /\ \A p \in Id : \A m, n \in Names : Bears(p, m) /\ Bears(p, n) => m = n
    /\ \A i \in Id : \A m, n \in Names : RowBears(i, m) /\ RowBears(i, n) => m = n
    /\ \A n \in Names : (\A p \in Awaited : ~Bears(p, n)) /\ (\A i \in Unused : ~RowBears(i, n))

\* The members of a slice, and those that a worker puts on one, are users.
IsMember(q) ==
    \/ \E p \in Id : testbed[p] # None /\ q \in testbed[p].members
    \/ \E w \in Workers : q \in add[w]
UserMembers == \A q \in Id : IsMember(q) => q \notin Awaited /\ \A n \in Slices : ~Bears(q, n)

\* The testbed has a name once.
OneObject ==
    \A p, q \in Id : testbed[p] # None /\ testbed[q] # None /\ testbed[p].name = testbed[q].name => p = q

\* Only slices have researchers, or members, and only a request on a slice
\* names researchers.
SlicesOnly ==
    /\ \A i \in Id : db[i] # None /\ db[i].hrn \in Users => db[i].researchers = {}
    /\ \A p \in Id : testbed[p] # None /\ testbed[p].name \in Users => testbed[p].members = {}
ForSlices(w) ==
    /\ pc[w] # "idle" /\ job[w].users # None => job[w].hrn \in Slices
    /\ link[w] # {} => pc[w] # "idle" /\ job[w].users # None
    /\ pc[w] \in {"link", "flush", "lookup", "compare", "apply"} => job[w].users # None
    /\ pc[w] = "idle" => ptr[w] = None

Orderly == OneName /\ UserMembers /\ OneObject /\ SlicesOnly /\ \A w \in Workers : ForSlices(w)

-----------------------------------------------------------------------------
(* PlanetLab: what an undisturbed import leaves                              *)

Present == {n \in Names : \E p \in Id : testbed[p] # None /\ testbed[p].name = n}

\* What the importer has seen is what is on the testbed.
SeenAll ==
    /\ phase \in {"sites", "persons"} => \A p \in Id : seen[p] = None
    /\ phase \in {"persons", "slices"} => todo = {p \in Id : testbed[p] # None}
    /\ phase = "slices" =>
         \A p \in Id : seen[p] = IF testbed[p] # None /\ testbed[p].name \in Users THEN testbed[p] ELSE None
    /\ phase \in {"import", "delete"} => \A p \in Id : seen[p] = testbed[p]

\* Its two dictionaries: the row known under a name has it, and the row located
\* under a pointer is that one when there is one.
InDicts ==
    /\ \A n \in Names : known[n] # None =>
         IF db[known[n]] = None THEN phase = "delete"
         ELSE db[known[n]].hrn = n /\ located[db[known[n]].pointer] = known[n]
    /\ \A q \in Id : located[q] # None =>
         IF db[located[q]] = None THEN phase = "delete" ELSE db[located[q]].pointer = q
    /\ \A i \in Id : db[i] # None =>
         /\ located[db[i].pointer] # None
         /\ phase # "delete" => known[db[i].hrn] # None

\* A row that is not stale is known for a name that is there, and what has been
\* imported has such a row, as it should be.
NotStale == \A i \in Id : db[i] # None /\ i \notin stale => \E n \in Present : known[n] = i
KeyRight(p, i) ==
    testbed[p].name \in Users =>
      IF testbed[p].keys = {} THEN db[i].key = None ELSE db[i].key \in testbed[p].keys
ResearchersRight(p, i) ==
    testbed[p].name \in Slices =>
      Todo(Users) = {} /\ db[i].researchers = {r \in Located(p) : db[r] # None}
Fine(p) ==
    LET i == known[testbed[p].name]
    IN  i # None /\ i \notin stale /\ db[i] # None /\ KeyRight(p, i) /\ ResearchersRight(p, i)
AllFine == phase \in {"import", "delete"} => \A p \in Id : testbed[p] # None /\ p \notin todo => Fine(p)

\* What ImportRepairs says of one name.
Repaired(n) ==
    /\ Cardinality(RowsOf({n})) = Cardinality(ObjectsOf(n))
    /\ \A i \in RowsOf({n}), p \in ObjectsOf(n) :
         /\ n \in Users => IF testbed[p].keys = {} THEN db[i].key = None
                             ELSE db[i].key \in testbed[p].keys
         /\ {db[r].pointer : r \in db[i].researchers} = Recorded(testbed[p].members)

OnCourse == SeenAll /\ InDicts /\ NotStale /\ AllFine
Undisturbed == quiet => ImportRepairs /\ (phase # "idle" => OnCourse)

PlKept == ImportInv /\ Orderly /\ Undisturbed

-----------------------------------------------------------------------------
(* PlanetLab: names stay in order                                            *)

\* A claim on a name that is not new, or is the first of its pointer or row.
Claims(p, n, m) == Bears(p, n) \/ (p \in Awaited /\ p \notin Awaited' /\ n = m)
RowClaims(i, n, m) == RowBears(i, n) \/ (i \in Unused /\ i \notin Unused' /\ n = m)

\* Every claim after a step, when it gives one name, m, to new ids.
NamesFrom(m) ==
    /\ Awaited' \subseteq Awaited /\ Unused' \subseteq Unused
    /\ \A p \in Id : testbed'[p] # None => Claims(p, testbed'[p].name, m)
    /\ \A p \in Id : seen'[p] # None => Bears(p, seen'[p].name)
    /\ \A i \in Id : db'[i] # None => /\ Bears(db'[i].pointer, db'[i].hrn)
                                      /\ RowClaims(i, db'[i].hrn, m)
    /\ \A w \in Workers : pc'[w] # "idle" => /\ ptr'[w] # None => Claims(ptr'[w], job'[w].hrn, m)
                                             /\ RowClaims(job'[w].row, job'[w].hrn, m)
    /\ \A n \in Names : known'[n] # None => RowClaims(known'[n], n, m)
ObjectsFrom(r) ==
    \A p \in Id : testbed'[p] # None =>
        \/ testbed[p] # None /\ testbed'[p].name = testbed[p].name
        \/ p = r /\ testbed'[p].name \in Absent(testbed)
MembersFrom == \A q \in Id : IsMember(q)' => IsMember(q) \/ \E n \in Users : Bears(q, n)

LEMMA BearsFrom ==
  ASSUME NEW m, NamesFrom(m), NEW p \in Id, NEW n \in Names, Bears(p, n)'
  PROVE  Claims(p, n, m)
  <1>1. CASE testbed'[p] # None /\ testbed'[p].name = n
    BY <1>1 DEF NamesFrom
  <1>2. CASE seen'[p] # None /\ seen'[p].name = n
    BY <1>2 DEF NamesFrom, Claims
  <1>3. CASE \E i \in Id : db'[i] # None /\ db'[i].pointer = p /\ db'[i].hrn = n
    BY <1>3 DEF NamesFrom, Claims
  <1>4. CASE \E w \in Workers : pc'[w] # "idle" /\ ptr'[w] = p /\ job'[w].hrn = n
    BY <1>4, IdFacts DEF NamesFrom
  <1> QED BY <1>1, <1>2, <1>3, <1>4 DEF Bears

LEMMA OneNameKept ==
  ASSUME ImportInv, OneName, NEW m, NamesFrom(m)
  PROVE  OneName'
  <1>1. \A p \in Id : \A n \in Names : Bears(p, n)' => Claims(p, n, m)
    BY BearsFrom
  <1>2. ASSUME NEW i \in Id, NEW n \in Names, RowBears(i, n)' PROVE RowClaims(i, n, m)
    BY <1>2, IdFacts DEF NamesFrom, RowBears
  <1>3. \A p \in Id : \A a, b \in Names : Bears(p, a)' /\ Bears(p, b)' => a = b
    <2> SUFFICES ASSUME NEW p \in Id, NEW a \in Names, NEW b \in Names, Bears(p, a)', Bears(p, b)'
                 PROVE  a = b
      OBVIOUS
    <2>1. Claims(p, a, m) /\ Claims(p, b, m)
      BY <1>1
    <2>2. p \in Awaited => ~Bears(p, a) /\ ~Bears(p, b)
      BY DEF OneName
    <2>3. Bears(p, a) /\ Bears(p, b) => a = b
      BY DEF OneName
    <2> QED BY <2>1, <2>2, <2>3 DEF Claims
  <1>4. \A i \in Id : \A a, b \in Names : RowBears(i, a)' /\ RowBears(i, b)' => a = b
    <2> SUFFICES ASSUME NEW i \in Id, NEW a \in Names, NEW b \in Names, RowBears(i, a)', RowBears(i, b)'
                 PROVE  a = b
      OBVIOUS
    <2>1. RowClaims(i, a, m) /\ RowClaims(i, b, m)
      BY <1>2
    <2>2. i \in Unused => ~RowBears(i, a) /\ ~RowBears(i, b)
      BY DEF OneName
    <2>3. RowBears(i, a) /\ RowBears(i, b) => a = b
      BY DEF OneName
    <2> QED BY <2>1, <2>2, <2>3 DEF RowClaims
  <1>5. ASSUME NEW n \in Names, NEW p \in Awaited', p \in Id PROVE ~Bears(p, n)'
    <2>1. p \in Awaited /\ ~Bears(p, n)
      BY <1>5 DEF NamesFrom, OneName
    <2> QED BY <1>1, <1>5, <2>1 DEF Claims
  <1>6. ASSUME NEW n \in Names, NEW i \in Unused', i \in Id PROVE ~RowBears(i, n)'
    <2>1. i \in Unused /\ ~RowBears(i, n)
      BY <1>6 DEF NamesFrom, OneName
    <2> QED BY <1>2, <1>6, <2>1 DEF RowClaims
  <1>7. \A p \in Awaited' : p \in Id
    BY AwaitedType DEF ImportInv, NamesFrom, Awaited
  <1>8. \A i \in Unused' : i \in Id
    BY AwaitedType DEF ImportInv, NamesFrom
  <1> QED BY <1>3, <1>4, <1>5, <1>6, <1>7, <1>8 DEF OneName


LEMMA UserMembersKept ==
  ASSUME Orderly, NEW m, NamesFrom(m), MembersFrom
  PROVE  UserMembers'
  <1> SUFFICES ASSUME NEW q \in Id, IsMember(q)'
               PROVE  q \notin Awaited' /\ \A n \in Slices : ~Bears(q, n)'
    BY DEF UserMembers
  <1>1. \A n \in Names : Bears(q, n)' => Claims(q, n, m)
    <2> SUFFICES ASSUME NEW n \in Names, Bears(q, n)' PROVE Claims(q, n, m)
      OBVIOUS
    <2> QED BY BearsFrom
  <1>2. q \notin Awaited /\ \A n \in Slices : ~Bears(q, n)
    <2>1. CASE IsMember(q)
      BY <2>1 DEF Orderly, UserMembers
    <2>2. CASE \E n \in Users : Bears(q, n)
      BY <2>2, IdFacts DEF Orderly, OneName
    <2> QED BY <2>1, <2>2 DEF MembersFrom
  <1> QED BY <1>1, <1>2, IdFacts DEF Claims, NamesFrom

LEMMA OneObjectKept ==
  ASSUME OneObject, NEW r, ObjectsFrom(r)
  PROVE  OneObject'
  BY DEF OneObject, ObjectsFrom, Absent

\* What a worker that has a request does to names: it finds, makes or drops an
\* object of the name of its request, and writes or drops its own row.
LinkLabels == {"link", "flush", "lookup", "compare", "apply"}
OthersRest(w) ==
    \A v \in Workers \ {w} : /\ pc'[v] = pc[v] /\ job'[v] = job[v] /\ ptr'[v] = ptr[v]
                             /\ link'[v] = link[v] /\ add'[v] = add[v]
SameRequest(w) ==
    /\ pc'[w] # "idle" =>
         /\ job'[w] = job[w]
         /\ \/ ptr'[w] \in {None, ptr[w]}
            \/ ptr'[w] \in Id /\ Bears(ptr'[w], job[w].hrn)
            \/ pc[w] = "make" /\ ptr'[w] = job[w].row /\ testbed'[job[w].row] # None
         /\ link'[w] # {} => link[w] # {} \/ job[w].users # None
         /\ pc'[w] \in LinkLabels => job[w].users # None
    /\ pc'[w] = "idle" => ptr'[w] = None /\ link'[w] = {}
    /\ \A q \in add'[w] : q \in add[w] \/ \E n \in Users : Bears(q, n)
SameObjects(w) ==
    \A p \in Id : testbed'[p] # None =>
        \/ /\ testbed[p] # None /\ testbed'[p].name = testbed[p].name
           /\ \/ testbed'[p].members \subseteq testbed[p].members
              \/ /\ pc[w] = "apply" /\ p = ptr[w]
                 /\ testbed'[p].members \subseteq testbed[p].members \cup add[w]
        \/ /\ pc[w] = "make" /\ p = job[w].row
           /\ testbed'[p] = NewObject(job[w].hrn) /\ job[w].hrn \in Absent(testbed)
SameRows(w) ==
    \A i \in Id : db'[i] # None =>
        \/ /\ db[i] # None /\ db'[i].hrn = db[i].hrn /\ db'[i].pointer = db[i].pointer
           /\ \/ db'[i].researchers \subseteq db[i].researchers
              \/ i = job[w].row /\ db'[i].researchers \subseteq db[i].researchers \cup link[w]
        \/ /\ pc[w] = "insert" /\ i = job[w].row
           /\ db'[i].hrn = job[w].hrn /\ db'[i].pointer = ptr[w] /\ db'[i].researchers = link[w]
Forward(w) == OthersRest(w) /\ SameRequest(w) /\ SameObjects(w) /\ SameRows(w)

LEMMA OnwardIds ==
  ASSUME Onward
  PROVE  Unused' = Unused /\ Awaited' \subseteq Awaited
  <1>1. \A v \in Workers : pc'[v] \in MakeLabels => pc[v] \in MakeLabels /\ job'[v].row = job[v].row
    BY DEF Onward, PcsOnward, MakeLabels, Inserting
  <1>2. Making' \subseteq Making
    BY <1>1 DEF Making, MakeLabels
  <1>3. Unused' = Unused
    BY DEF Onward, Unused
  <1> QED BY <1>2, <1>3 DEF Awaited

LEMMA ForwardNames ==
  ASSUME ImportInv, Orderly, NEW w \in Workers, pc[w] # "idle", Onward, NewIds', Forward(w), UNCHANGED <<seen, known>>
  PROVE  NamesFrom(job[w].hrn)
  <1> DEFINE m == job[w].hrn
  <1>1. Unused' = Unused /\ Awaited' \subseteq Awaited
    BY OnwardIds
  <1>2. job[w].row \in Id /\ m \in Names
    BY JobType DEF ImportInv, IInv
  <1>3. \A p \in Id : testbed[p] # None => Bears(p, testbed[p].name)
    BY DEF Bears
  <1>4. \A p \in Id : testbed'[p] # None => p \notin Awaited'
    BY DEF NewIds
  <1>5. pc[w] = "make" => job[w].row \in Awaited
    BY DEF Awaited, Making
  <1>6. \A p \in Id : testbed'[p] # None => Claims(p, testbed'[p].name, m)
    BY <1>3, <1>4, <1>5 DEF Forward, SameObjects, NewObject, Claims
  <1>7. \A p \in Id : seen'[p] # None => Bears(p, seen'[p].name)
    BY DEF Bears
  <1>8. \A i \in Id : db[i] # None => Bears(db[i].pointer, db[i].hrn) /\ RowBears(i, db[i].hrn)
    BY DEF Bears, RowBears
  <1>9. RowBears(job[w].row, m)
    BY DEF RowBears
  <1>10. ptr[w] # None => Bears(ptr[w], m)
    BY DEF Bears
  <1>11. pc[w] = "insert" => ptr[w] # None
    BY IdFacts DEF ImportInv, IInv, WorkersOK, Control, Holds
  <1>12. \A i \in Id : db'[i] # None => Bears(db'[i].pointer, db'[i].hrn) /\ RowClaims(i, db'[i].hrn, m)
    BY <1>8, <1>9, <1>10, <1>11 DEF Forward, SameRows, RowClaims
  <1>13. \A v \in Workers : pc[v] # "idle" => /\ ptr[v] # None => Bears(ptr[v], job[v].hrn)
                                              /\ RowBears(job[v].row, job[v].hrn)
    BY DEF Bears, RowBears
  <1>14. pc'[w] # "idle" => /\ ptr'[w] # None => Claims(ptr'[w], job'[w].hrn, m)
                            /\ RowClaims(job'[w].row, job'[w].hrn, m)
    BY <1>2, <1>4, <1>5, <1>9, <1>10 DEF Forward, SameRequest, Claims, RowClaims
  <1>15. \A v \in Workers : pc'[v] # "idle" => /\ ptr'[v] # None => Claims(ptr'[v], job'[v].hrn, m)
                                               /\ RowClaims(job'[v].row, job'[v].hrn, m)
    BY <1>13, <1>14 DEF Forward, OthersRest, Claims, RowClaims
  <1>16. \A n \in Names : known'[n] # None => RowClaims(known'[n], n, m)
    BY DEF RowClaims, RowBears
  <1> QED BY <1>1, <1>6, <1>7, <1>12, <1>15, <1>16 DEF NamesFrom

LEMMA ForwardMembers ==
  ASSUME ImportInv, Orderly, NEW w \in Workers, Forward(w)
  PROVE  MembersFrom
  <1> SUFFICES ASSUME NEW q \in Id, IsMember(q)' PROVE IsMember(q) \/ \E n \in Users : Bears(q, n)
    BY DEF MembersFrom
  <1>1. CASE \E p \in Id : testbed'[p] # None /\ q \in testbed'[p].members
    <2>1. PICK p \in Id : testbed'[p] # None /\ q \in testbed'[p].members
      BY <1>1
    <2>2. NewObject(job[w].hrn).members = {}
      BY DEF NewObject
    <2>3. (testbed[p] # None /\ q \in testbed[p].members) \/ q \in add[w]
      BY <2>1, <2>2 DEF Forward, SameObjects
    <2> QED BY <2>3 DEF IsMember
  <1>2. CASE \E v \in Workers : q \in add'[v]
    <2>1. PICK v \in Workers : q \in add'[v]
      BY <1>2
    <2> QED BY <2>1 DEF Forward, OthersRest, SameRequest, IsMember
  <1> QED BY <1>1, <1>2 DEF IsMember

LEMMA ForwardSlices ==
  ASSUME ImportInv, Orderly, NEW w \in Workers, pc[w] # "idle", Forward(w)
  PROVE  SlicesOnly' /\ \A v \in Workers : ForSlices(v)'
  <1> DEFINE m == job[w].hrn
  <1>1. \A v \in Workers : ForSlices(v)
    BY DEF Orderly
  <1>2. job[w].row \in Id /\ m \in Names /\ RowBears(job[w].row, m)
    BY JobType DEF ImportInv, IInv, RowBears
  <1>3. \A n \in Slices : n \notin Users
    BY IdFacts
  <1>4. ASSUME NEW i \in Id, db'[i] # None, db'[i].hrn \in Users PROVE db'[i].researchers = {}
    <2>1. CASE /\ db[i] # None /\ db'[i].hrn = db[i].hrn
               /\ db'[i].researchers \subseteq db[i].researchers
      BY <1>4, <2>1 DEF Orderly, SlicesOnly
    <2>2. CASE /\ db[i] # None /\ db'[i].hrn = db[i].hrn /\ i = job[w].row
               /\ db'[i].researchers \subseteq db[i].researchers \cup link[w]
      <3>1. db[i].researchers = {} /\ RowBears(i, db[i].hrn) /\ db[i].hrn \in Names
        BY <1>4, <2>2, IdFacts DEF Orderly, SlicesOnly, RowBears
      <3>2. db[i].hrn = m
        BY <1>2, <2>2, <3>1 DEF Orderly, OneName
      <3>3. link[w] = {}
        BY <1>1, <1>3, <1>4, <2>2, <3>2 DEF ForSlices
      <3> QED BY <2>2, <3>1, <3>3
    <2>3. CASE db'[i].hrn = m /\ db'[i].researchers = link[w]
      BY <1>1, <1>3, <1>4, <2>3 DEF ForSlices
    <2> QED BY <1>4, <2>1, <2>2, <2>3 DEF Forward, SameRows
  <1>5. ASSUME NEW p \in Id, testbed'[p] # None, testbed'[p].name \in Users PROVE testbed'[p].members = {}
    <2>1. CASE /\ testbed[p] # None /\ testbed'[p].name = testbed[p].name
               /\ testbed'[p].members \subseteq testbed[p].members
      BY <1>5, <2>1 DEF Orderly, SlicesOnly
    <2>2. CASE testbed[p] # None /\ testbed'[p].name = testbed[p].name /\ pc[w] = "apply" /\ p = ptr[w]
      <3>1. Bears(p, testbed[p].name) /\ Bears(p, m)
        BY <2>2 DEF Bears
      <3>2. m = testbed[p].name
        BY <1>2, <1>5, <2>2, <3>1, IdFacts DEF Orderly, OneName
      <3> QED BY <1>1, <1>3, <1>5, <2>2, <3>2 DEF ForSlices
    <2>3. CASE testbed'[p] = NewObject(m)
      BY <2>3 DEF NewObject
    <2> QED BY <1>5, <2>1, <2>2, <2>3 DEF Forward, SameObjects
  <1>6. \A v \in Workers \ {w} : ForSlices(v)'
    BY <1>1 DEF Forward, OthersRest, ForSlices
  <1>7. ForSlices(w)'
    BY <1>1 DEF Forward, SameRequest, ForSlices, LinkLabels
  <1> QED BY <1>4, <1>5, <1>6, <1>7 DEF SlicesOnly

LEMMA ForwardOrderly ==
  ASSUME ImportInv, Orderly, NEW w \in Workers, pc[w] # "idle", Onward, NewIds', Forward(w), UNCHANGED <<seen, known>>
  PROVE  Orderly'
  <1>1. NamesFrom(job[w].hrn)
    BY ForwardNames
  <1>2. ObjectsFrom(job[w].row)
    BY DEF Forward, SameObjects, ObjectsFrom, NewObject
  <1>3. OneName' /\ OneObject'
    BY <1>1, <1>2, OneNameKept, OneObjectKept DEF Orderly
  <1>4. UserMembers'
    BY <1>1, ForwardMembers, UserMembersKept
  <1> QED BY <1>3, <1>4, ForwardSlices DEF Orderly

LEMMA IdleForward ==
  ASSUME IInv, NEW w \in Workers, Idle(w)
  PROVE  OthersRest(w) /\ SameRequest(w)
  BY DEF IInv, WorkersOK, Idle, Goto, OthersRest, SameRequest

LEMMA StoresForward ==
  ASSUME UNCHANGED stores, NEW w \in Workers
  PROVE  SameObjects(w) /\ SameRows(w)
  BY DEF stores, SameObjects, SameRows

LEMMA AbortForward ==
  ASSUME IInv, NEW w \in Workers, Abort(w)
  PROVE  Forward(w)
  BY IdleForward, StoresForward DEF Abort, Forward

\* A worker goes on with its request, and its pointer is what it was or None.
LEMMA GoesForward ==
  ASSUME IInv, NEW w \in Workers, ForSlices(w), NEW label \in Label, Goto(w, label), label # "idle",
         label \in LinkLabels => job[w].users # None,
         UNCHANGED <<job, link>>, ptr' = ptr \/ ptr' = [ptr EXCEPT ![w] = None],
         add' = add \/ (\E new : add' = [add EXCEPT ![w] = new] /\ new \subseteq add[w])
  PROVE  OthersRest(w) /\ SameRequest(w)
  <1>1. \A v \in Workers : pc'[v] = IF v = w THEN label ELSE pc[v]
    BY DEF Goto, IInv, WorkersOK
  <1>2. \A v \in Workers : ptr'[v] = ptr[v] \/ (v = w /\ ptr'[w] = None)
    BY DEF IInv, WorkersOK
  <1>3. \A v \in Workers : add'[v] = add[v] \/ (v = w /\ add'[w] \subseteq add[w])
    BY DEF IInv, WorkersOK
  <1>4. OthersRest(w)
    BY <1>1, <1>2, <1>3 DEF OthersRest
  <1>5. \A q \in add'[w] : q \in add[w]
    BY <1>3
  <1> QED BY <1>1, <1>2, <1>4, <1>5 DEF SameRequest

\* An object that keeps its members, or loses some.
LEMMA ObjectForward ==
  ASSUME IInv, NEW w \in Workers, NEW p \in Id, testbed[p] # None,
         \/ testbed' = testbed
         \/ \E ks : testbed' = [testbed EXCEPT ![p].keys = ks]
         \/ \E ms : testbed' = [testbed EXCEPT ![p].members = ms] /\ ms \subseteq testbed[p].members
         \/ \E ms : /\ testbed' = [testbed EXCEPT ![p].members = ms] /\ ms \subseteq testbed[p].members \cup add[w]
                    /\ pc[w] = "apply" /\ p = ptr[w]
  PROVE  SameObjects(w)
  BY DEF IInv, StoresOK, Object, SameObjects

LEMMA RowsForward == ASSUME UNCHANGED db, NEW w \in Workers PROVE SameRows(w)
  BY DEF SameRows

LEMMA ObjectsForward == ASSUME UNCHANGED testbed, NEW w \in Workers PROVE SameObjects(w)
  BY DEF SameObjects

LEMMA ReadsForward ==
  ASSUME ImportInv, Orderly, NEW w \in Workers,
         LinkResearchers(w) \/ FindObject(w) \/ FlushRow(w) \/ LookupLinks(w) \/ CompareLinks(w)
  PROVE  Forward(w)
  <1>0. ForSlices(w) /\ IInv
    BY DEF Orderly, ImportInv
  <1>1. CASE LinkResearchers(w)
    <2>1. OthersRest(w) /\ SameRequest(w)
      BY <1>0, <1>1 DEF LinkResearchers, At, Goto, IInv, WorkersOK, OthersRest, SameRequest, ForSlices, LinkLabels
    <2> QED BY <1>1, <2>1, StoresForward DEF LinkResearchers, Forward
  <1>2. CASE FindObject(w)
    <2>1. /\ pc[w] = "find" /\ UNCHANGED <<stores, job, link, add>>
          /\ \E label \in {"make", "account", "insert"} : Goto(w, label)
          /\ ptr' = ptr \/ \E p \in ObjectsOf(job[w].hrn) : ptr' = [ptr EXCEPT ![w] = p]
      <3>1. Namesakes(job[w].hrn) = ObjectsOf(job[w].hrn)
        BY <1>0, <1>2, DistinctAssumption, OwnObjects, JobType DEF FindObject, At, IInv
      <3> QED BY <1>2, <3>1 DEF FindObject, At, Registered
    <2>2. PICK label \in {"make", "account", "insert"} : Goto(w, label)
      BY <2>1
    <2>3. label \in Label /\ label # "idle" /\ label \notin LinkLabels
      BY DEF Label, LinkLabels
    <2>4. OthersRest(w) /\ SameRequest(w)
      <3>1. CASE ptr' = ptr
        BY <1>0, <2>1, <2>2, <2>3, <3>1, GoesForward
      <3>2. CASE \E p \in ObjectsOf(job[w].hrn) : ptr' = [ptr EXCEPT ![w] = p]
        <4>1. PICK p \in ObjectsOf(job[w].hrn) : ptr' = [ptr EXCEPT ![w] = p]
          BY <3>2
        <4>2. p \in Id /\ Bears(p, job[w].hrn)
          BY DEF ObjectsOf, Bears
        <4>3. \A v \in Workers : pc'[v] = (IF v = w THEN label ELSE pc[v]) /\ ptr'[v] = IF v = w THEN p ELSE ptr[v]
          BY <1>0, <2>2, <4>1 DEF Goto, IInv, WorkersOK
        <4> QED BY <2>1, <2>3, <4>2, <4>3 DEF OthersRest, SameRequest
      <3> QED BY <2>1, <3>1, <3>2
    <2> QED BY <2>1, <2>4, StoresForward DEF Forward
  <1>3. CASE FlushRow(w)
    <2>1. CASE Abort(w)
      BY <1>0, <2>1, AbortForward
    <2>2. ASSUME ~Abort(w) PROVE OthersRest(w) /\ SameRequest(w) /\ UNCHANGED stores
      BY <1>0, <1>3, <2>2 DEF FlushRow, At, Goto, IInv, WorkersOK, OthersRest, SameRequest, ForSlices, LinkLabels
    <2> QED BY <2>1, <2>2, StoresForward DEF Forward
  <1>4. CASE LookupLinks(w)
    <2>1. CASE Abort(w)
      BY <1>0, <2>1, AbortForward
    <2>2. ASSUME ~Abort(w) PROVE OthersRest(w) /\ SameRequest(w) /\ UNCHANGED stores
      <3>1. /\ pc[w] = "lookup" /\ add' = [add EXCEPT ![w] = {db[i].pointer : i \in RowsOf(job[w].users)}]
            /\ Goto(w, "compare") /\ UNCHANGED <<stores, job, ptr, link>>
        BY <1>4, <2>2 DEF LookupLinks, At
      <3>2. job[w].users # None
        BY <1>0, <3>1 DEF ForSlices
      <3>3. job[w].users \subseteq Users
        BY <1>0, <3>1, <3>2, JobType DEF IInv
      <3>4. \A q \in add'[w] : \E n \in Users : Bears(q, n)
        BY <1>0, <3>1, <3>3 DEF RowsOf, Bears, IInv, WorkersOK
      <3>5. \A v \in Workers : pc'[v] = (IF v = w THEN "compare" ELSE pc[v]) /\ (v # w => add'[v] = add[v])
        BY <1>0, <3>1 DEF Goto, IInv, WorkersOK
      <3> QED BY <3>1, <3>2, <3>4, <3>5 DEF OthersRest, SameRequest
    <2> QED BY <2>1, <2>2, StoresForward DEF Forward
  <1>5. CASE CompareLinks(w)
    <2>1. CASE Abort(w)
      BY <1>0, <2>1, AbortForward
    <2>2. ASSUME ~Abort(w) PROVE OthersRest(w) /\ SameRequest(w) /\ UNCHANGED stores
      <3>1. /\ pc[w] = "compare" /\ add' = [add EXCEPT ![w] = add[w] \ testbed[ptr[w]].members]
            /\ Goto(w, "apply") /\ UNCHANGED <<stores, job, ptr, link>>
        BY <1>0, <1>5, <2>2 DEF CompareLinks, At, IInv, WorkersOK
      <3>2. "apply" \in Label /\ job[w].users # None
        BY <1>0, <3>1 DEF Label, ForSlices
      <3> QED BY <1>0, <3>1, <3>2, GoesForward
    <2> QED BY <2>1, <2>2, StoresForward DEF Forward
  <1> QED BY <1>1, <1>2, <1>3, <1>4, <1>5

LEMMA MakeForward ==
  ASSUME ImportInv, Orderly, NEW w \in Workers, MakeObject(w)
  PROVE  Forward(w)
  <1>0. IInv
    BY DEF ImportInv
  <1>1. CASE Namesakes(job[w].hrn) # {}
    BY <1>0, <1>1, AbortForward DEF MakeObject
  <1>2. CASE Namesakes(job[w].hrn) = {}
    <2>1. /\ pc[w] = "make" /\ testbed' = [testbed EXCEPT ![job[w].row] = NewObject(job[w].hrn)]
          /\ ptr' = [ptr EXCEPT ![w] = job[w].row]
          /\ Goto(w, Registered(w)) /\ UNCHANGED <<db, job, link, add>>
      BY <1>2 DEF MakeObject, At
    <2>2. Registered(w) \in {"account", "insert"}
      BY DEF Registered
    <2>3. job[w].hrn \in Absent(testbed) /\ job[w].row \in Id
      BY <1>0, <1>2, <2>1, JobType DEF Absent, Namesakes, IInv
    <2>4. \A v \in Workers : /\ pc'[v] = IF v = w THEN Registered(w) ELSE pc[v]
                             /\ ptr'[v] = IF v = w THEN job[w].row ELSE ptr[v]
      BY <1>0, <2>1 DEF Goto, IInv, WorkersOK
    <2>5. testbed'[job[w].row] = NewObject(job[w].hrn) /\ \A p \in Id \ {job[w].row} : testbed'[p] = testbed[p]
      BY <1>0, <2>1, <2>3 DEF IInv, StoresOK
    <2>6. NewObject(job[w].hrn) # None
      BY <1>0, <2>1, JobType, NewObjectType, NoneIsNothing DEF IInv
    <2>7. OthersRest(w) /\ SameRequest(w)
      BY <2>1, <2>2, <2>4, <2>5, <2>6 DEF OthersRest, SameRequest, LinkLabels
    <2>8. SameObjects(w)
      BY <2>1, <2>3, <2>5 DEF SameObjects
    <2> QED BY <2>1, <2>7, <2>8, RowsForward DEF Forward
  <1> QED BY <1>1, <1>2

LEMMA KeysForward ==
  ASSUME ImportInv, Orderly, NEW w \in Workers, SetAccount(w) \/ UpdateObject(w) \/ TestbedFault(w)
  PROVE  Forward(w)
  <1>0. ForSlices(w) /\ IInv /\ "insert" \in Label /\ "write" \in Label /\ "insert" \notin LinkLabels /\ "write" \notin LinkLabels
    BY DEF Orderly, ImportInv, Label, LinkLabels
  <1>1. CASE SetAccount(w)
    <2>1. CASE Abort(w)
      BY <1>0, <2>1, AbortForward
    <2>2. CASE ~Abort(w)
      <3>1. /\ pc[w] = "account" /\ testbed[ptr[w]] # None /\ Goto(w, "insert") /\ UNCHANGED <<db, job, ptr, link, add>>
            /\ testbed' = testbed \/ \E ks : testbed' = [testbed EXCEPT ![ptr[w]].keys = ks]
        BY <1>1, <2>2 DEF SetAccount, At, locals
      <3>2. ptr[w] \in Id
        BY <1>0, <3>1 DEF IInv, WorkersOK, Control, Holds
      <3>3. SameObjects(w)
        BY <1>0, <3>1, <3>2, ObjectForward
      <3>4. OthersRest(w) /\ SameRequest(w)
        BY <1>0, <3>1, GoesForward
      <3> QED BY <3>1, <3>3, <3>4, RowsForward DEF Forward
    <2> QED BY <2>1, <2>2
  <1>2. CASE UpdateObject(w)
    <2>1. /\ pc[w] = "update" /\ Goto(w, "write") /\ UNCHANGED <<db, job, link, add>>
          /\ ptr' = ptr \/ ptr' = [ptr EXCEPT ![w] = None]
          /\ testbed' = testbed \/ (testbed[ptr[w]] # None /\ \E ks : testbed' = [testbed EXCEPT ![ptr[w]].keys = ks])
      BY <1>2 DEF UpdateObject, At, SwallowFailure
    <2>2. ptr[w] \in Id
      BY <1>0, <2>1 DEF IInv, WorkersOK, Control, Holds
    <2>3. SameObjects(w)
      BY <1>0, <2>1, <2>2, ObjectForward, ObjectsForward
    <2>4. OthersRest(w) /\ SameRequest(w)
      BY <1>0, <2>1, GoesForward
    <2> QED BY <2>1, <2>3, <2>4, RowsForward DEF Forward
  <1>3. CASE TestbedFault(w)
    <2>1. UNCHANGED <<db, testbed>>
          /\ (Idle(w) \/ /\ Goto(w, "write") /\ UNCHANGED <<job, link, add>>
                         /\ ptr' = ptr \/ ptr' = [ptr EXCEPT ![w] = None])
      BY <1>3 DEF TestbedFault, SwallowFailure
    <2>2. OthersRest(w) /\ SameRequest(w)
      BY <1>0, <2>1, GoesForward, IdleForward
    <2> QED BY <2>1, <2>2, RowsForward, ObjectsForward DEF Forward
  <1> QED BY <1>1, <1>2, <1>3

LEMMA ApplyForward ==
  ASSUME ImportInv, Orderly, NEW w \in Workers, ApplyLink(w)
  PROVE  Forward(w)
  <1>0. IInv /\ ForSlices(w) /\ pc[w] = "apply" /\ ptr[w] \in Id
    BY DEF ApplyLink, At, ImportInv, IInv, WorkersOK, Control, Holds, Orderly
  <1>1. CASE Abort(w)
    BY <1>0, <1>1, AbortForward
  <1>2. CASE Idle(w) /\ UNCHANGED stores
    BY <1>0, <1>2, IdleForward, StoresForward DEF Forward
  <1>3. CASE /\ testbed[ptr[w]] # None /\ UNCHANGED <<db, pc, job, ptr, link>>
             /\ \E t \in add[w] : testbed' = [testbed EXCEPT ![ptr[w]].members = testbed[ptr[w]].members \cup {t}]
             /\ \E t : add' = [add EXCEPT ![w] = add[w] \ {t}]
    <2>1. SameObjects(w)
      <3>1. PICK t \in add[w] : testbed' = [testbed EXCEPT ![ptr[w]].members = testbed[ptr[w]].members \cup {t}]
        BY <1>3
      <3>2. testbed[ptr[w]].members \cup {t} \subseteq testbed[ptr[w]].members \cup add[w]
        OBVIOUS
      <3> QED BY <1>0, <1>3, <3>1, <3>2, ObjectForward
    <2>2. \A v \in Workers : add'[v] \subseteq add[v] /\ (v # w => add'[v] = add[v])
      BY <1>0, <1>3 DEF IInv, WorkersOK
    <2>3. OthersRest(w) /\ SameRequest(w)
      BY <1>0, <1>3, <2>2 DEF OthersRest, SameRequest, ForSlices, LinkLabels
    <2> QED BY <1>3, <2>1, <2>3, RowsForward DEF Forward
  <1>4. CASE /\ testbed[ptr[w]] # None /\ UNCHANGED <<db, pc, job, ptr, link, add>>
             /\ \E t : testbed' = [testbed EXCEPT ![ptr[w]].members = testbed[ptr[w]].members \ {t}]
    <2>1. SameObjects(w)
      <3>1. PICK ms : testbed' = [testbed EXCEPT ![ptr[w]].members = ms] /\ ms \subseteq testbed[ptr[w]].members
        BY ZenonT(40), <1>4
      <3> QED BY <1>0, <1>4, <3>1, ObjectForward
    <2>2. OthersRest(w) /\ SameRequest(w)
      BY <1>0, <1>4 DEF OthersRest, SameRequest, ForSlices, LinkLabels
    <2> QED BY <1>4, <2>1, <2>2, RowsForward DEF Forward
  <1>5. \/ Abort(w)
        \/ Idle(w) /\ UNCHANGED stores
        \/ /\ testbed[ptr[w]] # None /\ UNCHANGED <<db, pc, job, ptr, link>>
           /\ \E t \in add[w] : /\ testbed' = [testbed EXCEPT ![ptr[w]].members = @ \cup {t}]
                                /\ add' = [add EXCEPT ![w] = @ \ {t}]
        \/ /\ testbed[ptr[w]] # None /\ UNCHANGED <<db, pc, job, ptr, link, add>>
           /\ \E t : testbed' = [testbed EXCEPT ![ptr[w]].members = @ \ {t}]
    BY DEF ApplyLink
  <1>6. \A t : /\ [testbed EXCEPT ![ptr[w]].members = @ \cup {t}]
                       = [testbed EXCEPT ![ptr[w]].members = testbed[ptr[w]].members \cup {t}]
                  /\ [testbed EXCEPT ![ptr[w]].members = @ \ {t}]
                       = [testbed EXCEPT ![ptr[w]].members = testbed[ptr[w]].members \ {t}]
                  /\ [add EXCEPT ![w] = @ \ {t}] = [add EXCEPT ![w] = add[w] \ {t}]
    BY <1>0 DEF IInv, StoresOK, WorkersOK
  <1> QED BY <1>1, <1>2, <1>3, <1>4, <1>5, <1>6

LEMMA EraseForward ==
  ASSUME ImportInv, Orderly, NEW w \in Workers, EraseObject(w)
  PROVE  Forward(w)
  <1>0. ForSlices(w) /\ IInv /\ "delete" \in Label /\ "delete" \notin LinkLabels
    BY DEF Orderly, ImportInv, Label, LinkLabels
  <1>1. OthersRest(w) /\ SameRequest(w)
    BY <1>0, GoesForward DEF EraseObject, locals
  <1>2. SameObjects(w)
    BY <1>0 DEF EraseObject, SameObjects, IInv, StoresOK, Object
  <1> QED BY <1>1, <1>2, RowsForward DEF EraseObject, Forward

LEMMA CommitForward ==
  ASSUME ImportInv, Orderly, NEW w \in Workers, InsertRow(w) \/ WriteRow(w) \/ DeleteRow(w)
  PROVE  Forward(w)
  <1>0. ForSlices(w) /\ IInv
    BY DEF Orderly, ImportInv
  <1>1. CASE Abort(w)
    BY <1>0, <1>1, AbortForward
  <1>2. ASSUME AfterCommit(w) PROVE OthersRest(w) /\ SameRequest(w)
    <2>1. Idle(w) \/ (Goto(w, "lookup") /\ job[w].users # None /\ UNCHANGED <<job, ptr, link, add>>)
      BY <1>2 DEF AfterCommit, locals
    <2> QED BY <1>0, <2>1, IdleForward, GoesForward, "lookup" \in Label DEF Label
  <1>3. ASSUME InsertRow(w), ~Abort(w) PROVE Forward(w)
    <2>1. /\ pc[w] = "insert" /\ AfterCommit(w) /\ UNCHANGED <<testbed, requests>>
          /\ db' = [db EXCEPT ![job[w].row] = NewRow(job[w], ptr[w], link[w])]
      BY <1>3 DEF InsertRow, At
    <2>2. SameRows(w)
      BY <1>0, <2>1 DEF SameRows, NewRow, IInv, StoresOK
    <2> QED BY <1>2, <2>1, <2>2, ObjectsForward DEF Forward
  <1>4. ASSUME WriteRow(w), ~Abort(w) PROVE Forward(w)
    <2>1. /\ db[job[w].row] # None /\ AfterCommit(w) /\ UNCHANGED <<testbed, requests>>
          /\ db' = [db EXCEPT ![job[w].row] = UpdatedRow(db[job[w].row], w)]
      BY <1>0, <1>4 DEF WriteRow, IInv, StoresOK
    <2>2. \A row \in Row : /\ UpdatedRow(row, w).hrn = row.hrn /\ UpdatedRow(row, w).pointer = row.pointer
                           /\ UpdatedRow(row, w).researchers \subseteq row.researchers \cup link[w]
      BY DEF UpdatedRow, Row
    <2>3. SameRows(w)
      BY <1>0, <2>1, <2>2 DEF SameRows, IInv, StoresOK
    <2> QED BY <1>2, <2>1, <2>3, ObjectsForward DEF Forward
  <1>5. CASE DeleteRow(w)
    <2>1. \A i : \A row \in Row : /\ Unlinked(row, i).hrn = row.hrn /\ Unlinked(row, i).pointer = row.pointer
                                      /\ Unlinked(row, i).researchers \subseteq row.researchers
      BY DEF Unlinked, Row
    <2>2. SameRows(w)
      BY <1>0, <1>5, <2>1 DEF DeleteRow, SameRows, IInv, StoresOK
    <2> QED BY <1>0, <1>5, <2>2, IdleForward, ObjectsForward DEF DeleteRow, Forward
  <1> QED BY <1>1, <1>3, <1>4, <1>5

LEMMA WorkerOrderly ==
  ASSUME ImportInv, Orderly, ImportInv', NEW w \in Workers, Step(w) \/ TestbedFault(w), UNCHANGED <<seen, known>>
  PROVE  Orderly'
  <1>1. Onward
    BY ReadsOnward, MakeOnward, KeysOnward, ApplyOnward, EraseOnward, CommitOnward DEF Step
  <1>2. Forward(w)
    BY ReadsForward, MakeForward, KeysForward, ApplyForward, EraseForward, CommitForward DEF Step
  <1>3. pc[w] # "idle"
    BY DEF Step, LinkResearchers, FindObject, MakeObject, SetAccount, InsertRow, FlushRow, UpdateObject, WriteRow,
           LookupLinks, CompareLinks, ApplyLink, EraseObject, DeleteRow, TestbedFault, At
  <1> QED BY <1>1, <1>2, <1>3, ForwardOrderly DEF ImportInv

\* A worker that takes a request claims the name of a row, or a new row.
LEMMA StartIds ==
  ASSUME ImportInv, NEW w \in Workers, NEW j, NEW p, NEW label, Start(w, j, p, label),
         label \in Inserting => j.row = requests + 1
  PROVE  /\ Unused' \subseteq Unused /\ requests + 1 \in Unused /\ requests + 1 \notin Unused'
         /\ Awaited' \subseteq Awaited
         /\ pc[w] = "idle" /\ UNCHANGED <<db, testbed, link, add>>
         /\ \A v \in Workers : /\ pc'[v] = IF v = w THEN label ELSE pc[v]
                               /\ job'[v] = IF v = w THEN j ELSE job[v]
                               /\ ptr'[v] = IF v = w THEN p ELSE ptr[v]
  <1>1. /\ UNCHANGED <<db, testbed, link, add>> /\ requests' = requests + 1
        /\ requests \in Nat /\ requests < MaxRequests /\ pc[w] = "idle"
        /\ \A v \in Workers : /\ pc'[v] = IF v = w THEN label ELSE pc[v]
                              /\ job'[v] = IF v = w THEN j ELSE job[v]
                              /\ ptr'[v] = IF v = w THEN p ELSE ptr[v]
    BY BoundsAssumption DEF Start, At, Goto, stores, ImportInv, IInv, WorkersOK, HistoryOK
  <1>2. Unused' \subseteq Unused /\ requests + 1 \in Unused /\ requests + 1 \notin Unused'
    BY <1>1, BoundsAssumption DEF Unused
  <1>3. \A i \in Making' : i \in Making \/ i = requests + 1
    BY <1>1 DEF Making, Inserting
  <1> QED BY <1>1, <1>2, <1>3 DEF Awaited

LEMMA RequestOrderly ==
  ASSUME ImportInv, Orderly, NEW w \in Workers, Request(w), UNCHANGED <<seen, known>>
  PROVE  Orderly'
  <1>1. PICK j, p, label :
          /\ Start(w, j, p, label) /\ (label \in Inserting => j.row = requests + 1)
          /\ j.hrn \in Names /\ (p = None \/ Bears(p, j.hrn)) /\ (j.row = requests + 1 \/ RowBears(j.row, j.hrn))
          /\ (j.users # None => j.hrn \in Slices) /\ (label \in LinkLabels => j.users # None) /\ label # "idle"
    <2>1. CASE Register(w)
      <3>1. PICK n \in Names : \E us \in UsersArg(n), k \in KeyArg(n) :
              Start(w, [op |-> "Register", hrn |-> n, row |-> requests + 1, users |-> us, key |-> k],
                    None, IF us = None THEN "find" ELSE "link")
        BY <2>1 DEF Register
      <3>2. PICK us \in UsersArg(n), k \in KeyArg(n) :
              Start(w, [op |-> "Register", hrn |-> n, row |-> requests + 1, users |-> us, key |-> k],
                    None, IF us = None THEN "find" ELSE "link")
        BY <3>1
      <3>3. us # None => n \in Slices
        BY DEF UsersArg
      <3>4. (IF us = None THEN "find" ELSE "link") \in LinkLabels => us # None
        BY DEF LinkLabels
      <3> QED BY <3>2, <3>3, <3>4
    <2>2. CASE Update(w)
      <3>1. PICK n \in Names : \E us \in UsersArg(n), k \in KeyArg(n), i \in RowsOf({n}) :
              Start(w, [op |-> "Update", hrn |-> n, row |-> i, users |-> us, key |-> k],
                    db[i].pointer, IF us = None THEN "update" ELSE "flush")
        BY <2>2 DEF Update
      <3>2. PICK us \in UsersArg(n), k \in KeyArg(n), i \in RowsOf({n}) :
              Start(w, [op |-> "Update", hrn |-> n, row |-> i, users |-> us, key |-> k],
                    db[i].pointer, IF us = None THEN "update" ELSE "flush")
        BY <3>1
      <3>3. us # None => n \in Slices
        BY DEF UsersArg
      <3>4. (IF us = None THEN "update" ELSE "flush") \in LinkLabels => us # None
        BY DEF LinkLabels
      <3>5. (IF us = None THEN "update" ELSE "flush") \notin Inserting
        BY DEF Inserting
      <3>6. Bears(db[i].pointer, n) /\ RowBears(i, n)
        BY DEF RowsOf, Bears, RowBears
      <3> QED BY <3>2, <3>3, <3>4, <3>5, <3>6
    <2>3. CASE Remove(w)
      <3>1. PICK n \in Names : \E i \in RowsOf({n}) :
              Start(w, [op |-> "Remove", hrn |-> n, row |-> i, users |-> None, key |-> None],
                    db[i].pointer, "erase")
        BY <2>3 DEF Remove
      <3>2. PICK i \in RowsOf({n}) :
              Start(w, [op |-> "Remove", hrn |-> n, row |-> i, users |-> None, key |-> None],
                    db[i].pointer, "erase")
        BY <3>1
      <3>3. Bears(db[i].pointer, n) /\ RowBears(i, n)
        BY DEF RowsOf, Bears, RowBears
      <3> QED BY <3>2, <3>3 DEF Inserting, LinkLabels
    <2> QED BY <2>1, <2>2, <2>3 DEF Request
  <1>2. /\ Unused' \subseteq Unused /\ requests + 1 \in Unused /\ requests + 1 \notin Unused'
        /\ Awaited' \subseteq Awaited
        /\ pc[w] = "idle" /\ UNCHANGED <<db, testbed, link, add>>
        /\ \A v \in Workers : /\ pc'[v] = IF v = w THEN label ELSE pc[v]
                              /\ job'[v] = IF v = w THEN j ELSE job[v]
                              /\ ptr'[v] = IF v = w THEN p ELSE ptr[v]
    BY <1>1, StartIds
  <1>3. \A v \in Workers : pc[v] # "idle" => /\ ptr[v] # None => Bears(ptr[v], job[v].hrn)
                                             /\ RowBears(job[v].row, job[v].hrn)
    BY DEF Bears, RowBears
  <1>4. \A v \in Workers : pc'[v] # "idle" => /\ ptr'[v] # None => Claims(ptr'[v], job'[v].hrn, j.hrn)
                                              /\ RowClaims(job'[v].row, job'[v].hrn, j.hrn)
    BY <1>1, <1>2, <1>3 DEF Claims, RowClaims
  <1>5. NamesFrom(j.hrn)
    BY <1>2, <1>4 DEF NamesFrom, Claims, RowClaims, Bears, RowBears
  <1>6. OneName' /\ OneObject'
    BY <1>2, <1>5, OneNameKept DEF Orderly, OneObject
  <1>7. MembersFrom
    BY <1>2 DEF MembersFrom, IsMember
  <1>8. UserMembers'
    BY <1>5, <1>7, UserMembersKept
  <1>9. SlicesOnly'
    BY <1>2 DEF Orderly, SlicesOnly
  <1>10. \A v \in Workers : ForSlices(v)'
    <2> TAKE v \in Workers
    <2>1. ForSlices(v) /\ ForSlices(w)
      BY DEF Orderly
    <2> QED BY <1>1, <1>2, <2>1 DEF ForSlices, LinkLabels
  <1> QED BY <1>6, <1>8, <1>9, <1>10 DEF Orderly

LEMMA CrashOrderly ==
  ASSUME ImportInv, Orderly, Crash, UNCHANGED <<seen, known>>
  PROVE  Orderly'
  <1>1. /\ UNCHANGED <<db, testbed>>
        /\ \A w \in Workers : pc'[w] = "idle" /\ ptr'[w] = None /\ link'[w] = {} /\ add'[w] = {}
    BY DEF Crash, stores
  <1>2. Unused' = Unused /\ Awaited' \subseteq Awaited
    BY CrashOnward, OnwardIds
  <1>3. NamesFrom(None)
    BY <1>1, <1>2 DEF NamesFrom, Claims, RowClaims, Bears, RowBears
  <1>4. OneName' /\ OneObject'
    BY <1>1, <1>3, OneNameKept DEF Orderly, OneObject
  <1>5. MembersFrom
    BY <1>1 DEF MembersFrom, IsMember
  <1>6. UserMembers'
    BY <1>3, <1>5, UserMembersKept
  <1>7. SlicesOnly' /\ \A v \in Workers : ForSlices(v)'
    BY <1>1 DEF Orderly, SlicesOnly, ForSlices
  <1> QED BY <1>4, <1>6, <1>7 DEF Orderly

-----------------------------------------------------------------------------
(* PlanetLab: names under the testbed's users and the importer               *)

\* Only the testbed changes.
LEMMA TestbedOrderly ==
  ASSUME ImportInv, Orderly, NewIds', UNCHANGED <<db, pc, job, ptr, link, add, seen, known>>,
         Awaited' \subseteq Awaited, Unused' \subseteq Unused, NEW r, NEW m,
         \A p \in Id : testbed'[p] # None =>
           \/ /\ testbed[p] # None /\ testbed'[p].name = testbed[p].name
              /\ \/ testbed'[p].members \subseteq testbed[p].members
                 \/ /\ testbed[p].name \in Slices
                    /\ testbed'[p].members \subseteq {q \in Id : testbed[q] # None /\ testbed[q].name \in Users}
           \/ /\ p = r /\ p \in Awaited /\ m \in Absent(testbed) /\ testbed'[p] = NewObject(m)
  PROVE  Orderly'
  <1>1. \A p \in Id : testbed'[p] # None => p \notin Awaited'
    BY DEF NewIds
  <1>2. NewObject(m).name = m /\ NewObject(m).members = {}
    BY DEF NewObject
  <1>3. \A p \in Id : testbed[p] # None => Bears(p, testbed[p].name)
    BY DEF Bears
  <1>4. \A p \in Id : testbed'[p] # None => Claims(p, testbed'[p].name, m)
    BY <1>1, <1>2, <1>3 DEF Claims
  <1>5. NamesFrom(m)
    BY <1>4 DEF NamesFrom, Claims, RowClaims, Bears, RowBears
  <1>6. ObjectsFrom(r)
    BY <1>2 DEF ObjectsFrom
  <1>7. MembersFrom
    <2> SUFFICES ASSUME NEW q \in Id, IsMember(q)' PROVE IsMember(q) \/ \E n \in Users : Bears(q, n)
      BY DEF MembersFrom
    <2>1. CASE \E p \in Id : testbed'[p] # None /\ q \in testbed'[p].members
      <3>1. PICK p \in Id : testbed'[p] # None /\ q \in testbed'[p].members
        BY <2>1
      <3>2. (testbed[p] # None /\ q \in testbed[p].members) \/ (testbed[q] # None /\ testbed[q].name \in Users)
        BY <1>2, <3>1
      <3> QED BY <1>3, <3>2 DEF IsMember
    <2>2. CASE \E v \in Workers : q \in add'[v]
      BY <2>2 DEF IsMember
    <2> QED BY <2>1, <2>2 DEF IsMember
  <1>8. OneName' /\ OneObject' /\ UserMembers'
    BY <1>5, <1>6, <1>7, OneNameKept, OneObjectKept, UserMembersKept DEF Orderly
  <1>9. \A p \in Id : testbed'[p] # None /\ testbed'[p].name \in Users => testbed'[p].members = {}
    BY <1>2, IdFacts DEF Orderly, SlicesOnly
  <1>10. SlicesOnly' /\ \A v \in Workers : ForSlices(v)'
    BY <1>9 DEF Orderly, SlicesOnly, ForSlices
  <1> QED BY <1>8, <1>10 DEF Orderly

LEMMA TestbedChangeOrderly ==
  ASSUME ImportInv, Orderly, ImportInv', TestbedChange
  PROVE  Orderly'
  <1>1. UNCHANGED <<db, pc, job, ptr, link, add, seen, known>> /\ NewIds'
    BY DEF TestbedChange, Meanwhile, importer, tables, locals, ImportInv
  <1>2. Making' = Making
    BY <1>1 DEF Making
  <1>3. CASE MakesObject
    <2>1. PICK n \in Absent(testbed) :
            /\ requests < MaxRequests /\ requests' = requests + 1
            /\ testbed' = [testbed EXCEPT ![requests + 1] = NewObject(n)]
      BY <1>3 DEF MakesObject
    <2>2. requests \in Nat /\ requests + 1 \in Id
      BY <2>1, BoundsAssumption DEF ImportInv, IInv, HistoryOK, Id
    <2>3. Unused' \subseteq Unused /\ requests + 1 \in Unused
      BY <2>1, <2>2, BoundsAssumption DEF Unused
    <2>4. Awaited' \subseteq Awaited /\ requests + 1 \in Awaited
      BY <1>2, <2>3 DEF Awaited
    <2>5. \A p \in Id : testbed'[p] = IF p = requests + 1 THEN NewObject(n) ELSE testbed[p]
      BY <2>1, <2>2 DEF ImportInv, IInv, StoresOK
    <2> QED BY <1>1, <2>3, <2>4, <2>5, TestbedOrderly
  <1>4. requests' = requests => Unused' = Unused /\ Awaited' = Awaited
    BY <1>2 DEF Unused, Awaited
  <1>5. CASE DropsObject
    <2>1. \A p \in Id : testbed'[p] # None => /\ testbed[p] # None /\ testbed'[p].name = testbed[p].name
                                              /\ testbed'[p].members \subseteq testbed[p].members
      BY <1>5 DEF DropsObject, ImportInv, IInv, StoresOK, Object
    <2> QED BY <1>1, <1>4, <1>5, <2>1, TestbedOrderly DEF DropsObject
  <1>6. CASE ChangesKeys
    <2>1. \A p \in Id : testbed'[p] # None => /\ testbed[p] # None /\ testbed'[p].name = testbed[p].name
                                              /\ testbed'[p].members \subseteq testbed[p].members
      BY <1>6 DEF ChangesKeys, ImportInv, IInv, StoresOK, Object
    <2> QED BY <1>1, <1>4, <1>6, <2>1, TestbedOrderly DEF ChangesKeys
  <1>7. CASE ChangesMembers
    <2>1. PICK p \in Id : \E ms \in SUBSET {q \in Id : testbed[q] # None /\ testbed[q].name \in Users} :
            testbed[p] # None /\ testbed[p].name \in Slices /\ testbed' = [testbed EXCEPT ![p].members = ms]
      BY <1>7 DEF ChangesMembers
    <2>2. PICK ms \in SUBSET {q \in Id : testbed[q] # None /\ testbed[q].name \in Users} :
            testbed[p] # None /\ testbed[p].name \in Slices /\ testbed' = [testbed EXCEPT ![p].members = ms]
      BY <2>1
    <2>3. /\ testbed'[p].name = testbed[p].name /\ testbed'[p].members = ms
          /\ \A q \in Id \ {p} : testbed'[q] = testbed[q]
      BY <2>2 DEF ImportInv, IInv, StoresOK, Object
    <2> QED BY <1>1, <1>4, <1>7, <2>2, <2>3, TestbedOrderly DEF ChangesMembers
  <1> QED BY <1>3, <1>5, <1>6, <1>7 DEF TestbedChange

LEMMA OthersOrderly ==
  ASSUME ImportInv, Orderly, ImportInv', TestbedChange \/ (Next /\ Meanwhile /\ UNCHANGED changes)
  PROVE  Orderly'
  <1>1. UNCHANGED <<seen, known>>
    BY DEF TestbedChange, Meanwhile, importer, tables
  <1> QED BY <1>1, TestbedChangeOrderly, CrashOrderly, RequestOrderly, WorkerOrderly DEF Next

\* The importer takes names from the testbed, and rows by the names it knows.
LEMMA ImportOrderly ==
  ASSUME ImportInv, Orderly, Import, NEW m, requests' = requests \/ (requests' = requests + 1 /\ requests < MaxRequests),
         \A p \in Id : seen'[p] \in {None, seen[p], testbed[p]},
         \A i \in Id : db'[i] # None =>
           \/ /\ db[i] # None /\ db'[i].hrn = db[i].hrn /\ db'[i].pointer = db[i].pointer
              /\ db'[i].researchers \subseteq db[i].researchers \/ db[i].hrn \in Slices
           \/ /\ i = requests + 1 /\ requests' = requests + 1
              /\ db'[i].hrn = m /\ Bears(db'[i].pointer, m) /\ db'[i].researchers = {},
         \A n \in Names : \/ known'[n] \in {None, known[n]}
                          \/ RowBears(known'[n], n)
                          \/ known'[n] = requests + 1 /\ requests' = requests + 1 /\ n = m
  PROVE  Orderly'
  <1>1. UNCHANGED <<testbed, pc, job, ptr, link, add>>
    BY DEF Import, locals
  <1>2. Unused' \subseteq Unused /\ (requests' = requests + 1 => requests + 1 \in Unused /\ requests + 1 \notin Unused')
    BY BoundsAssumption DEF Unused, ImportInv, IInv, HistoryOK
  <1>3. Awaited' \subseteq Awaited
    BY <1>1, <1>2 DEF Awaited, Making
  <1>4. \A i \in Id : db[i] # None => Bears(db[i].pointer, db[i].hrn) /\ RowBears(i, db[i].hrn)
    BY DEF Bears, RowBears
  <1>5. \A i \in Id : db'[i] # None => Bears(db'[i].pointer, db'[i].hrn) /\ RowClaims(i, db'[i].hrn, m)
    BY <1>2, <1>4 DEF RowClaims
  <1>6. \A n \in Names : known[n] # None => RowBears(known[n], n)
    BY DEF RowBears
  <1>7. \A n \in Names : known'[n] # None => RowClaims(known'[n], n, m)
    BY <1>2, <1>6 DEF RowClaims
  <1>8. \A p \in Id : /\ testbed[p] # None => Bears(p, testbed[p].name)
                      /\ seen[p] # None => Bears(p, seen[p].name)
    BY DEF Bears
  <1>9. \A v \in Workers : pc[v] # "idle" => /\ ptr[v] # None => Bears(ptr[v], job[v].hrn)
                                             /\ RowBears(job[v].row, job[v].hrn)
    BY DEF Bears, RowBears
  <1>10. NamesFrom(m)
    BY <1>1, <1>2, <1>3, <1>5, <1>7, <1>8, <1>9 DEF NamesFrom, Claims, RowClaims
  <1>11. OneName' /\ OneObject'
    BY <1>1, <1>10, OneNameKept DEF Orderly, OneObject
  <1>12. MembersFrom
    BY <1>1 DEF MembersFrom, IsMember
  <1>13. UserMembers'
    BY <1>10, <1>12, UserMembersKept
  <1>14. \A i \in Id : db'[i] # None /\ db'[i].hrn \in Users => db'[i].researchers = {}
    BY IdFacts DEF Orderly, SlicesOnly
  <1>15. SlicesOnly' /\ \A v \in Workers : ForSlices(v)'
    BY <1>1, <1>14 DEF Orderly, SlicesOnly, ForSlices
  <1> QED BY <1>11, <1>13, <1>15 DEF Orderly

LEMMA EndOrderly ==
  ASSUME ImportInv, Orderly, NEW ok, End(ok), Import, UNCHANGED <<db, requests>>
  PROVE  Orderly'
  <1>1. \A p \in Id : seen'[p] = None
    BY DEF End, NoObjects
  <1>2. \A n \in Names : known'[n] = None
    BY DEF End
  <1> QED BY <1>1, <1>2, ImportOrderly

LEMMA ReadOrderly ==
  ASSUME ImportInv, Orderly, ReadRecords \/ ReadSites \/ ReadPersons \/ ReadSlices
  PROVE  Orderly'
  <1>1. Import /\ UNCHANGED <<db, requests>>
    BY DEF ReadRecords, ReadSites, ReadPersons, ReadSlices
  <1>2. \A p \in Id : seen'[p] \in {None, seen[p], testbed[p]}
    BY DEF ReadRecords, ReadSites, ReadPersons, ReadSlices, Saw
  <1>3. \A n \in Names : known'[n] \in {None, known[n]} \/ RowBears(known'[n], n)
    <2>1. CASE ReadRecords
      <3>1. \A n \in Names : known'[n] = None \/ known'[n] \in RowsOf({n})
        BY <2>1 DEF ReadRecords, Dicts
      <3> QED BY <3>1 DEF RowsOf, RowBears
    <2>2. CASE ReadSites \/ ReadPersons \/ ReadSlices
      BY <2>2 DEF ReadSites, ReadPersons, ReadSlices
    <2> QED BY <2>1, <2>2
  <1> QED BY <1>1, <1>2, <1>3, ImportOrderly

LEMMA InsertOrderly ==
  ASSUME ImportInv, Orderly, Import, UNCHANGED seen, NEW p \in Id, NEW key, seen[p] # None, Insert(p, key)
  PROVE  Orderly'
  <1>1. requests \in Nat /\ requests + 1 \in Id
    BY BoundsAssumption DEF Insert, ImportInv, IInv, HistoryOK, Id
  <1>2. \A i \in Id : i # requests + 1 => db'[i] = db[i]
    BY <1>1 DEF Insert, ImportInv, IInv, StoresOK
  <1>3. /\ db'[requests + 1].hrn = seen[p].name /\ db'[requests + 1].pointer = p
        /\ db'[requests + 1].researchers = {}
    BY <1>1 DEF Insert, ImportInv, IInv, StoresOK
  <1>4. Bears(p, seen[p].name)
    BY DEF Bears
  <1>5. \A n \in Names : known'[n] = known[n] \/ (known'[n] = requests + 1 /\ n = seen[p].name)
    BY DEF Insert, ImportInv, TablesOK
  <1> QED BY <1>2, <1>3, <1>4, <1>5, ImportOrderly DEF Insert

LEMMA TodoFacts ==
  ASSUME ImportInv, phase = "import", NEW names, NEW p \in Todo(names)
  PROVE  /\ p \in todo /\ p \in Id /\ seen[p] # None /\ seen[p] \in Object
         /\ seen[p].name \in Names /\ seen[p].name \in names
  BY DEF Todo, ImportInv, Sighted, TablesOK, Object

LEMMA PersonOrderly ==
  ASSUME ImportInv, Orderly, ImportPerson
  PROVE  Orderly'
  <1>1. PICK p \in Todo(Users) : \E key \in SomeKey(p) :
          \/ Insert(p, key)
          \/ /\ UNCHANGED <<requests, known>>
             /\ \/ db' = db
                \/ /\ known[seen[p].name] # None /\ db[known[seen[p].name]] # None
                   /\ db' = [db EXCEPT ![known[seen[p].name]].key = key, ![known[seen[p].name]].lost = FALSE]
    BY ZenonT(40) DEF ImportPerson
  <1>2. PICK key \in SomeKey(p) :
          \/ Insert(p, key)
          \/ /\ UNCHANGED <<requests, known>>
             /\ \/ db' = db
                \/ /\ known[seen[p].name] # None /\ db[known[seen[p].name]] # None
                   /\ db' = [db EXCEPT ![known[seen[p].name]].key = key, ![known[seen[p].name]].lost = FALSE]
    BY <1>1
  <1>3. phase = "import" /\ Import /\ UNCHANGED seen
    BY DEF ImportPerson
  <1>4. p \in Id /\ seen[p] # None /\ seen[p].name \in Names
    BY <1>3, TodoFacts
  <1>5. CASE Insert(p, key)
    BY <1>3, <1>4, <1>5, InsertOrderly
  <1>6. CASE /\ UNCHANGED <<requests, known>>
             /\ \A i \in Id : db'[i] # None => /\ db[i] # None /\ db'[i].hrn = db[i].hrn /\ db'[i].pointer = db[i].pointer
                                               /\ db'[i].researchers = db[i].researchers
    BY <1>3, <1>6, ImportOrderly
  <1>7. CASE UNCHANGED <<requests, known>> /\ db' = db
    BY SMTT(30), <1>6, <1>7
  <1>8. ASSUME NEW i, i = known[seen[p].name], i # None, db[i] # None, UNCHANGED <<requests, known>>,
               db' = [db EXCEPT ![i].key = key, ![i].lost = FALSE]
        PROVE  Orderly'
    <2>1. i \in Id
      BY SMTT(30), <1>4, <1>8 DEF ImportInv, TablesOK
    <2>2. \A r \in Id : db'[r] # None =>
            /\ db[r] # None /\ db'[r].hrn = db[r].hrn /\ db'[r].pointer = db[r].pointer
            /\ db'[r].researchers = db[r].researchers
      BY <1>8, <2>1 DEF ImportInv, IInv, StoresOK, Row
    <2> QED BY <1>6, <1>8, <2>2
  <1> QED BY <1>2, <1>5, <1>7, <1>8

LEMMA SliceOrderly ==
  ASSUME ImportInv, Orderly, ImportSlice
  PROVE  Orderly'
  <1>1. phase = "import" /\ Import /\ UNCHANGED requests
    BY DEF ImportSlice
  <1>2. PICK p \in Todo(Slices) :
          \/ End(FALSE) /\ UNCHANGED db
          \/ /\ known[seen[p].name] # None /\ db[known[seen[p].name]] # None /\ UNCHANGED <<seen, known>>
             /\ db' = [db EXCEPT ![known[seen[p].name]].researchers = Located(p)]
    BY DEF ImportSlice, SetResearchers
  <1>3. seen[p].name \in Names /\ seen[p].name \in Slices
    BY <1>1, TodoFacts
  <1>4. CASE End(FALSE) /\ UNCHANGED db
    BY <1>1, <1>4, EndOrderly
  <1>5. ASSUME NEW i, i = known[seen[p].name], i # None, db[i] # None, UNCHANGED <<seen, known>>,
               db' = [db EXCEPT ![i].researchers = Located(p)]
        PROVE  Orderly'
    <2>1. i \in Id
      BY <1>3, <1>5 DEF ImportInv, TablesOK
    <2>2. RowBears(i, seen[p].name) /\ RowBears(i, db[i].hrn) /\ db[i].hrn \in Names
      BY <1>5, <2>1 DEF RowBears, ImportInv, IInv, StoresOK, Row
    <2>3. db[i].hrn \in Slices
      BY <1>3, <2>1, <2>2 DEF Orderly, OneName
    <2>4. \A r \in Id : db'[r] # None =>
            /\ db[r] # None /\ db'[r].hrn = db[r].hrn /\ db'[r].pointer = db[r].pointer
            /\ r # i => db'[r].researchers = db[r].researchers
      BY <1>5, <2>1 DEF ImportInv, IInv, StoresOK, Row
    <2> QED BY <1>1, <1>5, <2>3, <2>4, ImportOrderly
  <1> QED BY <1>2, <1>4, <1>5

LEMMA LastOrderly ==
  ASSUME ImportInv, Orderly, MissPerson \/ AddSliceRecord \/ CheckRecords \/ DeleteStale \/ EndImport
  PROVE  Orderly'
  <1>1. CASE MissPerson
    BY <1>1, ImportOrderly DEF MissPerson
  <1>2. CASE AddSliceRecord
    <2>1. PICK p \in Todo(Slices) : Insert(p, None)
      BY <1>2 DEF AddSliceRecord
    <2>2. phase = "import" /\ Import /\ UNCHANGED seen
      BY <1>2 DEF AddSliceRecord
    <2>3. p \in Id /\ seen[p] # None
      BY <2>2, TodoFacts
    <2> QED BY <2>1, <2>2, <2>3, InsertOrderly
  <1>3. CASE CheckRecords
    BY <1>3, EndOrderly, ImportOrderly DEF CheckRecords, tables
  <1>4. CASE DeleteStale
    <2>1. PICK i \in stale :
            \/ End(FALSE) /\ UNCHANGED db
            \/ /\ UNCHANGED <<seen, known>>
               /\ db' = [r \in Id |-> IF r = i \/ db[r] = None THEN None ELSE Unlinked(db[r], i)]
      BY <1>4 DEF DeleteStale
    <2>2. Import /\ UNCHANGED requests
      BY <1>4 DEF DeleteStale
    <2>3. CASE End(FALSE) /\ UNCHANGED db
      BY <2>2, <2>3, EndOrderly
    <2>4. CASE /\ UNCHANGED <<seen, known>>
               /\ db' = [r \in Id |-> IF r = i \/ db[r] = None THEN None ELSE Unlinked(db[r], i)]
      <3>1. \A r \in Id : db'[r] # None =>
            /\ db[r] # None /\ db'[r].hrn = db[r].hrn /\ db'[r].pointer = db[r].pointer
            /\ db'[r].researchers \subseteq db[r].researchers
        BY <2>4 DEF Unlinked, ImportInv, IInv, StoresOK, Row
      <3> QED BY <2>2, <2>4, <3>1, ImportOrderly
    <2> QED BY <2>1, <2>3, <2>4
  <1>5. CASE EndImport
    BY <1>5, EndOrderly DEF EndImport
  <1> QED BY <1>1, <1>2, <1>3, <1>4, <1>5

LEMMA OrderlyStep ==
  ASSUME ImportInv, Orderly, [ImporterNext]_allVars
  PROVE  Orderly'
  <1>1. ImportInv'
    BY ImporterInv
  <1>2. CASE UNCHANGED allVars
    <2>1. UNCHANGED <<db, testbed, pc, job, ptr, link, add, requests, seen, known>>
      BY <1>2 DEF allVars, vars, importer, tables, locals
    <2> QED BY <2>1 DEF Orderly, OneName, Bears, RowBears, Awaited, Unused, Making, UserMembers, IsMember,
                        OneObject, SlicesOnly, ForSlices
  <1> QED BY <1>1, <1>2, OthersOrderly, ReadOrderly, PersonOrderly, SliceOrderly, LastOrderly
          DEF ImporterNext, ImporterStep

LEMMA InitOrderly == ImporterInit => Orderly
  <1> SUFFICES ASSUME ImporterInit PROVE Orderly
    OBVIOUS
  <1>1. PICK names \in SUBSET Names :
          /\ db = [i \in Id |-> IF i \in names THEN [hrn |-> i, pointer |-> i, researchers |-> {}, key |-> None, lost |-> FALSE]
                                  ELSE None]
          /\ testbed = [p \in Id |-> IF p \in names THEN NewObject(p) ELSE None]
    BY DEF ImporterInit, Init
  <1>2. \A w \in Workers : pc[w] = "idle" /\ ptr[w] = None /\ link[w] = {} /\ add[w] = {}
    BY DEF ImporterInit, Init
  <1>3. \A p \in Id : \A n : Bears(p, n) => n = p /\ p \in names
    BY <1>1, <1>2, IdFacts DEF Bears, ImporterInit, NoObjects, NewObject
  <1>4. \A i \in Id : \A n \in Names : RowBears(i, n) => n = i /\ i \in names
    BY <1>1, <1>2, IdFacts DEF RowBears, ImporterInit
  <1>5. Unused = 1 .. MaxRequests /\ Making = {}
    BY <1>2, BoundsAssumption DEF Unused, Making, ImporterInit, Init
  <1>6. \A i \in Awaited : i \in Id /\ i \notin Names
    BY <1>5, IdFacts DEF Awaited
  <1>7. OneName
    BY <1>3, <1>4, <1>5, <1>6, IdFacts DEF OneName, Awaited
  <1>8. NewObject(1).members = {} /\ \A p \in Id : testbed[p] # None => testbed[p].members = {} /\ testbed[p].name = p
    BY <1>1 DEF NewObject
  <1>9. UserMembers /\ OneObject
    BY <1>2, <1>8 DEF UserMembers, IsMember, OneObject
  <1>10. SlicesOnly /\ \A w \in Workers : ForSlices(w)
    BY <1>1, <1>2, <1>8 DEF SlicesOnly, ForSlices
  <1> QED BY <1>7, <1>9, <1>10 DEF Orderly

-----------------------------------------------------------------------------
(* PlanetLab: what an undisturbed import leaves, step by step                *)

LEMMA StillOnCourse ==
  ASSUME phase' # "idle", quiet' => OnCourse'
  PROVE  Undisturbed'
  BY DEF Undisturbed, ImportRepairs

LEMMA RepairedStays ==
  ASSUME NEW n, Repaired(n), UNCHANGED <<db, testbed>>
  PROVE  Repaired(n)'
  <1>1. RowsOf({n})' = RowsOf({n}) /\ ObjectsOf(n)' = ObjectsOf(n)
    BY DEF RowsOf, ObjectsOf
  <1>2. \A p : Recorded(testbed[p].members)' = Recorded(testbed[p].members)
    BY DEF Recorded
  <1>3. ASSUME NEW i \in RowsOf({n}), NEW p \in ObjectsOf(n)
        PROVE  /\ n \in Users => IF testbed'[p].keys = {} THEN db'[i].key = None
                                   ELSE db'[i].key \in testbed'[p].keys
               /\ {db'[r].pointer : r \in db'[i].researchers} = Recorded(testbed[p].members)'
    <2>1. /\ n \in Users => IF testbed[p].keys = {} THEN db[i].key = None
                              ELSE db[i].key \in testbed[p].keys
          /\ {db[r].pointer : r \in db[i].researchers} = Recorded(testbed[p].members)
      BY DEF Repaired
    <2>2. {db'[r].pointer : r \in db'[i].researchers} = {db[r].pointer : r \in db[i].researchers}
      OBVIOUS
    <2> QED BY <1>2, <2>1, <2>2
  <1>4. Cardinality(RowsOf({n})) = Cardinality(ObjectsOf(n))
    BY DEF Repaired
  <1> QED BY <1>1, <1>3, <1>4 DEF Repaired

LEMMA NobodyDisturbs ==
  ASSUME Undisturbed, UNCHANGED <<db, testbed, phase, seen, todo, known, located, stale>>, quiet' => quiet
  PROVE  Undisturbed'
  <1>1. ASSUME ImportRepairs, quiet' PROVE ImportRepairs'
    <2>1. phase = "idle" => \A n \in Names : Repaired(n)
      BY <1>1 DEF ImportRepairs, Repaired
    <2>2. phase' = "idle" => \A n \in Names : Repaired(n)'
      BY <2>1, RepairedStays
    <2> QED BY <2>2 DEF ImportRepairs, Repaired
  <1>2. OnCourse => OnCourse'
    BY DEF OnCourse, SeenAll, InDicts, NotStale, Present, AllFine, Fine, KeyRight, ResearchersRight, Todo, Located
  <1> QED BY <1>1, <1>2 DEF Undisturbed

LEMMA MeanwhileUndisturbed ==
  ASSUME Undisturbed, Meanwhile
  PROVE  Undisturbed'
  <1>1. UNCHANGED <<phase, seen, todo, known, located, stale>>
    BY DEF Meanwhile, importer, tables
  <1>2. quiet' => quiet /\ UNCHANGED <<db, testbed>>
    BY DEF Meanwhile, stores
  <1>3. CASE quiet'
    BY <1>1, <1>2, <1>3, NobodyDisturbs
  <1>4. CASE ~quiet'
    BY <1>4 DEF Undisturbed
  <1> QED BY <1>3, <1>4

LEMMA EndsUnquiet ==
  ASSUME End(FALSE)
  PROVE  Undisturbed'
  BY DEF End, Undisturbed

\* The two dictionaries depend on the phase only when it deletes.
LEMMA DictsRest ==
  ASSUME InDicts, NotStale, UNCHANGED <<db, testbed, known, located, stale>>, phase # "delete"
  PROVE  InDicts' /\ NotStale'
  BY DEF InDicts, NotStale, Present

LEMMA ReadRecordsOn ==
  ASSUME ImportInv, Orderly, ReadRecords
  PROVE  Undisturbed'
  <1>1. /\ phase = "idle" /\ phase' = "sites" /\ stale' = {i \in Id : db[i] # None}
        /\ UNCHANGED <<db, testbed, seen, todo>>
    BY DEF ReadRecords, Import
  <1>2. SeenAll' /\ AllFine' /\ NotStale'
    BY <1>1 DEF ImportInv, Blank, SeenAll, AllFine, NotStale
  <1> DEFINE Pointed(p) == {i \in Id : db[i] # None /\ db[i].pointer = p}
             KnownOf(p) == {known'[n] : n \in Names} \cap Pointed(p)
             OneOf(set) == IF set = {} THEN {None} ELSE set
  <1>3. /\ known' \in [Names -> Id \cup {None}] /\ \A n \in Names : known'[n] \in OneOf(RowsOf({n}))
        /\ \A p \in Id : located'[p] \in OneOf(IF \E n \in Names : known'[n] \in Pointed(p)
                                                THEN KnownOf(p) ELSE Pointed(p))
    BY DEF ReadRecords, Dicts
  <1>4. None \notin Id
    BY IdFacts
  <1>5. \A i \in Id : db[i] # None => db[i].hrn \in Names /\ db[i].pointer \in Id
    BY DEF ImportInv, IInv, StoresOK, Row
  <1>6. \A n \in Names : known'[n] # None => known'[n] \in Id /\ db[known'[n]] # None /\ db[known'[n]].hrn = n
    BY <1>3 DEF RowsOf
  <1>7. ASSUME NEW p \in Id, NEW n \in Names, known'[n] \in Pointed(p) PROVE located'[p] \in KnownOf(p)
    <2>1. known'[n] \in KnownOf(p)
      BY <1>7
    <2>2. OneOf(KnownOf(p)) = KnownOf(p)
      BY <2>1
    <2>3. located'[p] \in OneOf(KnownOf(p))
      BY <1>3, <1>7
    <2> QED BY <2>2, <2>3
  <1>8. ASSUME NEW p \in Id, \A n \in Names : known'[n] \notin Pointed(p)
        PROVE  located'[p] \in Pointed(p) \/ (located'[p] = None /\ Pointed(p) = {})
    <2>1. located'[p] \in OneOf(Pointed(p))
      BY <1>3, <1>8
    <2> QED BY <2>1
  <1>9. \A p \in Id : located'[p] \in Pointed(p) \/ (located'[p] = None /\ Pointed(p) = {})
    BY <1>7, <1>8
  <1>10. ASSUME NEW n \in Names, known'[n] # None PROVE located'[db[known'[n]].pointer] = known'[n]
    <2>1. PICK i \in Id : i = known'[n] /\ db[i] # None /\ db[i].hrn = n
      BY <1>6, <1>10
    <2>2. PICK p \in Id : p = db[i].pointer
      BY <1>5, <2>1
    <2>3. i \in Pointed(p)
      BY <2>1, <2>2
    <2>4. located'[p] \in KnownOf(p)
      BY <1>7, <2>1, <2>3
    <2>5. PICK m \in Names : located'[p] = known'[m] /\ known'[m] \in Pointed(p)
      BY <2>4
    <2>6. known'[m] # None /\ db[known'[m]].hrn = m
      BY <1>4, <1>6, <2>5
    <2>7. Bears(p, n) /\ Bears(p, m)
      BY <2>1, <2>2, <2>5, <2>6 DEF Bears
    <2>8. m = n
      BY <2>7 DEF Orderly, OneName
    <2> QED BY <2>1, <2>2, <2>5, <2>8
  <1>11. \A i \in Id : db[i] # None => located'[db[i].pointer] # None /\ known'[db[i].hrn] # None
    <2> TAKE i \in Id
    <2> HAVE db[i] # None
    <2>1. PICK p \in Id, n \in Names : p = db[i].pointer /\ n = db[i].hrn
      BY <1>5
    <2>2. i \in Pointed(p) /\ i \in RowsOf({n})
      BY <2>1 DEF RowsOf
    <2>3. known'[n] \in OneOf(RowsOf({n})) /\ RowsOf({n}) \subseteq Id
      BY <1>3 DEF RowsOf
    <2>4. known'[n] # None
      BY <1>4, <2>2, <2>3
    <2>5. located'[p] # None
      BY <1>4, <1>9, <2>2
    <2> QED BY <2>1, <2>4, <2>5
  <1> HIDE DEF OneOf, KnownOf
  <1>12. InDicts'
    BY <1>1, <1>6, <1>9, <1>10, <1>11 DEF InDicts
  <1> QED BY <1>1, <1>2, <1>12, StillOnCourse DEF OnCourse

LEMMA ReadSitesOn ==
  ASSUME ImportInv, Undisturbed, ReadSites
  PROVE  Undisturbed'
  <1>1. /\ phase = "sites" /\ phase' = "persons" /\ todo' = {p \in Id : testbed[p] # None}
        /\ UNCHANGED <<db, testbed, seen, known, located, stale, quiet>>
    BY DEF ReadSites, Import
  <1>2. CASE ~quiet
    BY <1>1, <1>2 DEF Undisturbed
  <1>3. CASE quiet
    <2>1. OnCourse
      BY <1>1, <1>3 DEF Undisturbed
    <2>2. SeenAll' /\ AllFine'
      BY <1>1, <2>1 DEF OnCourse, SeenAll, AllFine
    <2> QED BY <1>1, <2>1, <2>2, DictsRest, StillOnCourse DEF OnCourse
  <1> QED BY <1>1, <1>2, <1>3 DEF ImportInv, TablesOK

LEMMA ReadPersonsOn ==
  ASSUME ImportInv, Undisturbed, ReadPersons
  PROVE  Undisturbed'
  <1>1. /\ phase = "persons" /\ phase' = "slices" /\ todo' = todo
        /\ UNCHANGED <<db, testbed, known, located, stale, quiet>>
        /\ \A p \in Id : seen'[p] = IF p \in todo /\ testbed[p] # None /\ testbed[p].name \in Users
                                      THEN testbed[p] ELSE seen[p]
    BY DEF ReadPersons, Saw, Import
  <1>2. CASE ~quiet
    BY <1>1, <1>2 DEF Undisturbed
  <1>3. CASE quiet
    <2>1. OnCourse
      BY <1>1, <1>3 DEF Undisturbed
    <2>2. SeenAll' /\ AllFine'
      BY <1>1, <2>1 DEF OnCourse, SeenAll, AllFine
    <2> QED BY <1>1, <2>1, <2>2, DictsRest, StillOnCourse DEF OnCourse
  <1> QED BY <1>1, <1>2, <1>3

LEMMA ReadSlicesOn ==
  ASSUME ImportInv, Undisturbed, ReadSlices
  PROVE  Undisturbed'
  <1>1. /\ phase = "slices" /\ phase' = "import" /\ todo' = {p \in todo : seen'[p] # None}
        /\ UNCHANGED <<db, testbed, known, located, stale, quiet>>
        /\ \A p \in Id : seen'[p] = IF p \in todo /\ testbed[p] # None /\ testbed[p].name \in Slices
                                      THEN testbed[p] ELSE seen[p]
    BY DEF ReadSlices, Saw, Import
  <1>2. CASE ~quiet
    BY <1>1, <1>2 DEF Undisturbed
  <1>3. CASE quiet
    <2>1. OnCourse
      BY <1>1, <1>3 DEF Undisturbed
    <2>2. \A p \in Id : testbed[p] # None => testbed[p].name \in Users \cup Slices
      BY DEF ImportInv, IInv, StoresOK, Object, Names
    <2>3. todo = {p \in Id : testbed[p] # None} /\ \A p \in Id : seen'[p] = testbed[p]
      BY <1>1, <2>1, <2>2 DEF OnCourse, SeenAll
    <2>4. SeenAll' /\ AllFine'
      BY <1>1, <2>3 DEF SeenAll, AllFine
    <2> QED BY <1>1, <2>1, <2>4, DictsRest, StillOnCourse DEF OnCourse
  <1> QED BY <1>1, <1>2, <1>3

\* While it imports, the importer knows a row of a name under that name.
LEMMA KnownRow ==
  ASSUME ImportInv, InDicts, phase = "import", NEW n \in Names, known[n] # None
  PROVE  known[n] \in Id /\ db[known[n]] # None /\ db[known[n]].hrn = n
  BY DEF ImportInv, TablesOK, InDicts

\* Where the row of a name is missing, no row has the object's pointer.
LEMMA InsertOn ==
  ASSUME ImportInv, Orderly, OnCourse, phase = "import", phase' = "import", Import, UNCHANGED <<seen, stale>>,
         NEW names, NEW p \in Todo(names), NEW key \in Keys \cup {None}, known[seen[p].name] = None, Insert(p, key)
  PROVE  /\ located[p] = None /\ requests + 1 \in Id /\ requests + 1 \notin stale /\ db[requests + 1] = None
         /\ known' = [known EXCEPT ![seen[p].name] = requests + 1]
         /\ located' = [located EXCEPT ![p] = requests + 1]
         /\ db'[requests + 1] = [hrn |-> seen[p].name, pointer |-> p, researchers |-> {}, key |-> key, lost |-> FALSE]
         /\ \A i \in Id \ {requests + 1} : db'[i] = db[i]
         /\ db'[requests + 1] # None
         /\ InDicts' /\ NotStale'
  <1> DEFINE n == seen[p].name
             new == requests + 1
  <1>1. p \in Id /\ seen[p] # None /\ n \in Names /\ testbed[p] = seen[p] /\ testbed' = testbed
    BY TodoFacts DEF OnCourse, SeenAll, Import
  <1>2. requests \in Nat /\ new \in Id /\ new \in Unused
    BY BoundsAssumption DEF Insert, ImportInv, IInv, HistoryOK, Id, Unused
  <1>3. db[new] = None /\ new \notin stale /\ new # None /\ None \notin Id
    BY <1>2, IdFacts DEF ImportInv, NewIds, TablesOK
  <1>4. ASSUME located[p] # None PROVE FALSE
    <2>1. located[p] \in Id /\ db[located[p]] # None /\ db[located[p]].pointer = p
      BY <1>1, <1>4 DEF OnCourse, InDicts, ImportInv, TablesOK
    <2>2. db[located[p]].hrn \in Names /\ known[db[located[p]].hrn] # None
      BY <2>1 DEF OnCourse, InDicts, ImportInv, IInv, StoresOK, Row
    <2>3. Bears(p, n) /\ Bears(p, db[located[p]].hrn)
      BY <1>1, <2>1 DEF Bears
    <2>4. n = db[located[p]].hrn
      BY <1>1, <2>2, <2>3 DEF Orderly, OneName
    <2> QED BY <2>2, <2>4
  <1>5. /\ known' = [known EXCEPT ![n] = new] /\ located' = [located EXCEPT ![p] = new]
        /\ db' = [db EXCEPT ![new] = [hrn |-> n, pointer |-> p, researchers |-> {}, key |-> key, lost |-> FALSE]]
    BY <1>1, <1>4 DEF Insert, ImportInv, TablesOK
  <1>6. /\ db'[new] = [hrn |-> n, pointer |-> p, researchers |-> {}, key |-> key, lost |-> FALSE]
        /\ \A i \in Id \ {new} : db'[i] = db[i]
    BY <1>2, <1>5 DEF ImportInv, IInv, StoresOK
  <1>7. \A i \in Id : db[i] # None => i # new /\ db'[i] = db[i] /\ db[i].hrn \in Names /\ db[i].pointer \in Id
    BY <1>3, <1>6 DEF ImportInv, IInv, StoresOK, Row
  <1>8. /\ \A m \in Names : known'[m] = IF m = n THEN new ELSE known[m]
        /\ \A q \in Id : located'[q] = IF q = p THEN new ELSE located[q]
    BY <1>1, <1>5 DEF ImportInv, TablesOK
  <1>9. \A m \in Names : known[m] # None =>
          known[m] \in Id /\ db[known[m]] # None /\ db[known[m]].hrn = m /\ located[db[known[m]].pointer] = known[m]
    BY DEF ImportInv, TablesOK, OnCourse, InDicts
  <1>10. \A q \in Id : located[q] # None => located[q] \in Id /\ db[located[q]] # None /\ db[located[q]].pointer = q
    BY DEF ImportInv, TablesOK, OnCourse, InDicts
  <1>11. \A i \in Id : db[i] # None => located[db[i].pointer] # None /\ known[db[i].hrn] # None
    BY DEF OnCourse, InDicts
  <1>12. db'[new] # None
    <2>1. [hrn |-> n, pointer |-> p, researchers |-> {}, key |-> key, lost |-> FALSE] \in Row
      BY <1>1 DEF Row
    <2> QED BY <1>6, <2>1, NoneIsNothing
  <1>13. InDicts'
    <2>1. ASSUME NEW m \in Names, known'[m] # None
          PROVE  /\ db'[known'[m]] # None /\ db'[known'[m]].hrn = m
                 /\ located'[db'[known'[m]].pointer] = known'[m]
      <3>1. CASE m = n
        BY <1>1, <1>6, <1>8, <1>12, <3>1
      <3>2. CASE m # n
        <4>1. /\ known'[m] = known[m] /\ db'[known[m]] = db[known[m]] /\ db[known[m]].pointer \in Id
              /\ located[db[known[m]].pointer] = known[m]
          BY <1>7, <1>8, <1>9, <2>1, <3>2
        <4>2. db[known[m]].pointer # p
          BY <1>3, <1>4, <1>9, <2>1, <3>2, <4>1
        <4> QED BY <1>8, <1>9, <2>1, <3>2, <4>1, <4>2
      <3> QED BY <3>1, <3>2
    <2>2. ASSUME NEW q \in Id, located'[q] # None PROVE db'[located'[q]] # None /\ db'[located'[q]].pointer = q
      BY <1>6, <1>7, <1>8, <1>10, <1>12, <2>2
    <2>3. ASSUME NEW i \in Id, db'[i] # None PROVE located'[db'[i].pointer] # None /\ known'[db'[i].hrn] # None
      BY <1>1, <1>3, <1>6, <1>7, <1>8, <1>11, <2>3
    <2> QED BY <2>1, <2>2, <2>3 DEF InDicts
  <1>14. NotStale'
    <2>1. n \in Present
      BY <1>1 DEF Present
    <2>2. ASSUME NEW i \in Id, db'[i] # None, i \notin stale' PROVE \E m \in Present : known'[m] = i
      <3>1. CASE i = new
        BY <1>1, <1>8, <2>1, <3>1
      <3>2. CASE i # new
        <4>1. db[i] # None /\ i \notin stale
          BY <1>6, <2>2, <3>2
        <4>2. PICK m \in Present : known[m] = i
          BY <4>1 DEF OnCourse, NotStale
        <4>3. m # n /\ m \in Names
          BY <2>2, <4>2, IdFacts DEF Present
        <4> QED BY <1>8, <4>2, <4>3
      <3> QED BY <3>1, <3>2
    <2>3. Present' = Present
      BY <1>1 DEF Present
    <2> QED BY <2>2, <2>3 DEF NotStale
  <1> QED BY <1>2, <1>3, <1>4, <1>5, <1>6, <1>12, <1>13, <1>14

\* An object done stays done when its row, its name's row and its pointers do.
LEMMA DoneStays ==
  ASSUME NEW q \in Id, Fine(q), testbed' = testbed, seen' = seen, testbed[q].name \in Slices => Todo(Users)' \subseteq Todo(Users),
         known'[testbed[q].name] = known[testbed[q].name],
         NEW i, i = known[testbed[q].name], i \notin stale', db'[i] # None,
         db'[i].key = db[i].key \/ testbed[q].name \notin Users,
         testbed[q].name \in Slices =>
           db'[i].researchers = {r \in Located(q)' : db'[r] # None}
  PROVE  Fine(q)'
  BY DEF Fine, KeyRight, ResearchersRight

LEMMA AddSliceRecordOn ==
  ASSUME ImportInv, Orderly, Undisturbed, AddSliceRecord
  PROVE  Undisturbed'
  <1>1. PICK p \in Todo(Slices) : known[seen[p].name] = None /\ Insert(p, None)
    BY DEF AddSliceRecord
  <1>2. /\ phase = "import" /\ phase' = "import" /\ Import /\ UNCHANGED <<seen, stale, todo, quiet, testbed>>
    BY DEF AddSliceRecord, Import
  <1>3. CASE ~quiet
    BY <1>2, <1>3 DEF Undisturbed
  <1>4. CASE quiet
    <2>1. OnCourse
      BY <1>2, <1>4 DEF Undisturbed
    <2>2. /\ located[p] = None /\ requests + 1 \in Id /\ requests + 1 \notin stale /\ db[requests + 1] = None
          /\ known' = [known EXCEPT ![seen[p].name] = requests + 1]
          /\ located' = [located EXCEPT ![p] = requests + 1]
          /\ \A i \in Id \ {requests + 1} : db'[i] = db[i]
          /\ InDicts' /\ NotStale'
      BY <1>1, <1>2, <2>1, InsertOn
    <2>3. /\ p \in todo /\ p \in Id /\ seen[p] # None /\ seen[p].name \in Names /\ seen[p].name \in Slices
          /\ testbed[p] = seen[p]
      BY <1>2, <2>1, TodoFacts DEF OnCourse, SeenAll
    <2>4. ASSUME NEW q \in Id, testbed[q] # None, q \notin todo PROVE Fine(q)'
      <3>1. Fine(q) /\ seen[q] = testbed[q] /\ testbed[q].name \in Names /\ testbed[q].members \subseteq Id
        BY <1>2, <2>1, <2>4 DEF OnCourse, AllFine, SeenAll, ImportInv, IInv, StoresOK, Object
      <3>2. testbed[q].name # seen[p].name
        BY <2>3, <2>4 DEF Orderly, OneObject
      <3>3. PICK i \in Id : i = known[testbed[q].name] /\ i \notin stale /\ db[i] # None
        BY <3>1 DEF Fine, ImportInv, TablesOK
      <3>4. i # requests + 1 /\ db'[i] = db[i] /\ known'[testbed[q].name] = i
        BY <2>2, <2>3, <3>1, <3>2, <3>3 DEF ImportInv, TablesOK
      <3>5. p \notin testbed[q].members
        <4>1. Bears(p, seen[p].name)
          BY <2>3 DEF Bears
        <4>2. p \in testbed[q].members => IsMember(p)
          BY <2>4 DEF IsMember
        <4> QED BY <2>3, <4>1, <4>2 DEF Orderly, UserMembers
      <3>6. Located(q)' = Located(q)
        BY <1>2, <2>2, <2>3, <3>1, <3>5 DEF Located, ImportInv, TablesOK
      <3>7. \A r \in Located(q) : r \in Id /\ r # requests + 1
        BY <1>2, <2>1, <2>2, <3>1 DEF Located, ImportInv, TablesOK, OnCourse, InDicts
      <3>8. {r \in Located(q)' : db'[r] # None} = {r \in Located(q) : db[r] # None}
        BY <2>2, <3>6, <3>7
      <3>9. Todo(Users)' = Todo(Users)
        BY <1>2 DEF Todo
      <3>10. testbed[q].name \in Slices => db'[i].researchers = {r \in Located(q)' : db'[r] # None}
        BY <3>1, <3>3, <3>4, <3>8 DEF Fine, ResearchersRight
      <3> QED BY <1>2, <3>1, <3>3, <3>4, <3>9, <3>10, DoneStays
    <2>5. SeenAll' /\ AllFine'
      BY <1>2, <2>1, <2>4 DEF OnCourse, SeenAll, AllFine
    <2> QED BY <1>2, <2>2, <2>5, StillOnCourse DEF OnCourse
  <1> QED BY <1>3, <1>4

LEMMA ImportPersonOn ==
  ASSUME ImportInv, Orderly, Undisturbed, ImportPerson
  PROVE  Undisturbed'
  <1>1. /\ phase = "import" /\ phase' = "import" /\ Import /\ UNCHANGED <<seen, quiet, testbed>>
    BY DEF ImportPerson, Import
  <1>2. CASE ~quiet
    BY <1>1, <1>2 DEF Undisturbed
  <1>3. CASE quiet
    <2>1. OnCourse
      BY <1>1, <1>3 DEF Undisturbed
    <2>2. PICK p \in Todo(Users) : \E key \in SomeKey(p) :
            /\ todo' = todo \ {p}
            /\ \/ known[seen[p].name] = None /\ Insert(p, key) /\ stale' = stale
               \/ \E i : /\ i = known[seen[p].name] /\ i # None
                         /\ UNCHANGED <<requests, known, located>>
                         /\ db[i] # None =>
                              /\ db' = IF KeysOutdated(i, p) THEN [db EXCEPT ![i].key = key, ![i].lost = FALSE] ELSE db
                              /\ stale' = stale \ {i}
      BY DEF ImportPerson
    <2>3. PICK key \in SomeKey(p) :
            /\ todo' = todo \ {p}
            /\ \/ known[seen[p].name] = None /\ Insert(p, key) /\ stale' = stale
               \/ \E i : /\ i = known[seen[p].name] /\ i # None
                         /\ UNCHANGED <<requests, known, located>>
                         /\ db[i] # None =>
                              /\ db' = IF KeysOutdated(i, p) THEN [db EXCEPT ![i].key = key, ![i].lost = FALSE] ELSE db
                              /\ stale' = stale \ {i}
      BY <2>2
    <2>4. /\ p \in todo /\ p \in Id /\ seen[p] # None /\ seen[p].name \in Names /\ seen[p].name \in Users
          /\ testbed[p] = seen[p] /\ seen[p] \in Object
      BY <1>1, <2>1, TodoFacts DEF OnCourse, SeenAll
    <2>5. /\ key \in Keys \cup {None}
          /\ IF testbed[p].keys = {} THEN key = None ELSE key \in testbed[p].keys
      BY <2>4 DEF SomeKey, Object
    <2>6. ASSUME NEW q \in Id, testbed[q] # None, q \notin todo
          PROVE  /\ Fine(q) /\ testbed[q].name \in Users /\ testbed[q].name \notin Slices
                 /\ testbed[q].name \in Names /\ testbed[q].name # seen[p].name
      <3>1. Fine(q) /\ testbed[q].name \in Names
        BY <1>1, <2>1, <2>6 DEF OnCourse, AllFine, ImportInv, IInv, StoresOK, Object
      <3>2. testbed[q].name \notin Slices
        BY <2>2, <3>1 DEF Fine, ResearchersRight
      <3>3. testbed[q].name # seen[p].name
        BY <2>4, <2>6 DEF Orderly, OneObject
      <3> QED BY <3>1, <3>2, <3>3, IdFacts
    <2>7. SeenAll'
      BY <1>1, <2>1 DEF OnCourse, SeenAll
    <2>8. CASE known[seen[p].name] = None /\ Insert(p, key) /\ stale' = stale
      <3>1. /\ located[p] = None /\ requests + 1 \in Id /\ requests + 1 \notin stale /\ db[requests + 1] = None
            /\ known' = [known EXCEPT ![seen[p].name] = requests + 1]
            /\ db'[requests + 1] = [hrn |-> seen[p].name, pointer |-> p, researchers |-> {}, key |-> key, lost |-> FALSE]
            /\ db'[requests + 1] # None
            /\ \A i \in Id \ {requests + 1} : db'[i] = db[i]
            /\ InDicts' /\ NotStale'
        BY <1>1, <2>1, <2>5, <2>8, InsertOn
      <3>2. ASSUME NEW q \in Id, testbed[q] # None, q \notin todo PROVE Fine(q)'
        <4>1. /\ Fine(q) /\ testbed[q].name \in Users /\ testbed[q].name \notin Slices
              /\ testbed[q].name \in Names /\ testbed[q].name # seen[p].name
          BY <2>6, <3>2
        <4>2. PICK i \in Id : i = known[testbed[q].name] /\ i \notin stale /\ db[i] # None
          BY <4>1 DEF Fine, ImportInv, TablesOK
        <4>3. i # requests + 1 /\ db'[i] = db[i] /\ known'[testbed[q].name] = i
          BY <2>4, <3>1, <4>1, <4>2 DEF ImportInv, TablesOK
        <4> QED BY <1>1, <2>8, <4>1, <4>2, <4>3, DoneStays
      <3>3. Fine(p)'
        <4>1. /\ known'[testbed[p].name] = requests + 1 /\ testbed' = testbed /\ stale' = stale
              /\ requests + 1 # None
          BY <1>1, <2>4, <2>8, <3>1, IdFacts DEF ImportInv, TablesOK
        <4>2. testbed[p].name \notin Slices
          BY <2>4, IdFacts
        <4> QED BY <2>5, <3>1, <4>1, <4>2 DEF Fine, KeyRight, ResearchersRight
      <3>4. AllFine'
        BY <1>1, <2>3, <3>2, <3>3 DEF AllFine
      <3> QED BY <1>1, <2>7, <3>1, <3>4, StillOnCourse DEF OnCourse
    <2>9. ASSUME NEW i, i = known[seen[p].name], i # None, UNCHANGED <<known, located>>,
                 db[i] # None =>
                   /\ db' = IF KeysOutdated(i, p) THEN [db EXCEPT ![i].key = key, ![i].lost = FALSE] ELSE db
                   /\ stale' = stale \ {i}
          PROVE  Undisturbed'
      <3>1. i \in Id /\ db[i] # None /\ db[i].hrn = seen[p].name
        BY <1>1, <2>1, <2>4, <2>9, KnownRow DEF OnCourse
      <3>2. db' = (IF KeysOutdated(i, p) THEN [db EXCEPT ![i].key = key, ![i].lost = FALSE] ELSE db) /\ stale' = stale \ {i}
        BY <2>9, <3>1
      <3>3. \A r \in Id : /\ db'[r] # None <=> db[r] # None
                          /\ db[r] # None => db'[r].hrn = db[r].hrn /\ db'[r].pointer = db[r].pointer
                          /\ r # i => db'[r] = db[r]
        <4>1. db[i] \in Row
          BY <3>1 DEF ImportInv, IInv, StoresOK
        <4>2. PICK row : row = [db[i] EXCEPT !.key = key, !.lost = FALSE]
          OBVIOUS
        <4>3. row \in Row /\ row.hrn = db[i].hrn /\ row.pointer = db[i].pointer /\ row # None
          BY <2>5, <4>1, <4>2, NoneIsNothing DEF Row
        <4>4. db' = db \/ db' = [db EXCEPT ![i] = row]
          BY <3>1, <3>2, <4>2 DEF ImportInv, IInv, StoresOK
        <4> QED BY <3>1, <4>3, <4>4 DEF ImportInv, IInv, StoresOK
      <3>4. IF testbed[p].keys = {} THEN db'[i].key = None ELSE db'[i].key \in testbed[p].keys
        <4>1. db'[i].key = IF KeysOutdated(i, p) THEN key ELSE db[i].key
          BY <3>1, <3>2 DEF ImportInv, IInv, StoresOK, Row
        <4> QED BY <2>4, <2>5, <4>1 DEF KeysOutdated
      <3>5. \A m \in Names : known[m] # None => known[m] \in Id
        BY DEF ImportInv, TablesOK
      <3>6. \A q \in Id : located[q] # None => located[q] \in Id
        BY DEF ImportInv, TablesOK
      <3>7. InDicts'
        BY <1>1, <2>1, <2>9, <3>3, <3>5, <3>6 DEF OnCourse, InDicts
      <3>8. NotStale'
        <4>1. Present' = Present /\ seen[p].name \in Present
          BY SMTT(30), <1>1, <2>4 DEF Present
        <4> QED BY <2>1, <2>9, <3>2, <3>3, <4>1 DEF OnCourse, NotStale
      <3>9. ASSUME NEW q \in Id, testbed[q] # None, q \notin todo PROVE Fine(q)'
        <4>1. /\ Fine(q) /\ testbed[q].name \in Users /\ testbed[q].name \notin Slices
              /\ testbed[q].name \in Names /\ testbed[q].name # seen[p].name
          BY <2>6, <3>9
        <4>2. PICK r \in Id : r = known[testbed[q].name] /\ r \notin stale /\ db[r] # None
          BY <4>1 DEF Fine, ImportInv, TablesOK
        <4>3. db[r].hrn = testbed[q].name
          BY <1>1, <2>1, <4>1, <4>2, KnownRow, IdFacts DEF OnCourse
        <4> QED BY <1>1, <2>9, <3>1, <3>2, <3>3, <4>1, <4>2, <4>3, DoneStays
      <3>10. Fine(p)'
        <4>1. testbed[p].name \notin Slices
          BY <2>4, IdFacts
        <4> QED BY <1>1, <2>4, <2>9, <3>1, <3>2, <3>3, <3>4, <4>1 DEF Fine, KeyRight, ResearchersRight
      <3>11. AllFine'
        BY <1>1, <2>3, <3>9, <3>10 DEF AllFine
      <3> QED BY <1>1, <2>7, <3>7, <3>8, <3>11, StillOnCourse DEF OnCourse
    <2> QED BY <2>3, <2>8, <2>9
  <1> QED BY <1>2, <1>3

LEMMA ImportSliceOn ==
  ASSUME ImportInv, Orderly, Undisturbed, ImportSlice
  PROVE  Undisturbed'
  <1>1. phase = "import" /\ Import /\ Todo(Users) = {} /\ testbed' = testbed
    BY DEF ImportSlice, Import
  <1>2. PICK p \in Todo(Slices) :
          \/ End(FALSE)
          \/ /\ known[seen[p].name] # None
             /\ \A r \in {known[seen[p].name]} \cup Located(p) : db[r] # None
             /\ db' = [db EXCEPT ![known[seen[p].name]].researchers = Located(p)]
             /\ stale' = stale \ {known[seen[p].name]}
             /\ todo' = todo \ {p}
             /\ UNCHANGED <<phase, known, located, seen, quiet>>
    BY DEF ImportSlice, SetResearchers
  <1>3. CASE End(FALSE)
    BY <1>3, EndsUnquiet
  <1>4. ASSUME NEW i, i = known[seen[p].name], i # None, \A r \in {i} \cup Located(p) : db[r] # None,
               db' = [db EXCEPT ![i].researchers = Located(p)], stale' = stale \ {i},
               todo' = todo \ {p}, UNCHANGED <<phase, known, located, seen, quiet>>
        PROVE  Undisturbed'
    <2>1. CASE ~quiet
      BY <1>4, <2>1 DEF Undisturbed
    <2>2. CASE quiet
      <3>1. OnCourse
        BY <1>1, <2>2 DEF Undisturbed
      <3>2. /\ p \in todo /\ p \in Id /\ seen[p] # None /\ seen[p].name \in Names /\ seen[p].name \in Slices
            /\ testbed[p] = seen[p] /\ seen[p] \in Object
        BY <1>1, <3>1, TodoFacts DEF OnCourse, SeenAll
      <3>3. i \in Id /\ db[i] \in Row /\ db[i] # None /\ db[i].hrn = seen[p].name
        BY <1>1, <1>4, <3>1, <3>2, KnownRow DEF OnCourse, ImportInv, IInv, StoresOK
      <3>4. Located(p) \in SUBSET Id
        BY <3>2 DEF Located, Object, ImportInv, TablesOK
      <3>5. /\ db'[i].hrn = db[i].hrn /\ db'[i].pointer = db[i].pointer /\ db'[i].researchers = Located(p)
            /\ db'[i] # None /\ \A r \in Id : r # i => db'[r] = db[r]
        <4>1. PICK row : row = [db[i] EXCEPT !.researchers = Located(p)]
          OBVIOUS
        <4>2. /\ row \in Row /\ row.hrn = db[i].hrn /\ row.pointer = db[i].pointer /\ row.researchers = Located(p)
              /\ row # None
          BY <3>3, <3>4, <4>1, NoneIsNothing DEF Row
        <4>3. db' = [db EXCEPT ![i] = row]
          BY <1>4, <3>3, <4>1 DEF ImportInv, IInv, StoresOK
        <4> QED BY <3>3, <4>2, <4>3 DEF ImportInv, IInv, StoresOK
      <3>6. \A r \in Id : /\ db'[r] # None <=> db[r] # None
                          /\ db[r] # None => db'[r].hrn = db[r].hrn /\ db'[r].pointer = db[r].pointer
        BY <3>3, <3>5
      <3>7. /\ \A m \in Names : known[m] # None => known[m] \in Id
            /\ \A q \in Id : located[q] # None => located[q] \in Id
        BY DEF ImportInv, TablesOK
      <3>8. InDicts'
        <4>1. InDicts /\ known' = known /\ located' = located /\ phase' = phase
          BY <1>4, <3>1 DEF OnCourse
        <4>2. ASSUME NEW m \in Names, known[m] # None
              PROVE  IF db'[known[m]] = None THEN phase = "delete"
                     ELSE db'[known[m]].hrn = m /\ located[db'[known[m]].pointer] = known[m]
          BY <3>6, <3>7, <4>1, <4>2 DEF InDicts
        <4>3. ASSUME NEW q \in Id, located[q] # None
              PROVE  IF db'[located[q]] = None THEN phase = "delete" ELSE db'[located[q]].pointer = q
          BY <3>6, <3>7, <4>1, <4>3 DEF InDicts
        <4>4. ASSUME NEW r \in Id, db'[r] # None
              PROVE  /\ located[db'[r].pointer] # None
                     /\ phase # "delete" => known[db'[r].hrn] # None
          BY SMTT(30), <3>6, <4>1, <4>4 DEF InDicts
        <4> QED BY <4>1, <4>2, <4>3, <4>4 DEF InDicts
      <3>9. NotStale'
        <4>1. Present' = Present /\ seen[p].name \in Present
          BY <1>1, <3>2 DEF Present
        <4> QED BY <1>4, <3>1, <3>6, <4>1 DEF OnCourse, NotStale
      <3>10. Todo(Users)' = {}
        BY <1>1, <1>4 DEF Todo
      <3>11. \A q \in Id : Located(q)' = Located(q)
        BY SMTT(30), <1>4 DEF Located
      <3>12. ASSUME NEW q \in Id, testbed[q] # None, q \notin todo PROVE Fine(q)'
        <4>1. Fine(q) /\ testbed[q].name \in Names /\ testbed[q].members \subseteq Id /\ seen[q] = testbed[q]
          BY <1>1, <3>1, <3>12 DEF OnCourse, AllFine, SeenAll, ImportInv, IInv, StoresOK, Object
        <4>2. testbed[q].name # seen[p].name
          BY <3>2, <3>12 DEF Orderly, OneObject
        <4>3. PICK r \in Id : r = known[testbed[q].name] /\ r \notin stale /\ db[r] # None
          BY <4>1 DEF Fine, ImportInv, TablesOK
        <4>4. db[r].hrn = testbed[q].name
          BY <1>1, <3>1, <4>1, <4>3, KnownRow, IdFacts DEF OnCourse
        <4>5. r # i /\ db'[r] = db[r]
          BY <3>3, <3>5, <4>2, <4>4
        <4>6. Located(q) \in SUBSET Id
          BY <4>1 DEF Located, ImportInv, TablesOK
        <4>7. {s \in Located(q)' : db'[s] # None} = {s \in Located(q) : db[s] # None}
          BY <3>6, <3>11, <4>6
        <4>8. testbed[q].name \in Slices => db'[r].researchers = {s \in Located(q)' : db'[s] # None}
          BY SMTT(30), <4>1, <4>3, <4>5, <4>7 DEF Fine, ResearchersRight
        <4> QED BY <1>1, <1>4, <3>10, <4>1, <4>3, <4>5, <4>8, DoneStays
      <3>13. Fine(p)'
        <4>1. testbed[p].name \notin Users
          BY <3>2, IdFacts
        <4>2. Located(p) = {s \in Located(p)' : db'[s] # None}
          BY <1>4, <3>2, <3>4, <3>6, <3>11
        <4>3. known'[testbed'[p].name] = i /\ i \notin stale'
          BY <1>1, <1>4, <3>2
        <4>4. KeyRight(p, i)' /\ ResearchersRight(p, i)'
          BY <1>1, <3>5, <3>10, <4>1, <4>2 DEF KeyRight, ResearchersRight
        <4> QED BY <1>4, <3>5, <4>3, <4>4 DEF Fine, KeyRight, ResearchersRight
      <3>14. AllFine'
        BY <1>1, <1>4, <3>12, <3>13 DEF AllFine
      <3>15. SeenAll'
        BY <1>1, <1>4, <3>1 DEF OnCourse, SeenAll
      <3> QED BY <1>1, <1>4, <3>8, <3>9, <3>14, <3>15, StillOnCourse DEF OnCourse
    <2> QED BY <2>1, <2>2
  <1> QED BY <1>2, <1>3, <1>4

LEMMA CheckRecordsOn ==
  ASSUME ImportInv, Undisturbed, CheckRecords
  PROVE  Undisturbed'
  <1>1. CASE End(FALSE)
    BY <1>1, EndsUnquiet
  <1>2. CASE ~End(FALSE)
    <2>1. /\ phase = "import" /\ phase' = "delete"
          /\ UNCHANGED <<db, testbed, seen, todo, known, located, stale, quiet>>
      BY <1>2 DEF CheckRecords, Import, tables
    <2>2. OnCourse => OnCourse'
      BY <2>1 DEF OnCourse, SeenAll, InDicts, NotStale, Present, AllFine, Fine, KeyRight, ResearchersRight, Todo, Located
    <2> QED BY <2>1, <2>2, StillOnCourse DEF Undisturbed
  <1> QED BY <1>1, <1>2

LEMMA DeleteStaleOn ==
  ASSUME ImportInv, Undisturbed, DeleteStale
  PROVE  Undisturbed'
  <1>1. PICK i \in stale :
          \/ End(FALSE)
          \/ /\ db' = [r \in Id |-> IF r = i \/ db[r] = None THEN None ELSE Unlinked(db[r], i)]
             /\ stale' = stale \ {i} /\ UNCHANGED <<phase, known, located, seen, todo, quiet>>
    BY DEF DeleteStale
  <1>2. phase = "delete" /\ testbed' = testbed
    BY DEF DeleteStale, Import
  <1>3. CASE End(FALSE)
    BY <1>3, EndsUnquiet
  <1>4. CASE /\ db' = [r \in Id |-> IF r = i \/ db[r] = None THEN None ELSE Unlinked(db[r], i)]
             /\ stale' = stale \ {i} /\ UNCHANGED <<phase, known, located, seen, todo, quiet>>
    <2>1. CASE ~quiet
      BY <1>4, <2>1 DEF Undisturbed
    <2>2. CASE quiet
      <3>1. OnCourse
        BY <1>2, <2>2 DEF Undisturbed
      <3>2. \A r \in Id : /\ db'[r] # None <=> db[r] # None /\ r # i
                          /\ db'[r] # None => /\ db'[r].hrn = db[r].hrn /\ db'[r].pointer = db[r].pointer
                                              /\ db'[r].key = db[r].key
                                              /\ db'[r].researchers = db[r].researchers \ {i}
        <4> TAKE r \in Id
        <4>1. CASE r = i \/ db[r] = None
          BY <1>4, <4>1
        <4>2. CASE ~(r = i \/ db[r] = None)
          <5>1. db[r] \in Row /\ db'[r] = Unlinked(db[r], i)
            BY <1>4, <4>2 DEF ImportInv, IInv, StoresOK
          <5>2. db'[r] = [db[r] EXCEPT !.researchers = db[r].researchers \ {i}]
            BY <5>1 DEF Unlinked, Row
          <5>3. db'[r] \in Row
            BY <5>1, <5>2 DEF Row
          <5> QED BY <4>2, <5>1, <5>2, <5>3, NoneIsNothing DEF Row
        <4> QED BY <4>1, <4>2
      <3>3. /\ \A m \in Names : known[m] # None => known[m] \in Id
            /\ \A q \in Id : located[q] # None => located[q] \in Id
        BY DEF ImportInv, TablesOK
      <3>4. InDicts'
        BY <1>2, <1>4, <3>1, <3>2, <3>3 DEF OnCourse, InDicts
      <3>5. NotStale'
        <4>1. Present' = Present
          BY <1>2 DEF Present
        <4> QED BY <1>4, <3>1, <3>2, <4>1 DEF OnCourse, NotStale
      <3>6. Todo(Users)' = Todo(Users) /\ \A q \in Id : Located(q)' = Located(q)
        BY SMTT(30), <1>4 DEF Todo, Located
      <3>7. ASSUME NEW q \in Id, testbed[q] # None, q \notin todo PROVE Fine(q)'
        <4>1. Fine(q) /\ testbed[q].name \in Names /\ testbed[q].members \subseteq Id /\ seen[q] = testbed[q]
          BY <1>2, <3>1, <3>7 DEF OnCourse, AllFine, SeenAll, ImportInv, IInv, StoresOK, Object
        <4>2. PICK r \in Id : r = known[testbed[q].name] /\ r \notin stale /\ db[r] # None
          BY <4>1 DEF Fine, ImportInv, TablesOK
        <4>3. r # i /\ db'[r] # None /\ db'[r].key = db[r].key /\ db'[r].researchers = db[r].researchers \ {i}
          BY <3>2, <4>2
        <4>4. Located(q) \in SUBSET Id
          BY <4>1 DEF Located, ImportInv, TablesOK
        <4>5. {s \in Located(q)' : db'[s] # None} = {s \in Located(q) : db[s] # None} \ {i}
          BY <3>2, <3>6, <4>4
        <4>6. testbed[q].name \in Slices => db'[r].researchers = {s \in Located(q)' : db'[s] # None}
          BY <4>1, <4>2, <4>3, <4>5 DEF Fine, ResearchersRight
        <4> QED BY <1>2, <1>4, <3>6, <4>1, <4>2, <4>3, <4>6, DoneStays
      <3>8. AllFine' /\ SeenAll'
        BY <1>2, <1>4, <3>1, <3>7 DEF OnCourse, AllFine, SeenAll
      <3> QED BY <1>2, <1>4, <3>4, <3>5, <3>8, StillOnCourse DEF OnCourse
    <2> QED BY <2>1, <2>2
  <1> QED BY <1>1, <1>3, <1>4

\* When nothing is stale any more, what is known is all there is.
LEMMA EndImportOn ==
  ASSUME ImportInv, Orderly, Undisturbed, EndImport
  PROVE  Undisturbed'
  <1>1. phase = "delete" /\ stale = {} /\ UNCHANGED <<db, testbed>> /\ phase' = "idle" /\ (quiet' => quiet)
    BY DEF EndImport, End, Import
  <1> SUFFICES ASSUME quiet, NEW n \in Names PROVE Repaired(n)
    <2>1. quiet => \A m \in Names : Repaired(m)'
      BY <1>1, RepairedStays
    <2> QED BY <1>1, <2>1 DEF Undisturbed, ImportRepairs, Repaired
  <1>2. OnCourse
    BY <1>1 DEF Undisturbed
  <1>3. todo = {} /\ \A p \in Id : testbed[p] # None => Fine(p) /\ seen[p] = testbed[p]
    BY <1>1, <1>2 DEF ImportInv, Underway, OnCourse, AllFine, SeenAll
  <1>4. \A m \in Names : known[m] # None /\ db[known[m]] # None =>
          known[m] \in Id /\ db[known[m]].hrn = m /\ located[db[known[m]].pointer] = known[m]
    BY <1>2 DEF OnCourse, InDicts, ImportInv, TablesOK
  <1>5. \A i \in Id : db[i] # None =>
          db[i].hrn \in Present /\ known[db[i].hrn] = i /\ located[db[i].pointer] = i /\ db[i].pointer \in Id
    <2> TAKE i \in Id
    <2> HAVE db[i] # None
    <2>1. PICK m \in Present : known[m] = i
      BY <1>1, <1>2 DEF OnCourse, NotStale
    <2>2. m \in Names /\ i # None /\ db[i].pointer \in Id
      BY IdFacts DEF Present, ImportInv, IInv, StoresOK, Row
    <2> QED BY <1>4, <2>1, <2>2
  <1>6. ASSUME NEW p \in Id, testbed[p] # None, testbed[p].name = n PROVE ObjectsOf(n) = {p}
    BY <1>6 DEF ObjectsOf, Orderly, OneObject
  <1>7. ASSUME NEW p \in Id, testbed[p] # None, testbed[p].name = n
        PROVE  known[n] \in Id /\ RowsOf({n}) = {known[n]}
    <2>1. known[n] # None /\ db[known[n]] # None
      BY <1>3, <1>7 DEF Fine
    <2>2. known[n] \in Id /\ db[known[n]].hrn = n
      BY <1>4, <2>1
    <2> QED BY <1>5, <2>1, <2>2 DEF RowsOf
  <1>8. Cardinality(RowsOf({n})) = Cardinality(ObjectsOf(n))
    <2>1. CASE n \in Present
      <3>1. PICK p \in Id : testbed[p] # None /\ testbed[p].name = n
        BY <2>1 DEF Present
      <3>2. ObjectsOf(n) = {p} /\ RowsOf({n}) = {known[n]}
        BY <1>6, <1>7, <3>1
      <3> QED BY <3>2, FS_Singleton
    <2>2. CASE n \notin Present
      <3>1. ObjectsOf(n) = {}
        BY <2>2 DEF Present, ObjectsOf
      <3>2. RowsOf({n}) = {}
        BY <1>5, <2>2 DEF RowsOf
      <3> QED BY <3>1, <3>2
    <2> QED BY <2>1, <2>2
  <1>9. ASSUME NEW i \in RowsOf({n}), NEW p \in ObjectsOf(n)
        PROVE  /\ n \in Users => IF testbed[p].keys = {} THEN db[i].key = None
                                   ELSE db[i].key \in testbed[p].keys
               /\ {db[r].pointer : r \in db[i].researchers} = Recorded(testbed[p].members)
    <2>1. p \in Id /\ testbed[p] # None /\ testbed[p].name = n /\ testbed[p].members \subseteq Id
      BY DEF ObjectsOf, ImportInv, IInv, StoresOK, Object
    <2>2. i = known[n] /\ i \in Id /\ db[i] # None /\ db[i].hrn = n
      BY <1>7, <2>1 DEF RowsOf
    <2>3. KeyRight(p, i) /\ ResearchersRight(p, i) /\ seen[p] = testbed[p]
      BY <1>3, <2>1, <2>2 DEF Fine
    <2>4. n \in Users => IF testbed[p].keys = {} THEN db[i].key = None ELSE db[i].key \in testbed[p].keys
      BY <2>1, <2>3 DEF KeyRight
    <2>5. CASE n \in Users
      <3>1. db[i].researchers = {} /\ testbed[p].members = {}
        BY <2>1, <2>2, <2>5 DEF Orderly, SlicesOnly
      <3>2. Recorded({}) = {}
        BY DEF Recorded
      <3> QED BY <2>4, <3>1, <3>2
    <2>6. CASE n \in Slices
      <3>1. db[i].researchers = {r \in Located(p) : db[r] # None}
        BY <2>1, <2>3, <2>6 DEF ResearchersRight
      <3>2. Located(p) = {located[q] : q \in testbed[p].members} \ {None}
        BY <2>3 DEF Located
      <3>3. \A q \in Id : located[q] # None /\ db[located[q]] # None => db[located[q]].pointer = q /\ located[q] \in Id
        BY <1>2 DEF OnCourse, InDicts, ImportInv, TablesOK
      <3>4. ASSUME NEW r \in db[i].researchers PROVE db[r].pointer \in Recorded(testbed[p].members)
        <4>1. PICK q \in testbed[p].members : r = located[q] /\ r # None /\ db[r] # None
          BY <3>1, <3>2, <3>4
        <4>2. db[r].pointer = q /\ r \in Id
          BY <2>1, <3>3, <4>1
        <4> QED BY <4>1, <4>2 DEF Recorded
      <3>5. ASSUME NEW q \in Recorded(testbed[p].members) PROVE \E r \in db[i].researchers : db[r].pointer = q
        <4>1. PICK r \in Id : db[r] # None /\ db[r].pointer = q
          BY <3>5 DEF Recorded
        <4>2. q \in testbed[p].members /\ located[q] = r /\ r # None
          BY <1>5, <3>5, <4>1, IdFacts DEF Recorded
        <4>3. r \in db[i].researchers
          BY <3>1, <3>2, <4>1, <4>2
        <4> QED BY <4>1, <4>3
      <3> QED BY <2>4, <3>4, <3>5
    <2> QED BY <2>5, <2>6 DEF Names
  <1> QED BY <1>8, <1>9 DEF Repaired

\* A person who could not be imported disturbs the import.
LEMMA MissPersonOn ==
  ASSUME MissPerson
  PROVE  Undisturbed'
  BY DEF MissPerson, Undisturbed

LEMMA UndisturbedStep ==
  ASSUME ImportInv, Orderly, Undisturbed, [ImporterNext]_allVars
  PROVE  Undisturbed'
  <1>1. ASSUME UNCHANGED allVars PROVE Undisturbed'
    <2>1. UNCHANGED <<db, testbed, phase, seen, todo, known, located, stale>> /\ (quiet' => quiet)
      BY <1>1 DEF allVars, vars, stores, importer, tables
    <2> QED BY <2>1, NobodyDisturbs
  <1>2. ASSUME ReadRecords \/ ImporterStep PROVE Undisturbed'
    BY <1>2, ReadRecordsOn, ReadSitesOn, ReadPersonsOn, ReadSlicesOn, ImportPersonOn, MissPersonOn, AddSliceRecordOn,
       ImportSliceOn, CheckRecordsOn, DeleteStaleOn, EndImportOn, Zenon DEF ImporterStep
  <1>3. ASSUME Meanwhile PROVE Undisturbed'
    BY <1>3, MeanwhileUndisturbed
  <1> QED BY <1>1, <1>2, <1>3, Zenon DEF ImporterNext, TestbedChange

LEMMA PlKeptStep == PlKept /\ [ImporterNext]_allVars => PlKept'
  <1> SUFFICES ASSUME PlKept, [ImporterNext]_allVars PROVE PlKept'
    OBVIOUS
  <1>1. ImportInv /\ Orderly /\ Undisturbed
    BY DEF PlKept
  <1> QED BY <1>1, ImporterInv, OrderlyStep, UndisturbedStep DEF PlKept

LEMMA InitPlKept == ImporterInit => PlKept
  <1> SUFFICES ASSUME ImporterInit PROVE PlKept
    OBVIOUS
  <1>1. Undisturbed
    BY DEF ImporterInit, Undisturbed
  <1> QED BY <1>1, InitImport, InitOrderly DEF PlKept

-----------------------------------------------------------------------------
(* Both flavours                                                             *)

\* What every state of either importer keeps besides, for what an import leaves.
ImportersKept == PlKept /\ DummyKept

LEMMA ImportersKeptStep == ImportersKept /\ [ImportersNext]_importersVars => ImportersKept'
  <1> SUFFICES ASSUME ImportersKept, [ImportersNext]_importersVars PROVE ImportersKept'
    OBVIOUS
  <1>1. [ImporterNext]_allVars /\ [DummyNext]_dummyVars
    BY Zenon DEF ImportersNext, WithPl, WithDummy, importersVars
  <1> QED BY <1>1, PlKeptStep, DummyKeptStep DEF ImportersKept

\* Whatever the flavour: what failed, overlapping or half-done calls left in the
\* registry, an import that nothing disturbs repairs. On PlanetLab each name of the
\* testbed then has exactly one record, with a key of its user and the members that
\* have records; on a dummy testbed so has each leaf that can be imported, and
\* after a second such import each slice has the users its project lists.
THEOREM ImportsRepaired == ImportersSpec => []ImportsRepair
  <1>1. ImportersInit => ImportersKept
    BY InitPlKept, InitDummyKept DEF ImportersInit, ImportersKept
  <1>2. ImportersKept => ImportsRepair
    <2> SUFFICES ASSUME ImportersKept PROVE ImportsRepair
      OBVIOUS
    <2>1. ImportRepairs
      BY DEF ImportersKept, PlKept, Undisturbed, ImportRepairs
    <2>2. DummyImportSettles
      BY DummySettles DEF ImportersKept
    <2> QED BY <2>1, <2>2 DEF ImportsRepair
  <1> QED BY <1>1, <1>2, ImportersKeptStep, PTL DEF ImportersSpec
=============================================================================
