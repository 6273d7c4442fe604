---------------------------- MODULE DummyImporter ----------------------------
(* The registry of a dummy testbed: DummyDriver's register, update, remove   *)
(* and update_relation on the testbed of dummy_testbed_api.py, and           *)
(* DummyImporter.run, from another process, and an administrator's nuke.     *)
(* What one thread of the server does to another is in Registry; here it     *)
(* serves one call at a time.  A name has an authority and a leaf; the leaf  *)
(* is what the testbed knows: the importer puts all names in one authority.  *)
EXTENDS Naturals, Sequences, FiniteSets
Seqs == INSTANCE SequencesExt
Maps == INSTANCE Functions

CONSTANTS
  Accounts, Projects,           \* the leaves of users and of slices
  PublicKeys,                   \* those that clients have; others are on the testbed
  Hrns,                         \* the names clients use: an authority and a leaf
  FirstAccounts, FirstProjects, \* what dummy_testbed_api.py starts with
  Void,                         \* nothing: no call, no key, no list
  MaxCalls, MaxFaults, MaxRuns  \* bounds

FirstId == Cardinality(DOMAIN FirstAccounts) + Cardinality(DOMAIN FirstProjects)
FirstKeys == UNION {FirstAccounts[a].keys : a \in DOMAIN FirstAccounts}

\* The testbed starts with numbered users and slices, each with a name of its
\* own; a user has keys.
ASSUME FirstAssumption ==
  /\ FirstId \in Nat /\ DOMAIN FirstAccounts \cup DOMAIN FirstProjects \subseteq 1 .. FirstId
  /\ FirstAccounts \in [DOMAIN FirstAccounts -> [name : Accounts, keys : (SUBSET FirstKeys) \ {{}}]]
  /\ FirstProjects \in [DOMAIN FirstProjects -> [name : Projects, users : Seq(Nat)]]
  /\ \A a, b \in DOMAIN FirstAccounts : FirstAccounts[a].name = FirstAccounts[b].name => a = b
  /\ \A a, b \in DOMAIN FirstProjects : FirstProjects[a].name = FirstProjects[b].name => a = b

VARIABLES
  rows, lastRow, site,          \* the database: rows by id, and that of the site
  accounts, projects, lastId,   \* the testbed: users and slices by id
  call, at,                     \* the server: a call and what is next in it
  stage,                        \* the importer: what is next
  records, byName, byPointer,   \* ... the rows it read, by name, and users by pointer
  hadSite, unmet,               \* ... the site's was one of them; those not met
  listed, left,                 \* ... the objects the testbed gave, and those to import
  calls, faults, runs,          \* counters
  calm, settled,                \* history: nobody else wrote since the import began;
                                \* imports of that kind that ended, one after the other
  away, skipped                 \* history: leaves that were off the testbed since the
                                \* import began; those it failed to import

database == <<rows, lastRow, site>>
testbedOf == <<accounts, projects, lastId>>
tablesOf == <<records, byName, byPointer, hadSite, unmet, listed, left, skipped>>
dummyVars == <<database, testbedOf, call, at, stage, tablesOf, calls, faults, runs, calm, settled, away>>

Leaf(hrn) == hrn[2]
Imported(leaf) == <<"site", leaf>>
ASSUME LeavesAssumption ==
  /\ Accounts \cap Projects = {}
  /\ \A h \in Hrns : Leaf(h) \in Accounts \cup Projects
IsUser(hrn) == Leaf(hrn) \in Accounts
UserHrns == {h \in Hrns : IsUser(h)}
Named(hrns) == {i \in DOMAIN rows : rows[i].hrn \in hrns}

EmptyMap == [x \in {} |-> Void]
Added(f, x, v) == [y \in DOMAIN f \cup {x} |-> IF y \in DOMAIN f THEN f[y] ELSE v]
NoTables ==
  /\ records' = {} /\ byName' = EmptyMap /\ byPointer' = EmptyMap /\ hadSite' = FALSE
  /\ unmet' = {} /\ listed' = <<EmptyMap, EmptyMap>> /\ left' = {} /\ skipped' = {}

DummyInit ==
  /\ rows = EmptyMap /\ lastRow = 0 /\ site = FALSE
  /\ accounts = FirstAccounts /\ projects = FirstProjects
  /\ lastId = FirstId
  /\ call = Void /\ at = "idle" /\ stage = "idle"
  /\ records = {} /\ byName = EmptyMap /\ byPointer = EmptyMap /\ hadSite = FALSE
  /\ unmet = {} /\ listed = <<EmptyMap, EmptyMap>> /\ left = {} /\ skipped = {}
  /\ calls = 0 /\ faults = 0 /\ runs = 0
  /\ calm = FALSE /\ settled = 0 /\ away = {}

------------------------------------------------------------------------------
(* dummy_testbed_api.py                                                       *)

WithId(id) == DOMAIN projects \cap {id}
AccountsNamed(leaf) == {a \in DOMAIN accounts : accounts[a].name = leaf}
ProjectsNamed(leaf) == {k \in DOMAIN projects : projects[k].name = leaf}
Least(S) == CHOOSE x \in S : \A y \in S : x <= y
Without(users, u) ==
  IF u \in Seqs!ToSet(users) THEN Seqs!RemoveAt(users, Least({k \in DOMAIN users : users[k] = u})) ELSE users

\* A new user has no list of keys and a new slice none of users.
AddUser(leaf) == accounts' = Added(accounts, lastId + 1, [name |-> leaf, keys |-> Void])
AddProject(leaf) == projects' = Added(projects, lastId + 1, [name |-> leaf, users |-> Void])

AddUserKey(a, key) ==
  accounts' = IF a \in DOMAIN accounts
              THEN [accounts EXCEPT ![a].keys = IF @ = Void THEN {key} ELSE @ \cup {key}]
              ELSE accounts

AddUserToSlice(u, id) ==
  projects' = [k \in DOMAIN projects |->
    IF k \notin WithId(id) THEN projects[k]
    ELSE [projects[k] EXCEPT !.users = IF @ = Void THEN <<u>> ELSE Append(@, u)]]
DeleteUserFromSlice(u, id) ==
  projects' = [k \in DOMAIN projects |->
    IF k \notin WithId(id) \/ projects[k].users = Void THEN projects[k]
    ELSE [projects[k] EXCEPT !.users = Without(@, u)]]

\* The user leaves the first slice that has him; the search ends, with an
\* exception that is swallowed, at a slice without a list.
DeleteUser(u) ==
  LET stops == {k \in DOMAIN projects :
                  projects[k].users = Void \/ u \in Seqs!ToSet(projects[k].users)}
  IN  /\ accounts' = [a \in DOMAIN accounts \ {u} |-> accounts[a]]
      /\ projects' = IF u \notin DOMAIN accounts \/ stops = {} \/ projects[Least(stops)].users = Void
                     THEN projects ELSE [projects EXCEPT ![Least(stops)].users = Without(@, u)]
DeleteSlice(id) == projects' = [k \in DOMAIN projects \ {id} |-> projects[k]]

------------------------------------------------------------------------------
(* The server: Register, Update and Remove with DummyDriver                   *)

Done == call' = Void /\ at' = "idle"
To(label) == at' = label /\ UNCHANGED call
\* What a change of a store by others means to the importer's history.
Missing(as, ps) == {n \in Accounts : \A a \in DOMAIN as : as[a].name # n \/ as[a].keys = Void}
                  \cup {n \in Projects : \A k \in DOMAIN ps : ps[k].name # n}
Disturb ==
  /\ calm' = FALSE /\ settled' = 0
  /\ away' = IF stage = "idle" THEN {} ELSE away \cup Missing(accounts', projects')
  /\ UNCHANGED <<stage, tablesOf, runs>>
ByServer == UNCHANGED <<site, calls, faults>> /\ Disturb

Call ==
  [op : {"Register", "Update", "Remove"}, hrn : Hrns \cup {Imported(n) : n \in Accounts \cup Projects},
   row : Nat, key : {Void} \cup PublicKeys, users : {Void} \cup SUBSET UserHrns, linked : SUBSET Nat,
   old : SUBSET Nat, ptr : Nat, add : SUBSET Nat, del : SUBSET Nat]
ASSUME VoidAssumption == Void \notin Call /\ Void # {}

\* A call of a client, and the first query.
Ask(op, h, row, key, us) ==
  /\ call = Void /\ calls < MaxCalls /\ calls' = calls + 1
  /\ call' = [op |-> op, hrn |-> h, row |-> row, key |-> key, users |-> us,
              linked |-> IF us = Void THEN {} ELSE Named(us),
              old |-> IF row = 0 THEN {} ELSE rows[row].users,
              ptr |-> IF row = 0 THEN 0 ELSE rows[row].pointer, add |-> {}, del |-> {}]
  /\ UNCHANGED <<database, testbedOf, faults>> /\ Disturb

KeysFor(h) == IF IsUser(h) THEN PublicKeys \cup {Void} ELSE {Void}
UsersFor(h) == IF IsUser(h) THEN {Void} ELSE {Void} \cup SUBSET UserHrns

Enrol ==
  /\ at' = "object"
  /\ \E h \in Hrns : \E key \in KeysFor(h), us \in UsersFor(h) :
       Named({h}) = {} /\ Ask("Register", h, 0, key, us)
Change ==
  /\ at' = "touch"
  /\ \E i \in DOMAIN rows : \E key \in KeysFor(rows[i].hrn), us \in UsersFor(rows[i].hrn) :
       Ask("Update", rows[i].hrn, i, key, us)
Withdraw ==
  /\ at' = "erase"
  /\ \E i \in DOMAIN rows : Ask("Remove", rows[i].hrn, i, Void, Void)

\* register: whoever has the leaf, in any authority, is taken.
TakeObject ==
  LET leaf == Leaf(call.hrn)
      there == IF IsUser(call.hrn) THEN AccountsNamed(leaf) ELSE ProjectsNamed(leaf)
      ptr == IF there = {} THEN lastId + 1 ELSE Least(there)
  IN  /\ at = "object" /\ at' = IF call.key = Void THEN "insert" ELSE "key"
      /\ call' = [call EXCEPT !.ptr = ptr]
      /\ lastId' = IF there = {} THEN ptr ELSE lastId
      /\ CASE there # {} -> UNCHANGED <<accounts, projects>>
           [] there = {} /\ IsUser(call.hrn) -> AddUser(leaf) /\ UNCHANGED projects
           [] there = {} /\ ~IsUser(call.hrn) -> AddProject(leaf) /\ UNCHANGED accounts
      /\ UNCHANGED <<rows, lastRow>> /\ ByServer

AddKey ==
  /\ at = "key" /\ To("insert")
  /\ AddUserKey(call.ptr, call.key)
  /\ UNCHANGED <<rows, lastRow, projects, lastId>> /\ ByServer

\* The commits: a row that has gone, or that of a researcher, makes them fail.
AfterRow(i) ==
  IF call.users = Void THEN Done
  ELSE at' = "relate" /\ call' = [call EXCEPT !.row = i]

DummyRow(hrn, pointer, key) ==
  [hrn |-> hrn, pointer |-> pointer, key |-> key, users |-> {}]

CommitRow ==
  /\ at = "insert"
  /\ IF call.linked \subseteq DOMAIN rows
     THEN /\ lastRow' = lastRow + 1
          /\ rows' = Added(rows, lastRow + 1,
               [DummyRow(call.hrn, call.ptr, call.key) EXCEPT !.users = call.linked])
          /\ AfterRow(lastRow + 1)
     ELSE Done /\ UNCHANGED <<rows, lastRow>>
  /\ UNCHANGED testbedOf /\ ByServer

\* update: a failure, of the testbed or for want of an email, is forgotten.
TouchObject ==
  /\ at = "touch" /\ To("write")
  /\ IF call.key # Void THEN AddUserKey(call.ptr, call.key) ELSE UNCHANGED accounts
  /\ UNCHANGED <<rows, lastRow, projects, lastId>> /\ ByServer

\* A session inserts and deletes what differs from the researchers it read.
Out == call.old \ call.linked
In == call.linked \ call.old
Fits(users) == call.users # Void => In \subseteq DOMAIN rows \ users /\ Out \subseteq users

CommitChange ==
  /\ at = "write"
  /\ IF call.row \in DOMAIN rows /\ Fits(rows[call.row].users)
     THEN /\ rows' = [rows EXCEPT
               ![call.row].users = IF call.users = Void THEN @ ELSE (@ \ Out) \cup In,
               ![call.row].key = IF call.key = Void THEN @ ELSE call.key]
          /\ AfterRow(call.row)
     ELSE Done /\ UNCHANGED rows
  /\ UNCHANGED <<lastRow, testbedOf>> /\ ByServer

\* update_relation: GetSlices ignores a number in its filter, so that the users
\* wanted are compared with those of the first slice there is.
Relate ==
  LET targets == {rows[i].pointer : i \in Named(call.users)}
      first == projects[Least(DOMAIN projects)].users
      current == IF first = Void THEN {} ELSE Seqs!ToSet(first)
  IN  /\ at = "relate"
      /\ IF call.row \notin DOMAIN rows \/ DOMAIN projects = {} THEN Done
         ELSE /\ at' = "link"
              /\ call' = [call EXCEPT !.add = targets \ current, !.del = current \ targets]
      /\ UNCHANGED <<rows, lastRow, testbedOf>> /\ ByServer

ApplyChange ==
  /\ at = "link"
  /\ \/ \E u \in call.add :
          /\ AddUserToSlice(u, call.ptr)
          /\ call' = [call EXCEPT !.add = @ \ {u}] /\ UNCHANGED at
     \/ \E u \in call.del :
          /\ call.add = {} /\ DeleteUserFromSlice(u, call.ptr)
          /\ call' = [call EXCEPT !.del = @ \ {u}] /\ UNCHANGED at
     \/ call.add \cup call.del = {} /\ Done /\ UNCHANGED projects
  /\ UNCHANGED <<rows, lastRow, accounts, lastId>> /\ ByServer

Erase ==
  /\ at = "erase" /\ To("drop")
  /\ IF IsUser(call.hrn) THEN DeleteUser(call.ptr) ELSE DeleteSlice(call.ptr) /\ UNCHANGED accounts
  /\ UNCHANGED <<rows, lastRow, lastId>> /\ ByServer

Dropped(gone) == [i \in DOMAIN rows \ gone |-> [rows[i] EXCEPT !.users = @ \ gone]]

DropRow ==
  /\ at = "drop" /\ Done
  /\ rows' = Dropped({call.row})
  /\ UNCHANGED <<lastRow, testbedOf>> /\ ByServer

\* A call of the testbed fails; the server stops.
ServerFails ==
  /\ call # Void /\ faults < MaxFaults /\ faults' = faults + 1
  /\ \/ at = "touch" /\ To("write")
     \/ at # "touch" /\ Done
  /\ UNCHANGED <<database, testbedOf, calls>> /\ Disturb

\* sfaadmin nuke, while nothing else runs: the tables are dropped and made again.
Nuke ==
  /\ call = Void /\ stage = "idle" /\ calls < MaxCalls /\ calls' = calls + 1
  /\ DOMAIN rows # {} /\ rows' = EmptyMap /\ lastRow' = 0 /\ site' = FALSE
  /\ UNCHANGED <<testbedOf, call, at, faults>> /\ Disturb

------------------------------------------------------------------------------
(* DummyImporter.run                                                          *)

Importing == UNCHANGED <<testbedOf, call, at, calls>>
IsKnown(h) == h \in DOMAIN byName

\* The process ends, as it should or with an exception.
Finish(ok) ==
  /\ stage' = "idle" /\ NoTables /\ away' = {} /\ calm' = FALSE
  /\ settled' = IF ok /\ calm THEN IF settled < 2 THEN settled + 1 ELSE 2 ELSE 0
  /\ UNCHANGED runs

Then(label) == stage' = label /\ UNCHANGED <<runs, calm, settled, away>>
\* An exception that is caught: this run was not undisturbed.
Caught(label) ==
  /\ faults < MaxFaults /\ faults' = faults + 1
  /\ stage' = label /\ calm' = FALSE /\ UNCHANGED <<runs, settled, away>>

\* Of several rows of a name, or of a pointer, the last one of the query is
\* known, in whatever order the database gives them.
QueryRows ==
  /\ stage = "idle" /\ runs < MaxRuns /\ runs' = runs + 1 /\ stage' = "users"
  /\ records' = DOMAIN rows /\ unmet' = DOMAIN rows /\ hadSite' = site
  /\ \E rank \in Maps!Injection(DOMAIN rows, DOMAIN rows) :
       LET Latest(S) == CHOOSE i \in S : \A j \in S : rank[j] <= rank[i]
           people == {i \in DOMAIN rows : IsUser(rows[i].hrn)}
       IN  /\ byName' = [h \in {rows[i].hrn : i \in DOMAIN rows} |-> Latest(Named({h}))]
           /\ byPointer' = [p \in {rows[i].pointer : i \in people} |->
                              Latest({i \in people : rows[i].pointer = p})]
  /\ calm' = TRUE /\ away' = Missing(accounts, projects)
  /\ UNCHANGED <<database, listed, left, skipped, faults, settled>> /\ Importing

ListAccounts ==
  /\ stage = "users" /\ Then("slices")
  /\ listed' = <<accounts, listed[2]>>
  /\ UNCHANGED <<database, records, byName, byPointer, hadSite, unmet, left, skipped, faults>>
  /\ Importing

\* A pair for each user and a pair for each slice.
ListProjects ==
  /\ stage = "slices" /\ Then("site")
  /\ listed' = <<listed[1], projects>>
  /\ left' = ({"user"} \X DOMAIN listed[1]) \cup ({"slice"} \X DOMAIN projects)
  /\ UNCHANGED <<database, records, byName, byPointer, hadSite, unmet, skipped, faults>>
  /\ Importing

\* The authority; without it none of its users and slices is imported.
ImportSite ==
  /\ stage = "site"
  /\ \/ Then("import") /\ site' = (site \/ ~hadSite) /\ UNCHANGED <<left, skipped, faults>>
     \/ ~hadSite /\ Caught("import") /\ left' = {} /\ skipped' = Accounts \cup Projects
        /\ UNCHANGED site
  /\ UNCHANGED <<rows, lastRow, records, byName, byPointer, hadSite, unmet, listed>> /\ Importing

AddRow(hrn, pointer, key) ==
  /\ lastRow' = lastRow + 1
  /\ rows' = Added(rows, lastRow + 1, DummyRow(hrn, pointer, key))
  /\ byName' = Added(byName, hrn, lastRow + 1)

\* Mutation: what was known already is not marked as in use.
MetUnmarked(i) == UNCHANGED unmet

Met(i) == unmet' = unmet \ {i}

\* A key that the row does not have: the row gets one of them.
Rekeyed(i, keys) ==
  IF keys \subseteq {rows[i].key} THEN {rows} ELSE {[rows EXCEPT ![i].key = k] : k \in keys}

Miss(u) == skipped' = skipped \cup {listed[1][u].name} /\ UNCHANGED <<database, byName, byPointer, unmet>>

\* They are imported in the order of the testbed's list.
NextOf(S) == {x \in S : \A y \in S : x <= y}

ImportAccount ==
  /\ stage = "import"
  /\ \E u \in NextOf({x[2] : x \in {y \in left : y[1] = "user"}}) :
       LET h == Imported(listed[1][u].name)
           keys == listed[1][u].keys
       IN  /\ left' = left \ {<<"user", u>>}
           /\ \/ Caught("import") /\ Miss(u)
              \/ /\ keys = Void \/ (IsKnown(h) /\ byName[h] \notin DOMAIN rows)
                 /\ Miss(u) /\ Then("import") /\ UNCHANGED faults
              \/ /\ keys # Void /\ ~IsKnown(h)
                 /\ \E k \in keys : AddRow(h, u, k)
                 /\ byPointer' = Added(byPointer, u, lastRow + 1)
                 /\ Then("import") /\ UNCHANGED <<site, unmet, skipped, faults>>
              \/ /\ keys # Void /\ IsKnown(h) /\ byName[h] \in DOMAIN rows
                 /\ rows' \in Rekeyed(byName[h], keys)
                 /\ Met(byName[h])
                 /\ Then("import") /\ UNCHANGED <<lastRow, site, byName, byPointer, skipped, faults>>
  /\ UNCHANGED <<records, hadSite, listed>> /\ Importing

\* Slices come after the users: a new record is committed first ...
Project(k) == listed[2][k]
NextProject == IF \E x \in left : x[1] = "user" THEN {} ELSE NextOf({x[2] : x \in left})

AddProjectRow ==
  /\ stage = "import" /\ Then("import")
  /\ \E k \in NextProject :
       LET h == Imported(Project(k).name) IN ~IsKnown(h) /\ AddRow(h, k, Void)
  /\ UNCHANGED <<site, records, byPointer, hadSite, unmet, listed, left, skipped, faults>> /\ Importing

\* ... and then gets the users of the slice.  That the slice has no list of
\* them, a user without a record, or a row that has gone, ends the import.
Linkable(i, users) ==
  /\ users # Void /\ i \in DOMAIN rows
  /\ \A u \in Seqs!ToSet(users) : u \in DOMAIN byPointer /\ byPointer[u] \in DOMAIN rows

SetUsers(i, users) == rows' = [rows EXCEPT ![i].users = {byPointer[u] : u \in Seqs!ToSet(users)}]

ImportProject ==
  /\ stage = "import"
  /\ \E k \in NextProject :
       LET h == Imported(Project(k).name)
       IN  /\ IsKnown(h)
           /\ IF Linkable(byName[h], Project(k).users)
              THEN /\ SetUsers(byName[h], Project(k).users)
                   /\ Met(byName[h]) /\ left' = left \ {<<"slice", k>>}
                   /\ Then("import")
                   /\ UNCHANGED <<records, byName, byPointer, hadSite, listed, skipped>>
              ELSE Finish(FALSE) /\ UNCHANGED rows
  /\ UNCHANGED <<lastRow, site, faults>> /\ Importing

\* All rows that were read are looked at once more, and those not met deleted.
LoadAgain ==
  /\ stage = "import" /\ left = {}
  /\ IF records \subseteq DOMAIN rows /\ (hadSite => site)
     THEN Then("delete") /\ UNCHANGED tablesOf
     ELSE Finish(FALSE)
  /\ UNCHANGED <<database, faults>> /\ Importing

DeleteUnmet ==
  /\ stage = "delete"
  /\ \E i \in unmet :
       IF i \in DOMAIN rows
       THEN /\ rows' = Dropped({i}) /\ unmet' = unmet \ {i} /\ Then("delete")
            /\ UNCHANGED <<records, byName, byPointer, hadSite, listed, left, skipped>>
       ELSE Finish(FALSE) /\ UNCHANGED rows
  /\ UNCHANGED <<lastRow, site, faults>> /\ Importing

EndRun ==
  /\ stage = "delete" /\ unmet = {} /\ Finish(TRUE)
  /\ UNCHANGED <<database, faults>> /\ Importing

Calling ==
  \/ Enrol \/ Change \/ Withdraw \/ TakeObject \/ AddKey \/ CommitRow \/ TouchObject \/ CommitChange
  \/ Relate \/ ApplyChange \/ Erase \/ DropRow \/ ServerFails \/ Nuke

DummyNext ==
  \/ Calling
  \/ QueryRows \/ ListAccounts \/ ListProjects \/ ImportSite \/ ImportAccount
  \/ AddProjectRow \/ ImportProject \/ LoadAgain \/ DeleteUnmet \/ EndRun

------------------------------------------------------------------------------
(* Correctness                                                                *)

DummyImportTypeOK ==
  /\ \A i \in DOMAIN rows : /\ rows[i].hrn \in Hrns \cup {Imported(n) : n \in Accounts \cup Projects}
                           /\ rows[i].key \in {Void} \cup PublicKeys \cup FirstKeys
                           /\ rows[i].users \subseteq DOMAIN rows
  /\ DOMAIN rows \subseteq 1 .. lastRow /\ DOMAIN accounts \subseteq 1 .. lastId
  /\ call # Void => call.op \in {"Register", "Update", "Remove"}
  /\ (call = Void) = (at = "idle")
  /\ unmet \subseteq records /\ settled \in 0 .. 2

\* The pointers of a row's users, and whether each is there once.
PointersOf(i) == {rows[r].pointer : r \in rows[i].users}

\* Whatever calls and imports failed half way before: an import that ended and
\* that nobody else disturbed has left exactly one record for each slice and for
\* each user with a list of keys, under their names in the site, with one of the
\* user's keys, and no other record.  It takes a second one until the
\* researchers of a slice are one record for each of its users.
DummyImportSettles ==
  stage = "idle" /\ settled > 0 =>
    /\ \A i \in DOMAIN rows : rows[i].hrn = Imported(Leaf(rows[i].hrn))
    /\ \A n \in Accounts \cup Projects :
         Cardinality(Named({Imported(n)})) = IF n \in Missing(accounts, projects) THEN 0 ELSE 1
    /\ \A a \in DOMAIN accounts : \A i \in Named({Imported(accounts[a].name)}) :
         rows[i].key \in accounts[a].keys
    /\ settled = 2 =>
         \A k \in DOMAIN projects : \A i \in Named({Imported(projects[k].name)}) :
           /\ PointersOf(i) = Seqs!ToSet(projects[k].users)
           /\ Cardinality(rows[i].users) = Cardinality(PointersOf(i))

\* What the importer deletes is not under a name of the site, or that name was
\* off the testbed at some time since the import began, or it failed to import
\* it: a call that is served meanwhile loses no record.
StaleOnly ==
  [][\A i \in DOMAIN rows :
       stage = "delete" /\ i \in unmet /\ i \notin unmet' /\ stage' = "delete" =>
         \/ rows[i].hrn # Imported(Leaf(rows[i].hrn))
         \/ Leaf(rows[i].hrn) \in away \cup skipped
         \/ byName[rows[i].hrn] # i]_dummyVars
=============================================================================
