------------------------------- MODULE Importer -------------------------------
(***************************************************************************)
(* sfa-import, run from cron beside the registry server, on the same       *)
(* database: it reads all records, then the persons, keys and slices of    *)
(* the testbed, adds the records that are missing, brings keys and         *)
(* researchers up to date, and at the end deletes the records it did not   *)
(* meet.  Requests and the testbed's own users go on meanwhile.            *)
(***************************************************************************)
EXTENDS Registry

CONSTANTS
    MaxChanges,  \* bound: changes that the testbed's own users make
    MaxImports   \* bound: runs of the importer

\* The importer knows persons and slices by their hrn tags: here each has its own.
ASSUME DistinctAssumption == Distinct
ASSUME ImportBoundsAssumption == MaxChanges \in Nat /\ MaxImports \in Nat

VARIABLES
    phase,     \* what the importer does next
    read,      \* the rows it read at the start (all_records)
    known,     \* records_by_type_hrn: a row for each name, or None
    located,   \* records_by_type_pointer: a row for each pointer, or None
    stale,     \* rows of read that the testbed has not confirmed
    seen,      \* the persons and slices of the site as the testbed gave them
    todo,      \* those it has still to import
    changes, imports,
    quiet,     \* history: since its start only the importer changed a store
    gone,      \* history: names that were off the testbed at some time since its start
    missed     \* history: persons that it failed to import

tables == <<read, known, located, stale, seen, todo, missed>>
importer == <<phase, tables, imports>>
allVars == <<vars, importer, changes, quiet, gone>>

Phase == {"idle", "sites", "persons", "slices", "import", "check", "delete"}

NoObjects == [p \in Id |-> None]

ImporterInit ==
    /\ Init
    /\ phase = "idle"
    /\ read = {} /\ stale = {} /\ todo = {} /\ missed = {}
    /\ known = [n \in Names |-> None]
    /\ located = [p \in Id |-> None]
    /\ seen = NoObjects
    /\ changes = 0 /\ imports = 0
    /\ quiet = FALSE /\ gone = {}

\* Names without an object in the testbed ob.
Absent(ob) == {n \in Names : \A p \in Id : ob[p] = None \/ ob[p].name # n}

\* What any step of a request or of the testbed's users means to the importer.
Meanwhile ==
    /\ quiet' = (quiet /\ UNCHANGED stores)
    /\ gone' = IF phase = "idle" THEN {} ELSE gone \cup Absent(testbed')
    /\ UNCHANGED importer

\* A step of the importer, which never writes to the testbed.
Import == UNCHANGED <<testbed, pc, job, locals, torn, wanted, changes>>

\* The process ends, normally or with an exception that nothing catches.
End(ok) ==
    /\ phase' = "idle"
    /\ read' = {} /\ stale' = {} /\ todo' = {} /\ missed' = {}
    /\ known' = [n \in Names |-> None]
    /\ located' = [p \in Id |-> None]
    /\ seen' = NoObjects
    /\ quiet' = (quiet /\ ok) /\ gone' = {}
    /\ UNCHANGED imports

-----------------------------------------------------------------------------
(* Reading the two stores *)

\* The row a dict built over all records keeps for a name and for a pointer:
\* the last one of the query, which has no order.
Dicts ==
    LET pointed(p) == {i \in Id : db[i] # None /\ db[i].pointer = p}
        OneOf(rows) == IF rows = {} THEN {None} ELSE rows
    IN \E last \in [Names -> Id \cup {None}] :
         /\ \A n \in Names : last[n] \in OneOf(RowsOf({n}))
         /\ known' = last
         /\ located' \in
              {f \in [Id -> UNION {OneOf(pointed(p)) : p \in Id}] :
                 \A p \in Id : f[p] \in OneOf(IF \E n \in Names : last[n] \in pointed(p)
                                                THEN {last[n] : n \in Names} \cap pointed(p)
                                                ELSE pointed(p))}

ReadRecords ==
    /\ phase = "idle" /\ imports < MaxImports
    /\ imports' = imports + 1
    /\ read' = {i \in Id : db[i] # None}
    /\ stale' = read'
    /\ Dicts
    /\ phase' = "sites"
    /\ quiet' = TRUE /\ gone' = Absent(testbed)
    /\ UNCHANGED <<seen, todo, missed, db, requests, failures>> /\ Import

\* GetSites: the ids of the site's persons and slices.
ReadSites ==
    /\ phase = "sites" /\ phase' = "persons"
    /\ todo' = {p \in Id : testbed[p] # None}
    /\ UNCHANGED <<read, known, located, stale, seen, missed, imports, db, requests,
                   failures, quiet, gone>> /\ Import

\* GetPersons and GetKeys, then GetSlices: an id that is no longer there is
\* ignored with a warning.
Saw(names) ==
    LET there == {p \in todo : testbed[p] # None /\ testbed[p].name \in names}
    IN seen' = [p \in Id |-> IF p \in there THEN testbed[p] ELSE seen[p]]

ReadPersons ==
    /\ phase = "persons" /\ phase' = "slices"
    /\ Saw(Users)
    /\ UNCHANGED <<read, known, located, stale, todo, missed, imports, db, requests,
                   failures, quiet, gone>> /\ Import

ReadSlices ==
    /\ phase = "slices" /\ phase' = "import"
    /\ Saw(Slices)
    /\ todo' = {p \in todo : seen'[p] # None}
    /\ UNCHANGED <<read, known, located, stale, missed, imports, db, requests,
                   failures, quiet, gone>> /\ Import

-----------------------------------------------------------------------------
(* Importing one object *)

Todo(names) == {p \in todo : seen[p].name \in names}

\* Mutation: the record gets the whole list of keys.
SomeKeyAll(p) == {seen[p].keys}

\* init_person_key: the first key of the person, or a fresh pair for the gid.
SomeKey(p) == IF seen[p].keys = {} THEN {None} ELSE seen[p].keys

\* A record is added, committed and remembered; it is not stale.
Insert(p, key) ==
    /\ requests < MaxRequests
    /\ requests' = requests + 1
    /\ db' = [db EXCEPT ![requests + 1] =
                [hrn |-> seen[p].name, pointer |-> p, researchers |-> {},
                 key |-> key, lost |-> FALSE]]
    /\ known' = [known EXCEPT ![seen[p].name] = requests + 1]
    /\ located' = [located EXCEPT ![p] = IF @ = None THEN requests + 1 ELSE @]

\* Mutation: only a user without a key gets one.
KeysOutdatedIfNone(i, p) == db[i].key = None /\ seen[p].keys # {}

\* Not all the keys of the record are keys of the person, or it has none yet.
KeysOutdated(i, p) ==
    IF db[i].key = None THEN seen[p].keys # {} ELSE db[i].key \notin seen[p].keys

\* A known record is confirmed; its pointer stays what it was.
ImportPerson ==
    /\ phase = "import"
    /\ \E p \in Todo(Users) : \E key \in SomeKey(p) :
         LET i == known[seen[p].name]
         IN /\ todo' = todo \ {p}
            /\ \/ /\ i = None
                  /\ Insert(p, key)
                  /\ UNCHANGED <<stale, missed>>
               \/ /\ i # None /\ db[i] # None
                  /\ db' = IF KeysOutdated(i, p)
                             THEN [db EXCEPT ![i].key = key, ![i].lost = FALSE] ELSE db
                  /\ stale' = stale \ {i}
                  /\ UNCHANGED <<requests, known, located, missed>>
               \/ /\ i # None /\ db[i] = None
                  /\ missed' = missed \cup {seen[p].name}
                  /\ UNCHANGED <<db, requests, known, located, stale>>
    /\ UNCHANGED <<phase, read, seen, imports, failures, quiet, gone>> /\ Import

\* An exception while a person is imported is logged and the loop goes on.
MissPerson ==
    /\ phase = "import" /\ failures < MaxFailures
    /\ failures' = failures + 1
    /\ \E p \in Todo(Users) : /\ todo' = todo \ {p}
                              /\ missed' = missed \cup {seen[p].name}
    /\ quiet' = FALSE
    /\ UNCHANGED <<phase, read, known, located, stale, seen, imports, db, requests, gone>>
    /\ Import

AddSliceRecord ==
    /\ phase = "import" /\ Todo(Users) = {}
    /\ \E p \in Todo(Slices) : known[seen[p].name] = None /\ Insert(p, None)
    /\ UNCHANGED <<phase, read, stale, seen, todo, missed, imports, failures, quiet, gone>>
    /\ Import

\* The records of the slice's persons, those that locate_by_type_pointer finds.
Located(p) == {located[q] : q \in seen[p].members} \ {None}

\* Mutation: a slice that was known already is not marked as in use.
SetResearchersUnmarked(i, p) ==
    /\ db' = [db EXCEPT ![i].researchers = Located(p)]
    /\ UNCHANGED stale

SetResearchers(i, p) ==
    /\ db' = [db EXCEPT ![i].researchers = Located(p)]
    /\ stale' = stale \ {i}

\* Whatever the researchers were they become the persons of the slice; a row
\* deleted meanwhile, of the slice or of a person, ends the import.
ImportSlice ==
    /\ phase = "import" /\ Todo(Users) = {}
    /\ \E p \in Todo(Slices) :
         LET i == known[seen[p].name]
         IN /\ i # None
            /\ \/ /\ \A r \in {i} \cup Located(p) : db[r] # None
                  /\ SetResearchers(i, p)
                  /\ todo' = todo \ {p}
                  /\ UNCHANGED <<phase, read, known, located, seen, missed, imports,
                                 quiet, gone>>
               \/ /\ \E r \in {i} \cup Located(p) : db[r] = None
                  /\ End(FALSE)
                  /\ UNCHANGED db
    /\ UNCHANGED <<requests, failures>> /\ Import

-----------------------------------------------------------------------------
(* Removing what was not met *)

\* The loop over all_records loads each again, and fails on a deleted one.
CheckRecords ==
    /\ phase = "import" /\ todo = {}
    /\ IF \A i \in read : db[i] # None
         THEN /\ phase' = "delete"
              /\ UNCHANGED <<tables, imports, quiet, gone>>
         ELSE End(FALSE)
    /\ UNCHANGED <<db, requests, failures>> /\ Import

DeleteStale ==
    /\ phase = "delete"
    /\ \E i \in stale :
         IF db[i] = None
           THEN End(FALSE) /\ UNCHANGED db
           ELSE /\ \A w \in Workers : ~Locked(i, w)
                /\ db' = [r \in Id |-> IF r = i \/ db[r] = None THEN None
                                         ELSE Unlinked(db[r], i)]
                /\ stale' = stale \ {i}
                /\ UNCHANGED <<phase, read, known, located, seen, todo, missed, imports,
                               quiet, gone>>
    /\ UNCHANGED <<requests, failures>> /\ Import

EndImport ==
    /\ phase = "delete" /\ stale = {}
    /\ End(TRUE)
    /\ UNCHANGED <<db, requests, failures>> /\ Import

ImporterStep ==
    \/ ReadSites \/ ReadPersons \/ ReadSlices
    \/ ImportPerson \/ MissPerson \/ AddSliceRecord \/ ImportSlice
    \/ CheckRecords \/ DeleteStale \/ EndImport

-----------------------------------------------------------------------------
(* The testbed's own users, through its web site *)

MakesObject ==
    \E n \in Absent(testbed) :
        /\ requests < MaxRequests
        /\ requests' = requests + 1
        /\ testbed' = [testbed EXCEPT ![requests + 1] = NewObject(n)]

DropsObject ==
    /\ UNCHANGED requests
    /\ \E t \in Id :
        /\ testbed[t] # None
        /\ testbed' = [p \in Id |-> IF p = t \/ testbed[p] = None THEN None
                                      ELSE [testbed[p] EXCEPT !.members = @ \ {t}]]

ChangesKeys ==
    /\ UNCHANGED requests
    /\ \E p \in Id, ks \in SUBSET Keys :
        /\ testbed[p] # None /\ testbed[p].name \in Users
        /\ testbed' = [testbed EXCEPT ![p].keys = ks]

ChangesMembers ==
    /\ UNCHANGED requests
    /\ \E p \in Id : \E ms \in SUBSET {q \in Id : testbed[q] # None /\ testbed[q].name \in Users} :
        /\ testbed[p] # None /\ testbed[p].name \in Slices
        /\ testbed' = [testbed EXCEPT ![p].members = ms]

TestbedChange ==
    /\ changes < MaxChanges
    /\ changes' = changes + 1
    /\ MakesObject \/ DropsObject \/ ChangesKeys \/ ChangesMembers
    /\ UNCHANGED <<db, pc, job, locals, failures, torn, wanted>>
    /\ Meanwhile

ImporterNext ==
    \/ ReadRecords \/ ImporterStep
    \/ TestbedChange
    \/ Next /\ Meanwhile /\ UNCHANGED changes

ImporterSpec == ImporterInit /\ [][ImporterNext]_allVars

-----------------------------------------------------------------------------
(* Correctness *)

ImporterTypeOK ==
    /\ TypeOK
    /\ phase \in Phase
    /\ read \in SUBSET Id /\ stale \in SUBSET read
    /\ known \in [Names -> Id \cup {None}]
    /\ located \in [Id -> Id \cup {None}]
    /\ seen \in [Id -> Object \cup {None}]
    /\ todo \in SUBSET Id
    /\ changes \in 0 .. MaxChanges /\ imports \in 0 .. MaxImports
    /\ quiet \in BOOLEAN
    /\ gone \in SUBSET Names /\ missed \in SUBSET Users

Recorded(pointers) == {p \in pointers : \E i \in Id : db[i] # None /\ db[i].pointer = p}

\* Whatever failed or half-done requests, duplicate records and changes on the
\* testbed came before, after an import that nothing disturbed the registry has
\* exactly one record for each name of the testbed, with one of the user's keys,
\* and the researchers of a slice are its testbed members that have a record.
ImportRepairs ==
    phase = "idle" /\ quiet =>
        \A n \in Names :
            /\ Cardinality(RowsOf({n})) = Cardinality(ObjectsOf(n))
            /\ \A i \in RowsOf({n}), p \in ObjectsOf(n) :
                 /\ n \in Users => IF testbed[p].keys = {} THEN db[i].key = None
                                     ELSE db[i].key \in testbed[p].keys
                 /\ {db[r].pointer : r \in db[i].researchers} = Recorded(testbed[p].members)

\* The importer deletes a record only when its name was off the testbed at some
\* time since the import began, when another record has the name too, or when
\* importing the person failed: a request served meanwhile loses no record.
LivingKept ==
    [][\A i \in Id :
         phase = "delete" /\ i \in stale /\ i \notin stale' /\ phase' = "delete" =>
             \/ db[i].hrn \in gone \cup missed
             \/ known[db[i].hrn] # i]_allVars

=============================================================================
