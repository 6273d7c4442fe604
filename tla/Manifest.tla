------------------------------ MODULE Manifest ------------------------------
(* What a PlanetLab aggregate says about slivers: Describe, Status, Renew and *)
(* PerformOperationalAction, call of the testbed by call, while other        *)
(* requests and operators change slivers, nodes and rows; and Shutdown, which *)
(* gets no further than its first line.  The slices stay; leases and links   *)
(* are read as for an advertisement.                                         *)
EXTENDS Naturals

CONSTANTS
  Slices, Home,     \* the slices, and those of the aggregate's own hierarchy
  Hosts, Persons,
  Questions,        \* the requests that are made
  Nowhere,          \* no slice, no row, no answer
  MaxQuestions, MaxMoves   \* bounds

\* A sliver is a slice and a node.
SliversOf(s) == {s} \X Hosts
\* A request names a slice or slivers, and comes with credentials of slices.
Question == [op : {"Describe", "Status", "Renew", "Start", "Shutdown"}, slice : Slices \cup {Nowhere},
             slivers : SUBSET (Slices \X Hosts), creds : SUBSET Slices, booted : BOOLEAN]
ASSUME QuestionsAssumption ==
  /\ Questions \subseteq Question /\ Home \subseteq Slices
  /\ \A q \in Questions : (q.slice = Nowhere) <=> (q.slivers # {})

Faults == {"Forbidden", "SearchFailed", "UnsupportedOperation", "KeyError", "NameError"}
ASSUME NowhereAssumption == Nowhere \notin Faults

VARIABLES
  plc,         \* the testbed, and the aggregate's rows of slivers
  stage, look, \* the request: how far it is, what it is and has read so far
  during,      \* history: what plc has been like since it came
  told,        \* history: the answer or fault of the last step, if it gave one
  questions, moves

manifestVars == <<plc, stage, look, during, told, questions, moves>>

\* A slice is on some nodes, with rows, the others on all.
\* barred: slivers whose node is kept for other slices.
Beginning(one, on, done) ==
  [on |-> on \cup UNION {SliversOf(s) : s \in Slices \ {one}}, barred |-> {},
   row |-> [x \in Slices \X Hosts |-> IF x \notin on THEN Nowhere
                                      ELSE IF x \in done THEN "provisioned" ELSE "allocated"],
   up |-> Hosts, gone |-> {}, members |-> Slices \X Persons, keyed |-> Persons,
   tags |-> on \cup {<<one, "slice">>}, late |-> {}]
Beginnings == {Beginning(one, on, done) : one \in Home, on, done \in SUBSET (Home \X Hosts)}

ManifestInit ==
  /\ plc \in Beginnings
  /\ stage = "idle" /\ look = Nowhere /\ during = {} /\ told = Nowhere
  /\ questions = 0 /\ moves = 0

To(next, seen) == stage' = next /\ look' = seen /\ told' = Nowhere
Answer(fault, says) ==
  /\ stage' = "idle" /\ look' = Nowhere
  /\ told' = [question |-> look.q, fault |-> fault, says |-> says]
Reading == UNCHANGED <<plc, during, questions, moves>>
\* What the request itself changes.
Writing(to) == plc' = to /\ during' = during \cup {to} /\ UNCHANGED <<questions, moves>>

AskManifest ==
  /\ stage = "idle" /\ questions < MaxQuestions /\ questions' = questions + 1
  /\ \E q \in Questions :
       To("check", [q |-> q, again |-> FALSE, of |-> Nowhere, on |-> {}, users |-> {}, keyed |-> {},
                    tags |-> {}, late |-> FALSE, up |-> {}, barred |-> {}, row |-> Nowhere])
  /\ during' = {plc} /\ UNCHANGED <<plc, moves>>

\* shutdown calls urn_to_hrn, which is not imported there: a NameError, whatever
\* the slice, before the testbed is asked for anything.
Shutdown == Answer("NameError", Nowhere)

\* check_sliver_credentials: one for the slice of each sliver.
CheckSliverCredentials ==
  /\ stage = "check" /\ Reading
  /\ IF ~({x[1] : x \in look.q.slivers} \subseteq look.q.creds) THEN Answer("Forbidden", Nowhere)
     ELSE IF look.q.op = "Shutdown" THEN Shutdown
     ELSE To("slices", look)

-----------------------------------------------------------------------------
(* get_slivers                                                                *)

Named(q) == IF q.slivers = {} THEN {q.slice} ELSE {x[1] : x \in q.slivers}

\* Mutation: all slivers of the slice.
AskedForAll(q, s) == SliversOf(s)
\* The slivers of a slice that are asked for: by their nodes, so that a request
\* for slivers of two slices is about one of them on the nodes of both.
AskedFor(q, s) == IF q.slivers = {} THEN SliversOf(s) ELSE {s} \X {x[2] : x \in q.slivers}

\* The first slice in the testbed's order, with the persons of all.
GetSlices ==
  /\ stage = "slices" /\ Reading
  /\ \E s \in Named(look.q) :
       To("keys", [look EXCEPT !.of = s, !.on = plc.on \cap AskedFor(look.q, s),
                               !.users = {p \in Persons : \E r \in Named(look.q) : <<r, p>> \in plc.members},
                               !.tags = {t \in plc.tags : t[1] = s}, !.late = s \in plc.late])

\* GetPersons and GetKeys.
GetKeys ==
  /\ stage = "keys" /\ Reading
  /\ To("tags", [look EXCEPT !.keyed = look.users \cap plc.keyed])

GetSliceTags ==
  /\ stage = "tags" /\ Reading
  /\ To("nodes", [look EXCEPT !.tags = @ \cap plc.tags])

\* get_slice_nodes: with geni_available, the nodes that are up.  One list of tags
\* goes to all of them: those of the slice and of each sliver found.
GetSliceNodes ==
  /\ stage = "nodes" /\ Reading
  /\ LET onlyUp == look.q.booted /\ (look.q.op \in {"Describe", "Start"} \/ look.again)
         found  == {x \in look.on : x[2] \notin plc.gone /\ (onlyUp => x[2] \in plc.up)}
         next   == [look EXCEPT !.on = found, !.up = plc.up, !.barred = plc.barred,
                                !.tags = {t \in @ : t[2] = "slice" \/ t \in found}]
     IN IF look.q.op = "Renew" /\ ~look.again
        THEN IF found = {} THEN Answer("SearchFailed", Nowhere) ELSE To("expire", next)
        ELSE To("rows", next)

-----------------------------------------------------------------------------
(* describe, and what uses it                                                 *)

\* renew: the expiration of the slice, whichever slivers were named.
UpdateSlice ==
  /\ stage = "expire" /\ Writing([plc EXCEPT !.late = @ \cup {look.of}])
  /\ To("slices", [look EXCEPT !.again = TRUE])

QueryAllocations ==
  /\ stage = "rows" /\ Reading
  /\ To("sites", [look EXCEPT !.row = [x \in look.on |-> plc.row[x]]])

\* rspec_node_to_geni_sliver.
GeniSliver(x) ==
  [sliver |-> x, state |-> look.row[x],
   op |-> CASE look.row[x] = "allocated" -> "pending"
            [] look.row[x] = "provisioned" /\ x[2] \in look.up -> "ready"
            [] OTHER -> "failed"]

\* sliver_to_rspec_node: no sliver of a node that is kept for other slices.
Shown == look.on \ look.barred
Description ==
  [slivers |-> {GeniSliver(x) : x \in Shown}, of |-> look.of, users |-> look.users,
   keyed |-> look.keyed, tags |-> look.tags, late |-> look.late]

\* perform_operational_action: refused while a sliver is pending; it does
\* nothing else but to describe once more.
Start ==
  IF \E g \in Description.slivers : g.op = "pending" THEN Answer("UnsupportedOperation", Nowhere)
  ELSE To("slices", [look EXCEPT !.again = TRUE])

\* Sites, interfaces and tags of the nodes: of a node that is gone by now there
\* is a KeyError.
GetNodeSites ==
  /\ stage = "sites" /\ Reading
  /\ IF \E x \in Shown : x[2] \in plc.gone THEN Answer("KeyError", Nowhere)
     ELSE IF look.q.op = "Start" /\ ~look.again THEN Start ELSE Answer(Nowhere, Description)

-----------------------------------------------------------------------------
(* What others do                                                             *)

Toggled(S, x) == (S \ {x}) \cup ({x} \ S)

\* Requests put slivers on nodes and take them off, write and drop rows, change
\* persons, keys, tags and expirations; nodes go up and down or away.
Become(x, p) ==
  {[plc EXCEPT !.on = Toggled(@, x)], [plc EXCEPT !.barred = Toggled(@, x)],
   [plc EXCEPT !.up = Toggled(@, x[2])], [plc EXCEPT !.gone = @ \cup {x[2]}, !.on = @ \ (Slices \X {x[2]})],
   [plc EXCEPT !.members = Toggled(@, <<x[1], p>>)], [plc EXCEPT !.keyed = Toggled(@, p)],
   [plc EXCEPT !.tags = Toggled(@, x)], [plc EXCEPT !.tags = Toggled(@, <<x[1], "slice">>)],
   [plc EXCEPT !.late = @ \ {x[1]}]}
  \cup {[plc EXCEPT !.row[x] = r] : r \in {Nowhere, "allocated", "provisioned"}}

OthersMove ==
  /\ moves < MaxMoves /\ moves' = moves + 1
  /\ \E x \in Slices \X Hosts, p \in Persons : \E next \in Become(x, p) \ {plc} :
       /\ next.on \cap (Slices \X next.gone) = {}
       /\ plc' = next /\ during' = IF stage = "idle" THEN {} ELSE during \cup {next}
  /\ told' = Nowhere /\ UNCHANGED <<stage, look, questions>>

ManifestNext ==
  \/ AskManifest \/ CheckSliverCredentials \/ GetSlices \/ GetKeys \/ GetSliceTags \/ GetSliceNodes
  \/ UpdateSlice \/ QueryAllocations \/ GetNodeSites \/ OthersMove

-----------------------------------------------------------------------------
(* Correctness                                                                *)

Ever(P(_)) == \E w \in during : P(w)
Always(P(_)) == \A w \in during : P(w)

\* A request is refused or fails only for what was the case while it ran, but for
\* a Shutdown, which always fails.
FaultsHaveCauses ==
  LET q == told.question
      mine == UNION {AskedFor(q, s) : s \in Named(q)}
  IN CASE told.fault = "Forbidden" -> \E x \in q.slivers : x[1] \notin q.creds
       [] told.fault = "SearchFailed" -> \E s \in Named(q) : \A x \in AskedFor(q, s) :
                                            Ever(LAMBDA w : x \notin w.on)
       [] told.fault = "UnsupportedOperation" -> \E x \in mine : Ever(LAMBDA w : w.row[x] = "allocated")
       [] told.fault = "KeyError" -> \E h \in Hosts : Ever(LAMBDA w : h \in w.gone) /\ ~Always(LAMBDA w : h \in w.gone)
       [] OTHER -> q.op = "Shutdown"

\* What a description of slivers of one slice says was the case while it was
\* made, piece by piece: no sliver that was not asked for and on its node, and,
\* if nothing hid it, each that stayed there, with the row that it kept.
DescribesSlivers ==
  LET q == told.question
      s == told.says.of
      shown == {g.sliver : g \in told.says.slivers}
      asked == IF q.slivers = {} THEN SliversOf(s) ELSE q.slivers
      hidden(x) == Ever(LAMBDA w : x \notin w.on \/ x \in w.barred \/ (q.booted /\ x[2] \notin w.up))
  IN /\ shown \subseteq asked
     /\ {x \in asked : ~hidden(x)} \subseteq shown
     /\ \A g \in told.says.slivers :
          /\ Ever(LAMBDA w : g.sliver \in w.on) /\ Ever(LAMBDA w : w.row[g.sliver] = g.state)
          /\ g.op = "pending" <=> g.state = "allocated"
          /\ g.op = "ready" => g.state = "provisioned" /\ Ever(LAMBDA w : g.sliver[2] \in w.up)
          /\ g.op = "failed" /\ g.state = "provisioned" => Ever(LAMBDA w : g.sliver[2] \notin w.up)

\* ... and so are its users, their keys, the tags and the expiration.
DescribesSlice ==
  LET s == told.says.of
      own == {<<s, "slice">>} \cup {g.sliver : g \in told.says.slivers}
  IN /\ told.says.users \subseteq {p \in Persons : Ever(LAMBDA w : <<s, p>> \in w.members)}
     /\ {p \in Persons : Always(LAMBDA w : <<s, p>> \in w.members)} \subseteq told.says.users
     /\ told.says.keyed \subseteq {p \in told.says.users : Ever(LAMBDA w : p \in w.keyed)}
     /\ {p \in told.says.users : Always(LAMBDA w : p \in w.keyed)} \subseteq told.says.keyed
     /\ \A t \in told.says.tags : Ever(LAMBDA w : t \in w.tags)
     /\ \A t \in own : Always(LAMBDA w : t \in w.tags) => t \in told.says.tags
     /\ Ever(LAMBDA w : told.says.late <=> s \in w.late)
     /\ told.question.op = "Renew" => Ever(LAMBDA w : s \in w.late)

\* Whatever others change meanwhile, an answer about slivers is made of what was
\* so (PlAggregate.describe and get_slivers, plaggregate.py).  Nothing is said
\* of requests for slivers of several slices, which get those of one.
DescribedAsItWas ==
  told # Nowhere =>
    IF told.fault # Nowhere THEN FaultsHaveCauses
    ELSE /\ told.question.op # "Shutdown"
         /\ (\E s \in Slices : Named(told.question) = {s}) => DescribesSlivers /\ DescribesSlice
=============================================================================
