------------------------------ MODULE Details ------------------------------
(* Resolve with details at one registry, read by read: its own records of a  *)
(* site, a slice and their users, and what fill_record_info of the PlanetLab *)
(* or of the dummy driver adds from the testbed and, by pointers, from the   *)
(* records again.  Meanwhile requests change the two, one request at a time  *)
(* but each in several steps.                                                *)
EXTENDS Naturals

CONSTANTS
  Users, SliceHrn, SiteHrn,   \* the records there may be
  Pointer,      \* the id that the testbed gives to each; ids of two types may be equal
  Nothing,
  AskedFor,     \* the sets of names that Resolve is asked for
  MaxUpdates    \* bound on the requests that change something

Hrns == Users \cup {SliceHrn, SiteHrn}
\* Persons have ids of their own, which slices and sites may have too.
ASSUME PointerAssumption ==
  /\ Pointer \in [Hrns -> Nat]
  /\ \A u, v \in Users : Pointer[u] = Pointer[v] => u = v
ASSUME HrnsAssumption == SliceHrn # SiteHrn /\ {SliceHrn, SiteHrn} \cap Users = {}
ASSUME AskedForAssumption == AskedFor \subseteq SUBSET Hrns

\* The requests that change something, between two of their steps, and what
\* Resolve has read.
PendingRequest == [op : {"link", "lead", "enrol", "erase"}, to : SUBSET Hrns]
View ==
  [found : SUBSET Hrns, links : SUBSET Users, heads : SUBSET Users,
   ofSlice : (SUBSET Users) \cup {Nothing}, ofSite : (SUBSET Users) \cup {Nothing},
   pis : SUBSET Users, records : SUBSET Hrns, alone : BOOLEAN, steady : SUBSET Users]

ASSUME NothingAssumption == Nothing \notin PendingRequest /\ Nothing \notin View

VARIABLES
  bed,                        \* the driver: planetlab or dummy
  enrolled,                   \* the records
  researchers, pis,           \* ... and their relations: users of the slice, PIs of the site
  objects,                    \* what the testbed has of the slice and the site
  accounts, members, leads,   \* its persons, those on the slice, those with the role pi
  onNodes,                    \* is the slice on nodes?
  used, updates, pending,     \* ids given so far, requests so far, the one under way
  stage, view,                \* Resolve: how far it is and what it has read
  told                        \* history: the answer or fault of the last step, if it gave one

registry == <<enrolled, researchers, pis>>
plc == <<objects, accounts, members, leads, onNodes>>
reader == <<stage, view>>
detailVars == <<bed, registry, plc, used, updates, pending, reader, told>>

DetailsInit ==
  /\ bed \in {"planetlab", "dummy"} /\ onNodes \in BOOLEAN
  /\ used \in SUBSET Users /\ enrolled = used \cup {SliceHrn, SiteHrn}
  /\ researchers \in SUBSET used
  /\ pis \in IF bed = "dummy" THEN {{}} ELSE SUBSET used
  /\ objects = IF bed = "dummy" THEN {SliceHrn} ELSE {SliceHrn, SiteHrn}
  /\ accounts = used /\ members = researchers /\ leads = pis
  /\ updates = 0 /\ pending = Nothing
  /\ stage = "idle" /\ view = Nothing /\ told = Nothing

Tell(fault, named) ==
  /\ stage' = "idle" /\ view' = Nothing
  /\ told' = [fault |-> fault, named |-> named, view |-> view]

Read(next, seen) == stage' = next /\ view' = seen /\ told' = Nothing
Still == UNCHANGED <<bed, registry, plc, used, updates, pending>>

ResolveRecords ==
  /\ stage = "idle"
  /\ \E names \in AskedFor :
       /\ names \cap enrolled # {}      \* otherwise RecordNotFound
       /\ Read("builtins",
               [found |-> names \cap enrolled, links |-> {}, heads |-> {}, ofSlice |-> Nothing,
                ofSite |-> Nothing, pis |-> {}, records |-> {},
                alone |-> pending = Nothing, steady |-> researchers \cap members])
  /\ Still

\* augment_with_sfa_builtins: the fields reg-researchers and reg-pis.
Augment ==
  /\ stage = "builtins"
  /\ Read(IF bed = "dummy" THEN "slices" ELSE "sites",
          [view EXCEPT !.links = IF SliceHrn \in view.found THEN researchers ELSE {},
                       !.heads = IF SiteHrn \in view.found THEN pis ELSE {}])
  /\ Still

------------------------------------------------------------------------------
(* fill_record_info: the testbed's own records, then the names that go with   *)
(* ids, then the users, by the records with the ids of persons                *)

GetSiteRecords ==
  /\ stage = "sites"
  /\ Read("slices", IF SiteHrn \in view.found \cap objects THEN [view EXCEPT !.ofSite = accounts] ELSE view)
  /\ Still

GetSliceRecords ==
  /\ stage = "slices"
  /\ Read("persons", IF SliceHrn \in view.found \cap objects THEN [view EXCEPT !.ofSlice = members] ELSE view)
  /\ Still

\* The dummy driver takes for granted that a user has an account.
GetUserRecords ==
  /\ stage = "persons"
  /\ IF bed = "dummy" /\ ~(view.found \cap Users \subseteq accounts)
     THEN Tell(TRUE, Nothing) ELSE Read("hrns", view)
  /\ Still

\* The site of a record must be there still; the dummy driver fails on the
\* undefined login_base when the slice has nodes.
HasSite == view.ofSlice # Nothing \/ view.ofSite # Nothing
Unnamed == IF bed = "dummy" THEN view.ofSlice # Nothing /\ onNodes ELSE HasSite /\ SiteHrn \notin objects

FillHrns ==
  /\ stage = "hrns"
  /\ IF Unnamed THEN Tell(TRUE, Nothing) ELSE Read(IF bed = "dummy" THEN "records" ELSE "pis", view)
  /\ Still

GetPIs ==
  /\ stage = "pis"
  /\ Read("records", IF HasSite THEN [view EXCEPT !.pis = leads \cap accounts] ELSE view)
  /\ Still

GetRecords ==
  /\ stage = "records" /\ Read("roles", [view EXCEPT !.records = enrolled])
  /\ Still

\* Mutation: one record per pointer.
WithPointerLast(persons) ==
  {CHOOSE h \in view.records : Pointer[h] = Pointer[p] :
     p \in {q \in persons : \E h \in view.records : Pointer[h] = Pointer[q]}}
\* The records with the ids of persons, of whatever type they are.
WithPointer(persons) == {h \in view.records : \E p \in persons : Pointer[h] = Pointer[p]}

IdsOf(persons) == IF persons = Nothing THEN {} ELSE persons

FillSfaInfo ==
  /\ stage = "roles"
  /\ Tell(FALSE, [researcher |-> WithPointer(IdsOf(view.ofSlice)),
                  PI |-> WithPointer(view.pis),
                  sitePI |-> WithPointer(IdsOf(view.ofSite) \cap accounts \cap leads)])
  /\ Still

ReaderNext ==
  \/ ResolveRecords \/ Augment \/ GetSiteRecords \/ GetSliceRecords \/ GetUserRecords
  \/ FillHrns \/ GetPIs \/ GetRecords \/ FillSfaInfo

------------------------------------------------------------------------------
(* Other requests, as far as the registry and the testbed show them           *)

\* What a step of a request leaves of what the reader counts on.
Disturb ==
  /\ view' = IF view = Nothing THEN Nothing
             ELSE [view EXCEPT !.alone = FALSE, !.steady = @ \cap researchers' \cap members']
  /\ UNCHANGED <<bed, stage>> /\ told' = Nothing

Begin(request) ==
  /\ pending = Nothing /\ updates < MaxUpdates /\ updates' = updates + 1
  /\ pending' = request /\ Disturb

\* Update: the records first, the testbed one person at a time.
UpdateResearchers ==
  /\ SliceHrn \in enrolled
  /\ \E to \in SUBSET (enrolled \cap Users) :
       /\ researchers' = to /\ UNCHANGED <<enrolled, pis, plc, used>>
       /\ Begin([op |-> "link", to |-> to])

UpdatePIs ==
  /\ SiteHrn \in enrolled
  /\ \E to \in SUBSET (enrolled \cap Users) :
       /\ pis' = to /\ UNCHANGED <<enrolled, researchers, plc, used>>
       /\ Begin([op |-> "lead", to |-> to])

Pending(op) == pending # Nothing /\ pending.op = op
Goal == pending.to \cap accounts

\* Persons are added to the slice before others are removed; none to one that
\* the testbed does not have.
RelateResearchers ==
  /\ Pending("link")
  /\ \/ \E u \in Goal \ members : members' = members \cup {u} /\ SliceHrn \in objects
     \/ Goal \subseteq members /\ \E u \in members \ pending.to : members' = members \ {u}
  /\ UNCHANGED <<registry, objects, accounts, leads, onNodes, used, updates, pending>> /\ Disturb

\* No role is taken away, and the dummy testbed has none.
RelatePIs ==
  /\ Pending("lead") /\ bed = "planetlab"
  /\ \E u \in Goal \ leads : leads' = leads \cup {u}
  /\ UNCHANGED <<registry, objects, accounts, members, onNodes, used, updates, pending>> /\ Disturb

Related ==
  /\ \/ Pending("link") /\ (SliceHrn \notin objects \/ members = Goal)
     \/ Pending("lead") /\ (bed = "dummy" \/ Goal \subseteq leads)
  /\ pending' = Nothing /\ UNCHANGED <<registry, plc, used, updates>> /\ Disturb

\* Register: the account, then the record.
RegisterUser ==
  /\ \E u \in Users \ used :
       /\ accounts' = accounts \cup {u} /\ used' = used \cup {u}
       /\ UNCHANGED <<registry, objects, members, leads, onNodes>>
       /\ Begin([op |-> "enrol", to |-> {u}])

InsertRecord ==
  /\ Pending("enrol") /\ enrolled' = enrolled \cup pending.to /\ pending' = Nothing
  /\ UNCHANGED <<researchers, pis, plc, used, updates>> /\ Disturb

\* Remove: the object and what it holds, then the record and its relations.
RemoveObject ==
  /\ \E h \in enrolled :
       LET gone == IF h = SiteHrn /\ bed = "planetlab" THEN Users ELSE {h}
       IN  /\ h = SiteHrn => bed = "planetlab"
           /\ accounts' = accounts \ gone /\ leads' = leads \ gone
           /\ objects' = objects \ (IF h = SiteHrn THEN {SiteHrn, SliceHrn} ELSE {h})
           /\ members' = IF h \in {SiteHrn, SliceHrn} THEN {} ELSE members \ {h}
           /\ UNCHANGED <<registry, onNodes, used>>
           /\ Begin([op |-> "erase", to |-> {h}])

DeleteRecord ==
  /\ Pending("erase") /\ pending' = Nothing
  /\ enrolled' = enrolled \ pending.to
  /\ researchers' = IF SliceHrn \in pending.to THEN {} ELSE researchers \ pending.to
  /\ pis' = IF SiteHrn \in pending.to THEN {} ELSE pis \ pending.to
  /\ UNCHANGED <<plc, used, updates>> /\ Disturb

DetailsNext ==
  \/ ReaderNext \/ UpdateResearchers \/ UpdatePIs \/ RelateResearchers \/ RelatePIs \/ Related
  \/ RegisterUser \/ InsertRecord \/ RemoveObject \/ DeleteRecord

DetailsSpec == DetailsInit /\ [][DetailsNext]_detailVars

------------------------------------------------------------------------------
(* Correctness                                                                *)

\* The details of a slice name as researcher every user who was one to registry
\* and testbed all the time; those of an undisturbed request name, from the
\* testbed, the users that the registry's own relations name, and no stranger
\* but one whose record has the pointer of such a user. It fails only when it is
\* disturbed, or on a dummy slice that has nodes.
DetailsAgree ==
  told # Nothing =>
    LET v == told.view
    IN  IF told.fault THEN v.alone => bed = "dummy" /\ SliceHrn \in v.found /\ onNodes
        ELSE /\ v.ofSlice # Nothing => v.steady \subseteq told.named.researcher
             /\ v.alone =>
                  /\ v.ofSlice # Nothing =>
                       /\ told.named.researcher \cap Users = v.links
                       /\ \A h \in told.named.researcher \ Users : \E u \in v.links : Pointer[h] = Pointer[u]
                  /\ v.ofSite # Nothing => v.heads \subseteq told.named.sitePI
=============================================================================
