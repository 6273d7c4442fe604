----------------------------- MODULE DummyDriver -----------------------------
(* The dummy testbed's driver (dummydriver.py, dummyslices.py and             *)
(* dummyaggregate.py) as steps between which threads interleave, the testbed, *)
(* and the allocation rows in the database, for the slices of one name.       *)
EXTENDS Aggregate

INSTANCE DummyTestbed

ASSUME TestbedAssumption == None \notin [Nodes -> Nat]

VARIABLES
  slices,               \* at the testbed
  rows,                 \* the sliver allocations: by sliver, its state
  slice, nodes, found,  \* a worker's variables
  asked                 \* history: what the requests so far ask of the slice, None when unclear

testbed == <<slices, rows>>
locals == <<slice, nodes, found>>
dummyVars == <<testbed, locals, asked>>

\* A sliver's urn names its slice's id and its node.
Known(i) == {n \in Nodes : <<i, n>> \in DOMAIN rows}

\* The requests there may be.
DummyRecord ==
  [kind : {"Allocate", "Provision", "Delete", "Renew", "Action", "Status", "Shutdown", "ListResources"},
   target : Targets \cup {Whole}, slice : Nat]

ASSUME RequestAssumption == None \notin DummyRecord /\ None \notin Transmissions(DummyRecord)

\* What a client asks: Allocate with the nodes of its rspec, the others with the
\* urn of the slice or urns of slivers, of the slice with the given id.
DummyRequest ==
  [kind : {"Allocate"}, target : Targets \ {Whole}, slice : {0}]
  \cup [kind : {"Provision", "Delete", "Renew", "Action", "Status"}, target : {Whole}, slice : {0}]
  \cup [kind : {"Shutdown", "ListResources"}, target : {Whole}, slice : {0}]
  \cup UNION {[kind : {"Provision", "Delete"},
               target : {t \in Targets \ {Whole, {}} : t \subseteq Known(i)}, slice : {i}] :
             i \in DOMAIN slices}

NoLocals ==
  /\ slice = [w \in Workers |-> 0]
  /\ nodes = [w \in Workers |-> {}]
  /\ found = [w \in Workers |-> {}]

\* The slice is not there, or it is as an earlier Allocate left it.
DummyInit ==
  /\ \E before \in {{}} \cup (Targets \ {Whole}) :
       /\ slices = IF before = {} THEN <<>> ELSE AddSliceToNodes(<<None>>, 1, before)
       /\ rows = [s \in {1} \X before |-> "geni_allocated"]
       /\ asked = [n \in before |-> "geni_allocated"]
  /\ NoLocals

------------------------------------------------------------------------------
(* The end of a request.                                                      *)

Forget(w) ==
  /\ slice' = [slice EXCEPT ![w] = 0]
  /\ nodes' = [nodes EXCEPT ![w] = {}]
  /\ found' = [found EXCEPT ![w] = {}]

\* What the requests ask of the slice, once one more of them ended undisturbed.
Then(w) ==
  LET named == IF Target(w) = Whole THEN DOMAIN asked ELSE Target(w) \cap DOMAIN asked
      unlessUnclear(wish) == IF asked = None THEN None ELSE wish
  IN  CASE Kind(w) = "Allocate" -> [n \in Target(w) |-> "geni_allocated"]
        [] Kind(w) = "Delete" /\ Target(w) = Whole -> [n \in {} |-> ""]
        [] Kind(w) = "Delete" /\ Target(w) # Whole ->
             unlessUnclear([n \in DOMAIN asked \ named |-> asked[n]])
        [] Kind(w) = "Provision" ->
             unlessUnclear([n \in DOMAIN asked |-> IF n \in named THEN "geni_provisioned" ELSE asked[n]])

Done(w) ==
  /\ Reply(w) /\ Forget(w)
  /\ asked' = IF ~Changing(w) THEN asked ELSE IF Undisturbed(w) THEN Then(w) ELSE None

\* A fault of the driver's own making, before anything was changed.
Refuse(w) == Reply(w) /\ Forget(w) /\ UNCHANGED <<testbed, asked>>

\* The driver meets an exception.
Trip(w) ==
  /\ Raise(w)
  /\ asked' = IF Changing(w) THEN None ELSE asked
  /\ UNCHANGED locals

\* ... before it has changed anything.
Balk(w) == Raise(w) /\ UNCHANGED <<troubles, alone, dummyVars>>

To(w, place) == On(w, place) /\ UNCHANGED asked

------------------------------------------------------------------------------
(* The driver.  Each step is one call of the testbed or one query or commit.  *)

\* DummySlices.verify_slice
FindSlice(w) ==
  /\ pc[w] = "Allocate"
  /\ IF slices = <<>>
     THEN To(w, "add slice") /\ UNCHANGED <<slice, nodes>>
     ELSE /\ slice' = [slice EXCEPT ![w] = 1]
          /\ nodes' = [nodes EXCEPT ![w] = GetNodes(slices[1])]
          /\ To(w, "add nodes")
  /\ UNCHANGED <<testbed, found>>

NewSlice(w) ==
  /\ pc[w] = "add slice"
  /\ slices' = AddSlice(slices)
  /\ slice' = [slice EXCEPT ![w] = Len(slices) + 1]
  /\ To(w, "add nodes")
  /\ UNCHANGED <<rows, nodes, found>>

\* DummySlices.verify_slice_nodes
Added(w) == AddSliceToNodes(slices, slice[w], Target(w) \ nodes[w])
AddNodes(w) ==
  /\ pc[w] = "add nodes"
  /\ slices' = Added(w)
  /\ To(w, "remove nodes")
  /\ UNCHANGED <<rows, slice, nodes, found>>

RemovedNone(w) == slices
Removed(w) == DeleteSliceFromNodes(slices, slice[w], nodes[w] \ Target(w))
RemoveNodes(w) ==
  /\ pc[w] = "remove nodes"
  /\ slices' = Removed(w)
  /\ To(w, "look again")
  /\ UNCHANGED <<rows, slice, nodes, found>>

\* The nodes that the slice of that name now has, the first one if there are two.
LookAgain(w) ==
  /\ pc[w] = "look again"
  /\ IF slices[1] = None
     THEN Trip(w) /\ UNCHANGED <<testbed, troubles, alone>>
     ELSE /\ nodes' = [nodes EXCEPT ![w] = GetNodes(slices[1])]
          /\ To(w, IF GetNodes(slices[1]) = {} THEN "describe" ELSE "sync")
          /\ UNCHANGED <<testbed, slice, found>>

\* The rows once some slivers are in a state.
WithState(slivers, state) ==
  [s \in slivers \cup DOMAIN rows |-> IF s \in slivers THEN state ELSE rows[s]]

NextNode(w) == CHOOSE n \in nodes[w] : TRUE
NextSliver(w) == <<slice[w], NextNode(w)>>

\* SliverAllocation.sync: a query, then an update or an insertion.
SyncQuery(w) ==
  /\ pc[w] = "sync"
  /\ IF NextNode(w) \notin Target(w)
     THEN Trip(w) /\ UNCHANGED <<testbed, troubles, alone>>
     ELSE /\ found' = [found EXCEPT ![w] = {NextSliver(w)} \cap DOMAIN rows]
          /\ To(w, "sync write")
          /\ UNCHANGED <<testbed, slice, nodes>>

\* A commit fails on the primary key of a row that another thread inserted, and
\* when a row that it updates has gone: one without a change is not updated.
Taken(w, wanted) == (wanted \cap DOMAIN rows) \ found[w]
Gone(w) == found[w] \ DOMAIN rows

SyncWrite(w) ==
  /\ pc[w] = "sync write"
  /\ \/ /\ Taken(w, {NextSliver(w)}) \cup Gone(w) # {}
        /\ Trip(w) /\ UNCHANGED <<testbed, troubles, alone>>
     \/ /\ Taken(w, {NextSliver(w)}) = {}
        /\ rows' = WithState({NextSliver(w)} \ Gone(w), "geni_allocated")
        /\ nodes' = [nodes EXCEPT ![w] = @ \ {NextNode(w)}]
        /\ To(w, IF nodes[w] = {NextNode(w)} THEN "describe" ELSE "sync")
        /\ UNCHANGED <<slices, slice, found>>

\* DummyAggregate.get_slivers: of two slices of one name, the last.
ByName(w) == Kind(w) = "Allocate" \/ Target(w) = Whole
Named(w) == IF ByName(w) THEN Len(slices) ELSE job[w].request.slice
GetSliversAll(w) == IF slices = <<>> THEN {} ELSE GetNodes(slices[Named(w)])
GetSlivers(w) ==
  IF slices = <<>> THEN {} ELSE {n \in GetNodes(slices[Named(w)]) : ByName(w) \/ n \in Target(w)}

ReadSlivers(w, onward) ==
  /\ slice' = [slice EXCEPT ![w] = Named(w)]
  /\ nodes' = [nodes EXCEPT ![w] = GetSlivers(w)]
  /\ To(w, onward)
  /\ UNCHANGED <<testbed, found>>

MySlivers(w) == {<<slice[w], n>> : n \in nodes[w]}

\* DummyDriver.provision: slivers[0] fails when there is none.
Provision(w) ==
  /\ pc[w] = "Provision"
  /\ IF GetSlivers(w) = {} THEN Balk(w) ELSE ReadSlivers(w, "query rows")

\* SliverAllocation.set_allocations
QueryRows(w) ==
  /\ pc[w] = "query rows"
  /\ found' = [found EXCEPT ![w] = MySlivers(w) \cap DOMAIN rows]
  /\ To(w, "set rows")
  /\ UNCHANGED <<testbed, slice, nodes>>

SetRows(w) ==
  /\ pc[w] = "set rows"
  /\ \/ /\ Taken(w, MySlivers(w)) \cup Gone(w) # {}
        /\ Trip(w) /\ UNCHANGED <<testbed, troubles, alone>>
     \/ /\ Taken(w, MySlivers(w)) = {}
        /\ rows' = WithState(MySlivers(w) \ Gone(w), "geni_provisioned")
        /\ To(w, "describe")
        /\ UNCHANGED <<slices, slice, nodes, found>>

\* DummyDriver.delete
Delete(w) ==
  /\ pc[w] = "Delete"
  /\ IF GetSlivers(w) = {} THEN Done(w) /\ UNCHANGED testbed ELSE ReadSlivers(w, "delete nodes")

Deleted(w) == DeleteSliceFromNodes(slices, slice[w], nodes[w])
DeleteNodes(w) ==
  /\ pc[w] = "delete nodes"
  /\ slices' = Deleted(w)
  /\ To(w, "delete rows")
  /\ UNCHANGED <<rows, slice, nodes, found>>

DeleteRows(w) ==
  /\ pc[w] = "delete rows"
  /\ rows' = [s \in DOMAIN rows \ MySlivers(w) |-> rows[s]]
  /\ Done(w)
  /\ UNCHANGED slices

\* DummyDriver.renew, whose UpdateSlice is without effect.
Renew(w) ==
  /\ pc[w] = "Renew"
  /\ IF GetSlivers(w) = {} THEN Refuse(w) ELSE ReadSlivers(w, "describe")

\* DummyDriver.perform_operational_action: nothing may be pending.
Pending(w) == \E n \in GetSlivers(w) :
  <<Named(w), n>> \in DOMAIN rows /\ rows[<<Named(w), n>>] = "geni_allocated"
Action(w) ==
  /\ pc[w] = "Action"
  /\ IF Pending(w) THEN Refuse(w) ELSE ReadSlivers(w, "describe")

\* DummyAggregate.describe, with which most requests end: it reads the nodes and
\* then the rows, and changes neither.
Describe(w) == pc[w] \in {"describe", "Status"} /\ Done(w) /\ UNCHANGED testbed

\* DummyDriver.shutdown asks the xrn for a pl_slicename, which it has not.
Shutdown(w) == pc[w] = "Shutdown" /\ Balk(w)

\* DummyDriver.list_resources
ListResources(w) == pc[w] = "ListResources" /\ Done(w) /\ UNCHANGED testbed

DummyStep(w) ==
  \/ FindSlice(w) \/ NewSlice(w) \/ AddNodes(w) \/ RemoveNodes(w) \/ LookAgain(w)
  \/ SyncQuery(w) \/ SyncWrite(w)
  \/ Provision(w) \/ QueryRows(w) \/ SetRows(w)
  \/ Delete(w) \/ DeleteNodes(w) \/ DeleteRows(w)
  \/ Renew(w) \/ Action(w) \/ Describe(w) \/ Shutdown(w) \/ ListResources(w)
  \/ Take(w) /\ UNCHANGED dummyVars
  \/ Handle(w) /\ Forget(w) /\ UNCHANGED <<testbed, asked>>

------------------------------------------------------------------------------
(* Failures.                                                                  *)

Reads == {"Allocate", "look again", "Provision", "Delete", "Renew", "Action",
          "describe", "Status", "ListResources"}

\* A call of the testbed fails, before or after it took effect; or get_slivers
\* meets a user of the slice without keys.
TestbedFails(w) ==
  /\ troubles < MaxTroubles /\ troubles' = troubles + 1
  /\ alone' = [alone EXCEPT ![w] = FALSE]
  /\ UNCHANGED rows
  /\ \/ pc[w] \in Reads \cup {"add slice", "delete nodes"} /\ Trip(w) /\ UNCHANGED slices
     \/ pc[w] = "add slice" /\ Trip(w) /\ slices' = AddSlice(slices)
     \/ pc[w] = "delete nodes" /\ Trip(w) /\ slices' = Deleted(w)
     \/ /\ pc[w] \in {"add nodes", "remove nodes"}  \* swallowed
        /\ slices' \in {slices, IF pc[w] = "add nodes" THEN Added(w) ELSE Removed(w)}
        /\ Go(w, "look again")
        /\ UNCHANGED <<clients, queue, handled, job, locals, crossed, asked>>

DummyRestart ==
  /\ Restart
  /\ slice' = [w \in Workers |-> 0]
  /\ nodes' = [w \in Workers |-> {}] /\ found' = [w \in Workers |-> {}]
  /\ asked' = IF \E w \in Workers : Changing(w) THEN None ELSE asked
  /\ UNCHANGED testbed

DummyNext ==
  \/ \E c \in Calls : Client(c, DummyRequest) /\ UNCHANGED dummyVars
  \/ \E w \in Workers : DummyStep(w) \/ TestbedFails(w)
  \/ DummyRestart

------------------------------------------------------------------------------
(* Properties.                                                                *)

States == {"geni_allocated", "geni_provisioned"}

\* What the driver's variables may hold.
DummyTypeOK ==
  /\ \A i \in DOMAIN slices : slices[i] \in Slice
  /\ DOMAIN rows \subseteq (1 .. Len(slices)) \X Nodes
  /\ \A s \in DOMAIN rows : rows[s] \in States
  /\ \A w \in Workers :
       /\ slice[w] \in 0 .. Len(slices) /\ nodes[w] \subseteq Nodes
       /\ found[w] \subseteq (1 .. Len(slices)) \X Nodes

\* The requests that the driver has no answer to: a Provision of a slice left
\* without slivers, of which it takes the first, and any Shutdown.
Unservable(w) == Kind(w) = "Shutdown" \/ (Kind(w) = "Provision" /\ GetSlivers(w) = {})

\* What Describe shows of the slice.
Shown ==
  LET i == Len(slices)
      on == IF i = 0 THEN {} ELSE GetNodes(slices[i])
  IN  [n \in on |-> IF <<i, n>> \in DOMAIN rows THEN rows[<<i, n>>] ELSE "geni_unallocated"]

\* Whatever earlier requests left behind when the testbed failed or the
\* aggregate stopped in the middle of them, and whatever was sent twice: once a
\* later request has run undisturbed, Describe shows the slivers that were
\* asked for, in the state that was asked for, and no others.
AsAsked == (\A w \in Workers : ~Changing(w)) /\ asked # None => Shown = asked
=============================================================================
