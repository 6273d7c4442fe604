---------------------------- MODULE DummyTestbed ----------------------------
(* The dummy testbed (src/sfa/dummy/dummy_testbed_api.py), which keeps its    *)
(* slices in memory and serves one call at a time.  Of its database, the      *)
(* slices of one name, in the order of their creation: nothing keeps a name   *)
(* unique.  A slice is its list of node ids, in which a node may be more than *)
(* once: how often each node is in it, or None as long as it has no list.     *)
EXTENDS Integers, Sequences

CONSTANTS Nodes, None

Slice == [Nodes -> Nat] \cup {None}

NoNodes == [n \in Nodes |-> 0]
NodeIds(slice) == IF slice = None THEN NoNodes ELSE slice

\* GetNodes with the slice's list as its filter: each node once.
GetNodes(slice) == {n \in Nodes : NodeIds(slice)[n] > 0}

AddSlice(slices) == Append(slices, None)

\* extend: a node that is in the list gets in once more.
AddSliceToNodes(slices, i, nodes) ==
  [slices EXCEPT ![i] = [n \in Nodes |-> NodeIds(@)[n] + IF n \in nodes THEN 1 ELSE 0]]

\* remove: a node that is in the list several times is there once less.  Without
\* a list the call fails, and its failure is returned as a value nobody reads.
DeleteSliceFromNodesAnyway(slices, i, nodes) ==
  [slices EXCEPT ![i] = IF @ = None THEN None
                        ELSE [n \in Nodes |-> IF n \in nodes THEN @[n] - 1 ELSE @[n]]]
DeleteSliceFromNodes(slices, i, nodes) ==
  [slices EXCEPT ![i] = IF @ = None THEN None
                        ELSE [n \in Nodes |-> IF n \in nodes /\ @[n] > 0 THEN @[n] - 1 ELSE @[n]]]
=============================================================================
