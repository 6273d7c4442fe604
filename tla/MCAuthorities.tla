--------------------------- MODULE MCAuthorities ---------------------------
(* Model checking of Authorities: the tree of MCHierarchy; and a registry a  *)
(* that knows the one of its part a.b and another one, c.d; and a slice with *)
(* the id that a user has too, and a site with that of another user.         *)
EXTENDS Authorities, TLC
CONSTANTS root, hub, site
MCParent == root :> None @@ hub :> root @@ site :> hub

a == <<"a">>
ab == <<"a", ".", "b">>
cd == <<"c", ".", "d">>
X(r) == r \o <<".", "x">>
CX == <<"c", ".", "x">>
MCRegistries == {a, ab, cd}
MCNeighbours == (a :> <<ab, cd>>) @@ (ab :> <<a>>) @@ (cd :> <<a>>)
MCRequests ==
  [kind : {"Resolve"}, names : {{X(a), X(ab)}, {X(cd), CX}}] \cup [kind : {"List"}, names : {{ab}}]
MCDirectories == {{X(a), X(ab), X(cd)}, {X(a)}}
MCUsers == {"u1", "u2"}
MCPointer == [u1 |-> 1, u2 |-> 2, slice |-> 1, site |-> 2]
MCAskedFor == {{"slice", "site", "u1"}}
=============================================================================
