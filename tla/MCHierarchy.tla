---------------------------- MODULE MCHierarchy ----------------------------
(* Model checking of Hierarchy on a root, the interface below it and a site. *)
EXTENDS Hierarchy, TLC
CONSTANTS root, hub, site
MCParent == root :> None @@ hub :> root @@ site :> hub
Symmetry == Permutations(Procs)
=============================================================================
