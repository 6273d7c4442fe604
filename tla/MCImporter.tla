----------------------------- MODULE MCImporter -----------------------------
(* Model checking of Importers.  PlanetLab: one slice, one user, one worker; *)
(* what the histories of Registry say is about clients only, so that states  *)
(* that differ in nothing else are one.  Dummy: a user on two slices, whose   *)
(* name a client may also register in another authority.                     *)
EXTENDS Importers, TLC
CONSTANTS s1, s2, u1, d1
Symmetry == Permutations(Keys)
View == <<db, testbed, pc, job, locals, requests, failures, importer, changes, quiet, gone,
          dummyVars, flavour>>
MCCalled == [n \in Slices \cup Users |-> n]
MCHrns == {<<"other", u1>>, <<"site", s1>>}
MCAccounts == 1 :> [name |-> u1, keys |-> {d1}]
MCProjects == (2 :> [name |-> s1, users |-> <<1>>]) @@ (3 :> [name |-> s2, users |-> <<1>>])
=============================================================================
