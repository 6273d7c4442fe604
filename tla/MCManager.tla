----------------------------- MODULE MCManager -----------------------------
(* Model checking of Manager: the readers are interchangeable, and neither  *)
(* the fairness nor the temporal property names them.  The requests about   *)
(* slivers name a slice, one or two of its slivers, or slivers of two.      *)
EXTENDS Manager, TLC
CONSTANTS s1, s2, n1, n2
Symmetry == Permutations(Readers)

Slice(op, s, booted) ==
  [op |-> op, slice |-> s, slivers |-> {}, creds |-> {s}, booted |-> booted]
Some(op, slivers, creds, booted) ==
  [op |-> op, slice |-> Nowhere, slivers |-> slivers, creds |-> creds, booted |-> booted]
MCQuestions ==
  {Slice("Describe", s1, FALSE), Slice("Describe", s1, TRUE), Slice("Renew", s1, TRUE),
   Slice("Start", s1, FALSE), Slice("Shutdown", s1, FALSE),
   Some("Describe", {<<s1, n1>>, <<s1, n2>>}, {s1}, TRUE), Some("Status", {<<s1, n1>>}, {s1}, TRUE),
   Some("Describe", {<<s1, n1>>, <<s2, n2>>}, {s1}, FALSE),
   Some("Describe", {<<s1, n1>>, <<s2, n2>>}, {s1, s2}, FALSE),
   Some("Renew", {<<s1, n1>>}, {s1}, FALSE), Some("Start", {<<s1, n1>>}, {s1}, TRUE)}
=============================================================================
