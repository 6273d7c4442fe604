----------------------------- MODULE MCRegistry -----------------------------
(* Model checking of Registry: identical workers, users and keys may be swapped. *)
EXTENDS Registry, TLC
Symmetry == Permutations(Workers) \cup Permutations(Users) \cup Permutations(Keys)

\* Every name has an e-mail, or a PL name, of its own.
MCCalled == [n \in Slices \cup Users |-> n]

\* Everybody is registered before the first request, and clients only update.
Updates ==
    /\ Init /\ \A n \in Names : RowsOf({n}) # {}
    /\ [][\E w \in Workers : Update(w) \/ Step(w)]_vars
=============================================================================
