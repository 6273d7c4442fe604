------------------------- MODULE RegistryDirectory -------------------------
(***************************************************************************)
(* What the registry promises its readers (Resolve, List, GetCredential):  *)
(* a directory that maps a name to at most one entry and changes in one    *)
(* step.  A slice lists registered users only, a user that was given a key *)
(* has one from then on, and dropping a user unlinks it everywhere.        *)
(***************************************************************************)
CONSTANTS Slices, Users, Keys, None

VARIABLE dir

Names == Slices \cup Users
Entry == [researchers : SUBSET Users, key : Keys \cup {None}]
Blank == [researchers |-> {}, key |-> None]
Registered == {u \in Users : dir[u] # None}

Init == dir \in [Names -> {None, Blank}]

\* Every action below names the entry it leaves under n.
Becomes(n, e) == dir[n] # e /\ dir' = [dir EXCEPT ![n] = e]

Add(n) ==
    /\ dir[n] = None
    /\ IF n \in Users
         THEN \E k \in Keys \cup {None} : Becomes(n, [Blank EXCEPT !.key = k])
         ELSE \E us \in SUBSET Registered : Becomes(n, [Blank EXCEPT !.researchers = us])

Relink(s) ==
    /\ dir[s] # None
    /\ \E us \in SUBSET Registered : Becomes(s, [dir[s] EXCEPT !.researchers = us])

Rekey(u) ==
    /\ dir[u] # None
    /\ \E k \in Keys : Becomes(u, [dir[u] EXCEPT !.key = k])

Drop(n) ==
    /\ dir[n] # None
    /\ dir' = [m \in Names |-> IF m = n \/ dir[m] = None THEN None
                                 ELSE [dir[m] EXCEPT !.researchers = @ \ {n}]]

Next ==
    \/ \E n \in Names : Add(n) \/ Drop(n)
    \/ \E s \in Slices : Relink(s)
    \/ \E u \in Users : Rekey(u)

Spec == Init /\ [][Next]_dir

=============================================================================
