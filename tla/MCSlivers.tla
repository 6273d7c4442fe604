------------------------------ MODULE MCSlivers ------------------------------
(* Model checking of PlSlices.  A behaviour is about slivers or about users: *)
(* workers of the one and threads of the other are alike and may be swapped. *)
(* The requests on two slices ask for users, keys and tags in every mode,    *)
(* with links or not.                                                        *)
EXTENDS PlSlices, TLC
CONSTANTS a, b, k1, s1, s2, g1, g2, l1
Symmetry == Permutations(Workers) \cup Permutations(Threads)

\* What a behaviour is about, without what no step and no property here reads:
\* the answers on torn slivers, which count again only when they are answered
\* anew, and freed, which another run is about.
Answered == <<[n \in Nodes \ torn |-> promised[n]], booked \ torn>>
View == IF concern = "users" THEN usersVars
        ELSE <<testbed, row, pc, job, locals, requests, failures, unsure, torn, Answered>>

MCDemands == {
  [op |-> "Allocate", slice |-> s1, users |-> {a}, keys |-> {k1}, pltags |-> "sync",
   tags |-> {g1, g2}, links |-> {}],
  [op |-> "Allocate", slice |-> s1, users |-> {b}, keys |-> {k1}, pltags |-> "append",
   tags |-> {g2}, links |-> {l1}],
  [op |-> "Provision", slice |-> s1, users |-> {b}, keys |-> {k1}, pltags |-> "ignore",
   tags |-> {}, links |-> {}],
  [op |-> "Allocate", slice |-> s2, users |-> {a}, keys |-> {}, pltags |-> "sync",
   tags |-> {}, links |-> {l1}]}
=============================================================================
