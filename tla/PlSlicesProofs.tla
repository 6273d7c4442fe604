---------------------------- MODULE PlSlicesProofs ----------------------------
(***************************************************************************)
(* Theorems about what Allocate, Provision and Delete leave on slices of a *)
(* PlanetLab testbed, for any nodes, users, slices, threads, times and     *)
(* bounds, whatever requests overlap, whatever fails and wherever the      *)
(* aggregate is stopped.  Slivers: testbed, rows and leases are what the   *)
(* last answers said of every sliver whose last requests neither failed    *)
(* nor overlapped, and none is on a slice without its expiration.  Users:  *)
(* what an undisturbed request asked for is what its slice has until the   *)
(* next one, and slices have EGRE keys of their own unless two threads     *)
(* looked for one at the same time.                                        *)
(***************************************************************************)
EXTENDS PlSlices, FiniteSetTheorems, TLAPS

-----------------------------------------------------------------------------
(* Slivers: the inductive invariant *)

\* Which requests get where, and what they carry.
Control(w) ==
    /\ pc[w] = "idle" <=> job[w] = None
    /\ pc[w] = "write" <=> cur[w] # None
    /\ job[w] # None => (job[w].op \in {"Allocate", "Renew"} <=> job[w].until # None)
    /\ pc[w] \in {"slice", "addslice", "read", "add", "drop", "result", "sync", "write", "lease"} =>
         job[w].op = "Allocate"
    /\ pc[w] = "expire" => job[w].op \in {"Allocate", "Renew"}
    /\ pc[w] \in {"leases", "unlease"} => job[w].op \in {"Allocate", "Delete"}
    /\ pc[w] = "slivers" => job[w].op # "Allocate"
    /\ pc[w] = "query" => job[w].op \in {"Provision", "Delete"}
    /\ pc[w] = "commit" => job[w].op = "Provision"
    /\ pc[w] \in {"undo", "forget"} => job[w].op = "Delete"

\* A request on named slivers works on no others.
Within(w) ==
    /\ pc[w] \in {"query", "commit", "leases", "undo", "unlease", "forget", "answer"}
         /\ job[w].op \in {"Provision", "Delete"} => have[w] \subseteq job[w].named
    /\ pc[w] \in {"undo", "unlease"} /\ job[w].op = "Delete" => free[w] \subseteq have[w]
    /\ pc[w] = "forget" => \A n \in Nodes : seen[w][n] # None => n \in have[w]

\* Requests on one sliver know of each other.
Overlaps ==
    \A w \in Workers : \A v \in Workers \ {w} : \A n \in Nodes :
        n \in Claim(job[w]) /\ n \in Claim(job[v]) => unsure[w] /\ unsure[v]

\* A slice that nodes are on, or soon will be, has an expiration.
Expires ==
    /\ SliversExpire
    /\ \A w \in Workers : pc[w] \in {"read", "add"} => expires \in Times

\* What the last answers say of a sliver.
Leased(n) == n \in Reservable => (n \in leases <=> n \in booked)
Agreed(n) == Reported(n) = promised[n] /\ (n \in on => row[n] # None) /\ Leased(n)

\* How far an undisturbed request has come with one of its slivers.
Provisioned(w, n) ==
    /\ n \notin torn => Leased(n)
    /\ n \notin torn /\ ~(pc[w] = "answer" /\ n \in have[w]) => Agreed(n)
    /\ pc[w] \in {"query", "commit"} => (n \in have[w] <=> n \in on)
    /\ pc[w] = "commit" => seen[w][n] = IF n \in have[w] THEN row[n] ELSE None
    /\ pc[w] = "answer" /\ n \in have[w] => n \in on /\ row[n] = "provisioned"

Deleted(w, n) ==
    /\ n \notin torn /\ (pc[w] = "slivers" \/ n \notin have[w]) => Agreed(n)
    /\ n \in have[w] =>
         /\ pc[w] \in {"undo", "unlease"} => (n \in leases => n \in free[w])
         /\ pc[w] \in {"unlease", "query", "forget", "answer"} => n \notin on
         /\ pc[w] \in {"query", "forget", "answer"} => n \notin leases
         /\ pc[w] = "forget" => seen[w][n] = row[n]
         /\ pc[w] = "answer" => row[n] = None

Allocated(w, n) ==
    /\ pc[w] = "add" => (n \in have[w] <=> n \in on)
    /\ pc[w] = "drop" => (n \in on <=> n \in have[w] \/ n \in job[w].named)
    /\ pc[w] \in {"result", "sync", "write", "leases", "unlease", "lease", "answer"} =>
         (n \in on <=> n \in job[w].named)
    /\ pc[w] \in {"sync", "write"} /\ n \in on /\ n \notin have[w] /\ n # cur[w] => row[n] = "allocated"
    /\ pc[w] = "write" /\ n = cur[w] => seen[w][n] = row[n]
    /\ pc[w] \in {"leases", "unlease", "lease", "answer"} /\ n \in on => row[n] = "allocated"
    /\ pc[w] = "unlease" => (n \in free[w] <=> n \in leases /\ n \notin job[w].leased)
    /\ pc[w] = "lease" => (n \in leases => n \in job[w].leased)
    /\ pc[w] \in {"unlease", "lease"} => (n \in book[w] <=> n \in job[w].leased /\ n \notin leases)
    /\ pc[w] = "answer" => (n \in leases <=> n \in job[w].leased)

Progress(w, n) ==
    /\ job[w].op = "Provision" => Provisioned(w, n)
    /\ job[w].op = "Delete" => Deleted(w, n)
    /\ job[w].op = "Allocate" => Allocated(w, n)

Sound(w) == ~unsure[w] => \A n \in Nodes : n \in Claim(job[w]) => Progress(w, n)

IInv ==
    /\ TypeOK /\ AsAnswered /\ Overlaps /\ Expires
    /\ \A w \in Workers : Control(w) /\ Within(w) /\ Sound(w)
-----------------------------------------------------------------------------
(* The frame: what the step of one worker leaves alone *)

OthersKept(w) ==
    \A v \in Workers \ {w} :
        /\ pc'[v] = pc[v] /\ job'[v] = job[v] /\ have'[v] = have[v] /\ cur'[v] = cur[v]
        /\ seen'[v] = seen[v] /\ free'[v] = free[v] /\ book'[v] = book[v]
        /\ unsure[v] => unsure'[v]

Untouched(n) ==
    /\ n \in on' <=> n \in on
    /\ n \in leases' <=> n \in leases
    /\ row'[n] = row[n]
    /\ n \in torn' <=> n \in torn
    /\ promised'[n] = promised[n]
    /\ n \in booked' <=> n \in booked

Confined(w) == \A n \in Nodes : n \notin Claim(job[w]) => Untouched(n)

LEMMA ClaimIs ==
  /\ Claim(None) = {}
  /\ \A j \in Job :
       /\ j.op = "Allocate" => Claim(j) = Nodes
       /\ j.op = "Renew" => Claim(j) = {}
       /\ j.op \in {"Provision", "Delete"} => Claim(j) = j.named
       /\ Claim(j) \subseteq Nodes
  BY JobAssumption DEF Claim, Job

LEMMA OthersGoOn ==
  ASSUME IInv, NEW w \in Workers, OthersKept(w), Confined(w), NEW v \in Workers \ {w}
  PROVE  Control(v)' /\ Within(v)' /\ Sound(v)'
  <1>1. /\ pc'[v] = pc[v] /\ job'[v] = job[v] /\ have'[v] = have[v] /\ cur'[v] = cur[v]
        /\ seen'[v] = seen[v] /\ free'[v] = free[v] /\ book'[v] = book[v]
        /\ unsure[v] => unsure'[v]
    BY DEF OthersKept
  <1>2. Control(v) /\ Within(v) /\ Sound(v)
    BY DEF IInv
  <1>3. Control(v)'
    BY <1>1, <1>2 DEF Control
  <1>4. Within(v)'
    BY <1>1, <1>2 DEF Within
  <1>5. Sound(v)'
    <2> SUFFICES ASSUME ~unsure'[v], NEW n \in Nodes, n \in Claim(job[v])
                 PROVE  Progress(v, n)'
      BY <1>1 DEF Sound
    <2>1. ~unsure[v] /\ Progress(v, n)
      BY <1>1, <1>2 DEF Sound
    <2>2. n \notin Claim(job[w])
      BY <2>1 DEF IInv, Overlaps
    <2>3. /\ n \in on' <=> n \in on
          /\ n \in leases' <=> n \in leases
          /\ row'[n] = row[n]
          /\ n \in torn' <=> n \in torn
          /\ promised'[n] = promised[n]
          /\ n \in booked' <=> n \in booked
      BY <2>2 DEF Confined, Untouched
    <2>4. (Leased(n)' <=> Leased(n)) /\ (Agreed(n)' <=> Agreed(n))
      BY <2>3 DEF Leased, Agreed, Reported
    <2>5. Provisioned(v, n) => Provisioned(v, n)'
      BY <1>1, <2>3, <2>4 DEF Provisioned
    <2>6. Deleted(v, n) => Deleted(v, n)'
      BY <1>1, <2>3, <2>4 DEF Deleted
    <2>7. Allocated(v, n) => Allocated(v, n)'
      BY <1>1, <2>3 DEF Allocated
    <2> QED BY <1>1, <2>1, <2>5, <2>6, <2>7 DEF Progress
  <1> QED BY <1>3, <1>4, <1>5

LEMMA SettledStay ==
  ASSUME IInv, NEW w \in Workers, OthersKept(w), Confined(w), job'[w] \in {job[w], None},
         job'[w] = None => \A n \in Claim(job[w]) : n \in torn' \/ Agreed(n)'
  PROVE  AsAnswered'
  <1> SUFFICES ASSUME NEW n \in Nodes, Settled(n)'
               PROVE  Agreed(n)'
    BY DEF AsAnswered, Agreed, Leased
  <1>1. n \notin torn' /\ \A v \in Workers : n \notin Claim(job[v])'
    BY DEF Settled, Busy
  <1>2. CASE n \in Claim(job[w])
    <2>1. job'[w] = None
      BY <1>1, <1>2
    <2> QED BY <1>1, <1>2, <2>1
  <1>3. CASE n \notin Claim(job[w])
    <2>1. Untouched(n)
      BY <1>3 DEF Confined
    <2>2. \A v \in Workers \ {w} : n \notin Claim(job[v])
      BY <1>1 DEF OthersKept
    <2>3. Settled(n)
      BY <1>1, <1>3, <2>1, <2>2 DEF Settled, Busy, Untouched
    <2>4. Agreed(n)
      BY <2>3 DEF IInv, AsAnswered, Agreed, Leased
    <2> QED BY <2>1, <2>4 DEF Untouched, Agreed, Leased, Reported
  <1> QED BY <1>2, <1>3

LEMMA OverlapsStay ==
  ASSUME IInv, NEW w \in Workers, OthersKept(w), job'[w] \in {job[w], None},
         job'[w] = job[w] => (unsure[w] => unsure'[w])
  PROVE  Overlaps'
  <1>1. Claim(None) = {}
    BY ClaimIs
  <1> SUFFICES ASSUME NEW u \in Workers, NEW v \in Workers \ {u}, NEW n \in Nodes,
                      n \in Claim(job[u])', n \in Claim(job[v])'
               PROVE  unsure'[u] /\ unsure'[v]
    BY DEF Overlaps
  <1>2. \A x \in {u, v} : n \in Claim(job[x]) /\ (unsure[x] => unsure'[x])
    BY <1>1 DEF OthersKept
  <1>3. unsure[u] /\ unsure[v]
    BY <1>2 DEF IInv, Overlaps
  <1> QED BY <1>2, <1>3

LEMMA ExpiresStay ==
  ASSUME IInv, NEW w \in Workers, OthersKept(w), SliversExpire',
         expires \in Times => expires' \in Times, pc'[w] \in {"read", "add"} => expires' \in Times
  PROVE  Expires'
  BY DEF IInv, Expires, OthersKept

\* What it takes for the step of one worker to keep the invariant.
LEMMA StepKeeps ==
  ASSUME IInv, NEW w \in Workers, TypeOK', OthersKept(w), Confined(w), job'[w] \in {job[w], None},
         job'[w] = job[w] => (unsure[w] => unsure'[w]),
         job'[w] = None => \A n \in Claim(job[w]) : n \in torn' \/ Agreed(n)',
         SliversExpire', expires \in Times => expires' \in Times,
         pc'[w] \in {"read", "add"} => expires' \in Times,
         Control(w)', Within(w)', Sound(w)'
  PROVE  IInv'
  <1>1. AsAnswered' /\ Overlaps' /\ Expires'
    BY SettledStay, OverlapsStay, ExpiresStay
  <1>2. \A v \in Workers : Control(v)' /\ Within(v)' /\ Sound(v)'
    BY OthersGoOn
  <1> QED BY <1>1, <1>2 DEF IInv

-----------------------------------------------------------------------------
(* A request that goes on, and one that ends *)

LEMMA WorkerFacts ==
  ASSUME IInv, NEW w \in Workers, pc[w] # "idle"
  PROVE  /\ job[w] \in Job /\ job[w] # None
         /\ job[w].op \in {"Allocate", "Provision", "Renew", "Delete"}
         /\ job[w].named \subseteq Nodes /\ job[w].leased \subseteq Reservable
         /\ job[w].until \in Times \cup {None}
         /\ Control(w) /\ Within(w) /\ Sound(w)
  BY JobAssumption DEF IInv, Control, TypeOK, Job

LEMMA GoesOn ==
  ASSUME IInv, NEW w \in Workers, pc[w] # "idle", TypeOK', OthersKept(w), Confined(w),
         job'[w] = job[w], unsure[w] => unsure'[w],
         SliversExpire', expires \in Times => expires' \in Times,
         pc'[w] \in {"read", "add"} => expires' \in Times,
         Control(w)', Within(w)',
         \A n \in Nodes : n \in Claim(job[w]) /\ ~unsure'[w] /\ Progress(w, n) => Progress(w, n)'
  PROVE  IInv'
  <1>1. job[w] # None /\ Sound(w)
    BY WorkerFacts
  <1>2. Sound(w)'
    BY <1>1 DEF Sound
  <1> QED BY <1>1, <1>2, StepKeeps

\* A request that is over has nothing left.
Over(w) ==
    /\ pc[w] = "idle" /\ job[w] = None /\ have[w] = {} /\ cur[w] = None /\ seen[w] = Unread
    /\ free[w] = {} /\ book[w] = {} /\ ~unsure[w]

LEMMA IdleIs ==
  ASSUME IInv, NEW w \in Workers, Idle(w)
  PROVE  /\ Over(w)'
         /\ OthersKept(w)
         /\ pc' \in [Workers -> {"idle", "slice", "addslice", "expire", "read", "add", "drop",
                           "result", "sync", "write", "leases", "unlease", "lease",
                           "slivers", "query", "commit", "undo", "forget", "answer"}]
         /\ job' \in [Workers -> Job \cup {None}]
         /\ have' \in [Workers -> SUBSET Nodes]
         /\ cur' \in [Workers -> Nodes \cup {None}]
         /\ seen' \in [Workers -> [Nodes -> State \cup {None}]]
         /\ free' \in [Workers -> SUBSET Reservable] /\ book' \in [Workers -> SUBSET Reservable]
         /\ unsure' \in [Workers -> BOOLEAN]
  BY DEF IInv, TypeOK, Idle, Goto, Over, OthersKept, Unread

LEMMA OverKeeps ==
  ASSUME NEW w \in Workers, Over(w)
  PROVE  Control(w) /\ Within(w) /\ Sound(w)
  BY ClaimIs DEF Over, Control, Within, Sound

LEMMA Ends ==
  ASSUME IInv, NEW w \in Workers, pc[w] # "idle", TypeOK', Idle(w), Confined(w), UNCHANGED <<testbed, row>>,
         \A n \in Claim(job[w]) : n \in torn' \/ Agreed(n)'
  PROVE  IInv'
  <1>1. Over(w)' /\ OthersKept(w)
    BY IdleIs
  <1>2. Control(w)' /\ Within(w)' /\ Sound(w)'
    BY <1>1, OverKeeps, PTL
  <1>3. expires' = expires /\ SliversExpire'
    BY DEF testbed, IInv, Expires, SliversExpire
  <1>4. job'[w] = None /\ pc'[w] = "idle" /\ job[w] # None
    BY <1>1, WorkerFacts DEF Over
  <1> QED BY <1>1, <1>2, <1>3, <1>4, StepKeeps

LEMMA AbortKeeps ==
  ASSUME IInv, NEW w \in Workers, pc[w] # "idle", Abort(w)
  PROVE  IInv'
  <1>1. Idle(w) /\ torn' = torn \cup Claim(job[w])
        /\ UNCHANGED <<testbed, row, requests, failures, promised, booked, freed>>
    BY DEF Abort
  <1>2. Claim(job[w]) \subseteq Nodes
    BY WorkerFacts, ClaimIs
  <1>3. TypeOK'
    BY <1>1, <1>2, IdleIs DEF IInv, TypeOK, testbed
  <1>4. Confined(w)
    BY <1>1 DEF Confined, Untouched, testbed
  <1> QED BY <1>1, <1>3, <1>4, Ends

-----------------------------------------------------------------------------
(* Allocate: the slice and its nodes *)

LEMMA FindSliceKeeps ==
  ASSUME IInv, NEW w \in Workers, FindSlice(w)
  PROVE  IInv'
  <1>1. /\ pc[w] = "slice" /\ UNCHANGED <<testbed, row, job, locals, requests, failures, history>>
        /\ pc' = [pc EXCEPT ![w] = IF expires = None THEN "addslice"
                                   ELSE IF expires = job[w].until THEN "read" ELSE "expire"]
    BY DEF FindSlice, At, Goto
  <1>2. job[w] # None /\ job[w].until \in Times \cup {None} /\ Control(w) /\ Within(w)
    BY <1>1, WorkerFacts
  <1>3. TypeOK'
    BY <1>1 DEF IInv, TypeOK, testbed, locals, history
  <1>4. OthersKept(w) /\ Confined(w) /\ job'[w] = job[w] /\ unsure' = unsure
    BY <1>1 DEF IInv, TypeOK, OthersKept, Confined, Untouched, testbed, locals, history
  <1>5. SliversExpire' /\ expires' = expires /\ (pc'[w] \in {"read", "add"} => expires' \in Times)
    BY <1>1, <1>2 DEF IInv, TypeOK, Expires, SliversExpire, Control, testbed
  <1>6. Control(w)' /\ Within(w)'
    BY <1>1, <1>2 DEF IInv, TypeOK, Control, Within, locals
  <1>7. ASSUME NEW n \in Nodes, Progress(w, n) PROVE Progress(w, n)'
    BY <1>1, <1>2, <1>7 DEF IInv, TypeOK, Control, Progress, Allocated, testbed, locals, history
  <1> QED BY <1>1, <1>2, <1>3, <1>4, <1>5, <1>6, <1>7, GoesOn

LEMMA AddSliceKeeps ==
  ASSUME IInv, NEW w \in Workers, AddSlice(w)
  PROVE  IInv'
  <1>0. pc[w] = "addslice"
    BY DEF AddSlice, At
  <1>1. CASE expires # None
    BY <1>0, <1>1, AbortKeeps DEF AddSlice
  <1>2. CASE expires = None
    <2>1. /\ expires' = Default /\ pc' = [pc EXCEPT ![w] = "expire"]
          /\ UNCHANGED <<on, leases, row, job, locals, requests, failures, history>>
      BY <1>2 DEF AddSlice, Goto
    <2>2. job[w] # None /\ Control(w) /\ Within(w)
      BY <1>0, WorkerFacts
    <2>3. TypeOK'
      BY <2>1 DEF IInv, TypeOK, locals, history
    <2>4. OthersKept(w) /\ Confined(w) /\ job'[w] = job[w] /\ unsure' = unsure
      BY <2>1 DEF IInv, TypeOK, OthersKept, Confined, Untouched, locals, history
    <2>5. expires \notin Times /\ on' = {} /\ SliversExpire' /\ pc'[w] = "expire"
      BY <1>2, <2>1, TimesAssumption DEF IInv, TypeOK, Expires, SliversExpire
    <2>6. Control(w)' /\ Within(w)'
      BY <1>0, <2>1, <2>2 DEF IInv, TypeOK, Control, Within, locals
    <2>7. ASSUME NEW n \in Nodes, Progress(w, n) PROVE Progress(w, n)'
      BY <1>0, <2>1, <2>2, <2>7 DEF IInv, TypeOK, Control, Progress, Allocated, locals, history
    <2> QED BY <1>0, <2>2, <2>3, <2>4, <2>5, <2>6, <2>7, GoesOn
  <1> QED BY <1>1, <1>2

LEMMA SetExpiresKeeps ==
  ASSUME IInv, NEW w \in Workers, SetExpires(w)
  PROVE  IInv'
  <1>1. /\ pc[w] = "expire" /\ expires' = job[w].until
        /\ pc' = [pc EXCEPT ![w] = IF job[w].op = "Renew" THEN "answer" ELSE "read"]
        /\ UNCHANGED <<on, leases, row, job, locals, requests, failures, history>>
    BY DEF SetExpires, At, Goto
  <1>2. job[w] # None /\ job[w] \in Job /\ job[w].until \in Times \cup {None} /\ Control(w) /\ Within(w)
    BY <1>1, WorkerFacts
  <1>3. expires' \in Times
    BY <1>1, <1>2 DEF Control
  <1>4. TypeOK'
    BY <1>1, <1>3 DEF IInv, TypeOK, locals, history
  <1>5. OthersKept(w) /\ Confined(w) /\ job'[w] = job[w] /\ unsure' = unsure
    BY <1>1 DEF IInv, TypeOK, OthersKept, Confined, Untouched, locals, history
  <1>6. SliversExpire'
    BY <1>3 DEF SliversExpire
  <1>7. Control(w)' /\ Within(w)'
    BY <1>1, <1>2 DEF IInv, TypeOK, Control, Within, locals
  <1>8. ASSUME NEW n \in Nodes, n \in Claim(job[w]), Progress(w, n) PROVE Progress(w, n)'
    <2>1. job[w].op = "Allocate"
      BY <1>1, <1>2, <1>8, ClaimIs DEF Control
    <2> QED BY <1>1, <1>8, <2>1 DEF IInv, TypeOK, Progress, Allocated, locals, history
  <1> QED BY <1>1, <1>2, <1>3, <1>4, <1>5, <1>6, <1>7, <1>8, GoesOn

LEMMA ReadSliceKeeps ==
  ASSUME IInv, NEW w \in Workers, ReadSlice(w)
  PROVE  IInv'
  <1>1. /\ pc[w] = "read" /\ have' = [have EXCEPT ![w] = on] /\ pc' = [pc EXCEPT ![w] = "add"]
        /\ UNCHANGED <<testbed, row, job, cur, seen, free, book, requests, failures, history>>
    BY DEF ReadSlice, At, Goto
  <1>2. job[w] # None /\ Control(w) /\ Within(w)
    BY <1>1, WorkerFacts
  <1>3. TypeOK'
    BY <1>1 DEF IInv, TypeOK, testbed, history
  <1>4. OthersKept(w) /\ Confined(w) /\ job'[w] = job[w] /\ unsure' = unsure
    BY <1>1 DEF IInv, TypeOK, OthersKept, Confined, Untouched, testbed, history
  <1>5. SliversExpire' /\ expires' = expires /\ expires' \in Times
    BY <1>1 DEF IInv, Expires, SliversExpire, testbed
  <1>6. Control(w)' /\ Within(w)'
    BY <1>1, <1>2 DEF IInv, TypeOK, Control, Within
  <1>7. ASSUME NEW n \in Nodes, Progress(w, n) PROVE Progress(w, n)'
    BY <1>1, <1>2, <1>7 DEF IInv, TypeOK, Control, Progress, Allocated, testbed, history
  <1> QED BY <1>1, <1>2, <1>3, <1>4, <1>5, <1>6, <1>7, GoesOn

LEMMA AddNodesKeeps ==
  ASSUME IInv, NEW w \in Workers, AddNodes(w)
  PROVE  IInv'
  <1>1. /\ pc[w] = "add" /\ on' = on \cup (job[w].named \ have[w]) /\ pc' = [pc EXCEPT ![w] = "drop"]
        /\ UNCHANGED <<expires, leases, row, job, locals, requests, failures, history>>
    BY DEF AddNodes, At, Goto
  <1>2. job[w] # None /\ job[w] \in Job /\ job[w].named \subseteq Nodes /\ Control(w) /\ Within(w)
    BY <1>1, WorkerFacts
  <1>3. TypeOK'
    BY <1>1, <1>2 DEF IInv, TypeOK, locals, history
  <1>4. OthersKept(w) /\ Confined(w) /\ job'[w] = job[w] /\ unsure' = unsure
    BY <1>1, <1>2, ClaimIs DEF IInv, TypeOK, Control, OthersKept, Confined, locals, history
  <1>5. SliversExpire' /\ expires' = expires /\ expires \in Times
    BY <1>1 DEF IInv, Expires, SliversExpire
  <1>6. Control(w)' /\ Within(w)'
    BY <1>1, <1>2 DEF IInv, TypeOK, Control, Within, locals
  <1>7. ASSUME NEW n \in Nodes, Progress(w, n) PROVE Progress(w, n)'
    BY <1>1, <1>2, <1>7 DEF IInv, TypeOK, Control, Progress, Allocated, locals, history
  <1> QED BY <1>1, <1>2, <1>3, <1>4, <1>5, <1>6, <1>7, GoesOn

LEMMA DropNodesKeeps ==
  ASSUME IInv, NEW w \in Workers, DropNodes(w)
  PROVE  IInv'
  <1>1. /\ pc[w] = "drop" /\ on' = on \ (have[w] \ job[w].named) /\ pc' = [pc EXCEPT ![w] = "result"]
        /\ UNCHANGED <<expires, leases, row, job, locals, requests, failures, history>>
    BY DEF DropNodes, At, Goto
  <1>2. job[w] # None /\ job[w] \in Job /\ Control(w) /\ Within(w)
    BY <1>1, WorkerFacts
  <1>3. TypeOK'
    BY <1>1 DEF IInv, TypeOK, locals, history
  <1>4. OthersKept(w) /\ Confined(w) /\ job'[w] = job[w] /\ unsure' = unsure
    BY <1>1, <1>2, ClaimIs DEF IInv, TypeOK, Control, OthersKept, Confined, locals, history
  <1>5. SliversExpire' /\ expires' = expires /\ pc'[w] = "result"
    BY <1>1 DEF IInv, TypeOK, Expires, SliversExpire
  <1>6. Control(w)' /\ Within(w)'
    BY <1>1, <1>2 DEF IInv, TypeOK, Control, Within, locals
  <1>7. ASSUME NEW n \in Nodes, Progress(w, n) PROVE Progress(w, n)'
    BY <1>1, <1>2, <1>7 DEF IInv, TypeOK, Control, Progress, Allocated, locals, history
  <1> QED BY <1>1, <1>2, <1>3, <1>4, <1>5, <1>6, <1>7, GoesOn

LEMMA ReadNodesKeeps ==
  ASSUME IInv, NEW w \in Workers, ReadNodes(w)
  PROVE  IInv'
  <1>1. /\ pc[w] = "result" /\ have' = [have EXCEPT ![w] = on] /\ pc' = [pc EXCEPT ![w] = "sync"]
        /\ UNCHANGED <<testbed, row, job, cur, seen, free, book, requests, failures, history>>
    BY DEF ReadNodes, At, Goto
  <1>2. job[w] # None /\ Control(w) /\ Within(w)
    BY <1>1, WorkerFacts
  <1>3. TypeOK'
    BY <1>1 DEF IInv, TypeOK, testbed, history
  <1>4. OthersKept(w) /\ Confined(w) /\ job'[w] = job[w] /\ unsure' = unsure
    BY <1>1 DEF IInv, TypeOK, OthersKept, Confined, Untouched, testbed, history
  <1>5. SliversExpire' /\ expires' = expires /\ pc'[w] = "sync"
    BY <1>1 DEF IInv, TypeOK, Expires, SliversExpire, testbed
  <1>6. Control(w)' /\ Within(w)'
    BY <1>1, <1>2 DEF IInv, TypeOK, Control, Within
  <1>7. ASSUME NEW n \in Nodes, Progress(w, n) PROVE Progress(w, n)'
    BY <1>1, <1>2, <1>7 DEF IInv, TypeOK, Control, Progress, Allocated, testbed, history
  <1> QED BY <1>1, <1>2, <1>3, <1>4, <1>5, <1>6, <1>7, GoesOn

LEMMA FindRowKeeps ==
  ASSUME IInv, NEW w \in Workers, FindRow(w)
  PROVE  IInv'
  <1>0. pc[w] = "sync"
    BY DEF FindRow, At
  <1>1. job[w] # None /\ job[w] \in Job /\ job[w].op = "Allocate" /\ Control(w) /\ Within(w)
    BY <1>0, WorkerFacts DEF Control
  <1>2. CASE /\ have[w] = {} /\ pc' = [pc EXCEPT ![w] = "leases"]
             /\ UNCHANGED <<testbed, row, job, locals, requests, failures, history>>
    <2>1. TypeOK'
      BY <1>2 DEF IInv, TypeOK, testbed, locals, history
    <2>2. OthersKept(w) /\ Confined(w) /\ job'[w] = job[w] /\ unsure' = unsure
      BY <1>2 DEF IInv, TypeOK, OthersKept, Confined, Untouched, testbed, locals, history
    <2>3. SliversExpire' /\ expires' = expires /\ pc'[w] = "leases"
      BY <1>2 DEF IInv, TypeOK, Expires, SliversExpire, testbed
    <2>4. Control(w)' /\ Within(w)'
      BY <1>0, <1>1, <1>2 DEF IInv, TypeOK, Control, Within, locals
    <2>5. cur[w] = None /\ None \notin Nodes
      BY <1>0, <1>1, NodesAssumption DEF Control
    <2>6. ASSUME NEW n \in Nodes, Progress(w, n) PROVE Progress(w, n)'
      BY <1>0, <1>1, <1>2, <2>5, <2>6 DEF IInv, TypeOK, Progress, Allocated, testbed, locals, history
    <2> QED BY <1>0, <1>1, <2>1, <2>2, <2>3, <2>4, <2>6, GoesOn
  <1>3. ASSUME NEW m \in have[w], m \in job[w].named,
               cur' = [cur EXCEPT ![w] = m], have' = [have EXCEPT ![w] = @ \ {m}],
               seen' = [seen EXCEPT ![w] = [Unread EXCEPT ![m] = row[m]]],
               pc' = [pc EXCEPT ![w] = "write"],
               UNCHANGED <<testbed, row, job, free, book, requests, failures, history>>
        PROVE  IInv'
    <2>1. m \in Nodes /\ m # None
      BY NodesAssumption DEF IInv, TypeOK
    <2>2. TypeOK'
      BY <1>3, <2>1 DEF IInv, TypeOK, Unread, testbed, history
    <2>3. OthersKept(w) /\ Confined(w) /\ job'[w] = job[w] /\ unsure' = unsure
      BY <1>3 DEF IInv, TypeOK, OthersKept, Confined, Untouched, testbed, history
    <2>4. SliversExpire' /\ expires' = expires /\ pc'[w] = "write"
      BY <1>3 DEF IInv, TypeOK, Expires, SliversExpire, testbed
    <2>5. cur[w] = None /\ cur'[w] = m /\ seen'[w][m] = row[m] /\ have'[w] = have[w] \ {m}
      BY <1>0, <1>1, <1>3, <2>1 DEF Control, IInv, TypeOK, Unread
    <2>6. Control(w)' /\ Within(w)'
      BY <1>1, <1>3, <2>1, <2>4, <2>5 DEF Control, Within
    <2>7. ASSUME NEW n \in Nodes, Progress(w, n) PROVE Progress(w, n)'
      BY <1>0, <1>1, <1>3, <2>4, <2>5, <2>7, NodesAssumption
         DEF IInv, TypeOK, Progress, Allocated, testbed, history
    <2> QED BY <1>0, <1>1, <2>2, <2>3, <2>4, <2>6, <2>7, GoesOn
  <1>4. \/ /\ have[w] = {} /\ pc' = [pc EXCEPT ![w] = "leases"]
           /\ UNCHANGED <<testbed, row, job, locals, requests, failures, history>>
        \/ Abort(w)
        \/ \E m \in have[w] :
             /\ m \in job[w].named
             /\ cur' = [cur EXCEPT ![w] = m] /\ have' = [have EXCEPT ![w] = @ \ {m}]
             /\ seen' = [seen EXCEPT ![w] = [Unread EXCEPT ![m] = row[m]]]
             /\ pc' = [pc EXCEPT ![w] = "write"]
             /\ UNCHANGED <<testbed, row, job, free, book, requests, failures, history>>
    BY DEF FindRow, Goto
  <1> QED BY <1>0, <1>2, <1>3, <1>4, AbortKeeps

LEMMA WriteRowKeeps ==
  ASSUME IInv, NEW w \in Workers, WriteRow(w)
  PROVE  IInv'
  <1>0. pc[w] = "write"
    BY DEF WriteRow, At
  <1>1. job[w] # None /\ job[w] \in Job /\ job[w].op = "Allocate" /\ Control(w) /\ Within(w)
        /\ cur[w] \in Nodes
    BY <1>0, WorkerFacts DEF Control, IInv, TypeOK
  <1>2. CASE /\ row' = Written(w, {cur[w]}, "allocated") /\ pc' = [pc EXCEPT ![w] = "sync"]
             /\ cur' = [cur EXCEPT ![w] = None] /\ seen' = [seen EXCEPT ![w] = Unread]
             /\ UNCHANGED <<testbed, job, have, free, book, requests, failures, history>>
    <2>1. /\ row' \in [Nodes -> State \cup {None}]
          /\ \A n \in Nodes : row'[n] = IF n = cur[w] /\ seen[w][n] # "allocated"
                                         THEN "allocated" ELSE row[n]
      BY <1>2 DEF IInv, TypeOK, Written, State
    <2>2. TypeOK'
      BY <1>2, <2>1 DEF IInv, TypeOK, Unread, testbed, history
    <2>3. OthersKept(w) /\ Confined(w) /\ job'[w] = job[w] /\ unsure' = unsure
      BY <1>1, <1>2, ClaimIs DEF IInv, TypeOK, OthersKept, Confined, testbed, history
    <2>4. SliversExpire' /\ expires' = expires /\ pc'[w] = "sync"
      BY <1>2 DEF IInv, TypeOK, Expires, SliversExpire, testbed
    <2>5. Control(w)' /\ Within(w)'
      BY <1>1, <1>2 DEF IInv, TypeOK, Control, Within
    <2>6. ASSUME NEW n \in Nodes, Progress(w, n) PROVE Progress(w, n)'
      BY <1>0, <1>1, <1>2, <2>1, <2>6
         DEF IInv, TypeOK, Progress, Allocated, testbed, history
    <2> QED BY <1>0, <1>1, <2>2, <2>3, <2>4, <2>5, <2>6, GoesOn
  <1> QED BY <1>0, <1>2, AbortKeeps DEF WriteRow, Goto

-----------------------------------------------------------------------------
(* Leases *)

LEMMA FindLeasesKeeps ==
  ASSUME IInv, NEW w \in Workers, FindLeases(w)
  PROVE  IInv'
  <1>0. pc[w] = "leases"
    BY DEF FindLeases, At
  <1>1. job[w] # None /\ job[w].op \in {"Allocate", "Delete"} /\ job[w].leased \subseteq Reservable
        /\ job[w] \in Job /\ Control(w) /\ Within(w)
    BY <1>0, WorkerFacts DEF Control
  <1>2. CASE job[w].op = "Delete"
    <2>1. /\ free' = [free EXCEPT ![w] = leases \cap have[w]] /\ book' = book
          /\ pc' = [pc EXCEPT ![w] = "undo"]
          /\ UNCHANGED <<testbed, row, job, have, cur, seen, requests, failures, history>>
      BY <1>2 DEF FindLeases, Goto
    <2>2. TypeOK'
      BY <2>1 DEF IInv, TypeOK, testbed, history
    <2>3. OthersKept(w) /\ Confined(w) /\ job'[w] = job[w] /\ unsure' = unsure
      BY <2>1 DEF IInv, TypeOK, OthersKept, Confined, Untouched, testbed, history
    <2>4. SliversExpire' /\ expires' = expires /\ pc'[w] = "undo"
      BY <2>1 DEF IInv, TypeOK, Expires, SliversExpire, testbed
    <2>5. Control(w)' /\ Within(w)'
      BY <1>0, <1>1, <1>2, <2>1 DEF IInv, TypeOK, Control, Within
    <2>6. ASSUME NEW n \in Nodes, Progress(w, n) PROVE Progress(w, n)'
      BY <1>0, <1>2, <2>1, <2>6
         DEF IInv, TypeOK, Progress, Deleted, Agreed, Reported, Leased, testbed, history
    <2> QED BY <1>0, <1>1, <2>2, <2>3, <2>4, <2>5, <2>6, GoesOn
  <1>3. CASE job[w].op = "Allocate"
    <2>1. /\ free' = [free EXCEPT ![w] = leases \ job[w].leased]
          /\ book' = [book EXCEPT ![w] = job[w].leased \ leases]
          /\ pc' = [pc EXCEPT ![w] = "unlease"]
          /\ UNCHANGED <<testbed, row, job, have, cur, seen, requests, failures, history>>
      BY <1>3 DEF FindLeases, Goto
    <2>2. TypeOK'
      BY <1>1, <2>1 DEF IInv, TypeOK, testbed, history
    <2>3. OthersKept(w) /\ Confined(w) /\ job'[w] = job[w] /\ unsure' = unsure
      BY <2>1 DEF IInv, TypeOK, OthersKept, Confined, Untouched, testbed, history
    <2>4. SliversExpire' /\ expires' = expires /\ pc'[w] = "unlease"
      BY <2>1 DEF IInv, TypeOK, Expires, SliversExpire, testbed
    <2>5. Control(w)' /\ Within(w)'
      BY <1>0, <1>1, <1>3, <2>1 DEF IInv, TypeOK, Control, Within
    <2>6. ASSUME NEW n \in Nodes, Progress(w, n) PROVE Progress(w, n)'
      BY <1>0, <1>3, <2>1, <2>6 DEF IInv, TypeOK, Progress, Allocated, testbed, history
    <2> QED BY <1>0, <1>1, <2>2, <2>3, <2>4, <2>5, <2>6, GoesOn
  <1> QED BY <1>1, <1>2, <1>3

LEMMA DeleteLeasesKeeps ==
  ASSUME IInv, NEW w \in Workers, DeleteLeases(w)
  PROVE  IInv'
  <1>1. /\ pc[w] = "unlease" /\ leases' = leases \ free[w]
        /\ pc' = [pc EXCEPT ![w] = IF job[w].op = "Delete" THEN "query" ELSE "lease"]
        /\ UNCHANGED <<expires, on, row, job, locals, requests, failures, history>>
    BY DEF DeleteLeases, At, Goto
  <1>2. job[w] # None /\ job[w] \in Job /\ job[w].op \in {"Allocate", "Delete"}
        /\ Control(w) /\ Within(w)
    BY <1>1, WorkerFacts DEF Control
  <1>3. TypeOK'
    BY <1>1 DEF IInv, TypeOK, locals, history
  <1>4. job[w].op = "Delete" => free[w] \subseteq Claim(job[w])
    BY <1>1, <1>2, ClaimIs DEF Within
  <1>5. Confined(w)
    BY <1>1, <1>2, <1>4, ClaimIs DEF Confined, Untouched, history
  <1>6. OthersKept(w) /\ job'[w] = job[w] /\ unsure' = unsure
    BY <1>1 DEF IInv, TypeOK, OthersKept, locals, history
  <1>7. SliversExpire' /\ expires' = expires /\ pc'[w] \in {"query", "lease"}
    BY <1>1 DEF IInv, TypeOK, Expires, SliversExpire
  <1>8. Control(w)' /\ Within(w)'
    BY <1>1, <1>2 DEF IInv, TypeOK, Control, Within, locals
  <1>9. ASSUME NEW n \in Nodes, Progress(w, n) PROVE Progress(w, n)'
    <2>1. CASE job[w].op = "Delete"
      <3>1. n \notin have[w] => (n \in leases' <=> n \in leases)
        BY <1>1, <1>2, <2>1 DEF Within
      <3> QED BY <1>1, <1>9, <2>1, <3>1
              DEF IInv, TypeOK, Progress, Deleted, Agreed, Reported, Leased, locals, history
    <2>2. CASE job[w].op = "Allocate"
      BY <1>1, <1>9, <2>2 DEF IInv, TypeOK, Progress, Allocated, locals, history
    <2> QED BY <1>2, <2>1, <2>2
  <1> QED BY <1>1, <1>2, <1>3, <1>5, <1>6, <1>7, <1>8, <1>9, GoesOn

\* After a failure that is forgotten nothing is claimed of the request.
LEMMA ForgetKeeps ==
  ASSUME IInv, NEW w \in Workers, pc[w] \in {"add", "drop", "unlease", "lease"},
         job[w].op = "Allocate", NEW label \in {"result", "answer"}, Forget(w, label),
         requests' \in 0 .. MaxRequests, failures' \in 0 .. MaxFailures
  PROVE  IInv'
  <1>1. /\ pc' = [pc EXCEPT ![w] = label] /\ unsure' = [unsure EXCEPT ![w] = TRUE]
        /\ UNCHANGED <<testbed, row, job, locals, torn, promised, booked, freed>>
    BY DEF Forget, Goto
  <1>2. job[w] # None /\ Control(w) /\ Within(w)
    BY WorkerFacts
  <1>3. TypeOK'
    BY <1>1 DEF IInv, TypeOK, testbed, locals
  <1>4. OthersKept(w) /\ Confined(w) /\ job'[w] = job[w] /\ unsure'[w]
    BY <1>1 DEF IInv, TypeOK, OthersKept, Confined, Untouched, testbed, locals
  <1>5. SliversExpire' /\ expires' = expires /\ pc'[w] = label
    BY <1>1 DEF IInv, TypeOK, Expires, SliversExpire, testbed
  <1>6. Control(w)' /\ Within(w)'
    BY <1>1, <1>2 DEF IInv, TypeOK, Control, Within, locals
  <1> QED BY <1>2, <1>3, <1>4, <1>5, <1>6, GoesOn

LEMMA AddLeaseKeeps ==
  ASSUME IInv, NEW w \in Workers, AddLease(w)
  PROVE  IInv'
  <1>0. pc[w] = "lease"
    BY DEF AddLease, At
  <1>1. job[w] # None /\ job[w] \in Job /\ job[w].op = "Allocate" /\ Control(w) /\ Within(w)
    BY <1>0, WorkerFacts DEF Control
  <1>2. CASE /\ book[w] = {} /\ pc' = [pc EXCEPT ![w] = "answer"]
             /\ UNCHANGED <<testbed, row, job, locals, requests, failures, history>>
    <2>1. TypeOK'
      BY <1>2 DEF IInv, TypeOK, testbed, locals, history
    <2>2. OthersKept(w) /\ Confined(w) /\ job'[w] = job[w] /\ unsure' = unsure
      BY <1>2 DEF IInv, TypeOK, OthersKept, Confined, Untouched, testbed, locals, history
    <2>3. SliversExpire' /\ expires' = expires /\ pc'[w] = "answer"
      BY <1>2 DEF IInv, TypeOK, Expires, SliversExpire, testbed
    <2>4. Control(w)' /\ Within(w)'
      BY <1>0, <1>1, <1>2 DEF IInv, TypeOK, Control, Within, locals
    <2>5. ASSUME NEW n \in Nodes, Progress(w, n) PROVE Progress(w, n)'
      BY <1>0, <1>1, <1>2, <2>5 DEF IInv, TypeOK, Progress, Allocated, testbed, locals, history
    <2> QED BY <1>0, <1>1, <2>1, <2>2, <2>3, <2>4, <2>5, GoesOn
  <1>3. ASSUME NEW m \in book[w], m \notin leases, leases' = leases \cup {m},
               book' = [book EXCEPT ![w] = @ \ {m}],
               UNCHANGED <<expires, on, row, pc, job, have, cur, seen, free, history>>,
               UNCHANGED <<requests, failures>>
        PROVE  IInv'
    <2>1. TypeOK'
      BY <1>3 DEF IInv, TypeOK, history
    <2>2. OthersKept(w) /\ Confined(w) /\ job'[w] = job[w] /\ unsure' = unsure
      BY <1>1, <1>3, ClaimIs DEF IInv, TypeOK, OthersKept, Confined, history
    <2>3. SliversExpire' /\ expires' = expires /\ pc'[w] = "lease"
      BY <1>0, <1>3 DEF IInv, TypeOK, Expires, SliversExpire
    <2>4. Control(w)' /\ Within(w)'
      BY <1>0, <1>1, <1>3 DEF IInv, TypeOK, Control, Within
    <2>5. ASSUME NEW n \in Nodes, Progress(w, n) PROVE Progress(w, n)'
      BY <1>0, <1>1, <1>3, <2>5 DEF IInv, TypeOK, Progress, Allocated, history
    <2> QED BY <1>0, <1>1, <2>1, <2>2, <2>3, <2>4, <2>5, GoesOn
  <1>4. requests \in 0 .. MaxRequests /\ failures \in 0 .. MaxFailures /\ UNCHANGED <<requests, failures>>
    BY DEF AddLease, IInv, TypeOK
  <1>5. Forget(w, "answer") => IInv'
    BY <1>0, <1>1, <1>4, ForgetKeeps
  <1>6. \/ /\ book[w] = {} /\ pc' = [pc EXCEPT ![w] = "answer"]
           /\ UNCHANGED <<testbed, row, job, locals, requests, failures, history>>
        \/ Forget(w, "answer")
        \/ \E m \in book[w] :
             /\ m \notin leases /\ leases' = leases \cup {m} /\ book' = [book EXCEPT ![w] = @ \ {m}]
             /\ UNCHANGED <<expires, on, row, pc, job, have, cur, seen, free, history>>
             /\ UNCHANGED <<requests, failures>>
    BY DEF AddLease, Goto
  <1> QED BY <1>2, <1>3, <1>5, <1>6

-----------------------------------------------------------------------------
(* Provision, Renew, Delete *)

LEMMA GetSliversKeeps ==
  ASSUME IInv, NEW w \in Workers, GetSlivers(w)
  PROVE  IInv'
  <1>0. pc[w] = "slivers"
    BY DEF GetSlivers, At
  <1>1. job[w] # None /\ job[w] \in Job /\ job[w].op \in {"Provision", "Renew", "Delete"}
        /\ job[w].named \subseteq Nodes /\ Control(w) /\ Within(w)
    BY <1>0, WorkerFacts DEF Control
  <1> DEFINE found == on \cap job[w].named
  <1>2. CASE Abort(w)
    BY <1>0, <1>2, AbortKeeps
  <1>3. CASE ~Abort(w)
    <2>1. PICK label \in {"answer", "query", "expire", "leases"} :
            /\ have' = [have EXCEPT ![w] = found] /\ pc' = [pc EXCEPT ![w] = label]
            /\ label \in {"query", "leases"} => label = IF job[w].op = "Provision" THEN "query" ELSE "leases"
            /\ label = "answer" => found = {}
            /\ label = "expire" => job[w].op = "Renew"
            /\ job[w].op = "Renew" => label = "expire"
            /\ UNCHANGED <<testbed, row, job, cur, seen, free, book, requests, failures, history>>
      <3>1. CASE found = {}
        BY <1>1, <1>3, <3>1 DEF GetSlivers, Goto
      <3>2. CASE found # {} /\ job[w].op = "Provision"
        BY <1>1, <1>3, <3>2 DEF GetSlivers, Goto
      <3>3. CASE found # {} /\ job[w].op = "Renew"
        BY <1>1, <1>3, <3>3 DEF GetSlivers, Goto
      <3>4. CASE found # {} /\ job[w].op = "Delete"
        BY <1>1, <1>3, <3>4 DEF GetSlivers, Goto
      <3> QED BY <1>1, <3>1, <3>2, <3>3, <3>4
    <2>2. TypeOK'
      BY <2>1 DEF IInv, TypeOK, testbed, history
    <2>3. OthersKept(w) /\ Confined(w) /\ job'[w] = job[w] /\ unsure' = unsure
      BY <2>1 DEF IInv, TypeOK, OthersKept, Confined, Untouched, testbed, history
    <2>4. SliversExpire' /\ expires' = expires /\ pc'[w] = label /\ have'[w] = found
      BY <2>1 DEF IInv, TypeOK, Expires, SliversExpire, testbed
    <2>5. Control(w)' /\ Within(w)'
      BY <1>0, <1>1, <2>1, <2>4 DEF Control, Within
    <2>6. ASSUME NEW n \in Nodes, n \in Claim(job[w]), Progress(w, n) PROVE Progress(w, n)'
      <3>1. n \in job[w].named /\ job[w].op # "Renew" /\ (n \in found <=> n \in on)
        BY <1>1, <2>6, ClaimIs
      <3>2. /\ on' = on /\ row' = row /\ leases' = leases /\ torn' = torn /\ booked' = booked
            /\ promised' = promised /\ job'[w] = job[w]
        BY <2>1 DEF testbed, history
      <3>3. (Leased(n)' <=> Leased(n)) /\ (Agreed(n)' <=> Agreed(n))
        BY <3>2 DEF Leased, Agreed, Reported
      <3>4. job[w].op = "Provision" => Provisioned(w, n)'
        BY <1>0, <2>1, <2>4, <2>6, <3>1, <3>2, <3>3 DEF Progress, Provisioned
      <3>5. job[w].op = "Delete" => Deleted(w, n)'
        BY <1>0, <2>1, <2>4, <2>6, <3>1, <3>2, <3>3 DEF Progress, Deleted
      <3> QED BY <1>1, <3>2, <3>4, <3>5 DEF Progress
    <2> QED BY <1>0, <1>1, <2>1, <2>2, <2>3, <2>4, <2>5, <2>6, GoesOn
  <1> QED BY <1>2, <1>3

LEMMA QueryRowsKeeps ==
  ASSUME IInv, NEW w \in Workers, QueryRows(w)
  PROVE  IInv'
  <1>1. /\ pc[w] = "query"
        /\ seen' = [seen EXCEPT ![w] = [n \in Nodes |-> IF n \in have[w] THEN row[n] ELSE None]]
        /\ pc' = [pc EXCEPT ![w] = IF job[w].op = "Delete" THEN "forget" ELSE "commit"]
        /\ UNCHANGED <<testbed, row, job, have, cur, free, book, requests, failures, history>>
    BY DEF QueryRows, At, Goto
  <1>2. job[w] # None /\ job[w] \in Job /\ job[w].op \in {"Provision", "Delete"}
        /\ Control(w) /\ Within(w)
    BY <1>1, WorkerFacts DEF Control
  <1>3. /\ TypeOK' /\ pc'[w] = IF job[w].op = "Delete" THEN "forget" ELSE "commit"
        /\ \A n \in Nodes : seen'[w][n] = IF n \in have[w] THEN row[n] ELSE None
    BY <1>1 DEF IInv, TypeOK, testbed, history
  <1>4. OthersKept(w) /\ Confined(w) /\ job'[w] = job[w] /\ unsure' = unsure
    BY <1>1 DEF IInv, TypeOK, OthersKept, Confined, Untouched, testbed, history
  <1>5. SliversExpire' /\ expires' = expires
    BY <1>1 DEF IInv, Expires, SliversExpire, testbed
  <1>6. Control(w)' /\ Within(w)'
    BY <1>1, <1>2, <1>3 DEF Control, Within
  <1>7. ASSUME NEW n \in Nodes, Progress(w, n) PROVE Progress(w, n)'
    <2>1. CASE job[w].op = "Delete"
      BY <1>1, <1>3, <1>7, <2>1 DEF Progress, Deleted, Agreed, Reported, Leased, testbed, history
    <2>2. CASE job[w].op = "Provision"
      BY <1>1, <1>3, <1>7, <2>2 DEF Progress, Provisioned, Agreed, Reported, Leased, testbed, history
    <2> QED BY <1>2, <2>1, <2>2
  <1> QED BY <1>1, <1>2, <1>3, <1>4, <1>5, <1>6, <1>7, GoesOn

LEMMA CommitRowsKeeps ==
  ASSUME IInv, NEW w \in Workers, CommitRows(w)
  PROVE  IInv'
  <1>0. pc[w] = "commit"
    BY DEF CommitRows, At
  <1>1. job[w] # None /\ job[w] \in Job /\ job[w].op = "Provision" /\ Control(w) /\ Within(w)
        /\ have[w] \subseteq Claim(job[w])
    BY <1>0, WorkerFacts, ClaimIs DEF Control, Within
  <1>2. CASE /\ row' = Written(w, have[w], "provisioned") /\ pc' = [pc EXCEPT ![w] = "answer"]
             /\ UNCHANGED <<testbed, job, locals, requests, failures, history>>
    <2>1. /\ row' \in [Nodes -> State \cup {None}]
          /\ \A n \in Nodes : row'[n] = IF n \in have[w] /\ seen[w][n] # "provisioned"
                                         THEN "provisioned" ELSE row[n]
      BY <1>2 DEF IInv, TypeOK, Written, State
    <2>2. TypeOK'
      BY <1>2, <2>1 DEF IInv, TypeOK, testbed, locals, history
    <2>3. OthersKept(w) /\ Confined(w) /\ job'[w] = job[w] /\ unsure' = unsure
      BY <1>1, <1>2, <2>1 DEF IInv, TypeOK, OthersKept, Confined, Untouched, testbed, locals, history
    <2>4. SliversExpire' /\ expires' = expires /\ pc'[w] = "answer"
      BY <1>2 DEF IInv, TypeOK, Expires, SliversExpire, testbed
    <2>5. Control(w)' /\ Within(w)'
      BY <1>0, <1>1, <1>2, <2>4 DEF Control, Within, locals
    <2>6. ASSUME NEW n \in Nodes, Progress(w, n) PROVE Progress(w, n)'
      BY <1>0, <1>1, <1>2, <2>1, <2>4, <2>6
         DEF Progress, Provisioned, Agreed, Reported, Leased, testbed, locals, history
    <2> QED BY <1>0, <1>1, <2>2, <2>3, <2>4, <2>5, <2>6, GoesOn
  <1> QED BY <1>0, <1>2, AbortKeeps DEF CommitRows, Goto

LEMMA TakeOffKeeps ==
  ASSUME IInv, NEW w \in Workers, TakeOff(w)
  PROVE  IInv'
  <1>1. /\ pc[w] = "undo" /\ on' = on \ have[w]
        /\ pc' = [pc EXCEPT ![w] = IF free[w] = {} THEN "query" ELSE "unlease"]
        /\ UNCHANGED <<expires, leases, row, job, locals, requests, failures, history>>
    BY DEF TakeOff, At, Goto
  <1>2. job[w] # None /\ job[w] \in Job /\ job[w].op = "Delete" /\ Control(w) /\ Within(w)
        /\ have[w] \subseteq Claim(job[w])
    BY <1>1, WorkerFacts, ClaimIs DEF Control, Within
  <1>3. TypeOK' /\ pc'[w] = IF free[w] = {} THEN "query" ELSE "unlease"
    BY <1>1 DEF IInv, TypeOK, locals, history
  <1>4. OthersKept(w) /\ Confined(w) /\ job'[w] = job[w] /\ unsure' = unsure
    BY <1>1, <1>2 DEF IInv, TypeOK, OthersKept, Confined, Untouched, locals, history
  <1>5. SliversExpire' /\ expires' = expires
    BY <1>1 DEF IInv, Expires, SliversExpire
  <1>6. Control(w)' /\ Within(w)'
    BY <1>1, <1>2, <1>3 DEF Control, Within, locals
  <1>7. ASSUME NEW n \in Nodes, Progress(w, n) PROVE Progress(w, n)'
    BY <1>1, <1>2, <1>3, <1>7 DEF Progress, Deleted, Agreed, Reported, Leased, locals, history
  <1> QED BY <1>1, <1>2, <1>3, <1>4, <1>5, <1>6, <1>7, GoesOn

LEMMA DropRowsKeeps ==
  ASSUME IInv, NEW w \in Workers, DropRows(w)
  PROVE  IInv'
  <1>1. /\ pc[w] = "forget" /\ row' = [n \in Nodes |-> IF seen[w][n] # None THEN None ELSE row[n]]
        /\ pc' = [pc EXCEPT ![w] = "answer"]
        /\ UNCHANGED <<testbed, job, locals, requests, failures, history>>
    BY DEF DropRows, At, Goto
  <1>2. job[w] # None /\ job[w] \in Job /\ job[w].op = "Delete" /\ Control(w) /\ Within(w)
        /\ have[w] \subseteq Claim(job[w])
    BY <1>1, WorkerFacts, ClaimIs DEF Control, Within
  <1>3. TypeOK' /\ pc'[w] = "answer"
    BY <1>1 DEF IInv, TypeOK, testbed, locals, history
  <1>4. \A n \in Nodes : /\ row'[n] = IF seen[w][n] # None THEN None ELSE row[n]
                         /\ n \notin have[w] => row'[n] = row[n]
    BY <1>1, <1>2 DEF Within
  <1>5. OthersKept(w) /\ Confined(w) /\ job'[w] = job[w] /\ unsure' = unsure
    BY <1>1, <1>2, <1>4 DEF IInv, TypeOK, OthersKept, Confined, Untouched, testbed, locals, history
  <1>6. SliversExpire' /\ expires' = expires
    BY <1>1 DEF IInv, Expires, SliversExpire, testbed
  <1>7. Control(w)' /\ Within(w)'
    BY <1>1, <1>2, <1>3 DEF Control, Within, locals
  <1>8. ASSUME NEW n \in Nodes, Progress(w, n) PROVE Progress(w, n)'
    BY <1>1, <1>2, <1>3, <1>4, <1>8
       DEF Progress, Deleted, Agreed, Reported, Leased, testbed, locals, history
  <1> QED BY <1>1, <1>2, <1>3, <1>5, <1>6, <1>7, <1>8, GoesOn

-----------------------------------------------------------------------------
(* The answer *)

\* What an undisturbed request was to do to one of its slivers is done.
LEMMA AnswerAgrees ==
  ASSUME IInv, NEW w \in Workers, Answer(w), NEW n \in Claim(job[w]), n \notin torn'
  PROVE  Agreed(n)'
  <1>1. pc[w] = "answer" /\ UNCHANGED <<testbed, row>>
    BY DEF Answer, At
  <1>2. job[w] # None /\ job[w] \in Job /\ job[w].op \in {"Allocate", "Provision", "Renew", "Delete"}
        /\ Sound(w) /\ Within(w)
    BY <1>1, WorkerFacts
  <1>3. n \in Nodes /\ job[w].op # "Renew" /\ (job[w].op = "Allocate" \/ n \in job[w].named)
    BY <1>2, ClaimIs
  <1>4. ~unsure[w]
    BY <1>3 DEF Answer
  <1>5. Progress(w, n)
    BY <1>2, <1>3, <1>4 DEF Sound
  <1>6. on' = on /\ leases' = leases /\ row' = row
    BY <1>1 DEF testbed
  <1>7. CASE job[w].op = "Allocate"
    <2>1. promised'[n] = (IF n \in job[w].named THEN "allocated" ELSE None) /\ booked' = job[w].leased
      BY <1>3, <1>7 DEF Answer
    <2> QED BY <1>1, <1>3, <1>5, <1>6, <1>7, <2>1, JobAssumption
            DEF Progress, Allocated, Agreed, Reported, Leased, State
  <1>8. CASE job[w].op = "Provision"
    <2>1. /\ promised'[n] = (IF n \in have[w] THEN "provisioned" ELSE promised[n])
          /\ booked' = booked /\ torn' = torn
      BY <1>3, <1>4, <1>8 DEF Answer
    <2> QED BY <1>1, <1>3, <1>5, <1>6, <1>8, <2>1, JobAssumption
            DEF Progress, Provisioned, Agreed, Reported, Leased, State
  <1>9. CASE job[w].op = "Delete"
    <2>1. /\ promised'[n] = (IF n \in have[w] THEN None ELSE promised[n])
          /\ booked' = booked \ have[w] /\ torn' = torn \ have[w]
      BY <1>3, <1>4, <1>9 DEF Answer
    <2> QED BY <1>1, <1>3, <1>5, <1>6, <1>9, <2>1
            DEF Progress, Deleted, Agreed, Reported, Leased
  <1> QED BY <1>2, <1>3, <1>7, <1>8, <1>9

LEMMA AnswerKeeps ==
  ASSUME IInv, NEW w \in Workers, Answer(w)
  PROVE  IInv'
  <1>1. pc[w] = "answer" /\ Idle(w) /\ UNCHANGED <<testbed, row, requests, failures>>
    BY DEF Answer, At
  <1>2. job[w] # None /\ job[w] \in Job /\ job[w].op \in {"Allocate", "Provision", "Renew", "Delete"}
        /\ Within(w) /\ Claim(job[w]) \subseteq Nodes /\ job[w].leased \subseteq Reservable
        /\ job[w].named \subseteq Nodes /\ have[w] \subseteq Nodes
    BY <1>1, WorkerFacts, ClaimIs DEF IInv, TypeOK
  <1>3. CASE job[w].op = "Allocate"
    <2>1. /\ promised' = [n \in Nodes |-> IF n \in job[w].named THEN "allocated" ELSE None]
          /\ booked' = job[w].leased /\ freed' = freed
          /\ torn' = IF unsure[w] THEN torn \cup Claim(job[w]) ELSE torn \ Claim(job[w])
      BY <1>3 DEF Answer
    <2>2. TypeOK'
      BY <1>1, <1>2, <2>1, IdleIs DEF IInv, TypeOK, State, testbed
    <2>3. Confined(w)
      BY <1>2, <1>3, ClaimIs DEF Confined
    <2> QED BY <1>1, <2>2, <2>3, AnswerAgrees, Ends
  <1>4. CASE job[w].op \in {"Provision", "Renew"}
    <2>1. /\ promised' = [n \in Nodes |-> IF job[w].op = "Provision" /\ n \in have[w]
                                           THEN "provisioned" ELSE promised[n]]
          /\ booked' = booked /\ freed' = freed
          /\ torn' = IF unsure[w] THEN torn \cup Claim(job[w]) ELSE torn
      BY <1>4 DEF Answer
    <2>2. TypeOK'
      BY <1>1, <1>2, <2>1, IdleIs DEF IInv, TypeOK, State, testbed
    <2>3. \A n \in Nodes : n \notin Claim(job[w]) => promised'[n] = promised[n]
      BY <1>1, <1>2, <1>4, <2>1, ClaimIs DEF Within
    <2>4. Confined(w)
      BY <1>1, <2>1, <2>3 DEF Confined, Untouched, testbed
    <2> QED BY <1>1, <2>2, <2>4, AnswerAgrees, Ends
  <1>5. CASE job[w].op = "Delete"
    <2>1. /\ promised' = [n \in Nodes |-> IF n \in have[w] THEN None ELSE promised[n]]
          /\ booked' = booked \ have[w] /\ freed' = freed \cup job[w].named
          /\ torn' = IF unsure[w] THEN torn \cup Claim(job[w]) ELSE torn \ have[w]
      BY <1>5 DEF Answer
    <2>2. TypeOK'
      BY <1>1, <1>2, <2>1, IdleIs DEF IInv, TypeOK, State, testbed
    <2>3. have[w] \subseteq Claim(job[w])
      BY <1>1, <1>2, <1>5, ClaimIs DEF Within
    <2>4. Confined(w)
      BY <1>1, <2>1, <2>3 DEF Confined, Untouched, testbed
    <2> QED BY <1>1, <2>2, <2>4, AnswerAgrees, Ends
  <1> QED BY <1>2, <1>3, <1>4, <1>5

-----------------------------------------------------------------------------
(* A new request, failures, restarts *)

LEMMA RequestKeeps ==
  ASSUME IInv, NEW w \in Workers, Request(w)
  PROVE  IInv'
  <1>1. pc[w] = "idle" /\ requests < MaxRequests /\ requests' = requests + 1 /\ job[w] = None
        /\ UNCHANGED <<testbed, row, locals, failures, torn, promised, booked>>
    BY DEF Request, At, IInv, Control
  <1>2. PICK j \in Job :
          /\ (j.op \in {"Allocate", "Renew"}) = (j.until # None)
          /\ job' = [job EXCEPT ![w] = j]
          /\ pc' = [pc EXCEPT ![w] = IF j.op = "Allocate" THEN "slice" ELSE "slivers"]
          /\ unsure' = [v \in Workers |->
                          \/ unsure[v]
                          \/ v = w /\ \E n \in Claim(j) : Busy(n)
                          \/ Claim(job[v]) \cap Claim(j) # {}]
          /\ freed' = IF j.op = "Allocate" THEN {} ELSE freed
    BY DEF Request, Goto
  <1>3. /\ \A n \in Nodes : Untouched(n)
        /\ Claim(job[w]) = {} /\ Confined(w) /\ OthersKept(w)
        /\ j # None /\ Claim(j) \subseteq Nodes /\ job'[w] = j
        /\ pc'[w] = IF j.op = "Allocate" THEN "slice" ELSE "slivers"
        /\ j.op \in {"Allocate", "Provision", "Renew", "Delete"}
    BY <1>1, <1>2, ClaimIs, JobAssumption
       DEF IInv, TypeOK, Untouched, Confined, OthersKept, testbed, locals, Job
  <1>4. TypeOK'
    BY <1>1, <1>2, BoundsAssumption DEF IInv, TypeOK, testbed, locals
  <1>5. \A n \in Nodes : Settled(n)' => Settled(n) /\ Agreed(n)'
    <2> SUFFICES ASSUME NEW n \in Nodes, Settled(n)' PROVE Settled(n) /\ Agreed(n)'
      OBVIOUS
    <2>1. \A v \in Workers : n \notin Claim(job[v])
      BY <1>3 DEF Settled, Busy, OthersKept
    <2>2. n \notin torn
      BY <1>1 DEF Settled
    <2>3. Settled(n) /\ Agreed(n)
      BY <2>1, <2>2 DEF Settled, Busy, IInv, AsAnswered, Agreed, Leased
    <2> QED BY <1>3, <2>3 DEF Untouched, Agreed, Leased, Reported
  <1>6. AsAnswered'
    BY <1>5 DEF AsAnswered, Agreed, Leased
  <1>7. Overlaps'
    <2> SUFFICES ASSUME NEW u \in Workers, NEW v \in Workers \ {u}, NEW n \in Nodes,
                        n \in Claim(job[u])', n \in Claim(job[v])'
                 PROVE  unsure'[u] /\ unsure'[v]
      BY DEF Overlaps
    <2>1. \A x \in Workers \ {w} : Claim(job[x])' = Claim(job[x])
      BY <1>3 DEF OthersKept
    <2>2. Claim(job[w])' = Claim(j)
      BY <1>3
    <2>3. ASSUME NEW x \in Workers \ {w}, n \in Claim(job[x]), n \in Claim(j)
          PROVE  unsure'[x] /\ unsure'[w]
      BY <1>2, <2>3 DEF Busy
    <2>4. CASE u # w /\ v # w
      BY <1>3, <2>1, <2>4 DEF IInv, Overlaps, OthersKept
    <2>5. CASE u = w
      BY <2>1, <2>2, <2>3, <2>5
    <2>6. CASE v = w
      BY <2>1, <2>2, <2>3, <2>6
    <2> QED BY <2>4, <2>5, <2>6
  <1>8. Expires'
    BY <1>1, <1>3 DEF IInv, Expires, SliversExpire, OthersKept, testbed
  <1>9. Control(w)' /\ Within(w)'
    BY <1>1, <1>2, <1>3 DEF IInv, Control, Within, locals
  <1>10. Sound(w)'
    <2> SUFFICES ASSUME ~unsure'[w], NEW n \in Nodes, n \in Claim(j) PROVE Progress(w, n)'
      BY <1>3 DEF Sound
    <2>1. ~Busy(n) /\ j.op # "Renew"
      BY <1>2, <1>3, ClaimIs
    <2>2. n \notin torn' => Settled(n) /\ Agreed(n)
      BY <1>1, <2>1 DEF Settled, IInv, AsAnswered, Agreed, Leased
    <2>3. n \notin torn' => Agreed(n)' /\ Leased(n)'
      BY <1>3, <2>2 DEF Untouched, Agreed, Leased, Reported
    <2> QED BY <1>3, <2>1, <2>3 DEF Progress, Provisioned, Deleted, Allocated
  <1>11. \A v \in Workers \ {w} : Control(v)' /\ Within(v)' /\ Sound(v)'
    BY <1>3, OthersGoOn
  <1> QED BY <1>4, <1>6, <1>7, <1>8, <1>9, <1>10, <1>11 DEF IInv

LEMMA TestbedFaultKeeps ==
  ASSUME IInv, NEW w \in Workers, TestbedFault(w)
  PROVE  IInv'
  <1>1. failures < MaxFailures /\ failures' = failures + 1 /\ requests' = requests
    BY DEF TestbedFault
  <1>2. requests' \in 0 .. MaxRequests /\ failures' \in 0 .. MaxFailures
    BY <1>1, BoundsAssumption DEF IInv, TypeOK
  <1>3. CASE /\ pc[w] # "idle" /\ Idle(w) /\ torn' = torn \cup Claim(job[w])
             /\ UNCHANGED <<testbed, row, promised, booked, freed>>
    <2>1. Claim(job[w]) \subseteq Nodes
      BY <1>3, WorkerFacts, ClaimIs
    <2>2. TypeOK'
      BY <1>2, <1>3, <2>1, IdleIs DEF IInv, TypeOK, testbed
    <2>3. Confined(w)
      BY <1>3 DEF Confined, Untouched, testbed
    <2> QED BY <1>3, <2>2, <2>3, Ends
  <1>4. CASE pc[w] \in {"add", "drop"} /\ Forget(w, "result")
    <2>1. job[w].op = "Allocate"
      BY <1>4, WorkerFacts DEF Control
    <2> QED BY <1>2, <1>4, <2>1, ForgetKeeps
  <1>5. CASE /\ (pc[w] = "unlease" /\ job[w].op = "Allocate") \/ pc[w] = "lease"
             /\ Forget(w, "answer")
    <2>1. job[w].op = "Allocate"
      BY <1>5, WorkerFacts DEF Control
    <2> QED BY <1>2, <1>5, <2>1, ForgetKeeps
  <1> QED BY <1>3, <1>4, <1>5 DEF TestbedFault, At

LEMMA CrashKeeps == ASSUME IInv, Crash PROVE IInv'
  <1>1. failures < MaxFailures /\ failures' = failures + 1
        /\ UNCHANGED <<testbed, row, requests, promised, booked, freed>>
        /\ torn' = torn \cup {n \in Nodes : Busy(n)}
    BY DEF Crash
  <1>2. \A w \in Workers : Over(w)'
    BY DEF Crash, Over
  <1>3. TypeOK'
    BY <1>1, BoundsAssumption DEF Crash, IInv, TypeOK, Unread, testbed
  <1>4. ASSUME NEW w \in Workers PROVE Control(w)' /\ Within(w)' /\ Sound(w)'
    <2>1. Over(w)'
      BY <1>2
    <2> QED BY <2>1, OverKeeps, PTL
  <1>5. Overlaps'
    BY <1>2, ClaimIs DEF Overlaps, Over
  <1>6. Expires'
    BY <1>1, <1>2 DEF Expires, SliversExpire, IInv, Over, testbed
  <1>7. AsAnswered'
    <2> SUFFICES ASSUME NEW n \in Nodes, Settled(n)' PROVE Agreed(n)'
      BY DEF AsAnswered, Agreed, Leased
    <2>1. Settled(n)
      BY <1>1 DEF Settled
    <2>2. Agreed(n)
      BY <2>1 DEF IInv, AsAnswered, Agreed, Leased
    <2> QED BY <1>1, <2>2 DEF Agreed, Leased, Reported, testbed
  <1> QED BY <1>3, <1>4, <1>5, <1>6, <1>7 DEF IInv

-----------------------------------------------------------------------------
(* The theorems *)

LEMMA InitInv == Init => IInv
  <1> SUFFICES ASSUME Init PROVE IInv
    OBVIOUS
  <1>1. TypeOK
    BY BoundsAssumption DEF Init, TypeOK, Unread
  <1>2. \A w \in Workers : Over(w)
    BY DEF Init, Over
  <1>3. \A w \in Workers : Control(w) /\ Within(w) /\ Sound(w)
    BY <1>2, OverKeeps
  <1>4. AsAnswered /\ Overlaps /\ Expires
    BY <1>2, ClaimIs DEF Init, AsAnswered, Reported, Overlaps, Expires, SliversExpire, Over
  <1> QED BY <1>1, <1>3, <1>4 DEF IInv

LEMMA NextInv == ASSUME IInv, [Next]_vars PROVE IInv'
  <1>1. CASE Next
    <2>1. ASSUME NEW w \in Workers, Step(w) PROVE IInv'
      BY <2>1, FindSliceKeeps, AddSliceKeeps, SetExpiresKeeps, ReadSliceKeeps, AddNodesKeeps,
         DropNodesKeeps, ReadNodesKeeps, FindRowKeeps, WriteRowKeeps, FindLeasesKeeps,
         DeleteLeasesKeeps, AddLeaseKeeps, GetSliversKeeps, QueryRowsKeeps, CommitRowsKeeps,
         TakeOffKeeps, DropRowsKeeps, AnswerKeeps DEF Step
    <2> QED BY <1>1, <2>1, CrashKeeps, RequestKeeps, TestbedFaultKeeps DEF Next
  <1>2. CASE UNCHANGED vars
    BY <1>2 DEF vars, testbed, locals, history, IInv, TypeOK, AsAnswered, Settled, Busy, Reported,
               Overlaps, Expires, SliversExpire, Control, Within, Sound, Progress, Provisioned,
               Deleted, Allocated, Agreed, Leased
  <1> QED BY <1>1, <1>2

LEMMA Invariance == PlSlicesSpec => []IInv
  <1>1. PlSlicesInit => IInv
    BY InitInv DEF PlSlicesInit
  <1>2. IInv /\ [PlSlicesNext]_plSlicesVars => IInv'
    <2> SUFFICES ASSUME IInv, [PlSlicesNext]_plSlicesVars PROVE IInv'
      OBVIOUS
    <2>1. [Next]_vars
      BY DEF PlSlicesNext, OnNodes, OnUsers, plSlicesVars
    <2> QED BY <2>1, NextInv
  <1> QED BY <1>1, <1>2, PTL DEF PlSlicesSpec

\* Every variable keeps its type; so does every request's idea of the slice.
THEOREM TypeCorrect == PlSlicesSpec => []TypeOK
  <1>1. IInv => TypeOK
    BY DEF IInv
  <1> QED BY <1>1, Invariance, PTL

\* A sliver that no request is changing, and whose last one neither failed nor
\* overlapped another, is on the testbed exactly if the last answers said so,
\* with a row that says what they said, and is leased exactly if the last
\* Allocate asked for it (PlDriver.allocate, provision, renew and delete).
THEOREM AnswersHold == PlSlicesSpec => []AsAnswered
  <1>1. IInv => AsAnswered
    BY DEF IInv
  <1> QED BY <1>1, Invariance, PTL

\* AddSlice gives a slice the testbed's default expiration; nodes are added only
\* after UpdateSlice has set the one that was asked for, wherever the request
\* that makes the slice is cut short (PlSlices.verify_slice).
THEOREM SliversAlwaysExpire == PlSlicesSpec => []SliversExpire
  <1>1. IInv => SliversExpire
    BY DEF IInv, Expires
  <1> QED BY <1>1, Invariance, PTL

-----------------------------------------------------------------------------
(* Users, keys and tags: the inductive invariant *)

Calls == {"idle", "site", "addsite", "namesite", "slice", "members", "persons", "create", "name",
          "drop", "sync", "egre", "links"}
Person == [hrn : People \cup {Nothing}, email : People \X {"own", "stub"}, keys : SUBSET PubKeys]
Facts == [was : SUBSET Nat, found : SUBSET Nat, created : SUBSET Nat, missing : SUBSET People,
          add : SUBSET (Nat \cup Tags), del : SUBSET (Nat \cup Tags), keyless : SUBSET Nat,
          put : SUBSET (PubKeys \cup Nat), cur : Nat \cup {Nothing}, hrn : People \cup {Nothing}]

\* Accounts are numbered from one on.
AccountsOK ==
  /\ Cardinality(DOMAIN persons) \in Nat
  /\ persons \in [1 .. Cardinality(DOMAIN persons) -> Person]
  /\ members \in [Slices -> SUBSET DOMAIN persons]

UsersOK ==
  /\ topology \in {"missing", "empty", "listed"}
  /\ theSite \in {"none", "unnamed", "there"} /\ made \subseteq Slices
  /\ made # {} => theSite = "there"
  /\ AccountsOK
  /\ tags \in [Slices -> SUBSET Tags] /\ egre \in [Slices -> SUBSET EgreKeys]
  /\ next \in [Threads -> Calls] /\ known \in [Threads -> Facts]
  /\ doing \in [Threads -> Demands \cup {Nothing}]
  /\ agreed \in [Slices -> Demands \cup {Nothing}]
  /\ alone \in [Threads -> BOOLEAN] /\ atOnce \in BOOLEAN

\* What a thread knows at its next call is of its request and of accounts there are.
Ready(t) ==
  /\ next[t] # "idle" => doing[t] \in Demands
  /\ next[t] \in {"idle", "site", "addsite", "namesite", "slice", "members"} => known[t] = Blank
  /\ next[t] = "slice" => theSite = "there"
  /\ next[t] \in {"persons", "create", "name"} =>
       known[t].found \cup known[t].created \subseteq DOMAIN persons
  /\ next[t] = "persons" => known[t].created = {}
  /\ next[t] \in {"create", "name"} => known[t].missing \subseteq doing[t].users
  /\ next[t] = "name" => known[t].cur \in known[t].created /\ known[t].hrn \in doing[t].users
  /\ next[t] = "drop" =>
       /\ known[t].add \cup known[t].keyless \subseteq DOMAIN persons
       /\ known[t].put \subseteq doing[t].keys
       /\ known[t].put # {} => known[t].cur \in DOMAIN persons
  /\ next[t] = "sync" =>
       doing[t].op = "Allocate" /\ doing[t].pltags # "ignore" /\ known[t].add \subseteq Tags
  /\ next[t] \in {"egre", "links"} =>
       /\ doing[t].op = "Allocate" /\ doing[t].links # {} /\ topology = "listed"
       /\ known[t].put = {} \/ \E k \in EgreKeys : known[t].put = {k}
  /\ next[t] = "egre" => known[t].put # {}
  /\ next[t] = "links" => known[t].add \subseteq Tags

\* Only one thread has a key that it found and has not yet added, and it is free.
Apart ==
  ~atOnce =>
    /\ \A r, s \in Slices : r # s => egre[r] \cap egre[s] = {}
    /\ \A t \in Threads : HasKey(t) =>
         /\ \A s \in Slices : known[t].put \cap egre[s] = {}
         /\ \A u \in Threads \ {t} : ~HasKey(u)

\* What a request asks for, in the parts that UsersAsAsked has.
HrnsOf(ids) == {persons[i].hrn : i \in ids}
UsersSet(s, d) ==
  HrnsOf(members[s]) = d.users /\ \A i \in members[s] : d.keys \subseteq persons[i].keys
TagsSet(s, d) ==
  /\ d.op = "Allocate" /\ d.pltags # "ignore" => d.tags \cap Managed \subseteq tags[s]
  /\ d.op = "Allocate" /\ d.pltags = "sync" => tags[s] \subseteq d.tags \cup Linked(d)
LinksSet(s, d) == Linked(d) \subseteq tags[s]
KeysCounted(s, d, n) == d.op = "Allocate" /\ d.pltags = "sync" => Cardinality(egre[s]) = n
NoKeys(s, d) == d.op = "Allocate" /\ d.pltags = "sync" => egre[s] = {}
Number(d) == IF Linked(d) = {} THEN 0 ELSE 1

\* How far a request that nothing disturbed has come.
ToBe(t) == (members[The(t)] \ known[t].del) \cup known[t].add
TagsToBe(t) == (tags[The(t)] \ known[t].del) \cup known[t].add

Listing(t) == known[t].was = members[The(t)]
Accounting(t) ==
  HrnsOf(known[t].found \cup known[t].created) \cup known[t].missing = doing[t].users
Naming(t) ==
  HrnsOf((known[t].found \cup known[t].created) \ {known[t].cur})
    \cup known[t].missing \cup {known[t].hrn} = doing[t].users
Dropping(t) ==
  /\ HrnsOf(ToBe(t)) = doing[t].users
  /\ \A i \in ToBe(t) : i \notin known[t].keyless =>
       \A k \in doing[t].keys : k \in persons[i].keys \/ (i = known[t].cur /\ k \in known[t].put)
Tagging(t) ==
  /\ UsersSet(The(t), doing[t])
  /\ doing[t].tags \cap Managed \subseteq TagsToBe(t)
  /\ doing[t].pltags = "sync" => TagsToBe(t) \subseteq doing[t].tags /\ egre[The(t)] \subseteq known[t].del
Linking(t) ==
  /\ UsersSet(The(t), doing[t]) /\ TagsSet(The(t), doing[t])
  /\ doing[t].pltags = "sync" => known[t].add \subseteq Linked(doing[t])
  /\ Linked(doing[t]) \subseteq tags[The(t)] \cup known[t].add
  /\ doing[t].pltags = "sync" => \E k \in EgreKeys : egre[The(t)] \cup known[t].put = {k}

Stage(t) ==
  /\ next[t] \in {"persons", "create", "name"} => Listing(t)
  /\ next[t] = "persons" => known[t].found = {}
  /\ next[t] = "create" => Accounting(t)
  /\ next[t] = "name" => Naming(t)
  /\ next[t] = "drop" => Dropping(t)
  /\ next[t] = "sync" => Tagging(t)
  /\ next[t] = "egre" =>
       UsersSet(The(t), doing[t]) /\ TagsSet(The(t), doing[t]) /\ NoKeys(The(t), doing[t])
  /\ next[t] = "links" => Linking(t)

\* Nobody works on a slice that is as it was asked to be, nor renames its persons.
Quiet ==
  /\ \A t \in Threads : alone[t] => \A u \in Threads \ {t} : next[u] = "idle"
  /\ \A t \in Threads : next[t] # "idle" => agreed[The(t)] = Nothing
  /\ \A t \in Threads : next[t] = "name" =>
       \A s \in Slices : agreed[s] # Nothing => known[t].cur \notin members[s]

Agreements ==
  \A s \in Slices : agreed[s] # Nothing =>
    /\ UsersSet(s, agreed[s]) /\ TagsSet(s, agreed[s]) /\ LinksSet(s, agreed[s])
    /\ KeysCounted(s, agreed[s], Number(agreed[s]))

UsersIInv ==
  /\ UsersOK /\ Apart /\ Quiet /\ Agreements
  /\ \A t \in Threads : Ready(t) /\ (alone[t] => Stage(t))
-----------------------------------------------------------------------------
(* The frame: what the step of one thread leaves alone *)

USE EgreKeysAssumption, TagsAssumption, DemandsAssumption

Frame(t) ==
  /\ \A u \in Threads \ {t} : /\ next'[u] = next[u] /\ doing'[u] = doing[u]
                              /\ known'[u] = known[u] /\ alone'[u] = alone[u]
  /\ \A s \in Slices \ {The(t)} : members'[s] = members[s] /\ tags'[s] = tags[s] /\ egre'[s] = egre[s]
  /\ \A i \in DOMAIN persons :
       /\ i \in DOMAIN persons' /\ persons[i].keys \subseteq persons'[i].keys
       /\ persons'[i].hrn = persons[i].hrn \/ (next[t] = "name" /\ i = known[t].cur)
  /\ topology' = topology
  /\ theSite = "there" => theSite' = "there"
  /\ agreed' = agreed

\* A step that ends a request or goes on with it, as far as the thread itself
\* is concerned.
Onward(t) ==
  /\ Frame(t) /\ Ready(t)'
  /\ next'[t] # "idle" => doing'[t] = doing[t]
  /\ alone'[t] => alone[t] /\ Stage(t)'
  /\ next'[t] = "name" => \A s \in Slices : agreed[s] # Nothing => known'[t].cur \notin members'[s]

LEMMA OthersReady ==
  ASSUME UsersIInv, NEW t \in Threads, Frame(t), NEW u \in Threads \ {t}
  PROVE  Ready(u)'
  <1>1. Ready(u) /\ DOMAIN persons \subseteq DOMAIN persons'
    BY DEF UsersIInv, Frame
  <1> QED BY <1>1 DEF Ready, Frame, Blank

LEMMA AgreementsStay ==
  ASSUME UsersIInv, NEW t \in Threads, next[t] # "idle", Frame(t)
  PROVE  Agreements'
  <1> SUFFICES ASSUME NEW s \in Slices, agreed[s] # Nothing
               PROVE  /\ UsersSet(s, agreed[s])' /\ TagsSet(s, agreed[s])' /\ LinksSet(s, agreed[s])'
                      /\ KeysCounted(s, agreed[s], Number(agreed[s]))'
    BY DEF Agreements, Frame
  <1>1. s # The(t)
    BY DEF UsersIInv, Quiet
  <1>2. members'[s] = members[s] /\ tags'[s] = tags[s] /\ egre'[s] = egre[s] /\ agreed' = agreed
    BY <1>1 DEF Frame
  <1>3. members[s] \subseteq DOMAIN persons
    BY DEF UsersIInv, UsersOK, AccountsOK
  <1>4. \A i \in members[s] : persons'[i].hrn = persons[i].hrn /\ persons[i].keys \subseteq persons'[i].keys
    BY <1>3 DEF Frame, UsersIInv, Quiet
  <1>5. UsersSet(s, agreed[s]) /\ TagsSet(s, agreed[s]) /\ LinksSet(s, agreed[s])
        /\ KeysCounted(s, agreed[s], Number(agreed[s]))
    BY DEF UsersIInv, Agreements
  <1>6. HrnsOf(members[s])' = HrnsOf(members[s])
    BY <1>2, <1>4 DEF HrnsOf
  <1>7. UsersSet(s, agreed[s])'
    BY <1>2, <1>4, <1>5, <1>6 DEF UsersSet
  <1>8. TagsSet(s, agreed[s])' /\ LinksSet(s, agreed[s])' /\ KeysCounted(s, agreed[s], Number(agreed[s]))'
    BY <1>2, <1>5 DEF TagsSet, LinksSet, KeysCounted, Number, Linked, Frame
  <1> QED BY <1>7, <1>8

LEMMA QuietStays ==
  ASSUME UsersIInv, NEW t \in Threads, next[t] # "idle", Onward(t)
  PROVE  Quiet'
  <1>1. Frame(t) /\ agreed' = agreed /\ Quiet
    BY DEF Onward, Frame, UsersIInv
  <1>2. ASSUME NEW v \in Threads, alone'[v], NEW u \in Threads \ {v}
        PROVE  next'[u] = "idle"
    <2>1. alone[v]
      BY <1>1, <1>2 DEF Onward, Frame
    <2>2. v = t
      BY <1>1, <2>1 DEF Quiet
    <2> QED BY <1>1, <2>1, <2>2 DEF Quiet, Frame
  <1>3. ASSUME NEW u \in Threads, next'[u] # "idle"
        PROVE  agreed'[The(u)'] = Nothing
    <2>1. CASE u = t
      BY <1>1, <1>3, <2>1 DEF Quiet, Onward, The
    <2>2. CASE u # t
      BY <1>1, <1>3, <2>2 DEF Quiet, Frame, The
    <2> QED BY <2>1, <2>2
  <1>4. ASSUME NEW u \in Threads, next'[u] = "name", NEW s \in Slices, agreed'[s] # Nothing
        PROVE  known'[u].cur \notin members'[s]
    <2>1. CASE u = t
      BY <1>1, <1>4, <2>1 DEF Onward
    <2>2. CASE u # t
      <3>1. s # The(t)
        BY <1>1, <1>4 DEF Quiet
      <3> QED BY <1>1, <1>4, <2>2, <3>1 DEF Quiet, Frame
    <2> QED BY <2>1, <2>2
  <1> QED BY <1>2, <1>3, <1>4 DEF Quiet

LEMMA ApartStays ==
  ASSUME UsersIInv, NEW t \in Threads, Frame(t), atOnce' = atOnce,
         \A s \in Slices : egre'[s] \subseteq egre[s], ~HasKey(t)'
  PROVE  Apart'
  <1> SUFFICES ASSUME ~atOnce
               PROVE  /\ \A r, s \in Slices : r # s => egre'[r] \cap egre'[s] = {}
                      /\ \A u \in Threads : HasKey(u)' =>
                           /\ \A s \in Slices : known'[u].put \cap egre'[s] = {}
                           /\ \A v \in Threads \ {u} : ~HasKey(v)'
    BY DEF Apart
  <1>1. Apart
    BY DEF UsersIInv
  <1>2. \A r, s \in Slices : r # s => egre'[r] \cap egre'[s] = {}
    BY <1>1 DEF Apart
  <1>3. ASSUME NEW u \in Threads, HasKey(u)'
        PROVE  /\ \A s \in Slices : known'[u].put \cap egre'[s] = {}
               /\ \A v \in Threads \ {u} : ~HasKey(v)'
    <2>1. u # t /\ HasKey(u) /\ known'[u] = known[u]
      BY <1>3 DEF Frame, HasKey, Is
    <2>2. \A s \in Slices : known[u].put \cap egre[s] = {}
      BY <1>1, <2>1 DEF Apart
    <2>3. \A v \in Threads \ {u} : ~HasKey(v)'
      BY <1>1, <2>1 DEF Apart, Frame, HasKey, Is
    <2> QED BY <2>1, <2>2, <2>3
  <1> QED BY <1>2, <1>3

LEMMA GoesOnWith ==
  ASSUME UsersIInv, NEW t \in Threads, next[t] # "idle", Onward(t), UsersOK', Apart'
  PROVE  UsersIInv'
  <1>1. Frame(t)
    BY DEF Onward
  <1>2. Quiet' /\ Agreements'
    BY <1>1, QuietStays, AgreementsStay
  <1>3. ASSUME NEW u \in Threads
        PROVE  Ready(u)' /\ (alone'[u] => Stage(u)')
    <2>1. CASE u = t
      BY <2>1 DEF Onward
    <2>2. CASE u # t
      <3>1. ~alone'[u]
        BY <1>1, <2>2 DEF Frame, UsersIInv, Quiet
      <3> QED BY <1>1, <2>2, <3>1, OthersReady
    <2> QED BY <2>1, <2>2
  <1> QED BY <1>2, <1>3 DEF UsersIInv

-----------------------------------------------------------------------------
(* The steps of a thread: the request's end, the site and the slice *)

LEMMA BlankIsFacts == Blank \in Facts
  BY DEF Blank, Facts

\* A step that writes nothing on the testbed, and what it is to show of itself.
LEMMA LooksOn ==
  ASSUME UsersIInv, NEW t \in Threads, next[t] # "idle", UNCHANGED plcUsers, Writes,
         doing' = doing, NEW k \in Facts, known' = [known EXCEPT ![t] = k],
         NEW c \in Calls \ {"idle", "egre", "links", "name"}, Go(t, c), Ready(t)',
         alone[t] => Stage(t)'
  PROVE  UsersIInv'
  <1>1. UsersOK
    BY DEF UsersIInv
  <1>2. Frame(t)
    BY <1>1 DEF Frame, plcUsers, accountsOf, tagsOf, site, Writes, memories, Go, UsersOK
  <1>3. next'[t] = c
    BY <1>1 DEF Go, UsersOK
  <1>4. Onward(t)
    BY <1>2, <1>3 DEF Onward, Writes, memories
  <1>5. UsersOK'
    BY <1>1 DEF UsersOK, AccountsOK, plcUsers, accountsOf, tagsOf, site, Writes, memories, Go
  <1>6. Apart'
    BY <1>1, <1>2, <1>3, ApartStays DEF HasKey, Is, Writes, memories, plcUsers, tagsOf
  <1> QED BY <1>4, <1>5, <1>6, GoesOnWith

LEMMA RestKeeps ==
  ASSUME UsersIInv, NEW t \in Threads, next[t] # "idle", Rest(t), UNCHANGED plcUsers,
         agreed' = agreed, atOnce' = atOnce
  PROVE  UsersIInv'
  <1>1. UsersOK
    BY DEF UsersIInv
  <1>2. Frame(t)
    BY <1>1 DEF Frame, plcUsers, accountsOf, tagsOf, site, Rest, Go, UsersOK
  <1>3. next'[t] = "idle" /\ known'[t] = Blank /\ ~alone'[t]
    BY <1>1 DEF Rest, Go, UsersOK
  <1>4. Onward(t)
    BY <1>2, <1>3 DEF Onward, Ready
  <1>5. UsersOK'
    BY <1>1, BlankIsFacts DEF UsersOK, AccountsOK, Calls, plcUsers, accountsOf, tagsOf, site, Rest, Go
  <1>6. Apart'
    BY <1>1, <1>2, <1>3, ApartStays DEF HasKey, Is, plcUsers, tagsOf
  <1> QED BY <1>4, <1>5, <1>6, GoesOnWith

LEMMA GiveUpKeeps ==
  ASSUME UsersIInv, NEW t \in Threads, next[t] # "idle", GiveUp(t)
  PROVE  UsersIInv'
  BY RestKeeps DEF GiveUp

LEMMA FindSiteKeeps ==
  ASSUME UsersIInv, NEW t \in Threads, FindSite(t)
  PROVE  UsersIInv'
  <1>1. UsersOK /\ Ready(t) /\ next[t] = "site"
    BY DEF UsersIInv, FindSite, Is
  <1>2. known[t] = Blank /\ known' = [known EXCEPT ![t] = Blank] /\ doing' = doing
    BY <1>1 DEF Ready, FindSite, Knows, UsersOK
  <1>3. UNCHANGED plcUsers /\ Writes /\ theSite' = theSite
    BY DEF FindSite, Looks, plcUsers, site
  <1>4. CASE theSite = "there"
    <2>1. Go(t, "slice") /\ next'[t] = "slice"
      BY <1>1, <1>4 DEF FindSite, Go, UsersOK
    <2>2. Ready(t)' /\ Stage(t)'
      BY <1>1, <1>2, <1>3, <1>4, <2>1 DEF Ready, Stage, UsersOK
    <2> QED BY <1>1, <1>2, <1>3, <2>1, <2>2, BlankIsFacts, LooksOn DEF Calls
  <1>5. CASE theSite # "there"
    <2>1. Go(t, "addsite") /\ next'[t] = "addsite"
      BY <1>1, <1>5 DEF FindSite, Go, UsersOK
    <2>2. Ready(t)' /\ Stage(t)'
      BY <1>1, <1>2, <1>3, <2>1 DEF Ready, Stage, UsersOK
    <2> QED BY <1>1, <1>2, <1>3, <2>1, <2>2, BlankIsFacts, LooksOn DEF Calls
  <1> QED BY <1>4, <1>5

\* The steps that write only the site or the slice.
LEMMA SiteKeeps ==
  ASSUME UsersIInv, NEW t \in Threads, next[t] \in {"addsite", "namesite", "slice"},
         UNCHANGED <<topology, accountsOf, tagsOf>>, Writes, Knows,
         NEW c \in {"namesite", "slice", "members"}, Go(t, c),
         theSite' \in {"unnamed", "there"}, theSite = "there" => theSite' = "there",
         made' \subseteq Slices, made' # {} => theSite' = "there",
         c = "slice" => theSite' = "there"
  PROVE  UsersIInv'
  <1>1. UsersOK /\ Ready(t)
    BY DEF UsersIInv
  <1>2. next'[t] = c /\ known'[t] = Blank /\ doing'[t] = doing[t]
    BY <1>1 DEF Ready, Go, UsersOK, Knows
  <1>3. Frame(t)
    BY <1>1 DEF Frame, accountsOf, tagsOf, Writes, memories, Go, Knows, UsersOK
  <1>4. Ready(t)' /\ Stage(t)'
    BY <1>1, <1>2 DEF Ready, Stage
  <1>5. Onward(t)
    BY <1>2, <1>3, <1>4 DEF Onward, Writes, memories
  <1>6. UsersOK'
    BY <1>1 DEF UsersOK, AccountsOK, Calls, accountsOf, tagsOf, Writes, memories, Go, Knows
  <1>7. Apart'
    BY <1>2, <1>3, ApartStays DEF HasKey, Is, Writes, memories, tagsOf
  <1> QED BY <1>5, <1>6, <1>7, GoesOnWith

LEMMA SiteStepsKeep ==
  ASSUME UsersIInv, NEW t \in Threads, AddSite(t) \/ NameSite(t) \/ VerifySlice(t)
  PROVE  UsersIInv'
  <1>1. UsersOK /\ Ready(t)
    BY DEF UsersIInv
  <1>2. CASE AddSite(t)
    <2>1. CASE theSite = "none"
      <3>1. /\ next[t] = "addsite" /\ theSite' = "unnamed" /\ made' = made /\ Go(t, "namesite")
            /\ UNCHANGED <<topology, accountsOf, tagsOf>> /\ Writes /\ Knows
        BY <1>2, <2>1 DEF AddSite, Is
      <3>2. made = {}
        BY <1>1, <2>1 DEF UsersOK
      <3> QED BY <1>1, <2>1, <3>1, <3>2, SiteKeeps
    <2>2. CASE theSite # "none"
      <3>1. next[t] # "idle" /\ GiveUp(t)
        BY <1>2, <2>2 DEF AddSite, Is
      <3> QED BY <3>1, GiveUpKeeps
    <2> QED BY <2>1, <2>2
  <1>3. CASE NameSite(t)
    <2>1. /\ next[t] = "namesite" /\ theSite' = "there" /\ made' = made /\ Go(t, "slice")
          /\ UNCHANGED <<topology, accountsOf, tagsOf>> /\ Writes /\ Knows
      BY <1>3 DEF NameSite, Is
    <2> QED BY <1>1, <2>1, SiteKeeps DEF UsersOK
  <1>4. CASE VerifySlice(t)
    <2>1. /\ next[t] = "slice" /\ theSite' = theSite /\ made' = made \cup {The(t)} /\ Go(t, "members")
          /\ UNCHANGED <<topology, accountsOf, tagsOf>> /\ Writes /\ Knows
      BY <1>4 DEF VerifySlice, Is
    <2>2. theSite = "there" /\ The(t) \in Slices
      BY <1>1, <2>1 DEF Ready, The
    <2> QED BY <1>1, <2>1, <2>2, SiteKeeps DEF UsersOK
  <1> QED BY <1>2, <1>3, <1>4

-----------------------------------------------------------------------------
(* verify_persons *)

LEMMA ReadMembersKeeps ==
  ASSUME UsersIInv, NEW t \in Threads, ReadMembers(t)
  PROVE  UsersIInv'
  <1>1. UsersOK /\ Ready(t) /\ next[t] = "members" /\ doing[t] \in Demands /\ known[t] = Blank
    BY DEF UsersIInv, Ready, ReadMembers, Is
  <1>2. CASE theSite # "there"
    BY <1>1, <1>2, GiveUpKeeps DEF ReadMembers
  <1>3. CASE theSite = "there"
    <2> DEFINE k == [known[t] EXCEPT !.was = members[The(t)]]
    <2>1. known' = [known EXCEPT ![t] = k] /\ doing' = doing /\ Go(t, "persons") /\ UNCHANGED plcUsers /\ Writes
      BY <1>3 DEF ReadMembers, Keep, Looks
    <2>2. The(t) \in Slices /\ members[The(t)] \subseteq Nat
      BY <1>1 DEF The, UsersOK, AccountsOK
    <2>3. k \in Facts /\ k.was = members[The(t)] /\ k.found = {} /\ k.created = {}
      BY <1>1, <2>2, BlankIsFacts DEF Facts, Blank
    <2>4. known'[t] = k /\ next'[t] = "persons" /\ members' = members
      BY <1>1, <2>1 DEF UsersOK, Go, plcUsers, accountsOf
    <2> HIDE DEF k
    <2>5. Ready(t)' /\ Stage(t)'
      BY <1>1, <2>1, <2>3, <2>4 DEF Ready, Stage, Listing, The
    <2> QED BY <1>1, <2>1, <2>3, <2>5, LooksOn DEF Calls
  <1> QED BY <1>2, <1>3

LEMMA ProceedGoesOn ==
  ASSUME UsersOK, NEW t \in Threads, doing[t] \in Demands, NEW j \in Facts, Proceed(t, j),
         members' = members, j.found \cup j.created \subseteq DOMAIN persons',
         j.missing \subseteq doing[t].users,
         alone[t] => /\ j.was = members[The(t)]
                     /\ {persons'[i].hrn : i \in j.found \cup j.created} \cup j.missing = doing[t].users
  PROVE  /\ doing' = doing /\ Ready(t)' /\ (alone[t] => Stage(t)')
         /\ \E c \in {"create", "drop"} : Go(t, c) /\ next'[t] = c
         /\ \E k \in Facts : known' = [known EXCEPT ![t] = k]
  <1>1. CASE j.missing # {}
    <2>1. known' = [known EXCEPT ![t] = j] /\ doing' = doing /\ Go(t, "create")
      BY <1>1 DEF Proceed, Keep
    <2>2. known'[t] = j /\ next'[t] = "create"
      BY <2>1 DEF UsersOK, Go
    <2>3. Ready(t)'
      BY <2>1, <2>2 DEF Ready
    <2>4. alone[t] => Stage(t)'
      BY <2>1, <2>2 DEF Stage, Listing, Accounting, The, HrnsOf
    <2> QED BY <2>1, <2>2, <2>3, <2>4
  <1>2. CASE j.missing = {}
    <2> DEFINE k == Classes(j)
    <2>1. known' = [known EXCEPT ![t] = k] /\ doing' = doing /\ Go(t, "drop")
      BY <1>2 DEF Proceed, Keep
    <2>2. /\ k \in Facts /\ k.add = j.created \cup (j.found \ j.was) /\ k.del = j.was \ j.found
          /\ k.keyless = j.created \cup j.found /\ k.put = {}
      BY BlankIsFacts DEF Classes, Facts, Blank
    <2>3. known'[t] = k /\ next'[t] = "drop"
      BY <2>1 DEF UsersOK, Go
    <2> HIDE DEF k
    <2>4. Ready(t)'
      BY <2>1, <2>2, <2>3 DEF Ready
    <2>5. ASSUME alone[t] PROVE Stage(t)'
      <3>1. ToBe(t)' = j.found \cup j.created
        BY <2>1, <2>2, <2>3, <2>5 DEF ToBe, The
      <3>2. HrnsOf(ToBe(t))' = doing'[t].users
        BY <1>2, <2>1, <2>5, <3>1 DEF HrnsOf
      <3>3. \A i \in ToBe(t)' : i \in known'[t].keyless
        BY <2>2, <2>3, <3>1
      <3>4. Dropping(t)'
        BY <3>2, <3>3 DEF Dropping
      <3> QED BY <2>3, <3>4 DEF Stage
    <2> QED BY <2>1, <2>2, <2>3, <2>4, <2>5
  <1> QED BY <1>1, <1>2

LEMMA ReadPersonsKeeps ==
  ASSUME UsersIInv, NEW t \in Threads, ReadPersons(t)
  PROVE  UsersIInv'
  <1>1. UsersOK /\ Ready(t) /\ next[t] = "persons" /\ doing[t] \in Demands /\ known[t] \in Facts
    BY DEF UsersIInv, UsersOK, Ready, ReadPersons, Is
  <1> DEFINE found == AccountsOf(doing[t].users)
             missing == doing[t].users \ {persons[i].hrn : i \in found}
             j == [known[t] EXCEPT !.found = found, !.missing = missing]
  <1>2. Proceed(t, j) /\ UNCHANGED plcUsers /\ Writes /\ members' = members /\ persons' = persons
    BY DEF ReadPersons, Looks, plcUsers, accountsOf
  <1>3. found \subseteq DOMAIN persons /\ missing \subseteq doing[t].users /\ missing \subseteq People
    BY <1>1 DEF AccountsOf
  <1>4. {persons[i].hrn : i \in found} \cup missing = doing[t].users
    BY DEF AccountsOf
  <1>5. DOMAIN persons \subseteq Nat
    BY <1>1 DEF UsersOK, AccountsOK
  <1>6. /\ j \in Facts /\ j.found = found /\ j.missing = missing
        /\ j.created = {} /\ j.was = known[t].was
    <2>1. known[t].created = {}
      BY <1>1 DEF Ready
    <2> HIDE DEF found, missing
    <2> QED BY <1>1, <1>3, <1>5, <2>1 DEF Facts
  <1>7. alone[t] => known[t].was = members[The(t)]
    BY <1>1 DEF UsersIInv, Stage, Listing
  <1> HIDE DEF j
  <1>8. {persons'[i].hrn : i \in j.found \cup j.created} \cup j.missing = doing[t].users
    BY <1>2, <1>4, <1>6 DEF HrnsOf
  <1>9. /\ doing' = doing /\ Ready(t)' /\ (alone[t] => Stage(t)')
        /\ \E c \in {"create", "drop"} : Go(t, c) /\ next'[t] = c
        /\ \E k \in Facts : known' = [known EXCEPT ![t] = k]
    <2> HIDE DEF found, missing
    <2> QED BY <1>1, <1>2, <1>3, <1>6, <1>7, <1>8, ProceedGoesOn
  <1>10. PICK c \in {"create", "drop"} : Go(t, c)
    BY <1>9
  <1>11. PICK k \in Facts : known' = [known EXCEPT ![t] = k]
    BY <1>9
  <1> QED BY <1>1, <1>2, <1>9, <1>10, <1>11, LooksOn DEF Calls

\* An account is made under a number that no slice has yet.
LEMMA AddAccountKeeps ==
  ASSUME UsersIInv, NEW t \in Threads, next[t] = "create", NEW h \in known[t].missing,
         NEW mail \in {Own(h), Stub(h)}, AddAccount(t, h, mail),
         agreed' = agreed, atOnce' = atOnce, alone' \in [Threads -> BOOLEAN],
         alone'[t] => alone[t], \A u \in Threads \ {t} : alone'[u] = alone[u]
  PROVE  UsersIInv'
  <1>1. UsersOK /\ Ready(t) /\ doing[t] \in Demands /\ known[t] \in Facts
    BY DEF UsersIInv, UsersOK, Ready
  <1>2. h \in People /\ mail \in People \X {"own", "stub"} /\ h \in doing[t].users
    BY <1>1 DEF Facts, Own, Stub, Ready
  <1> DEFINE n == Cardinality(DOMAIN persons)
             k == [known[t] EXCEPT !.cur = n + 1, !.hrn = h, !.created = @ \cup {n + 1},
                                   !.missing = @ \ {h}]
  <1>3. n \in Nat /\ DOMAIN persons = 1 .. n /\ n + 1 \in Nat /\ n + 1 \notin DOMAIN persons
    BY <1>1 DEF UsersOK, AccountsOK
  <1>4. PICK name \in {h, Nothing} :
          persons' = [i \in DOMAIN persons \cup {n + 1} |->
                        IF i = n + 1 THEN [hrn |-> name, email |-> mail, keys |-> {}] ELSE persons[i]]
    BY DEF AddAccount
  <1>5. /\ known' = [known EXCEPT ![t] = k] /\ doing' = doing /\ Go(t, "name")
        /\ UNCHANGED <<topology, theSite, made, members, tags, egre>>
    BY DEF AddAccount, Keep, site, tagsOf
  <1>6. /\ k \in Facts /\ k.cur = n + 1 /\ k.hrn = h /\ k.created = known[t].created \cup {n + 1}
        /\ k.missing = known[t].missing \ {h} /\ k.was = known[t].was /\ k.found = known[t].found
    <2> HIDE DEF n
    <2> QED BY <1>1, <1>2, <1>3 DEF Facts
  <1> HIDE DEF n, k
  <1>7. known'[t] = k /\ next'[t] = "name"
    BY <1>1, <1>5 DEF UsersOK, Go
  <1>8. DOMAIN persons' = 1 .. (n + 1) /\ DOMAIN persons \subseteq DOMAIN persons'
    BY <1>3, <1>4
  <1>9. /\ persons' \in [1 .. (n + 1) -> Person]
        /\ \A i \in DOMAIN persons : persons'[i] = persons[i]
    <2>1. [hrn |-> name, email |-> mail, keys |-> {}] \in Person
      BY <1>2 DEF Person
    <2>2. \A i \in DOMAIN persons : persons[i] \in Person
      BY <1>1 DEF UsersOK, AccountsOK
    <2> QED BY <1>3, <1>4, <1>8, <2>1, <2>2
  <1>10. Cardinality(DOMAIN persons') = n + 1
    <2>1. Cardinality(1 .. (n + 1)) = IF 1 > n + 1 THEN 0 ELSE (n + 1) - 1 + 1
      BY <1>3, FS_Interval
    <2> QED BY <1>3, <1>8, <2>1
  <1>11. UsersOK'
    <2>1. AccountsOK'
      BY <1>1, <1>3, <1>5, <1>8, <1>9, <1>10 DEF UsersOK, AccountsOK
    <2> QED BY <1>1, <1>5, <1>6, <2>1 DEF UsersOK, Go, Calls
  <1>12. Frame(t)
    BY <1>1, <1>5, <1>8, <1>9 DEF Frame, UsersOK, Go
  <1>13. Ready(t)'
    BY <1>1, <1>2, <1>3, <1>5, <1>6, <1>7, <1>8 DEF Ready
  <1>14. ASSUME alone[t] PROVE Stage(t)'
    <2>1. known[t].was = members[The(t)] /\ Accounting(t)
      BY <1>1, <1>14 DEF UsersIInv, Stage, Listing
    <2>2. Listing(t)'
      BY <1>5, <1>6, <1>7, <2>1 DEF Listing, The
    <2>3. known[t].found \cup known[t].created \subseteq DOMAIN persons
      BY <1>1 DEF Ready
    <2>4. (k.found \cup k.created) \ {k.cur} = known[t].found \cup known[t].created
      BY <1>3, <1>6, <2>3
    <2>5. {persons'[i].hrn : i \in known[t].found \cup known[t].created}
            = HrnsOf(known[t].found \cup known[t].created)
      BY <1>9, <2>3 DEF HrnsOf
    <2>6. Naming(t)'
      BY SMTT(30), <1>5, <1>6, <1>7, <2>1, <2>4, <2>5 DEF Naming, Accounting, HrnsOf
    <2> QED BY <1>7, <2>2, <2>6 DEF Stage
  <1>15. \A s \in Slices : known'[t].cur \notin members'[s]
    BY <1>1, <1>3, <1>5, <1>6, <1>7 DEF UsersOK, AccountsOK
  <1>16. Onward(t)
    BY <1>5, <1>12, <1>13, <1>14, <1>15 DEF Onward
  <1>17. Apart'
    BY <1>5, <1>7, <1>12, ApartStays DEF HasKey, Is
  <1> QED BY <1>11, <1>16, <1>17, GoesOnWith

LEMMA AddPersonKeeps ==
  ASSUME UsersIInv, NEW t \in Threads, AddPerson(t)
  PROVE  UsersIInv'
  <1>1. next[t] = "create" /\ alone \in [Threads -> BOOLEAN]
    BY DEF AddPerson, Is, UsersIInv, UsersOK
  <1>2. PICK h \in known[t].missing :
          IF \E mail \in {Own(h), Stub(h)} : Free(mail)
          THEN AddAccount(t, h, IF Free(Own(h)) THEN Own(h) ELSE Stub(h)) /\ Writes
          ELSE GiveUp(t)
    BY DEF AddPerson
  <1>3. CASE \E mail \in {Own(h), Stub(h)} : Free(mail)
    <2>1. PICK mail \in {Own(h), Stub(h)} : AddAccount(t, h, mail) /\ Writes
      BY <1>2, <1>3
    <2> QED BY <1>1, <2>1, AddAccountKeeps DEF Writes, memories
  <1>4. CASE ~\E mail \in {Own(h), Stub(h)} : Free(mail)
    BY <1>1, <1>2, <1>4, GiveUpKeeps
  <1> QED BY <1>3, <1>4

LEMMA NamePersonKeeps ==
  ASSUME UsersIInv, NEW t \in Threads, NamePerson(t)
  PROVE  UsersIInv'
  <1>1. UsersOK /\ Ready(t) /\ next[t] = "name" /\ doing[t] \in Demands
    BY DEF UsersIInv, UsersOK, Ready, NamePerson, Is
  <1>2. PICK j \in Facts : j = known[t]
    BY <1>1 DEF UsersOK
  <1>3. /\ Proceed(t, j) /\ members' = members /\ UNCHANGED <<topology, theSite, made, tags, egre>>
        /\ persons' = [persons EXCEPT ![j.cur].hrn = j.hrn] /\ Writes
    BY <1>2 DEF NamePerson, site, tagsOf
  <1>4. /\ j.cur \in DOMAIN persons /\ j.cur \in j.created /\ j.hrn \in doing[t].users
        /\ j.found \cup j.created \subseteq DOMAIN persons /\ j.missing \subseteq doing[t].users
    BY <1>1, <1>2 DEF Ready
  <1>5. j.hrn \in People
    BY <1>1, <1>4
  <1>6. \A i \in DOMAIN persons : persons[i] \in Person
    BY <1>1 DEF UsersOK, AccountsOK
  <1>7. /\ DOMAIN persons' = DOMAIN persons
        /\ \A i \in DOMAIN persons : persons'[i].keys = persons[i].keys
        /\ \A i \in DOMAIN persons \ {j.cur} : persons'[i].hrn = persons[i].hrn
        /\ persons'[j.cur].hrn = j.hrn
    BY <1>3, <1>4, <1>6 DEF Person
  <1>8. persons' \in [DOMAIN persons -> Person]
    <2>1. \A i \in DOMAIN persons \ {j.cur} : persons'[i] = persons[i]
      BY <1>3
    <2>2. persons'[j.cur] = [persons[j.cur] EXCEPT !.hrn = j.hrn]
      BY <1>3, <1>4
    <2>3. persons'[j.cur] \in Person
      BY <1>4, <1>5, <1>6, <2>2 DEF Person
    <2>4. persons' = [i \in DOMAIN persons |-> persons'[i]]
      BY <1>3
    <2> QED BY <1>6, <2>1, <2>3, <2>4
  <1>9. alone[t] => /\ j.was = members[The(t)]
                    /\ {persons'[i].hrn : i \in j.found \cup j.created} \cup j.missing = doing[t].users
    <2> SUFFICES ASSUME alone[t]
                 PROVE  /\ j.was = members[The(t)]
                        /\ {persons'[i].hrn : i \in j.found \cup j.created} \cup j.missing = doing[t].users
      OBVIOUS
    <2>1. Listing(t) /\ Naming(t)
      BY <1>1 DEF UsersIInv, Stage
    <2>2. {persons'[i].hrn : i \in j.found \cup j.created}
            = HrnsOf((j.found \cup j.created) \ {j.cur}) \cup {j.hrn}
      BY <1>4, <1>7 DEF HrnsOf
    <2> QED BY <1>2, <2>1, <2>2 DEF Listing, Naming
  <1>10. /\ doing' = doing /\ Ready(t)' /\ (alone[t] => Stage(t)')
         /\ \E c \in {"create", "drop"} : Go(t, c) /\ next'[t] = c
         /\ \E k \in Facts : known' = [known EXCEPT ![t] = k]
    BY <1>1, <1>3, <1>4, <1>7, <1>9, ProceedGoesOn
  <1>11. PICK c \in {"create", "drop"} : Go(t, c) /\ next'[t] = c
    BY <1>10
  <1>12. PICK k \in Facts : known' = [known EXCEPT ![t] = k]
    BY <1>10
  <1>13. Frame(t)
    BY <1>1, <1>2, <1>3, <1>7, <1>10, <1>11, <1>12 DEF Frame, UsersOK, Go, Writes, memories
  <1>14. Onward(t)
    BY <1>3, <1>10, <1>11, <1>13 DEF Onward, Writes, memories
  <1>15. UsersOK'
    <2>1. AccountsOK'
      BY <1>1, <1>3, <1>7, <1>8 DEF UsersOK, AccountsOK
    <2> QED BY <1>1, <1>3, <1>10, <1>11, <1>12, <2>1 DEF UsersOK, Go, Calls, Writes, memories
  <1>16. Apart'
    BY <1>3, <1>11, <1>13, ApartStays DEF HasKey, Is, Writes, memories
  <1> QED BY <1>1, <1>14, <1>15, <1>16, GoesOnWith

\* The steps that change the slice's persons or their keys.
LEMMA PersonsKeep ==
  ASSUME UsersIInv, NEW t \in Threads, next[t] = "drop", next' = next, doing' = doing,
         UNCHANGED <<site, tagsOf>>, Writes,
         NEW k \in Facts, known' = [known EXCEPT ![t] = k], AccountsOK',
         k.add \cup k.keyless \subseteq DOMAIN persons, k.put \subseteq doing[t].keys,
         k.put # {} => k.cur \in DOMAIN persons,
         \A s \in Slices \ {The(t)} : members'[s] = members[s],
         DOMAIN persons' = DOMAIN persons,
         \A i \in DOMAIN persons : /\ persons'[i].hrn = persons[i].hrn
                                   /\ persons[i].keys \subseteq persons'[i].keys,
         alone[t] => Dropping(t)'
  PROVE  UsersIInv'
  <1>1. UsersOK /\ Ready(t) /\ known'[t] = k
    BY DEF UsersIInv, UsersOK
  <1>2. Frame(t)
    BY <1>1 DEF Frame, UsersOK, Writes, memories, site, tagsOf
  <1>3. Ready(t)'
    BY <1>1 DEF Ready
  <1>4. Onward(t)
    BY <1>2, <1>3 DEF Onward, Stage, Writes, memories
  <1>5. UsersOK'
    BY <1>1 DEF UsersOK, Writes, memories, site, tagsOf
  <1>6. Apart'
    BY <1>2, ApartStays DEF HasKey, Is, Writes, memories, tagsOf
  <1> QED BY <1>4, <1>5, <1>6, GoesOnWith

LEMMA DropFacts ==
  ASSUME UsersIInv, NEW t \in Threads, next[t] = "drop"
  PROVE  /\ UsersOK /\ doing[t] \in Demands /\ The(t) \in Slices /\ known[t] \in Facts
         /\ known[t].add \cup known[t].keyless \subseteq DOMAIN persons
         /\ known[t].put \subseteq doing[t].keys
         /\ known[t].put # {} => known[t].cur \in DOMAIN persons
         /\ alone[t] => Dropping(t)
         /\ \A i \in DOMAIN persons : i \in Nat /\ persons[i] \in Person
  <1>1. UsersOK /\ Ready(t) /\ doing[t] \in Demands
    BY DEF UsersIInv, Ready
  <1> QED BY SMTT(30), <1>1 DEF UsersIInv, Stage, Ready, The, UsersOK, AccountsOK

LEMMA DropPersonKeeps ==
  ASSUME UsersIInv, NEW t \in Threads, DropPerson(t)
  PROVE  UsersIInv'
  <1>1. next[t] = "drop"
    BY DEF DropPerson, Is
  <1>2. PICK i \in known[t].del : /\ members' = [members EXCEPT ![The(t)] = @ \ {i}]
                                  /\ Keep(t, [known[t] EXCEPT !.del = @ \ {i}])
    BY DEF DropPerson
  <1>3. UNCHANGED <<site, persons, tagsOf, next>> /\ Writes
    BY DEF DropPerson
  <1>4. /\ UsersOK /\ The(t) \in Slices /\ known[t] \in Facts /\ (alone[t] => Dropping(t))
        /\ known[t].add \cup known[t].keyless \subseteq DOMAIN persons
        /\ known[t].put \subseteq doing[t].keys
        /\ known[t].put # {} => known[t].cur \in DOMAIN persons
    BY <1>1, DropFacts
  <1>5. PICK k \in Facts : k = [known[t] EXCEPT !.del = @ \ {i}]
    BY <1>4 DEF Facts
  <1>6. /\ k.del = known[t].del \ {i} /\ k.add = known[t].add /\ k.keyless = known[t].keyless
        /\ k.put = known[t].put /\ k.cur = known[t].cur
    BY <1>4, <1>5 DEF Facts
  <1>7. known' = [known EXCEPT ![t] = k] /\ known'[t] = k /\ doing' = doing
    BY <1>2, <1>4, <1>5 DEF Keep, UsersOK
  <1>8. AccountsOK'
    BY <1>2, <1>3, <1>4 DEF UsersOK, AccountsOK
  <1>9. ToBe(t)' = ToBe(t)
    BY <1>2, <1>4, <1>6, <1>7 DEF ToBe, The, UsersOK, AccountsOK
  <1>10. alone[t] => Dropping(t)'
    BY <1>3, <1>4, <1>6, <1>7, <1>9 DEF Dropping, HrnsOf
  <1>11. \A s \in Slices \ {The(t)} : members'[s] = members[s]
    BY <1>2, <1>4 DEF UsersOK, AccountsOK
  <1> QED BY <1>1, <1>3, <1>4, <1>6, <1>7, <1>8, <1>10, <1>11, PersonsKeep

LEMMA AddMemberKeeps ==
  ASSUME UsersIInv, NEW t \in Threads, AddMember(t)
  PROVE  UsersIInv'
  <1>1. next[t] = "drop" /\ known[t].del = {}
    BY DEF AddMember, Is
  <1>2. PICK i \in known[t].add : /\ members' = [members EXCEPT ![The(t)] = @ \cup {i}]
                                  /\ Keep(t, [known[t] EXCEPT !.add = @ \ {i}])
    BY DEF AddMember
  <1>3. UNCHANGED <<site, persons, tagsOf, next>> /\ Writes
    BY DEF AddMember
  <1>4. /\ UsersOK /\ The(t) \in Slices /\ known[t] \in Facts /\ (alone[t] => Dropping(t))
        /\ known[t].add \cup known[t].keyless \subseteq DOMAIN persons
        /\ known[t].put \subseteq doing[t].keys
        /\ known[t].put # {} => known[t].cur \in DOMAIN persons
    BY <1>1, DropFacts
  <1>5. PICK k \in Facts : k = [known[t] EXCEPT !.add = @ \ {i}]
    BY <1>4 DEF Facts
  <1>6. /\ k.del = known[t].del /\ k.add = known[t].add \ {i} /\ k.keyless = known[t].keyless
        /\ k.put = known[t].put /\ k.cur = known[t].cur
    BY <1>4, <1>5 DEF Facts
  <1>7. known' = [known EXCEPT ![t] = k] /\ known'[t] = k /\ doing' = doing
    BY <1>2, <1>4, <1>5 DEF Keep, UsersOK
  <1>8. AccountsOK'
    BY <1>2, <1>3, <1>4 DEF UsersOK, AccountsOK
  <1>9. ToBe(t)' = ToBe(t)
    BY <1>1, <1>2, <1>4, <1>6, <1>7 DEF ToBe, The, UsersOK, AccountsOK
  <1>10. alone[t] => Dropping(t)'
    BY <1>3, <1>4, <1>6, <1>7, <1>9 DEF Dropping, HrnsOf
  <1>11. \A s \in Slices \ {The(t)} : members'[s] = members[s]
    BY <1>2, <1>4 DEF UsersOK, AccountsOK
  <1> QED BY <1>1, <1>3, <1>4, <1>6, <1>7, <1>8, <1>10, <1>11, PersonsKeep

LEMMA ReadKeysKeeps ==
  ASSUME UsersIInv, NEW t \in Threads, ReadKeys(t)
  PROVE  UsersIInv'
  <1>1. next[t] = "drop" /\ known[t].put = {}
    BY DEF ReadKeys, Is
  <1>2. PICK i \in known[t].keyless :
          Keep(t, [known[t] EXCEPT !.keyless = @ \ {i}, !.cur = i,
                                   !.put = doing[t].keys \ persons[i].keys])
    BY DEF ReadKeys
  <1>3. UNCHANGED <<site, accountsOf, tagsOf, next>> /\ Writes
    BY DEF ReadKeys, Looks, plcUsers
  <1>4. /\ UsersOK /\ doing[t] \in Demands /\ known[t] \in Facts /\ (alone[t] => Dropping(t))
        /\ known[t].add \cup known[t].keyless \subseteq DOMAIN persons
        /\ \A m \in DOMAIN persons : m \in Nat /\ persons[m] \in Person
    BY <1>1, DropFacts
  <1>5. i \in DOMAIN persons /\ i \in Nat /\ doing[t].keys \subseteq PubKeys
    BY <1>2, <1>4
  <1>6. PICK k \in Facts : k = [known[t] EXCEPT !.keyless = @ \ {i}, !.cur = i,
                                                !.put = doing[t].keys \ persons[i].keys]
    BY <1>4, <1>5 DEF Facts
  <1>7. /\ k.del = known[t].del /\ k.add = known[t].add /\ k.keyless = known[t].keyless \ {i}
        /\ k.put = doing[t].keys \ persons[i].keys /\ k.cur = i
    BY <1>4, <1>6 DEF Facts
  <1>8. known' = [known EXCEPT ![t] = k] /\ known'[t] = k /\ doing' = doing
    BY <1>2, <1>4, <1>6 DEF Keep, UsersOK
  <1>9. AccountsOK' /\ members' = members /\ persons' = persons
    BY <1>3, <1>4 DEF UsersOK, AccountsOK, accountsOf
  <1>10. ToBe(t)' = ToBe(t)
    BY <1>7, <1>8, <1>9 DEF ToBe, The
  <1>11. alone[t] => Dropping(t)'
    BY <1>1, <1>4, <1>7, <1>8, <1>9, <1>10 DEF Dropping, HrnsOf
  <1> QED BY <1>1, <1>3, <1>4, <1>5, <1>7, <1>8, <1>9, <1>11, PersonsKeep

LEMMA AddPersonKeyKeeps ==
  ASSUME UsersIInv, NEW t \in Threads, AddPersonKey(t)
  PROVE  UsersIInv'
  <1>1. next[t] = "drop"
    BY DEF AddPersonKey, Is
  <1>2. PICK x \in known[t].put :
          /\ persons' = [persons EXCEPT ![known[t].cur].keys = @ \cup {x}]
          /\ Keep(t, [known[t] EXCEPT !.put = @ \ {x}])
    BY DEF AddPersonKey
  <1>3. UNCHANGED <<site, members, tagsOf, next>> /\ Writes
    BY DEF AddPersonKey
  <1>4. /\ UsersOK /\ doing[t] \in Demands /\ known[t] \in Facts /\ (alone[t] => Dropping(t))
        /\ known[t].add \cup known[t].keyless \subseteq DOMAIN persons
        /\ known[t].put \subseteq doing[t].keys
        /\ known[t].cur \in DOMAIN persons
        /\ \A m \in DOMAIN persons : m \in Nat /\ persons[m] \in Person
    BY <1>1, <1>2, DropFacts
  <1>5. x \in PubKeys
    BY <1>2, <1>4
  <1>6. PICK k \in Facts : k = [known[t] EXCEPT !.put = @ \ {x}]
    BY <1>4 DEF Facts
  <1>7. /\ k.del = known[t].del /\ k.add = known[t].add /\ k.keyless = known[t].keyless
        /\ k.put = known[t].put \ {x} /\ k.cur = known[t].cur
    BY <1>4, <1>6 DEF Facts
  <1>8. known' = [known EXCEPT ![t] = k] /\ known'[t] = k /\ doing' = doing
    BY <1>2, <1>4, <1>6 DEF Keep, UsersOK
  <1>9. /\ DOMAIN persons' = DOMAIN persons
        /\ \A i \in DOMAIN persons : /\ persons'[i] \in Person /\ persons'[i].hrn = persons[i].hrn
                                     /\ persons[i].keys \subseteq persons'[i].keys
        /\ x \in persons'[k.cur].keys
    <2>1. DOMAIN persons' = DOMAIN persons
          /\ \A i \in DOMAIN persons \ {k.cur} : persons'[i] = persons[i]
      BY <1>2, <1>7
    <2>2. persons'[k.cur] = [persons[k.cur] EXCEPT !.keys = @ \cup {x}]
      BY <1>2, <1>4, <1>7
    <2>3. /\ persons'[k.cur] \in Person /\ persons'[k.cur].hrn = persons[k.cur].hrn
          /\ persons'[k.cur].keys = persons[k.cur].keys \cup {x}
      BY <1>4, <1>5, <1>7, <2>2 DEF Person
    <2> QED BY <1>4, <2>1, <2>3
  <1>10. AccountsOK'
    <2>1. persons' = [i \in DOMAIN persons |-> persons'[i]]
      BY <1>2
    <2>2. persons' \in [DOMAIN persons -> Person]
      BY <1>9, <2>1
    <2> QED BY <1>3, <1>4, <1>9, <2>2 DEF UsersOK, AccountsOK
  <1>11. ToBe(t)' = ToBe(t)
    BY <1>3, <1>7, <1>8 DEF ToBe, The
  <1>12. ASSUME alone[t] PROVE Dropping(t)'
    <2>1. Dropping(t) /\ ToBe(t) \subseteq DOMAIN persons
      BY <1>4, <1>12 DEF UsersOK, AccountsOK, ToBe, The
    <2>2. HrnsOf(ToBe(t))' = HrnsOf(ToBe(t))
      BY <1>9, <1>11, <2>1 DEF HrnsOf
    <2>3. \A i \in ToBe(t) : i \notin k.keyless => \A y \in doing[t].keys :
             y \in persons'[i].keys \/ (i = k.cur /\ y \in k.put)
      BY <1>7, <1>9, <2>1 DEF Dropping
    <2> QED BY <1>8, <1>11, <2>1, <2>2, <2>3 DEF Dropping
  <1>13. k.add \cup k.keyless \subseteq DOMAIN persons /\ k.put \subseteq doing[t].keys
         /\ k.cur \in DOMAIN persons
    BY <1>4, <1>7
  <1> QED BY <1>1, <1>3, <1>8, <1>9, <1>10, <1>12, <1>13, PersonsKeep

-----------------------------------------------------------------------------
(* verify_slice_tags and verify_slice_links *)

LEMMA PersonsAreSet ==
  ASSUME UsersIInv, NEW t \in Threads, PersonsDone(t), alone[t]
  PROVE  UsersSet(The(t), doing[t])
  <1>1. next[t] = "drop" /\ known[t].del = {} /\ known[t].add = {}
        /\ known[t].keyless = {} /\ known[t].put = {}
    BY DEF PersonsDone, Is
  <1>2. Dropping(t) /\ ToBe(t) = members[The(t)]
    BY <1>1, DropFacts DEF ToBe
  <1> QED BY <1>1, <1>2 DEF Dropping, UsersSet

LEMMA ReadTagsKeeps ==
  ASSUME UsersIInv, NEW t \in Threads, ReadTags(t)
  PROVE  UsersIInv'
  <1>1. /\ PersonsDone(t) /\ doing[t].op = "Allocate" /\ doing[t].pltags # "ignore" /\ Go(t, "sync")
        /\ UNCHANGED plcUsers /\ Writes
    BY DEF ReadTags, Looks
  <1>2. next[t] = "drop"
    BY <1>1 DEF PersonsDone, Is
  <1>3. UsersOK /\ doing[t] \in Demands /\ The(t) \in Slices /\ known[t] \in Facts
    BY <1>2, DropFacts
  <1>4. tags[The(t)] \subseteq Tags /\ egre[The(t)] \subseteq EgreKeys /\ doing[t].tags \subseteq Tags
    BY <1>3 DEF UsersOK
  <1>5. Unwanted(t) \subseteq Nat \cup Tags /\ (doing[t].tags \cap Managed) \ tags[The(t)] \subseteq Tags
    BY <1>4 DEF Unwanted
  <1>6. PICK k \in Facts : k = [known[t] EXCEPT !.del = Unwanted(t),
                                   !.add = (doing[t].tags \cap Managed) \ tags[The(t)]]
    BY <1>3, <1>5 DEF Facts
  <1>7. k.del = Unwanted(t) /\ k.add = (doing[t].tags \cap Managed) \ tags[The(t)]
    BY <1>3, <1>6 DEF Facts
  <1>8. /\ known' = [known EXCEPT ![t] = k] /\ known'[t] = k /\ doing' = doing /\ next'[t] = "sync"
        /\ members' = members /\ persons' = persons /\ tags' = tags /\ egre' = egre
    BY <1>1, <1>3, <1>6 DEF ReadTags, Keep, UsersOK, Go, plcUsers, accountsOf, tagsOf
  <1>9. Ready(t)'
    BY <1>1, <1>3, <1>5, <1>7, <1>8 DEF Ready
  <1>10. ASSUME alone[t] PROVE Stage(t)'
    <2>1. UsersSet(The(t), doing[t])
      BY <1>1, <1>10, PersonsAreSet
    <2>2. UsersSet(The(t), doing[t])'
      BY <1>8, <2>1 DEF UsersSet, HrnsOf, The
    <2>3. /\ doing[t].tags \cap Managed \subseteq (tags[The(t)] \ k.del) \cup k.add
          /\ doing[t].pltags = "sync" => /\ (tags[The(t)] \ k.del) \cup k.add \subseteq doing[t].tags
                                         /\ egre[The(t)] \subseteq k.del
      BY <1>4, <1>7 DEF Unwanted
    <2>4. Tagging(t)'
      BY <1>8, <2>2, <2>3 DEF Tagging, TagsToBe, The
    <2> QED BY <1>8, <2>4 DEF Stage
  <1> QED BY <1>1, <1>2, <1>8, <1>9, <1>10, LooksOn DEF Calls

\* The steps that change the slice's tags.
LEMMA TagsKeep ==
  ASSUME UsersIInv, NEW t \in Threads, next[t] = "sync", next' = next, doing' = doing,
         UNCHANGED <<site, accountsOf>>, agreed' = agreed, atOnce' = atOnce,
         alone' \in [Threads -> BOOLEAN], alone'[t] => alone[t],
         \A u \in Threads \ {t} : alone'[u] = alone[u],
         NEW k \in Facts, known' = [known EXCEPT ![t] = k], k.add \subseteq known[t].add,
         tags' \in [Slices -> SUBSET Tags], egre' \in [Slices -> SUBSET EgreKeys],
         \A s \in Slices : egre'[s] \subseteq egre[s],
         \A s \in Slices \ {The(t)} : tags'[s] = tags[s] /\ egre'[s] = egre[s],
         alone'[t] => /\ TagsToBe(t)' = TagsToBe(t)
                      /\ egre[The(t)] \subseteq known[t].del => egre'[The(t)] \subseteq k.del
  PROVE  UsersIInv'
  <1>1. UsersOK /\ Ready(t) /\ known'[t] = k /\ doing[t] \in Demands
    BY DEF UsersIInv, UsersOK, Ready
  <1>2. Frame(t)
    BY <1>1 DEF Frame, UsersOK, site, accountsOf
  <1>3. Ready(t)'
    BY <1>1 DEF Ready
  <1>4. ASSUME alone'[t] PROVE Stage(t)'
    <2>1. Tagging(t)
      BY <1>4 DEF UsersIInv, Stage
    <2>2. UsersSet(The(t), doing[t])'
      BY <2>1 DEF Tagging, UsersSet, HrnsOf, The, accountsOf
    <2>3. Tagging(t)'
      BY <1>1, <1>4, <2>1, <2>2 DEF Tagging, The
    <2> QED BY <2>3 DEF Stage
  <1>5. Onward(t)
    BY <1>2, <1>3, <1>4 DEF Onward
  <1>6. UsersOK'
    BY <1>1 DEF UsersOK, AccountsOK, site, accountsOf
  <1>7. Apart'
    BY <1>2, ApartStays DEF HasKey, Is
  <1> QED BY <1>5, <1>6, <1>7, GoesOnWith

LEMMA DeleteSliceTagKeeps ==
  ASSUME UsersIInv, NEW t \in Threads, DeleteSliceTag(t)
  PROVE  UsersIInv'
  <1>1. next[t] = "sync"
    BY DEF DeleteSliceTag, Is
  <1>2. PICK x \in known[t].del :
          /\ tags' = [tags EXCEPT ![The(t)] = @ \ {x}] /\ egre' = [egre EXCEPT ![The(t)] = @ \ {x}]
          /\ Keep(t, [known[t] EXCEPT !.del = @ \ {x}])
    BY DEF DeleteSliceTag
  <1>3. UNCHANGED <<site, accountsOf, next>> /\ Writes
    BY DEF DeleteSliceTag
  <1>4. UsersOK /\ known[t] \in Facts /\ doing[t] \in Demands /\ The(t) \in Slices
    BY <1>1 DEF UsersIInv, UsersOK, Ready, The
  <1>5. PICK k \in Facts : k = [known[t] EXCEPT !.del = @ \ {x}]
    BY <1>4 DEF Facts
  <1>6. k.del = known[t].del \ {x} /\ k.add = known[t].add
    BY <1>4, <1>5 DEF Facts
  <1>7. known' = [known EXCEPT ![t] = k] /\ known'[t] = k /\ doing' = doing
    BY <1>2, <1>4, <1>5 DEF Keep, UsersOK
  <1>8. /\ tags' \in [Slices -> SUBSET Tags] /\ egre' \in [Slices -> SUBSET EgreKeys]
        /\ \A s \in Slices : egre'[s] \subseteq egre[s]
        /\ \A s \in Slices \ {The(t)} : tags'[s] = tags[s] /\ egre'[s] = egre[s]
        /\ tags'[The(t)] = tags[The(t)] \ {x} /\ egre'[The(t)] = egre[The(t)] \ {x}
    BY <1>2, <1>4 DEF UsersOK
  <1>9. TagsToBe(t)' = TagsToBe(t)
    BY <1>2, <1>6, <1>7, <1>8 DEF TagsToBe, The
  <1>10. egre[The(t)] \subseteq known[t].del => egre'[The(t)] \subseteq k.del
    BY <1>6, <1>8
  <1> QED BY <1>1, <1>3, <1>4, <1>6, <1>7, <1>8, <1>9, <1>10, TagsKeep DEF Writes, memories, UsersOK

LEMMA AddSliceTagKeeps ==
  ASSUME UsersIInv, NEW t \in Threads, AddSliceTag(t)
  PROVE  UsersIInv'
  <1>1. next[t] = "sync" /\ known[t].del = {}
    BY DEF AddSliceTag, Is
  <1>2. PICK x \in known[t].add :
          /\ tags' = [tags EXCEPT ![The(t)] = @ \cup {x}]
          /\ Keep(t, [known[t] EXCEPT !.add = @ \ {x}])
    BY DEF AddSliceTag
  <1>3. UNCHANGED <<site, accountsOf, egre, next>> /\ Writes
    BY DEF AddSliceTag
  <1>4. /\ UsersOK /\ known[t] \in Facts /\ doing[t] \in Demands /\ The(t) \in Slices
        /\ known[t].add \subseteq Tags
    BY <1>1 DEF UsersIInv, UsersOK, Ready, The
  <1>5. PICK k \in Facts : k = [known[t] EXCEPT !.add = @ \ {x}]
    BY <1>4 DEF Facts
  <1>6. k.del = known[t].del /\ k.add = known[t].add \ {x}
    BY <1>4, <1>5 DEF Facts
  <1>7. known' = [known EXCEPT ![t] = k] /\ known'[t] = k /\ doing' = doing
    BY <1>2, <1>4, <1>5 DEF Keep, UsersOK
  <1>8. /\ tags' \in [Slices -> SUBSET Tags]
        /\ \A s \in Slices \ {The(t)} : tags'[s] = tags[s]
        /\ tags'[The(t)] = tags[The(t)] \cup {x}
    BY <1>2, <1>4 DEF UsersOK
  <1>9. TagsToBe(t)' = TagsToBe(t)
    BY <1>1, <1>2, <1>6, <1>7, <1>8 DEF TagsToBe, The
  <1>10. egre' = egre /\ egre \in [Slices -> SUBSET EgreKeys]
    BY <1>3, <1>4 DEF UsersOK
  <1> QED BY <1>1, <1>3, <1>4, <1>6, <1>7, <1>8, <1>9, <1>10, TagsKeep DEF Writes, memories, UsersOK

LEMMA TagsAreSet ==
  ASSUME UsersIInv, NEW t \in Threads, TagsDone(t)
  PROVE  /\ doing[t] \in Demands /\ doing[t].op = "Allocate" /\ next[t] \in {"drop", "sync"}
         /\ alone[t] => /\ UsersSet(The(t), doing[t]) /\ TagsSet(The(t), doing[t])
                        /\ NoKeys(The(t), doing[t])
  <1>1. CASE PersonsDone(t) /\ doing[t].op = "Allocate" /\ doing[t].pltags = "ignore"
    BY <1>1, PersonsAreSet DEF UsersIInv, Ready, PersonsDone, Is, TagsSet, NoKeys
  <1>2. CASE Is(t, "sync") /\ known[t].del \cup known[t].add = {}
    <2>1. next[t] = "sync" /\ Ready(t) /\ known[t].del = {} /\ known[t].add = {}
      BY <1>2 DEF Is, UsersIInv
    <2>2. alone[t] => Tagging(t) /\ TagsToBe(t) = tags[The(t)]
      BY <2>1 DEF UsersIInv, Stage, TagsToBe
    <2> QED BY <2>1, <2>2 DEF Ready, Tagging, TagsSet, NoKeys
  <1> QED BY <1>1, <1>2 DEF TagsDone

LEMMA FindEgreKeyKeeps ==
  ASSUME UsersIInv, NEW t \in Threads, FindEgreKey(t)
  PROVE  UsersIInv'
  <1>1. TagsDone(t) /\ doing[t].links # {}
    BY DEF FindEgreKey
  <1>2. /\ UsersOK /\ next[t] \in {"drop", "sync"} /\ doing[t] \in Demands
        /\ doing[t].op = "Allocate" /\ known[t] \in Facts
        /\ alone[t] => /\ UsersSet(The(t), doing[t]) /\ TagsSet(The(t), doing[t])
                       /\ NoKeys(The(t), doing[t])
    BY <1>1, TagsAreSet DEF UsersIInv, UsersOK
  <1>3. CASE GiveUp(t)
    BY <1>2, <1>3, GiveUpKeeps
  <1>4. CASE /\ topology = "listed"
             /\ \E x \in FreeEgreKeys(t) : Keep(t, [known[t] EXCEPT !.put = {x}])
             /\ Go(t, "egre")
             /\ atOnce' = (atOnce \/ \E u \in Threads \ {t} : HasKey(u))
             /\ UNCHANGED <<plcUsers, counts, alone, agreed>>
    <2>1. PICK x \in FreeEgreKeys(t) : Keep(t, [known[t] EXCEPT !.put = {x}])
      BY <1>4
    <2>2. x \in EgreKeys /\ \A s \in Slices : x \notin egre[s]
      BY DEF FreeEgreKeys, Used
    <2>3. PICK k \in Facts : k = [known[t] EXCEPT !.put = {x}]
      BY <1>2, <2>2 DEF Facts
    <2>4. k.put = {x}
      BY <1>2, <2>3 DEF Facts
    <2>5. /\ known' = [known EXCEPT ![t] = k] /\ known'[t] = k /\ doing' = doing /\ next'[t] = "egre"
          /\ UNCHANGED <<topology, theSite, made, persons, members, tags, egre, alone, agreed>>
      BY <1>2, <1>4, <2>1, <2>3 DEF Keep, Go, UsersOK, plcUsers, site, accountsOf, tagsOf
    <2>6. Frame(t)
      BY <1>2, <1>4, <2>5 DEF Frame, UsersOK, Go
    <2>7. Ready(t)'
      BY <1>1, <1>2, <1>4, <2>2, <2>4, <2>5 DEF Ready
    <2>8. alone[t] => Stage(t)'
      BY <1>2, <2>5 DEF Stage, UsersSet, TagsSet, NoKeys, HrnsOf, The, Linked
    <2>9. Onward(t)
      BY <2>5, <2>6, <2>7, <2>8 DEF Onward
    <2>10. UsersOK'
      <3>1. atOnce' \in BOOLEAN
        BY <1>2, <1>4
      <3> QED BY <1>2, <1>4, <2>5, <3>1 DEF UsersOK, AccountsOK, Go, Calls
    <2>11. Apart'
      <3> SUFFICES ASSUME ~atOnce'
                   PROVE  /\ \A r, s \in Slices : r # s => egre'[r] \cap egre'[s] = {}
                          /\ \A u \in Threads : HasKey(u)' =>
                               /\ \A s \in Slices : known'[u].put \cap egre'[s] = {}
                               /\ \A v \in Threads \ {u} : ~HasKey(v)'
        BY DEF Apart
      <3>1. ~atOnce /\ \A u \in Threads \ {t} : ~HasKey(u)
        BY <1>4
      <3>2. \A r, s \in Slices : r # s => egre'[r] \cap egre'[s] = {}
        BY <2>5, <3>1 DEF UsersIInv, Apart
      <3>3. \A u \in Threads \ {t} : ~HasKey(u)'
        BY <2>6, <3>1 DEF Frame, HasKey, Is
      <3>4. \A s \in Slices : known'[t].put \cap egre'[s] = {}
        BY <2>2, <2>4, <2>5
      <3> QED BY <3>2, <3>3, <3>4
    <2> QED BY <1>2, <2>9, <2>10, <2>11, GoesOnWith
  <1> QED BY <1>3, <1>4 DEF FindEgreKey

LEMMA ReadLinkTagsKeeps ==
  ASSUME UsersIInv, NEW t \in Threads, ReadLinkTags(t)
  PROVE  UsersIInv'
  <1>1. next[t] = "egre" /\ Go(t, "links") /\ UNCHANGED plcUsers /\ Writes
    BY DEF ReadLinkTags, Is, Looks
  <1>2. /\ UsersOK /\ doing[t] \in Demands /\ The(t) \in Slices /\ known[t] \in Facts
        /\ doing[t].op = "Allocate" /\ doing[t].links # {} /\ topology = "listed"
    BY <1>1 DEF UsersIInv, UsersOK, Ready, The
  <1>3. PICK x \in EgreKeys : known[t].put = {x}
    BY <1>1 DEF UsersIInv, Ready
  <1>4. doing[t].links \ tags[The(t)] \subseteq Tags
    BY <1>2
  <1>5. PICK k \in Facts : k = [known[t] EXCEPT !.add = doing[t].links \ tags[The(t)],
                                               !.put = @ \ egre[The(t)]]
    BY <1>2, <1>4 DEF Facts
  <1>6. k.add = doing[t].links \ tags[The(t)] /\ k.put = {x} \ egre[The(t)]
    BY <1>2, <1>3, <1>5 DEF Facts
  <1>7. /\ known' = [known EXCEPT ![t] = k] /\ known'[t] = k /\ doing' = doing /\ next'[t] = "links"
        /\ UNCHANGED <<topology, theSite, made, persons, members, tags, egre, alone, agreed, atOnce>>
    BY <1>1, <1>2, <1>5 DEF ReadLinkTags, Keep, Go, UsersOK, plcUsers, site, accountsOf, tagsOf, Writes, memories
  <1>8. Frame(t)
    BY <1>1, <1>2, <1>7 DEF Frame, UsersOK, Go
  <1>9. Ready(t)'
    BY <1>2, <1>4, <1>6, <1>7 DEF Ready
  <1>10. ASSUME alone[t] PROVE Stage(t)'
    <2>1. UsersSet(The(t), doing[t]) /\ TagsSet(The(t), doing[t]) /\ NoKeys(The(t), doing[t])
      BY <1>1, <1>10 DEF UsersIInv, Stage
    <2>2. UsersSet(The(t), doing[t])' /\ TagsSet(The(t), doing[t])'
      BY <1>7, <2>1 DEF UsersSet, TagsSet, HrnsOf, The, Linked
    <2>3. Linked(doing[t])' = doing[t].links
      BY <1>2, <1>7 DEF Linked
    <2>4. doing[t].pltags = "sync" => egre[The(t)] \cup k.put = {x}
      BY <1>2, <1>6, <2>1 DEF NoKeys
    <2>5. Linking(t)'
      BY <1>3, <1>6, <1>7, <2>2, <2>3, <2>4 DEF Linking, The
    <2> QED BY <1>7, <2>5 DEF Stage
  <1>11. Onward(t)
    BY <1>7, <1>8, <1>9, <1>10 DEF Onward
  <1>12. UsersOK'
    BY <1>1, <1>2, <1>7 DEF UsersOK, AccountsOK, Go, Calls
  <1>13. Apart'
    <2>1. HasKey(t)
      BY <1>1 DEF HasKey, Is
    <2>2. \A u \in Threads : HasKey(u)' => HasKey(u) /\ known'[u].put \subseteq known[u].put
      BY <1>3, <1>6, <1>7, <1>8, <2>1 DEF HasKey, Is, Frame
    <2> QED BY <1>7, <2>2 DEF UsersIInv, Apart
  <1> QED BY <1>1, <1>11, <1>12, <1>13, GoesOnWith

\* The steps that put the key and the tags of links on the slice, or fail to.
LEMMA LinksKeep ==
  ASSUME UsersIInv, NEW t \in Threads, next[t] = "links", next' = next, doing' = doing,
         UNCHANGED <<site, accountsOf>>, agreed' = agreed, atOnce' = atOnce,
         alone' \in [Threads -> BOOLEAN], alone'[t] => alone[t],
         \A u \in Threads \ {t} : alone'[u] = alone[u],
         NEW k \in Facts, known' = [known EXCEPT ![t] = k], k.add \subseteq known[t].add,
         k.put = {} \/ (k.put = known[t].put /\ egre' = egre),
         tags' \in [Slices -> SUBSET Tags], egre' \in [Slices -> SUBSET EgreKeys],
         \A s \in Slices \ {The(t)} : tags'[s] = tags[s] /\ egre'[s] = egre[s],
         egre'[The(t)] \subseteq egre[The(t)] \cup known[t].put,
         alone'[t] => /\ tags[The(t)] \subseteq tags'[The(t)]
                      /\ tags'[The(t)] \cup k.add = tags[The(t)] \cup known[t].add
                      /\ egre'[The(t)] \cup k.put = egre[The(t)] \cup known[t].put
  PROVE  UsersIInv'
  <1>1. /\ UsersOK /\ Ready(t) /\ known'[t] = k /\ doing[t] \in Demands /\ topology' = topology
        /\ The(t) \in Slices
    BY DEF UsersIInv, UsersOK, Ready, site, The
  <1>2. Frame(t)
    BY <1>1 DEF Frame, UsersOK, site, accountsOf
  <1>3. Ready(t)'
    BY <1>1 DEF Ready
  <1>4. ASSUME alone'[t] PROVE Stage(t)'
    <2>1. Linking(t) /\ The(t)' = The(t) /\ Linked(doing[t])' = Linked(doing[t])
      BY <1>1, <1>4 DEF UsersIInv, Stage, The, Linked
    <2>2. UsersSet(The(t), doing[t])'
      BY <2>1 DEF Linking, UsersSet, HrnsOf, The, accountsOf
    <2>3. TagsSet(The(t), doing[t])'
      BY <1>4, <2>1 DEF Linking, TagsSet
    <2>4. Linked(doing[t]) \subseteq tags'[The(t)] \cup k.add
      BY <1>4, <2>1 DEF Linking
    <2>5. doing[t].pltags = "sync" => \E y \in EgreKeys : egre'[The(t)] \cup k.put = {y}
      BY <1>4, <2>1 DEF Linking
    <2>6. Linking(t)'
      BY <1>1, <2>1, <2>2, <2>3, <2>4, <2>5 DEF Linking
    <2> QED BY <2>6 DEF Stage
  <1>5. Onward(t)
    BY <1>2, <1>3, <1>4 DEF Onward
  <1>6. UsersOK'
    BY <1>1 DEF UsersOK, AccountsOK, site, accountsOf
  <1>7. Apart'
    <2> SUFFICES ASSUME ~atOnce
                 PROVE  /\ \A r, s \in Slices : r # s => egre'[r] \cap egre'[s] = {}
                        /\ \A u \in Threads : HasKey(u)' =>
                             /\ \A s \in Slices : known'[u].put \cap egre'[s] = {}
                             /\ \A v \in Threads \ {u} : ~HasKey(v)'
      BY DEF Apart
    <2>1. /\ \A r, s \in Slices : r # s => egre[r] \cap egre[s] = {}
          /\ \A u \in Threads : HasKey(u) =>
               /\ \A s \in Slices : known[u].put \cap egre[s] = {}
               /\ \A v \in Threads \ {u} : ~HasKey(v)
      BY DEF UsersIInv, Apart
    <2>2. known[t].put # {} <=> HasKey(t)
      BY DEF HasKey, Is
    <2>3. \A s \in Slices : s # The(t) => known[t].put \cap egre[s] = {}
      BY <2>1, <2>2
    <2>4. \A r, s \in Slices : r # s => egre'[r] \cap egre'[s] = {}
      BY <1>1, <2>1, <2>3
    <2>5. \A u \in Threads \ {t} : (HasKey(u)' <=> HasKey(u)) /\ known'[u] = known[u]
      BY <1>2 DEF Frame, HasKey, Is
    <2>6. HasKey(t)' => HasKey(t) /\ egre' = egre /\ known'[t].put = known[t].put
      BY <1>1, <2>2 DEF HasKey, Is
    <2>7. ASSUME NEW u \in Threads, HasKey(u)', NEW s \in Slices PROVE known'[u].put \cap egre'[s] = {}
      <3>1. CASE u = t
        BY <2>1, <2>6, <2>7, <3>1
      <3>2. CASE u # t
        <4>1. HasKey(u) /\ known[t].put = {} /\ known'[u] = known[u]
          BY <2>1, <2>2, <2>5, <2>7, <3>2
        <4>2. egre'[s] \subseteq egre[s]
          BY <1>1, <4>1
        <4> QED BY <2>1, <4>1, <4>2
      <3> QED BY <3>1, <3>2
    <2>8. ASSUME NEW u \in Threads, HasKey(u)', NEW v \in Threads \ {u} PROVE ~HasKey(v)'
      BY <2>1, <2>5, <2>6, <2>8
    <2> QED BY <2>4, <2>7, <2>8
  <1> QED BY <1>5, <1>6, <1>7, GoesOnWith

LEMMA LinksFacts ==
  ASSUME UsersIInv, NEW t \in Threads, next[t] = "links"
  PROVE  /\ UsersOK /\ known[t] \in Facts /\ doing[t] \in Demands /\ The(t) \in Slices
         /\ known[t].add \subseteq Tags /\ known[t].put \subseteq EgreKeys
  BY DEF UsersIInv, UsersOK, Ready, The

LEMMA AddEgreKeyKeeps ==
  ASSUME UsersIInv, NEW t \in Threads, AddEgreKey(t)
  PROVE  UsersIInv'
  <1>1. next[t] = "links" /\ UNCHANGED <<site, accountsOf, tags, next>> /\ Writes
        /\ egre' = [egre EXCEPT ![The(t)] = @ \cup known[t].put]
        /\ Keep(t, [known[t] EXCEPT !.put = {}])
    BY DEF AddEgreKey, Is
  <1>2. /\ UsersOK /\ known[t] \in Facts /\ The(t) \in Slices /\ known[t].put \subseteq EgreKeys
    BY <1>1, LinksFacts
  <1>3. PICK k \in Facts : k = [known[t] EXCEPT !.put = {}]
    BY <1>2 DEF Facts
  <1>4. k.put = {} /\ k.add = known[t].add
    BY <1>2, <1>3 DEF Facts
  <1>5. known' = [known EXCEPT ![t] = k] /\ doing' = doing
    BY <1>1, <1>3 DEF Keep
  <1>6. /\ tags' = tags /\ tags \in [Slices -> SUBSET Tags] /\ egre' \in [Slices -> SUBSET EgreKeys]
        /\ \A s \in Slices \ {The(t)} : egre'[s] = egre[s]
        /\ egre'[The(t)] = egre[The(t)] \cup known[t].put
    BY <1>1, <1>2 DEF UsersOK
  <1> QED BY ZenonT(40), <1>1, <1>2, <1>4, <1>5, <1>6, LinksKeep DEF Writes, memories, UsersOK

LEMMA AddLinkTagKeeps ==
  ASSUME UsersIInv, NEW t \in Threads, AddLinkTag(t)
  PROVE  UsersIInv'
  <1>1. next[t] = "links" /\ known[t].put = {} /\ UNCHANGED <<site, accountsOf, egre, next>> /\ Writes
    BY DEF AddLinkTag, Is
  <1>2. PICK x \in known[t].add :
          /\ tags' = [tags EXCEPT ![The(t)] = @ \cup {x}]
          /\ Keep(t, [known[t] EXCEPT !.add = @ \ {x}])
    BY DEF AddLinkTag
  <1>3. UsersOK /\ known[t] \in Facts /\ The(t) \in Slices /\ known[t].add \subseteq Tags
    BY <1>1, LinksFacts
  <1>4. PICK k \in Facts : k = [known[t] EXCEPT !.add = @ \ {x}]
    BY <1>3 DEF Facts
  <1>5. k.put = {} /\ k.add = known[t].add \ {x}
    BY <1>1, <1>3, <1>4 DEF Facts
  <1>6. known' = [known EXCEPT ![t] = k] /\ doing' = doing
    BY <1>2, <1>4 DEF Keep
  <1>7. /\ tags' \in [Slices -> SUBSET Tags] /\ tags'[The(t)] = tags[The(t)] \cup {x}
        /\ \A s \in Slices \ {The(t)} : tags'[s] = tags[s]
        /\ egre' = egre /\ egre \in [Slices -> SUBSET EgreKeys]
    BY <1>1, <1>2, <1>3 DEF UsersOK
  <1>8. k.add \subseteq known[t].add /\ tags'[The(t)] \cup k.add = tags[The(t)] \cup known[t].add
    BY <1>2, <1>5, <1>7
  <1>9. agreed' = agreed /\ atOnce' = atOnce /\ alone' = alone /\ alone \in [Threads -> BOOLEAN]
    BY <1>1, <1>3 DEF Writes, memories, UsersOK
  <1> QED BY <1>1, <1>5, <1>6, <1>7, <1>8, <1>9, LinksKeep

-----------------------------------------------------------------------------
(* Requests, answers and failures *)

\* What the slices have been asked to have, after a step that changes none of it.
LEMMA AgreementsHold ==
  ASSUME UNCHANGED <<topology, persons, members, tags, egre>>,
         \A s \in Slices : agreed'[s] # Nothing =>
           /\ UsersSet(s, agreed'[s]) /\ TagsSet(s, agreed'[s]) /\ LinksSet(s, agreed'[s])
           /\ KeysCounted(s, agreed'[s], Number(agreed'[s]))
  PROVE  Agreements'
  <1>1. ASSUME NEW s \in Slices, agreed'[s] # Nothing
        PROVE  UsersSet(s, agreed[s])' /\ TagsSet(s, agreed[s])' /\ LinksSet(s, agreed[s])'
               /\ KeysCounted(s, agreed[s], Number(agreed[s]))'
    <2>1. PICK d : d = agreed'[s]
      OBVIOUS
    <2>2. UsersSet(s, d) /\ TagsSet(s, d) /\ LinksSet(s, d) /\ KeysCounted(s, d, Number(d))
      BY <1>1, <2>1
    <2>3. UsersSet(s, agreed[s])'
      BY <2>1, <2>2 DEF UsersSet, HrnsOf
    <2>4. TagsSet(s, agreed[s])' /\ LinksSet(s, agreed[s])'
      BY <2>1, <2>2 DEF TagsSet, LinksSet, Linked
    <2>5. KeysCounted(s, agreed[s], Number(agreed[s]))'
      BY <2>1, <2>2 DEF KeysCounted, Number, Linked
    <2> QED BY <2>3, <2>4, <2>5
  <1> QED BY <1>1 DEF Agreements

LEMMA RespondKeeps ==
  ASSUME UsersIInv, NEW t \in Threads, Respond(t)
  PROVE  UsersIInv'
  <1>1. /\ \/ PersonsDone(t) /\ doing[t].op = "Provision"
           \/ TagsDone(t) /\ (doing[t].links = {} \/ topology = "empty")
           \/ next[t] = "links" /\ known[t].add = {} /\ known[t].put = {}
        /\ Rest(t) /\ UNCHANGED plcUsers /\ atOnce' = atOnce
        /\ agreed' = [agreed EXCEPT ![The(t)] = IF alone[t] THEN doing[t] ELSE Nothing]
    BY DEF Respond, Is
  <1>2. next[t] # "idle"
    BY <1>1, TagsAreSet DEF PersonsDone, Is
  <1>3. UsersOK /\ doing[t] \in Demands /\ The(t) \in Slices
    BY <1>2 DEF UsersIInv, Ready, The
  <1>4. CASE ~alone[t]
    <2>1. agreed[The(t)] = Nothing
      BY <1>2 DEF UsersIInv, Quiet
    <2>2. agreed' = agreed
      BY <1>1, <1>3, <1>4, <2>1 DEF UsersOK
    <2> QED BY <1>1, <1>2, <2>2, RestKeeps
  <1>5. CASE alone[t]
    <2>1. /\ UNCHANGED <<topology, theSite, made, persons, members, tags, egre>>
          /\ next' = [next EXCEPT ![t] = "idle"] /\ doing' = [doing EXCEPT ![t] = Nothing]
          /\ known' = [known EXCEPT ![t] = Blank] /\ alone' = [alone EXCEPT ![t] = FALSE]
          /\ agreed' = [agreed EXCEPT ![The(t)] = doing[t]]
      BY <1>1, <1>5 DEF Rest, Go, plcUsers, site, accountsOf, tagsOf
    <2>2. ASSUME NEW u \in Threads
          PROVE  next'[u] = "idle" /\ known'[u] = Blank /\ ~alone'[u]
      <3>1. CASE u = t
        BY <1>3, <2>1, <3>1 DEF UsersOK
      <3>2. CASE u # t
        <4>1. next[u] = "idle"
          BY <1>5, <3>2 DEF UsersIInv, Quiet
        <4>2. known[u] = Blank
          BY <4>1 DEF UsersIInv, Ready
        <4>3. ~alone[u]
          BY <1>2, <3>2 DEF UsersIInv, Quiet
        <4> QED BY <1>3, <2>1, <3>2, <4>1, <4>2, <4>3 DEF UsersOK
      <3> QED BY <3>1, <3>2
    <2>3. UsersOK'
      BY <1>1, <1>3, <2>1, BlankIsFacts DEF UsersOK, AccountsOK, Calls
    <2>4. Apart'
      BY <1>1, <2>1, <2>2 DEF UsersIInv, Apart, HasKey, Is
    <2>5. Quiet'
      BY <2>2 DEF Quiet
    <2>6. /\ UsersSet(The(t), doing[t]) /\ TagsSet(The(t), doing[t]) /\ LinksSet(The(t), doing[t])
          /\ KeysCounted(The(t), doing[t], Number(doing[t]))
      <3>1. CASE PersonsDone(t) /\ doing[t].op = "Provision"
        BY <1>5, <3>1, PersonsAreSet DEF TagsSet, LinksSet, KeysCounted, Linked
      <3>2. CASE TagsDone(t) /\ (doing[t].links = {} \/ topology = "empty")
        <4>1. Cardinality({}) = 0 /\ Linked(doing[t]) = {}
          BY <3>2, FS_EmptySet DEF Linked
        <4> QED BY <1>5, <3>2, <4>1, TagsAreSet DEF NoKeys, KeysCounted, Number, LinksSet
      <3>3. CASE next[t] = "links" /\ known[t].add = {} /\ known[t].put = {}
        <4>1. Linking(t) /\ Linked(doing[t]) # {}
          BY <1>5, <3>3 DEF UsersIInv, Stage, Ready, Linked
        <4>2. ASSUME doing[t].pltags = "sync" PROVE Cardinality(egre[The(t)]) = 1
          <5>1. PICK k \in EgreKeys : egre[The(t)] = {k}
            BY <3>3, <4>1, <4>2 DEF Linking
          <5> QED BY <5>1, FS_Singleton
        <4> QED BY <3>3, <4>1, <4>2 DEF Linking, LinksSet, KeysCounted, Number
      <3> QED BY <1>1, <3>1, <3>2, <3>3
    <2>7. Agreements'
      <3>1. ASSUME NEW s \in Slices, agreed'[s] # Nothing
            PROVE  /\ UsersSet(s, agreed'[s]) /\ TagsSet(s, agreed'[s]) /\ LinksSet(s, agreed'[s])
                   /\ KeysCounted(s, agreed'[s], Number(agreed'[s]))
        <4>1. CASE s = The(t)
          <5>1. agreed'[s] = doing[t]
            BY <1>3, <2>1, <4>1 DEF UsersOK
          <5> QED BY <2>6, <4>1, <5>1
        <4>2. CASE s # The(t)
          <5>1. agreed'[s] = agreed[s]
            BY <1>3, <2>1, <4>2 DEF UsersOK
          <5> QED BY <3>1, <5>1 DEF UsersIInv, Agreements
        <4> QED BY <4>1, <4>2
      <3> QED BY <2>1, <3>1, AgreementsHold
    <2>8. \A u \in Threads : Ready(u)'
      BY <2>2 DEF Ready
    <2> QED BY <2>2, <2>3, <2>4, <2>5, <2>7, <2>8 DEF UsersIInv
  <1> QED BY <1>4, <1>5

LEMMA DemandKeeps ==
  ASSUME UsersIInv, NEW t \in Threads, Demand(t)
  PROVE  UsersIInv'
  <1>1. PICK d \in Demands :
          /\ doing' = [doing EXCEPT ![t] = d]
          /\ Go(t, IF d.op = "Provision" THEN "members" ELSE "site")
          /\ agreed' = [agreed EXCEPT ![d.slice] = Nothing]
    BY DEF Demand
  <1>2. /\ next[t] = "idle" /\ UNCHANGED <<topology, theSite, made, persons, members, tags, egre, known, atOnce>>
        /\ alone' = [u \in Threads |-> IF u = t THEN {v \in Threads \ {t} : ~Is(v, "idle")} = {} ELSE FALSE]
    BY DEF Demand, Is, plcUsers, site, accountsOf, tagsOf
  <1>3. UsersOK /\ d.slice \in Slices
    BY DEF UsersIInv
  <1>4. /\ next'[t] \in {"members", "site"} /\ doing'[t] = d
        /\ \A u \in Threads \ {t} : next'[u] = next[u] /\ doing'[u] = doing[u]
    BY <1>1, <1>3 DEF UsersOK, Go
  <1>5. \A s \in Slices : agreed'[s] = IF s = d.slice THEN Nothing ELSE agreed[s]
    BY <1>1, <1>3 DEF UsersOK
  <1>6. UsersOK'
    <2>1. agreed' \in [Slices -> Demands \cup {Nothing}] /\ doing' \in [Threads -> Demands \cup {Nothing}]
          /\ next' \in [Threads -> Calls] /\ alone' \in [Threads -> BOOLEAN]
      BY <1>1, <1>2, <1>3 DEF UsersOK, Go, Calls
    <2> QED BY <1>2, <1>3, <2>1 DEF UsersOK, AccountsOK
  <1>7. Apart'
    <2>1. \A u \in Threads : HasKey(u)' => HasKey(u)
      BY <1>2, <1>4 DEF HasKey, Is
    <2> QED BY <1>2, <2>1 DEF UsersIInv, Apart
  <1>8. Quiet'
    <2>1. ASSUME NEW v \in Threads, alone'[v], NEW u \in Threads \ {v} PROVE next'[u] = "idle"
      BY <1>2, <1>4, <2>1 DEF Is
    <2>2. ASSUME NEW u \in Threads, next'[u] # "idle" PROVE agreed'[The(u)'] = Nothing
      <3>1. CASE u = t
        BY <1>3, <1>4, <1>5, <3>1 DEF The
      <3>2. CASE u # t
        <4>1. agreed[The(u)] = Nothing /\ The(u) \in Slices /\ The(u)' = The(u)
          BY <1>4, <2>2, <3>2 DEF UsersIInv, Quiet, Ready, The
        <4> QED BY <1>5, <4>1
      <3> QED BY <3>1, <3>2
    <2>3. ASSUME NEW u \in Threads, next'[u] = "name", NEW s \in Slices, agreed'[s] # Nothing
          PROVE  known'[u].cur \notin members'[s]
      <3>1. u # t /\ next[u] = "name" /\ agreed[s] # Nothing
        BY <1>4, <1>5, <2>3
      <3> QED BY <1>2, <3>1 DEF UsersIInv, Quiet
    <2> QED BY <2>1, <2>2, <2>3 DEF Quiet
  <1>9. Agreements'
    <2>1. ASSUME NEW s \in Slices, agreed'[s] # Nothing PROVE agreed'[s] = agreed[s]
      BY <1>5, <2>1
    <2>2. ASSUME NEW s \in Slices, agreed'[s] # Nothing
          PROVE  /\ UsersSet(s, agreed'[s]) /\ TagsSet(s, agreed'[s]) /\ LinksSet(s, agreed'[s])
                 /\ KeysCounted(s, agreed'[s], Number(agreed'[s]))
      BY <2>1, <2>2 DEF UsersIInv, Agreements
    <2> QED BY <1>2, <2>2, AgreementsHold
  <1>10. ASSUME NEW u \in Threads
         PROVE  Ready(u)' /\ (alone'[u] => Stage(u)')
    <2>1. Ready(u)
      BY DEF UsersIInv
    <2>2. CASE u = t
      BY <1>2, <1>4, <2>1, <2>2 DEF Ready, Stage
    <2>3. CASE u # t
      BY <1>2, <1>4, <2>1, <2>3 DEF Ready
    <2> QED BY <2>2, <2>3
  <1> QED BY <1>6, <1>7, <1>8, <1>9, <1>10 DEF UsersIInv

LEMMA MishapKeeps ==
  ASSUME UsersIInv, NEW t \in Threads, Mishap(t)
  PROVE  UsersIInv'
  <1>1. UsersOK /\ next[t] # "idle" /\ agreed' = agreed /\ atOnce' = atOnce
    BY DEF UsersIInv, Mishap, Is
  <1>2. CASE Rest(t) /\ UNCHANGED plcUsers
    BY <1>1, <1>2, RestKeeps
  <1>3. ASSUME alone' = [alone EXCEPT ![t] = FALSE]
        PROVE  /\ alone' \in [Threads -> BOOLEAN] /\ ~alone'[t]
               /\ \A u \in Threads \ {t} : alone'[u] = alone[u]
    BY <1>1, <1>3 DEF UsersOK
  <1>4. CASE /\ alone' = [alone EXCEPT ![t] = FALSE] /\ Is(t, "create")
             /\ \E h \in known[t].missing : Free(Stub(h)) /\ AddAccount(t, h, Stub(h))
    <2>1. PICK h \in known[t].missing : AddAccount(t, h, Stub(h))
      BY <1>4
    <2> QED BY <1>1, <1>3, <1>4, <2>1, AddAccountKeeps DEF Is
  <1>5. CASE /\ alone' = [alone EXCEPT ![t] = FALSE] /\ Is(t, "links") /\ known[t].put # {}
             /\ Keep(t, [known[t] EXCEPT !.put = {}]) /\ UNCHANGED <<plcUsers, next>>
    <2>1. known[t] \in Facts
      BY <1>1 DEF UsersOK
    <2>2. PICK k \in Facts : k = [known[t] EXCEPT !.put = {}]
      BY <2>1 DEF Facts
    <2>3. k.add = known[t].add /\ k.put = {}
      BY <2>1, <2>2 DEF Facts
    <2>4. /\ known' = [known EXCEPT ![t] = k] /\ doing' = doing
          /\ UNCHANGED <<site, accountsOf, tags, egre, next>>
      BY <1>5, <2>2 DEF Keep, plcUsers, tagsOf
    <2> QED BY <1>1, <1>3, <1>5, <2>3, <2>4, LinksKeep DEF Is, UsersOK
  <1>6. CASE /\ alone' = [alone EXCEPT ![t] = FALSE]
             /\ Is(t, "sync") \/ (Is(t, "links") /\ known[t].put = {})
             /\ \E x \in known[t].del \cup known[t].add :
                  Keep(t, [known[t] EXCEPT !.del = @ \ {x}, !.add = @ \ {x}])
             /\ UNCHANGED <<plcUsers, next>>
    <2>1. PICK x \in known[t].del \cup known[t].add :
            Keep(t, [known[t] EXCEPT !.del = @ \ {x}, !.add = @ \ {x}])
      BY <1>6
    <2>2. known[t] \in Facts
      BY <1>1 DEF UsersOK
    <2>3. PICK k \in Facts : k = [known[t] EXCEPT !.del = @ \ {x}, !.add = @ \ {x}]
      BY <2>2 DEF Facts
    <2>4. k.add \subseteq known[t].add /\ k.put = known[t].put
      BY <2>2, <2>3 DEF Facts
    <2>5. /\ known' = [known EXCEPT ![t] = k] /\ doing' = doing
          /\ UNCHANGED <<site, accountsOf, tags, egre, next>>
      BY <1>6, <2>1, <2>3 DEF Keep, plcUsers, tagsOf
    <2>6. CASE Is(t, "sync")
      BY <1>1, <1>3, <1>6, <2>4, <2>5, <2>6, TagsKeep DEF Is, UsersOK
    <2>7. CASE Is(t, "links")
      BY <1>1, <1>3, <1>6, <2>4, <2>5, <2>7, LinksKeep DEF Is, UsersOK
    <2> QED BY <1>6, <2>6, <2>7
  <1> QED BY <1>2, <1>4, <1>5, <1>6 DEF Mishap

LEMMA RebootKeeps ==
  ASSUME UsersIInv, Reboot
  PROVE  UsersIInv'
  <1>1. /\ doing' = [t \in Threads |-> Nothing] /\ next' = [t \in Threads |-> "idle"]
        /\ known' = [t \in Threads |-> Blank] /\ alone' = [t \in Threads |-> FALSE]
        /\ UNCHANGED <<topology, theSite, made, persons, members, tags, egre, agreed, atOnce>>
    BY DEF Reboot, plcUsers, site, accountsOf, tagsOf
  <1>2. UsersOK'
    BY <1>1, BlankIsFacts DEF UsersIInv, UsersOK, AccountsOK, Calls
  <1>3. Apart' /\ Quiet'
    BY <1>1 DEF UsersIInv, Apart, Quiet, HasKey, Is
  <1>4. Agreements'
    BY <1>1 DEF UsersIInv, Agreements, UsersSet, TagsSet, LinksSet, KeysCounted, HrnsOf, Number, Linked
  <1>5. \A t \in Threads : Ready(t)' /\ ~alone'[t]
    BY <1>1 DEF Ready
  <1> QED BY <1>2, <1>3, <1>4, <1>5 DEF UsersIInv

-----------------------------------------------------------------------------
(* The theorems *)

LEMMA UsersInitInv == UsersInit => UsersIInv
  <1> SUFFICES ASSUME UsersInit PROVE UsersIInv
    OBVIOUS
  <1>1. Cardinality(DOMAIN persons) = 0 /\ DOMAIN persons = {}
    BY FS_EmptySet DEF UsersInit
  <1>2. persons \in [1 .. 0 -> Person]
    BY <1>1 DEF UsersInit
  <1>3. UsersOK
    <2>1. members \in [Slices -> SUBSET DOMAIN persons]
      BY DEF UsersInit
    <2>2. AccountsOK
      BY <1>1, <1>2, <2>1 DEF AccountsOK
    <2>3. known \in [Threads -> Facts]
      BY BlankIsFacts DEF UsersInit
    <2>4. next \in [Threads -> Calls]
      BY DEF UsersInit, Calls
    <2> QED BY <2>2, <2>3, <2>4 DEF UsersInit, UsersOK
  <1>4. Apart /\ Quiet /\ Agreements
    BY DEF UsersInit, Apart, Quiet, Agreements, HasKey, Is
  <1>5. \A t \in Threads : Ready(t) /\ ~alone[t]
    BY DEF UsersInit, Ready
  <1> QED BY <1>3, <1>4, <1>5 DEF UsersIInv

LEMMA UsersNextInv == UsersIInv /\ [UsersNext]_usersVars => UsersIInv'
  <1> SUFFICES ASSUME UsersIInv, [UsersNext]_usersVars PROVE UsersIInv'
    OBVIOUS
  <1>1. CASE Reboot
    BY <1>1, RebootKeeps
  <1>2. ASSUME NEW t \in Threads, Demand(t) \/ UsersStep(t) \/ Mishap(t) PROVE UsersIInv'
    BY <1>2, DemandKeeps, MishapKeeps, FindSiteKeeps, SiteStepsKeep, ReadMembersKeeps,
       ReadPersonsKeeps, AddPersonKeeps, NamePersonKeeps, DropPersonKeeps, AddMemberKeeps,
       ReadKeysKeeps, AddPersonKeyKeeps, ReadTagsKeeps, DeleteSliceTagKeeps, AddSliceTagKeeps,
       FindEgreKeyKeeps, ReadLinkTagsKeeps, AddEgreKeyKeeps, AddLinkTagKeeps, RespondKeeps DEF UsersStep
  <1>3. CASE UNCHANGED usersVars
    <2>1. UNCHANGED <<topology, theSite, made, persons, members, tags, egre, doing, next, known, alone, agreed, atOnce>>
      BY <1>3 DEF usersVars, plcUsers, site, accountsOf, tagsOf, memories
    <2>2. UsersOK' /\ Apart' /\ Quiet'
      BY <2>1 DEF UsersIInv, UsersOK, AccountsOK, Apart, Quiet, The, HasKey, Is
    <2>3. Agreements'
      BY <2>1 DEF UsersIInv, Agreements, UsersSet, TagsSet, LinksSet, KeysCounted, HrnsOf, Number, Linked
    <2>4. ASSUME NEW t \in Threads PROVE Ready(t)' /\ (alone'[t] => Stage(t)')
      <3>1. Ready(t)' /\ (alone[t] => Stage(t))
        BY <2>1 DEF UsersIInv, Ready
      <3> QED BY <2>1, <3>1 DEF Stage, Listing, Accounting, Naming, Dropping, Tagging, ToBe, TagsToBe,
                                UsersSet, TagsSet, NoKeys, KeysCounted, Number, HrnsOf, The,
                                Linking, Linked
    <2> QED BY <2>2, <2>3, <2>4 DEF UsersIInv
  <1> QED BY <1>1, <1>2, <1>3 DEF UsersNext

LEMMA UsersInvariance == PlSlicesSpec => []UsersIInv
  <1>1. PlSlicesInit => UsersIInv
    BY UsersInitInv DEF PlSlicesInit
  <1>2. UsersIInv /\ [PlSlicesNext]_plSlicesVars => UsersIInv'
    BY UsersNextInv DEF PlSlicesNext, OnNodes, OnUsers, plSlicesVars
  <1> QED BY <1>1, <1>2, PTL DEF PlSlicesSpec

\* The types of both halves of an Allocate or Provision: slivers, and accounts,
\* members, tags and keys (PlSlices of plslices.py).
THEOREM AllTypesCorrect == PlSlicesSpec => []PlSlicesTypeOK
  <1>1. UsersIInv => UsersTypeOK
    <2> SUFFICES ASSUME UsersIInv PROVE UsersTypeOK
      OBVIOUS
    <2>1. \A i \in DOMAIN persons : persons[i] \in Person
      BY DEF UsersIInv, UsersOK, AccountsOK
    <2> QED BY <2>1 DEF UsersIInv, UsersOK, AccountsOK, UsersTypeOK, Person
  <1>2. TypeOK /\ UsersIInv => PlSlicesTypeOK
    BY <1>1 DEF PlSlicesTypeOK
  <1> QED BY <1>2, TypeCorrect, UsersInvariance, PTL

\* Whatever overlapped, failed or stopped before: from an undisturbed answer on,
\* until the slice's next request, it has accounts of exactly the users named,
\* each with all the keys, and the tags asked for (verify_persons, verify_keys,
\* verify_slice_tags, verify_slice_links).
THEOREM UsersStayAsAsked == PlSlicesSpec => []UsersAsAsked
  <1>1. UsersIInv => UsersAsAsked
    BY DEF UsersIInv, Agreements, UsersAsAsked, UsersSet, TagsSet, LinksSet, KeysCounted, Number, HrnsOf
  <1> QED BY <1>1, UsersInvariance, PTL

\* Two slices never have the same EGRE key unless two threads looked for a free
\* one at the same time (free_egre_key, which takes no lock).
THEOREM EgreKeysStayApart == PlSlicesSpec => []EgreKeysApart
  <1>1. UsersIInv => EgreKeysApart
    BY DEF UsersIInv, Apart, EgreKeysApart
  <1> QED BY <1>1, UsersInvariance, PTL

=============================================================================
