---------------------------- MODULE AnswersProofs ----------------------------
(***************************************************************************)
(* Theorems about what a PlanetLab aggregate answers, for any number of    *)
(* threads and requests, any ids, testbed and times: a table of call ids   *)
(* lets an id through once and knows it until it is too old;               *)
(* advertisements, from the cache or not, are as old as an entry may get   *)
(* and no older; and descriptions of slivers are made of what was so.      *)
(***************************************************************************)
EXTENDS Manager, TLAPS

Kinds == {"resources", "leases"}

\* The threads' steps, and that an answer shows the parts that a key is about.
Steps == {"idle", "get", "age", "take", "find", "pop", "nodes", "sites", "leases", "add", "set", "renew"}
HasParts(seen, key) == \A part \in Kinds : seen[part] # Nil <=> part \in Parts(key)

AdsTypeOK ==
  /\ testbed \in [resources : Nat, leases : Nat] /\ siteless \in Nat /\ clock \in Nat
  /\ ended \in [resources : Seq(Nat), leases : Seq(Nat)]
  /\ slot \in [Keys -> Nat \cup {Nil}]
  /\ entries \in Seq([data : Seen, expires : Nat])
  /\ keeper \in Readers \cup {Nil}
  /\ where \in [Readers -> Steps]
  /\ ask \in [Readers -> Asking \cup {Nil}]

\* The history has one entry for each change, none of them in the future, and
\* no site is missed by what is still to be read.
HistoryOK ==
  /\ \A part \in Kinds :
       /\ Len(ended[part]) = testbed[part]
       /\ \A n \in 1 .. Len(ended[part]) : ended[part][n] <= clock
       /\ \A m, n \in 1 .. Len(ended[part]) : m <= n => ended[part][m] <= ended[part][n]
  /\ siteless <= testbed.resources

\* What was read is of the testbed, and was to be seen at a given time or later.
SeenSince(seen, t) ==
  \A part \in Kinds : seen[part] # Nil =>
    /\ seen[part] <= testbed[part]
    /\ LastSeen(part, seen[part]) >= t

\* An entry is renewed at most Patience after what it holds was to be seen.
EntriesFresh ==
  \A n \in 1 .. Len(entries) :
    /\ entries[n].expires <= clock + Ttl
    /\ \A part \in Kinds : entries[n].data[part] # Nil =>
         /\ entries[n].data[part] <= testbed[part]
         /\ LastSeen(part, entries[n].data[part]) + Ttl + Patience >= entries[n].expires

SlotsFilled ==
  \A k \in Keys : slot[k] # Nil =>
    slot[k] \in 1 .. Len(entries) /\ HasParts(entries[slot[k]].data, k)

\* The entry that a thread has got is one of its key.
EntryKnown(t) ==
  In(t, "age") \/ In(t, "take") \/ In(t, "renew") =>
    ask[t].entry \in 1 .. Len(entries) /\ HasParts(entries[ask[t].entry].data, Key(t))

\* What a thread has read when, and what it knows of the entry it took.
Progress(t) ==
  /\ In(t, "idle") <=> ask[t] = Nil
  /\ ~In(t, "idle") =>
       /\ ask[t].since <= clock /\ clock <= ask[t].since + Patience
       /\ SeenSince(ask[t].reads, ask[t].since)
  /\ In(t, "nodes") => Key(t) # "leases"
  /\ In(t, "sites") => Key(t) # "leases" /\ ask[t].reads.resources # Nil /\ ask[t].reads.leases = Nil
  /\ In(t, "leases") => Key(t) # "resources" /\ (ask[t].reads.resources # Nil <=> Key(t) = "all")
  /\ In(t, "add") \/ In(t, "set") \/ In(t, "renew") => HasParts(ask[t].reads, Key(t))
  /\ In(t, "get") \/ In(t, "age") \/ In(t, "find") \/ In(t, "pop") \/ In(t, "nodes") =>
       ask[t].reads = Shows(Nil, Nil)
  /\ In(t, "take") => Held(t).expires >= ask[t].since

\* The lock of the cache, and what its keeper has put into the entry.
Locked(t) ==
  /\ In(t, "set") \/ In(t, "renew") <=> keeper = t
  /\ In(t, "renew") => Held(t).data = ask[t].reads

\* A request that nothing overlaps finds what it has just seen.
Undisturbed(t) ==
  ~In(t, "idle") /\ ask[t].alone =>
    /\ \A u \in Readers \ {t} : In(u, "idle")
    /\ In(t, "pop") \/ In(t, "set") => slot[Key(t)] # Nil
    /\ In(t, "sites") => ask[t].reads.resources >= siteless

AdsIInv ==
  /\ AdsTypeOK /\ HistoryOK /\ EntriesFresh /\ SlotsFilled
  /\ \A t \in Readers : EntryKnown(t) /\ Progress(t) /\ Locked(t) /\ Undisturbed(t)

USE AdsAssumption, AskedAssumption, NilAssumption

-----------------------------------------------------------------------------
(* Parts of an advertisement and of the history                               *)

LEMMA PartsOfKeys ==
  /\ Parts("all") = Kinds /\ Parts("resources") = {"resources"} /\ Parts("leases") = {"leases"}
  /\ \A k \in Keys : Parts(k) \subseteq Kinds
  BY DEF Parts, Kinds, Keys

LEMMA ShowsType ==
  ASSUME NEW r \in Nat \cup {Nil}, NEW l \in Nat \cup {Nil}
  PROVE  /\ Shows(r, l) \in Seen /\ Shows(r, l).resources = r /\ Shows(r, l).leases = l
         /\ Shows(r, l) # Nil
  BY DEF Shows, Seen

LEMMA SeenPart ==
  ASSUME NEW seen \in Seen, NEW part \in Kinds
  PROVE  seen[part] \in Nat \cup {Nil} /\ seen # Nil
  BY DEF Seen, Kinds

LEMMA HistoryPart ==
  ASSUME AdsTypeOK, NEW part \in Kinds
  PROVE  ended[part] \in Seq(Nat) /\ testbed[part] \in Nat
  BY DEF AdsTypeOK, Kinds

\* The state of a part is to be seen until it is replaced: the later it came,
\* the longer, and the present one until now.
LEMMA LastSeenType ==
  ASSUME AdsTypeOK, HistoryOK, NEW part \in Kinds, NEW v \in Nat, v <= testbed[part]
  PROVE  LastSeen(part, v) \in Nat /\ LastSeen(part, v) <= clock
  <1>1. ended[part] \in Seq(Nat) /\ Len(ended[part]) = testbed[part] /\ clock \in Nat
    BY HistoryPart DEF HistoryOK, AdsTypeOK
  <1>2. CASE v < Len(ended[part])
    <2>1. v + 1 \in 1 .. Len(ended[part])
      BY <1>1, <1>2
    <2>2. ended[part][v + 1] \in Nat /\ ended[part][v + 1] <= clock
      BY <1>1, <2>1 DEF HistoryOK
    <2> QED BY <1>2, <2>2 DEF LastSeen
  <1>3. CASE ~(v < Len(ended[part]))
    BY <1>1, <1>3 DEF LastSeen
  <1> QED BY <1>2, <1>3

LEMMA PresentIsSeen ==
  ASSUME AdsTypeOK, HistoryOK, NEW part \in Kinds
  PROVE  LastSeen(part, testbed[part]) = clock
  <1>1. ~(testbed[part] < Len(ended[part]))
    BY HistoryPart DEF HistoryOK
  <1> QED BY <1>1 DEF LastSeen

\* Nothing is seen for less long than one knew.
LaterOn ==
  /\ clock' \in Nat /\ clock <= clock'
  /\ \A part \in Kinds :
       /\ testbed[part] <= testbed'[part] /\ testbed'[part] \in Nat
       /\ \A v \in Nat : v <= testbed[part] => LastSeen(part, v)' >= LastSeen(part, v)
                                               /\ LastSeen(part, v)' \in Nat

LEMMA SeenStill ==
  ASSUME AdsTypeOK, HistoryOK, LaterOn, NEW seen \in Seen, NEW t \in Nat, SeenSince(seen, t)
  PROVE  SeenSince(seen, t)'
  <1> SUFFICES ASSUME NEW part \in Kinds, seen[part] # Nil
               PROVE  seen[part] <= testbed'[part] /\ LastSeen(part, seen[part])' >= t
    BY DEF SeenSince
  <1>1. seen[part] \in Nat /\ seen[part] <= testbed[part] /\ LastSeen(part, seen[part]) >= t
    BY SeenPart DEF SeenSince
  <1>2. LastSeen(part, seen[part]) \in Nat
    BY <1>1, LastSeenType
  <1>3. testbed[part] \in Nat /\ testbed[part] <= testbed'[part] /\ testbed'[part] \in Nat
        /\ LastSeen(part, seen[part])' >= LastSeen(part, seen[part]) /\ LastSeen(part, seen[part])' \in Nat
    BY <1>1, HistoryPart DEF LaterOn
  <1> QED BY <1>1, <1>2, <1>3

\* A step of a thread leaves the testbed and the time alone.
Standing == UNCHANGED <<world, clock>>

LEMMA StandingIsLater ==
  ASSUME AdsTypeOK, HistoryOK, Standing
  PROVE  LaterOn /\ HistoryOK'
  <1>1. testbed' = testbed /\ siteless' = siteless /\ ended' = ended /\ clock' = clock
    BY DEF Standing, world
  <1>2. \A part \in Kinds, v \in Nat : LastSeen(part, v)' = LastSeen(part, v)
    BY <1>1 DEF LastSeen
  <1>3. \A part \in Kinds : testbed[part] \in Nat
    BY HistoryPart
  <1>4. \A part \in Kinds, v \in Nat : v <= testbed[part] => LastSeen(part, v) \in Nat
    BY LastSeenType
  <1>5. HistoryOK'
    BY <1>1 DEF HistoryOK
  <1>6. clock \in Nat
    BY DEF AdsTypeOK
  <1> QED BY <1>1, <1>2, <1>3, <1>4, <1>5, <1>6 DEF LaterOn

-----------------------------------------------------------------------------
(* What one thread's step leaves true of the others                           *)

\* Entries stay, are only renewed, keep the parts they have, and those of
\* another thread that has the lock keep what it put into them.
EntriesLater(t) ==
  /\ Len(entries) <= Len(entries')
  /\ \A n \in 1 .. Len(entries) :
       /\ entries'[n].expires >= entries[n].expires
       /\ \A k \in Keys : HasParts(entries[n].data, k) => HasParts(entries'[n].data, k)
       /\ keeper # t => entries'[n].data = entries[n].data

OnlyOf(t) ==
  /\ \A u \in Readers \ {t} : where'[u] = where[u] /\ ask'[u] = ask[u]
  /\ keeper' = keeper \/ (keeper = Nil /\ keeper' = t) \/ (keeper = t /\ keeper' = Nil)

LEMMA Active ==
  ASSUME AdsIInv, NEW t \in Readers, ~In(t, "idle")
  PROVE  ask[t] \in Asking /\ ask[t].since \in Nat /\ ask[t].reads \in Seen /\ Key(t) \in Keys
         /\ clock \in Nat
  <1>1. ask[t] \in Asking
    BY DEF AdsIInv, AdsTypeOK, Progress
  <1> QED BY <1>1 DEF Asking, Key, AdsIInv, AdsTypeOK

LEMMA Element ==
  ASSUME NEW R, NEW s \in Seq(R), NEW n \in 1 .. Len(s)
  PROVE  s[n] \in R
  OBVIOUS

LEMMA EntryType ==
  ASSUME AdsTypeOK, NEW n \in 1 .. Len(entries)
  PROVE  entries[n].data \in Seen /\ entries[n].expires \in Nat
  <1>1. entries \in Seq([data : Seen, expires : Nat])
    BY DEF AdsTypeOK
  <1>2. entries[n] \in [data : Seen, expires : Nat]
    BY <1>1, Element
  <1> QED BY <1>2

LEMMA OthersStay ==
  ASSUME AdsIInv, NEW t \in Readers, ~In(t, "idle"), Standing, OnlyOf(t), EntriesLater(t), AdsTypeOK',
         NEW u \in Readers, u # t
  PROVE  EntryKnown(u)' /\ Progress(u)' /\ Locked(u)' /\ Undisturbed(u)'
  <1>1. where'[u] = where[u] /\ ask'[u] = ask[u] /\ keeper \in Readers \cup {Nil}
    BY DEF OnlyOf, AdsIInv, AdsTypeOK
  <1>2. EntryKnown(u) /\ Progress(u) /\ Locked(u) /\ Undisturbed(u) /\ Locked(t)
    BY DEF AdsIInv
  <1>3. \A n \in 1 .. Len(entries) : n \in 1 .. Len(entries')
    BY DEF EntriesLater, AdsIInv, AdsTypeOK
  <1>4. EntryKnown(u)'
    <2> SUFFICES ASSUME In(u, "age") \/ In(u, "take") \/ In(u, "renew")
                 PROVE  ask[u].entry \in 1 .. Len(entries') /\ HasParts(entries'[ask[u].entry].data, ask[u].key)
      BY <1>1 DEF EntryKnown, In, Key
    <2>1. ask[u].entry \in 1 .. Len(entries) /\ HasParts(entries[ask[u].entry].data, ask[u].key)
      BY <1>2 DEF EntryKnown, Key
    <2>2. ask[u].key \in Keys
      BY Active DEF In, Key
    <2> QED BY <1>3, <2>1, <2>2 DEF EntriesLater
  <1>5. Progress(u)'
    <2>1. clock' = clock /\ (In(u, "idle") <=> In(u, "idle")') /\ Key(u)' = Key(u)
      BY <1>1 DEF Standing, In, Key
    <2>2. ~In(u, "idle") => SeenSince(ask[u].reads, ask[u].since)'
      <3>1. LaterOn /\ AdsTypeOK /\ HistoryOK
        BY StandingIsLater DEF AdsIInv
      <3> SUFFICES ASSUME ~In(u, "idle") PROVE SeenSince(ask[u].reads, ask[u].since)'
        OBVIOUS
      <3>2. SeenSince(ask[u].reads, ask[u].since)
        BY <1>2 DEF Progress
      <3>3. ask[u].reads \in Seen /\ ask[u].since \in Nat
        BY Active
      <3>4. \A seen \in Seen, s \in Nat : SeenSince(seen, s) => SeenSince(seen, s)'
        BY <3>1, SeenStill
      <3> QED BY <1>1, <3>2, <3>3, <3>4 DEF SeenSince
    <2>3. In(u, "take") => Held(u)'.expires >= ask[u].since
      <3> SUFFICES ASSUME In(u, "take") PROVE Held(u)'.expires >= ask[u].since
        OBVIOUS
      <3>1. ask[u].entry \in 1 .. Len(entries) /\ Held(u).expires >= ask[u].since
        BY <1>2 DEF EntryKnown, Progress
      <3>2. Held(u)' = entries'[ask[u].entry] /\ Held(u) = entries[ask[u].entry]
        BY <1>1 DEF Held
      <3>3. Held(u)'.expires >= Held(u).expires
        BY <3>1, <3>2 DEF EntriesLater
      <3>4. Held(u)'.expires \in Nat /\ Held(u).expires \in Nat /\ ask[u].since \in Nat
        <4>1. ask[u].entry \in 1 .. Len(entries')
          BY <1>3, <3>1
        <4>2. entries' \in Seq([data : Seen, expires : Nat])
          BY DEF AdsTypeOK
        <4>3. entries'[ask[u].entry] \in [data : Seen, expires : Nat]
          BY <4>1, <4>2, Element
        <4> QED BY <3>1, <3>2, <4>3, EntryType, Active DEF AdsIInv, In
      <3> QED BY <3>1, <3>3, <3>4
    <2> QED BY <1>1, <1>2, <2>1, <2>2, <2>3 DEF Progress, In, Key, SeenSince
  <1>6. Locked(u)'
    <2>1. keeper' = u <=> keeper = u
      BY DEF OnlyOf
    <2>2. In(u, "renew") => Held(u)'.data = Held(u).data
      <3> SUFFICES ASSUME In(u, "renew") PROVE Held(u)'.data = Held(u).data
        OBVIOUS
      <3>1. keeper # t /\ ask[u].entry \in 1 .. Len(entries)
        BY <1>2 DEF Locked, EntryKnown
      <3> QED BY <1>1, <3>1 DEF Held, EntriesLater
    <2> QED BY <1>1, <1>2, <2>1, <2>2 DEF Locked, In
  <1>7. Undisturbed(u)'
    BY <1>1, <1>2 DEF Undisturbed, In
  <1> QED BY <1>4, <1>5, <1>6, <1>7

LEMMA StepInv ==
  ASSUME AdsIInv, NEW t \in Readers, ~In(t, "idle"), Standing, OnlyOf(t), EntriesLater(t),
         AdsTypeOK', EntriesFresh', SlotsFilled',
         EntryKnown(t)', Progress(t)', Locked(t)', Undisturbed(t)'
  PROVE  AdsIInv'
  <1>1. HistoryOK'
    BY StandingIsLater DEF AdsIInv
  <1> QED BY <1>1, OthersStay DEF AdsIInv

LEMMA StandingSeen ==
  ASSUME Standing
  PROVE  /\ \A part \in Kinds, v \in Nat : LastSeen(part, v)' = LastSeen(part, v)
         /\ testbed' = testbed /\ clock' = clock /\ siteless' = siteless
         /\ \A seen, s : SeenSince(seen, s)' = SeenSince(seen, s)
  BY DEF Standing, world, LastSeen, SeenSince

\* A step that does not touch the cache.
LEMMA StoreStands ==
  ASSUME AdsIInv, Standing, UNCHANGED store, NEW t \in Readers
  PROVE  EntriesLater(t) /\ EntriesFresh' /\ SlotsFilled' /\ keeper' = keeper
         /\ slot' = slot /\ entries' = entries
  <1>1. slot' = slot /\ entries' = entries /\ keeper' = keeper
    BY DEF store
  <1>2. EntriesLater(t)
    BY <1>1, EntryType DEF EntriesLater, AdsIInv, AdsTypeOK
  <1>3. EntriesFresh'
    BY <1>1, StandingSeen, EntryType, SeenPart DEF EntriesFresh, AdsIInv
  <1>4. SlotsFilled'
    BY <1>1 DEF SlotsFilled, AdsIInv, HasParts
  <1> QED BY <1>1, <1>2, <1>3, <1>4

\* A thread that goes on with what it knows.
LEMMA MoveFrame ==
  ASSUME AdsIInv, NEW t \in Readers, ~In(t, "idle"), NEW label \in Steps, Move(t, label), NEW a \in Asking,
         ask' = [ask EXCEPT ![t] = a], keeper' = keeper
  PROVE  /\ OnlyOf(t) /\ where' \in [Readers -> Steps] /\ ask' \in [Readers -> Asking \cup {Nil}]
         /\ where'[t] = label /\ ask'[t] = a
  BY DEF Move, OnlyOf, AdsIInv, AdsTypeOK

\* A thread that has answered, or failed.
LEMMA FinishFrame ==
  ASSUME AdsIInv, NEW t \in Readers, ~In(t, "idle"), NEW answer, Finish(t, answer)
  PROVE  /\ where' \in [Readers -> Steps] /\ ask' \in [Readers -> Asking \cup {Nil}]
         /\ \A u \in Readers \ {t} : where'[u] = where[u] /\ ask'[u] = ask[u]
         /\ where'[t] = "idle" /\ ask'[t] = Nil
         /\ EntryKnown(t)' /\ Progress(t)' /\ Undisturbed(t)'
  <1>1. /\ where' \in [Readers -> Steps] /\ ask' \in [Readers -> Asking \cup {Nil}]
        /\ \A u \in Readers \ {t} : where'[u] = where[u] /\ ask'[u] = ask[u]
        /\ where'[t] = "idle" /\ ask'[t] = Nil
    BY DEF Finish, Move, AdsIInv, AdsTypeOK, Steps
  <1> QED BY <1>1 DEF EntryKnown, Progress, Undisturbed, In

LEMMA TypeStands ==
  ASSUME AdsIInv, Standing, UNCHANGED store,
         where' \in [Readers -> Steps], ask' \in [Readers -> Asking \cup {Nil}]
  PROVE  AdsTypeOK'
  BY DEF Standing, world, store, AdsIInv, AdsTypeOK

LEMMA OthersIdle ==
  ASSUME AdsIInv, NEW t \in Readers, ~In(t, "idle"), ask[t].alone,
         \A u \in Readers \ {t} : where'[u] = where[u]
  PROVE  \A u \in Readers \ {t} : In(u, "idle")'
  BY DEF AdsIInv, Undisturbed, In

\* A step of a thread on its way that keeps the cache: what is left to show.
LEMMA QuietStep ==
  ASSUME AdsIInv, NEW t \in Readers, ~In(t, "idle"), Standing, UNCHANGED store,
         NEW label \in Steps \ {"idle"}, Move(t, label), NEW a \in Asking,
         ask' = [ask EXCEPT ![t] = a], a.key = Key(t), a.since = ask[t].since, a.alone = ask[t].alone,
         SeenSince(a.reads, a.since),
         label \in {"age", "take", "renew"} =>
           a.entry \in 1 .. Len(entries) /\ HasParts(entries[a.entry].data, a.key),
         label = "nodes" => a.key # "leases",
         label = "sites" => a.key # "leases" /\ a.reads.resources # Nil /\ a.reads.leases = Nil,
         label = "leases" => a.key # "resources" /\ (a.reads.resources # Nil <=> a.key = "all"),
         label = "add" => HasParts(a.reads, a.key),
         label \in {"age", "find", "pop", "nodes"} => a.reads = Shows(Nil, Nil),
         label = "take" => entries[a.entry].expires >= a.since,
         label \notin {"get", "set", "renew"}, ~In(t, "set"), ~In(t, "renew"),
         label = "pop" => slot[a.key] # Nil,
         label = "sites" /\ a.alone => a.reads.resources >= siteless
  PROVE  AdsIInv'
  <1>1. /\ EntriesLater(t) /\ EntriesFresh' /\ SlotsFilled' /\ keeper' = keeper
        /\ slot' = slot /\ entries' = entries
    BY StoreStands
  <1>2. /\ OnlyOf(t) /\ where' \in [Readers -> Steps] /\ ask' \in [Readers -> Asking \cup {Nil}]
        /\ where'[t] = label /\ ask'[t] = a
    BY <1>1, MoveFrame
  <1>3. AdsTypeOK' /\ a # Nil
    BY <1>2, TypeStands
  <1>4. EntryKnown(t)'
    BY <1>1, <1>2 DEF EntryKnown, In, Key, HasParts
  <1>5. Progress(t) /\ Locked(t) /\ clock' = clock /\ siteless' = siteless
    BY StandingSeen DEF AdsIInv
  <1>6. SeenSince(a.reads, a.since)'
    BY StandingSeen DEF SeenSince
  <1>7. Progress(t)'
    BY <1>1, <1>2, <1>3, <1>5, <1>6 DEF Progress, In, Key, Held, HasParts, SeenSince, Shows
  <1>8. Locked(t)'
    BY <1>1, <1>2, <1>5 DEF Locked, In
  <1>9. Undisturbed(t)'
    BY <1>1, <1>2, <1>5, OthersIdle DEF Undisturbed, In, Key, OnlyOf
  <1> QED BY <1>1, <1>2, <1>3, <1>4, <1>7, <1>8, <1>9, StepInv

\* A step with which a request comes to its end, and the cache stays as it was.
LEMMA QuietFinish ==
  ASSUME AdsIInv, NEW t \in Readers, ~In(t, "idle"), ~In(t, "set"), ~In(t, "renew"), Standing,
         UNCHANGED store, NEW answer, Finish(t, answer)
  PROVE  AdsIInv'
  <1>1. /\ EntriesLater(t) /\ EntriesFresh' /\ SlotsFilled' /\ keeper' = keeper
    BY StoreStands
  <1>2. /\ where' \in [Readers -> Steps] /\ ask' \in [Readers -> Asking \cup {Nil}]
        /\ OnlyOf(t) /\ where'[t] = "idle"
        /\ EntryKnown(t)' /\ Progress(t)' /\ Undisturbed(t)'
    BY <1>1, FinishFrame DEF OnlyOf
  <1>3. AdsTypeOK' /\ Locked(t)'
    BY <1>1, <1>2, TypeStands DEF Locked, In, AdsIInv
  <1> QED BY <1>1, <1>2, <1>3, StepInv

-----------------------------------------------------------------------------
(* Each step                                                                  *)

\* Where a thread is tells what it knows.
LEMMA Knows ==
  ASSUME AdsIInv, NEW t \in Readers, ~In(t, "idle")
  PROVE  /\ EntryKnown(t) /\ Progress(t) /\ Locked(t) /\ Undisturbed(t)
         /\ SeenSince(ask[t].reads, ask[t].since) /\ t # Nil
  BY DEF AdsIInv, Progress

LEMMA FirstReads ==
  ASSUME NEW key \in Keys
  PROVE  /\ FirstRead(key) \in {"nodes", "leases"}
         /\ FirstRead(key) = "nodes" => key # "leases"
         /\ FirstRead(key) = "leases" => key # "resources" /\ key # "all"
         /\ Shows(Nil, Nil).resources = Nil
  BY DEF FirstRead, Keys, Shows

LEMMA GetEntryInv == ASSUME AdsIInv, NEW t \in Readers, GetEntry(t) PROVE AdsIInv'
  <1>1. ~In(t, "idle") /\ Standing /\ UNCHANGED store /\ ~In(t, "set") /\ ~In(t, "renew")
    BY DEF GetEntry, In, Standing
  <1> DEFINE a == [ask[t] EXCEPT !.entry = slot[Key(t)]]
             label == IF slot[Key(t)] = Nil THEN FirstRead(Key(t)) ELSE "age"
  <1>2. ask[t] \in Asking /\ Key(t) \in Keys /\ slot[Key(t)] \in Nat \cup {Nil}
    BY <1>1, Active DEF AdsIInv, AdsTypeOK
  <1>3. /\ a \in Asking /\ a.key = Key(t) /\ a.since = ask[t].since /\ a.alone = ask[t].alone
        /\ a.reads = ask[t].reads /\ a.entry = slot[Key(t)]
    BY <1>2 DEF Asking, Key
  <1>4. ask' = [ask EXCEPT ![t] = a] /\ Move(t, label)
    BY DEF GetEntry
  <1>5. ask[t].reads = Shows(Nil, Nil) /\ SeenSince(ask[t].reads, ask[t].since)
    BY <1>1, Knows DEF GetEntry, Progress
  <1>6. label \in {"nodes", "leases", "age"} /\ (label = "age" => slot[Key(t)] # Nil)
        /\ (label = "nodes" => Key(t) # "leases")
        /\ (label = "leases" => Key(t) # "resources" /\ Key(t) # "all")
        /\ Shows(Nil, Nil).resources = Nil
    BY <1>2, FirstReads
  <1>7. label = "age" => slot[Key(t)] \in 1 .. Len(entries) /\ HasParts(entries[slot[Key(t)]].data, Key(t))
    BY <1>2, <1>6 DEF AdsIInv, SlotsFilled
  <1>8. label \in Steps \ {"idle"}
    BY <1>6 DEF Steps
  <1> HIDE DEF a, label
  <1> QED BY <1>1, <1>3, <1>4, <1>5, <1>6, <1>7, <1>8, QuietStep

\* A step that changes nothing of what the thread knows.
LEMMA SameAsk ==
  ASSUME AdsIInv, NEW t \in Readers, ~In(t, "idle"), UNCHANGED ask
  PROVE  ask' = [ask EXCEPT ![t] = ask[t]] /\ ask[t] \in Asking
  BY Active DEF AdsIInv, AdsTypeOK

LEMMA CheckAgeInv == ASSUME AdsIInv, NEW t \in Readers, CheckAge(t) PROVE AdsIInv'
  <1>1. ~In(t, "idle") /\ Standing /\ UNCHANGED store /\ ~In(t, "set") /\ ~In(t, "renew")
    BY DEF CheckAge, In, Standing
  <1> DEFINE label == IF IsExpired(Held(t)) THEN "find" ELSE "take"
  <1>2. ask' = [ask EXCEPT ![t] = ask[t]] /\ ask[t] \in Asking /\ Move(t, label) /\ ask[t].key = Key(t)
    BY <1>1, SameAsk DEF CheckAge, Key
  <1>3. /\ ask[t].entry \in 1 .. Len(entries) /\ HasParts(entries[ask[t].entry].data, Key(t))
        /\ ask[t].reads = Shows(Nil, Nil) /\ SeenSince(ask[t].reads, ask[t].since)
        /\ ask[t].since <= clock
    BY <1>1, Knows DEF CheckAge, EntryKnown, Progress
  <1>4. label = "take" => entries[ask[t].entry].expires >= ask[t].since
    <2>1. entries[ask[t].entry].expires \in Nat /\ ask[t].since \in Nat /\ clock \in Nat
      BY <1>1, <1>3, EntryType, Active DEF AdsIInv
    <2> QED BY <1>3, <2>1 DEF IsExpired, Held
  <1>5. label \in {"find", "take"} /\ label \in Steps \ {"idle"}
    BY DEF Steps
  <1> HIDE DEF label
  <1> QED BY <1>1, <1>2, <1>3, <1>4, <1>5, QuietStep

LEMMA TakeDataInv == ASSUME AdsIInv, NEW t \in Readers, TakeData(t) PROVE AdsIInv'
  <1>1. ~In(t, "idle") /\ Standing /\ UNCHANGED store /\ ~In(t, "set") /\ ~In(t, "renew")
    BY DEF TakeData, In, Standing
  <1> QED BY <1>1, QuietFinish DEF TakeData

LEMMA FindKeyInv == ASSUME AdsIInv, NEW t \in Readers, FindKey(t) PROVE AdsIInv'
  <1>1. ~In(t, "idle") /\ Standing /\ UNCHANGED store /\ ~In(t, "set") /\ ~In(t, "renew")
    BY DEF FindKey, In, Standing
  <1> DEFINE label == IF slot[Key(t)] = Nil THEN FirstRead(Key(t)) ELSE "pop"
  <1>2. ask' = [ask EXCEPT ![t] = ask[t]] /\ ask[t] \in Asking /\ Move(t, label) /\ ask[t].key = Key(t)
        /\ Key(t) \in Keys
    BY <1>1, SameAsk, Active DEF FindKey, Key
  <1>3. ask[t].reads = Shows(Nil, Nil) /\ SeenSince(ask[t].reads, ask[t].since)
    BY <1>1, Knows DEF FindKey, Progress
  <1>4. label \in {"nodes", "leases", "pop"} /\ (label = "pop" => slot[Key(t)] # Nil)
        /\ (label = "nodes" => Key(t) # "leases")
        /\ (label = "leases" => Key(t) # "resources" /\ Key(t) # "all")
        /\ Shows(Nil, Nil).resources = Nil
    BY <1>2, FirstReads
  <1>5. label \in Steps \ {"idle"}
    BY <1>4 DEF Steps
  <1> HIDE DEF label
  <1> QED BY <1>1, <1>2, <1>3, <1>4, <1>5, QuietStep

LEMMA GetNodesInv == ASSUME AdsIInv, NEW t \in Readers, GetNodes(t) PROVE AdsIInv'
  <1>1. ~In(t, "idle") /\ Standing /\ UNCHANGED store /\ ~In(t, "set") /\ ~In(t, "renew")
    BY DEF GetNodes, In, Standing
  <1> DEFINE a == [ask[t] EXCEPT !.reads.resources = testbed.resources]
  <1>2. ask[t] \in Asking /\ Key(t) \in Keys /\ ask[t].reads \in Seen /\ testbed.resources \in Nat
    BY <1>1, Active DEF AdsIInv, AdsTypeOK
  <1>3. Key(t) # "leases" /\ ask[t].reads = Shows(Nil, Nil) /\ ask[t].since <= clock
    BY <1>1, Knows DEF GetNodes, Progress
  <1>4. /\ a \in Asking /\ a.key = Key(t) /\ a.since = ask[t].since /\ a.alone = ask[t].alone
        /\ a.reads.resources = testbed.resources /\ a.reads.leases = Nil
    BY <1>2, <1>3 DEF Asking, Key, Seen, Shows
  <1>5. ask' = [ask EXCEPT ![t] = a] /\ Move(t, "sites")
    BY DEF GetNodes
  <1>6. SeenSince(a.reads, a.since)
    <2>1. LastSeen("resources", testbed.resources) = clock /\ testbed["resources"] = testbed.resources
      BY PresentIsSeen DEF Kinds, AdsIInv
    <2> QED BY <1>2, <1>3, <1>4, <2>1 DEF SeenSince, Kinds
  <1>7. testbed.resources >= siteless /\ testbed.resources # Nil /\ "sites" \in Steps \ {"idle"}
    BY <1>2 DEF AdsIInv, HistoryOK, Steps, AdsTypeOK
  <1> HIDE DEF a
  <1> QED BY <1>1, <1>3, <1>4, <1>5, <1>6, <1>7, QuietStep

LEMMA GetSitesInv == ASSUME AdsIInv, NEW t \in Readers, GetSites(t) PROVE AdsIInv'
  <1>1. ~In(t, "idle") /\ Standing /\ UNCHANGED store /\ ~In(t, "set") /\ ~In(t, "renew")
    BY DEF GetSites, In, Standing
  <1>2. CASE Finish(t, Nil)
    BY <1>1, <1>2, QuietFinish
  <1>3. CASE Move(t, IF Key(t) = "resources" THEN "add" ELSE "leases") /\ UNCHANGED ask
    <2> DEFINE label == IF Key(t) = "resources" THEN "add" ELSE "leases"
    <2>1. ask' = [ask EXCEPT ![t] = ask[t]] /\ ask[t] \in Asking /\ Move(t, label) /\ ask[t].key = Key(t)
          /\ Key(t) \in Keys
      BY <1>1, <1>3, SameAsk, Active DEF Key
    <2>2. /\ Key(t) # "leases" /\ ask[t].reads.resources # Nil /\ ask[t].reads.leases = Nil
          /\ SeenSince(ask[t].reads, ask[t].since)
      BY <1>1, Knows DEF GetSites, Progress
    <2>3. label = "add" => HasParts(ask[t].reads, Key(t))
      BY <2>2, PartsOfKeys DEF HasParts, Kinds
    <2>4. label = "leases" => Key(t) = "all"
      BY <2>1, <2>2 DEF Keys
    <2>5. label \in {"add", "leases"} /\ label \in Steps \ {"idle"}
      BY DEF Steps
    <2> HIDE DEF label
    <2> QED BY <1>1, <2>1, <2>2, <2>3, <2>4, <2>5, QuietStep
  <1> QED BY <1>2, <1>3 DEF GetSites

LEMMA GetLeasesInv == ASSUME AdsIInv, NEW t \in Readers, GetLeases(t) PROVE AdsIInv'
  <1>1. ~In(t, "idle") /\ Standing /\ UNCHANGED store /\ ~In(t, "set") /\ ~In(t, "renew")
    BY DEF GetLeases, In, Standing
  <1> DEFINE a == [ask[t] EXCEPT !.reads.leases = testbed.leases]
  <1>2. ask[t] \in Asking /\ Key(t) \in Keys /\ ask[t].reads \in Seen /\ testbed.leases \in Nat
    BY <1>1, Active DEF AdsIInv, AdsTypeOK
  <1>3. /\ Key(t) # "resources" /\ (ask[t].reads.resources # Nil <=> Key(t) = "all")
        /\ ask[t].since <= clock /\ SeenSince(ask[t].reads, ask[t].since)
    BY <1>1, Knows DEF GetLeases, Progress
  <1>4. /\ a \in Asking /\ a.key = Key(t) /\ a.since = ask[t].since /\ a.alone = ask[t].alone
        /\ a.reads.resources = ask[t].reads.resources /\ a.reads.leases = testbed.leases
    BY <1>2, <1>3 DEF Asking, Key, Seen
  <1>5. ask' = [ask EXCEPT ![t] = a] /\ Move(t, "add")
    BY DEF GetLeases
  <1>6. SeenSince(a.reads, a.since)
    <2>1. LastSeen("leases", testbed.leases) = clock /\ testbed["leases"] = testbed.leases
      BY PresentIsSeen DEF Kinds, AdsIInv
    <2> QED BY <1>2, <1>3, <1>4, <2>1 DEF SeenSince, Kinds
  <1>7. HasParts(a.reads, a.key)
    BY <1>2, <1>3, <1>4, PartsOfKeys DEF HasParts, Kinds, Keys
  <1>8. "add" \in Steps \ {"idle"}
    BY DEF Steps
  <1> HIDE DEF a
  <1> QED BY <1>1, <1>4, <1>5, <1>6, <1>7, <1>8, QuietStep

\* The entry of a key is dropped from the dict; who has it keeps it.
LEMMA PopInv == ASSUME AdsIInv, NEW t \in Readers, Pop(t) PROVE AdsIInv'
  <1>1. ~In(t, "idle") /\ Standing /\ ~In(t, "set") /\ ~In(t, "renew")
    BY DEF Pop, In, Standing
  <1>2. CASE Finish(t, Nil) /\ UNCHANGED store
    BY <1>1, <1>2, QuietFinish
  <1>3. CASE /\ slot' = [slot EXCEPT ![Key(t)] = Nil] /\ Move(t, FirstRead(Key(t)))
             /\ UNCHANGED <<entries, keeper, ask>>
    <2> DEFINE label == FirstRead(Key(t))
    <2>1. ask' = [ask EXCEPT ![t] = ask[t]] /\ ask[t] \in Asking /\ Key(t) \in Keys
      BY <1>1, <1>3, SameAsk, Active
    <2>2. /\ label \in {"nodes", "leases"} /\ label \in Steps
          /\ (label = "nodes" => Key(t) # "leases")
          /\ (label = "leases" => Key(t) # "resources" /\ Key(t) # "all")
          /\ Shows(Nil, Nil).resources = Nil
      BY <2>1, FirstReads DEF Steps
    <2>3. /\ OnlyOf(t) /\ where' \in [Readers -> Steps] /\ ask' \in [Readers -> Asking \cup {Nil}]
          /\ where'[t] = label /\ ask'[t] = ask[t]
      BY <1>1, <1>3, <2>1, <2>2, MoveFrame
    <2>4. AdsTypeOK'
      BY <1>1, <1>3, <2>1, <2>3 DEF AdsIInv, AdsTypeOK, Standing, world
    <2>5. EntriesLater(t)
      BY <1>3, EntryType DEF EntriesLater, AdsIInv, AdsTypeOK
    <2>6. EntriesFresh'
      BY <1>1, <1>3, StandingSeen, EntryType, SeenPart DEF EntriesFresh, AdsIInv
    <2>7. SlotsFilled'
      BY <1>3, <2>1 DEF SlotsFilled, AdsIInv, AdsTypeOK, HasParts
    <2>8. Progress(t) /\ ask[t].reads = Shows(Nil, Nil) /\ SeenSince(ask[t].reads, ask[t].since)'
          /\ clock' = clock /\ ask[t] # Nil
      BY <1>1, <2>1, Knows, StandingSeen DEF Pop, Progress, SeenSince
    <2> HIDE DEF label
    <2>9. EntryKnown(t)' /\ Progress(t)'
      BY <2>2, <2>3, <2>8 DEF EntryKnown, Progress, In, Key, SeenSince
    <2>10. Locked(t)' /\ Undisturbed(t)'
      <3>1. Locked(t) /\ Undisturbed(t)
        BY <1>1, Knows
      <3> QED BY <1>1, <1>3, <2>2, <2>3, <3>1, OthersIdle DEF Locked, Undisturbed, In, OnlyOf
    <2> QED BY <1>1, <2>3, <2>4, <2>5, <2>6, <2>7, <2>9, <2>10, StepInv
  <1> QED BY <1>2, <1>3 DEF Pop

\* Cached under the lock, as a new entry of its key, which nobody has yet.
LEMMA AddEntryInv == ASSUME AdsIInv, NEW t \in Readers, AddEntry(t) PROVE AdsIInv'
  <1>1. ~In(t, "idle") /\ Standing /\ ~In(t, "set") /\ ~In(t, "renew") /\ keeper = Nil
    BY DEF AddEntry, In, Standing
  <1>2. /\ ask[t] \in Asking /\ Key(t) \in Keys /\ ask[t].since \in Nat /\ ask[t].reads \in Seen
        /\ clock \in Nat
    BY <1>1, Active
  <1>3. /\ HasParts(ask[t].reads, Key(t)) /\ SeenSince(ask[t].reads, ask[t].since)
        /\ clock <= ask[t].since + Patience /\ Progress(t)
    BY <1>1, Knows DEF AddEntry, Progress
  <1>4. CASE keeper' = t /\ Move(t, "set") /\ UNCHANGED <<slot, entries, ask>> /\ slot[Key(t)] # Nil
    <2>1. /\ OnlyOf(t) /\ where' \in [Readers -> Steps] /\ ask' = ask /\ where'[t] = "set"
      BY <1>1, <1>4 DEF OnlyOf, Move, AdsIInv, AdsTypeOK, Steps
    <2>2. AdsTypeOK'
      BY <1>1, <1>4, <2>1 DEF AdsIInv, AdsTypeOK, Standing, world
    <2>3. EntriesLater(t)
      BY <1>4, EntryType DEF EntriesLater, AdsIInv, AdsTypeOK
    <2>4. EntriesFresh' /\ SlotsFilled'
      BY <1>1, <1>4, StandingSeen, EntryType, SeenPart DEF EntriesFresh, SlotsFilled, AdsIInv, HasParts
    <2>5. SeenSince(ask[t].reads, ask[t].since)' /\ clock' = clock /\ ask[t] # Nil
      BY <1>1, <1>2, <1>3, <2>1, StandingSeen DEF SeenSince
    <2>6. EntryKnown(t)' /\ Progress(t)'
      BY <1>3, <2>1, <2>5 DEF EntryKnown, Progress, In, Key, HasParts, SeenSince
    <2>7. Locked(t)' /\ Undisturbed(t)'
      <3>1. Undisturbed(t)
        BY <1>1, Knows
      <3> QED BY <1>1, <1>4, <2>1, <3>1, OthersIdle DEF Locked, Undisturbed, In, OnlyOf, Key
    <2> QED BY <1>1, <2>1, <2>2, <2>3, <2>4, <2>6, <2>7, StepInv
  <1>5. CASE /\ entries' = Append(entries, [data |-> ask[t].reads, expires |-> clock + Ttl])
             /\ slot' = [slot EXCEPT ![Key(t)] = Len(entries) + 1]
             /\ Finish(t, ask[t].reads) /\ UNCHANGED keeper
    <2> DEFINE e == [data |-> ask[t].reads, expires |-> clock + Ttl]
    <2>1. e \in [data : Seen, expires : Nat] /\ e.data = ask[t].reads /\ e.expires = clock + Ttl
      BY <1>2
    <2>2. entries \in Seq([data : Seen, expires : Nat]) /\ entries' = Append(entries, e)
      BY <1>5 DEF AdsIInv, AdsTypeOK
    <2> HIDE DEF e
    <2>3. /\ entries' \in Seq([data : Seen, expires : Nat]) /\ Len(entries') = Len(entries) + 1
          /\ Len(entries) \in Nat /\ entries'[Len(entries) + 1] = e
          /\ \A n \in 1 .. Len(entries) : entries'[n] = entries[n]
      BY <2>1, <2>2
    <2>4. /\ where' \in [Readers -> Steps] /\ ask' \in [Readers -> Asking \cup {Nil}]
          /\ OnlyOf(t) /\ EntryKnown(t)' /\ Progress(t)' /\ Undisturbed(t)' /\ where'[t] = "idle"
      BY <1>1, <1>5, FinishFrame DEF OnlyOf
    <2>5. AdsTypeOK'
      BY <1>1, <1>2, <1>5, <2>3, <2>4 DEF AdsIInv, AdsTypeOK, Standing, world
    <2>6. EntriesLater(t)
      BY <2>3, EntryType DEF EntriesLater, AdsIInv
    <2>7. EntriesFresh'
      <3> SUFFICES ASSUME NEW n \in 1 .. Len(entries')
                   PROVE  /\ entries'[n].expires <= clock + Ttl
                          /\ \A part \in Kinds : entries'[n].data[part] # Nil =>
                               /\ entries'[n].data[part] <= testbed[part]
                               /\ LastSeen(part, entries'[n].data[part]) + Ttl + Patience >= entries'[n].expires
        BY <1>1 DEF EntriesFresh, Standing, world, LastSeen
      <3>1. CASE n \in 1 .. Len(entries)
        <4>1. entries'[n] = entries[n] /\ entries[n].data \in Seen
          BY <2>3, <3>1, EntryType DEF AdsIInv
        <4> QED BY <3>1, <4>1 DEF EntriesFresh, AdsIInv
      <3>2. CASE n = Len(entries) + 1
        <4> SUFFICES ASSUME NEW part \in Kinds, ask[t].reads[part] # Nil
                     PROVE  /\ ask[t].reads[part] <= testbed[part]
                            /\ LastSeen(part, ask[t].reads[part]) + Ttl + Patience >= clock + Ttl
          <5>1. entries'[n].data = ask[t].reads /\ entries'[n].expires = clock + Ttl
            BY <2>1, <2>3, <3>2
          <5> QED BY <1>2, <5>1
        <4>1. /\ ask[t].reads[part] \in Nat /\ ask[t].reads[part] <= testbed[part]
              /\ LastSeen(part, ask[t].reads[part]) >= ask[t].since
          BY <1>2, <1>3, SeenPart DEF SeenSince
        <4>2. LastSeen(part, ask[t].reads[part]) \in Nat
          BY <4>1, LastSeenType DEF AdsIInv
        <4> QED BY <1>2, <1>3, <4>1, <4>2
      <3> QED BY <2>3, <3>1, <3>2
    <2>8. SlotsFilled'
      <3> SUFFICES ASSUME NEW k \in Keys, slot'[k] # Nil
                   PROVE  slot'[k] \in 1 .. Len(entries') /\ HasParts(entries'[slot'[k]].data, k)
        BY DEF SlotsFilled, HasParts
      <3>1. CASE k = Key(t)
        BY <1>2, <1>3, <1>5, <2>1, <2>3, <3>1 DEF AdsIInv, AdsTypeOK
      <3>2. CASE k # Key(t)
        BY <1>2, <1>5, <2>3, <3>2 DEF AdsIInv, AdsTypeOK, SlotsFilled
      <3> QED BY <3>1, <3>2
    <2>9. Locked(t)'
      BY <1>1, <1>5, <2>4, Knows DEF Locked, In
    <2> QED BY <1>1, <2>4, <2>5, <2>6, <2>7, <2>8, <2>9, StepInv
  <1> QED BY <1>4, <1>5 DEF AddEntry

\* What a thread has read is fit to be cached until Ttl from now.
LEMMA ReadsFresh ==
  ASSUME AdsIInv, NEW t \in Readers, ~In(t, "idle"), NEW part \in Kinds, ask[t].reads[part] # Nil
  PROVE  /\ ask[t].reads[part] <= testbed[part]
         /\ LastSeen(part, ask[t].reads[part]) + Ttl + Patience >= clock + Ttl
         /\ LastSeen(part, ask[t].reads[part]) \in Nat
  <1>1. ask[t].since \in Nat /\ ask[t].reads \in Seen /\ clock \in Nat
    BY Active
  <1>2. SeenSince(ask[t].reads, ask[t].since) /\ clock <= ask[t].since + Patience
    BY Knows DEF Progress
  <1>3. /\ ask[t].reads[part] \in Nat /\ ask[t].reads[part] <= testbed[part]
        /\ LastSeen(part, ask[t].reads[part]) >= ask[t].since
    BY <1>1, <1>2, SeenPart DEF SeenSince
  <1>4. LastSeen(part, ask[t].reads[part]) \in Nat
    BY <1>3, LastSeenType DEF AdsIInv
  <1> QED BY <1>1, <1>2, <1>3, <1>4

\* New data goes into the entry, which lasts as long as before for now.
LEMMA SetDataInv == ASSUME AdsIInv, NEW t \in Readers, SetData(t) PROVE AdsIInv'
  <1>1. ~In(t, "idle") /\ Standing /\ In(t, "set") /\ keeper = t
    BY Knows DEF SetData, In, Standing, Locked
  <1>2. /\ ask[t] \in Asking /\ Key(t) \in Keys /\ ask[t].since \in Nat /\ ask[t].reads \in Seen
        /\ clock \in Nat /\ Progress(t) /\ Undisturbed(t) /\ HasParts(ask[t].reads, Key(t)) /\ t # Nil
    BY <1>1, Active, Knows DEF Progress
  <1>3. CASE keeper' = Nil /\ Finish(t, Nil) /\ UNCHANGED <<slot, entries>>
    <2>1. /\ where' \in [Readers -> Steps] /\ ask' \in [Readers -> Asking \cup {Nil}]
          /\ OnlyOf(t) /\ EntryKnown(t)' /\ Progress(t)' /\ Undisturbed(t)' /\ where'[t] = "idle"
      BY <1>1, <1>3, FinishFrame DEF OnlyOf
    <2>2. AdsTypeOK'
      BY <1>1, <1>3, <2>1 DEF AdsIInv, AdsTypeOK, Standing, world
    <2>3. EntriesLater(t)
      BY <1>3, EntryType DEF EntriesLater, AdsIInv, AdsTypeOK
    <2>4. EntriesFresh' /\ SlotsFilled'
      BY <1>1, <1>3, StandingSeen, EntryType, SeenPart DEF EntriesFresh, SlotsFilled, AdsIInv, HasParts
    <2>5. Locked(t)'
      BY <1>2, <1>3, <2>1 DEF Locked, In
    <2> QED BY <1>1, <2>1, <2>2, <2>3, <2>4, <2>5, StepInv
  <1>4. CASE /\ slot[Key(t)] # Nil
             /\ entries' = [entries EXCEPT ![slot[Key(t)]].data = ask[t].reads]
             /\ ask' = [ask EXCEPT ![t].entry = slot[Key(t)]]
             /\ Move(t, "renew") /\ UNCHANGED <<slot, keeper>>
    <2> DEFINE n == slot[Key(t)]
               a == [ask[t] EXCEPT !.entry = n]
    <2>1. n \in 1 .. Len(entries) /\ HasParts(entries[n].data, Key(t))
      BY <1>2, <1>4 DEF AdsIInv, SlotsFilled
    <2>2. /\ a \in Asking /\ a.key = Key(t) /\ a.since = ask[t].since /\ a.alone = ask[t].alone
          /\ a.reads = ask[t].reads /\ a.entry = n
      BY <1>2, <1>4 DEF Asking, Key, AdsIInv, AdsTypeOK
    <2>3. ask' = [ask EXCEPT ![t] = a] /\ "renew" \in Steps /\ slot' = slot /\ keeper' = keeper
      BY <1>4 DEF Steps
    <2>4. entries \in Seq([data : Seen, expires : Nat]) /\ Len(entries) \in Nat
      BY DEF AdsIInv, AdsTypeOK
    <2>5. entries' = [entries EXCEPT ![n].data = ask[t].reads]
      BY <1>4
    <2> HIDE DEF n, a
    <2>6. entries[n] \in [data : Seen, expires : Nat]
      BY <2>1, <2>4, Element
    <2>7. /\ entries' \in Seq([data : Seen, expires : Nat]) /\ Len(entries') = Len(entries)
          /\ entries'[n].data = ask[t].reads /\ entries'[n].expires = entries[n].expires
          /\ \A m \in 1 .. Len(entries) : m # n => entries'[m] = entries[m]
      BY SMTT(30), <1>2, <2>1, <2>4, <2>5, <2>6
    <2>8. /\ OnlyOf(t) /\ where' \in [Readers -> Steps] /\ ask' \in [Readers -> Asking \cup {Nil}]
          /\ where'[t] = "renew" /\ ask'[t] = a
      BY <1>1, <1>4, <2>2, <2>3, MoveFrame
    <2>9. AdsTypeOK'
      BY <1>1, <2>3, <2>7, <2>8 DEF AdsIInv, AdsTypeOK, Standing, world
    <2>10. EntriesLater(t)
      <3>1. \A k \in Keys : HasParts(entries[n].data, k) => HasParts(ask[t].reads, k)
        BY <1>2, <2>1 DEF HasParts
      <3>2. \A m \in 1 .. Len(entries) : entries[m].expires \in Nat
        BY EntryType DEF AdsIInv
      <3>3. \A m \in 1 .. Len(entries) : \A k \in Keys :
              HasParts(entries[m].data, k) => HasParts(entries'[m].data, k)
        BY <2>7, <3>1
      <3>4. \A m \in 1 .. Len(entries) : entries'[m].expires >= entries[m].expires
        BY <2>7, <3>2
      <3>5. keeper = t
        BY <1>1
      <3> QED BY <2>4, <2>7, <3>3, <3>4, <3>5 DEF EntriesLater
    <2>11. EntriesFresh'
      <3> SUFFICES ASSUME NEW m \in 1 .. Len(entries')
                   PROVE  /\ entries'[m].expires <= clock + Ttl
                          /\ \A part \in Kinds : entries'[m].data[part] # Nil =>
                               /\ entries'[m].data[part] <= testbed[part]
                               /\ LastSeen(part, entries'[m].data[part]) + Ttl + Patience >= entries'[m].expires
        BY <1>1 DEF EntriesFresh, Standing, world, LastSeen
      <3>1. CASE m # n
        BY <2>7, <3>1 DEF EntriesFresh, AdsIInv
      <3>2. CASE m = n
        <4>1. entries[n].expires <= clock + Ttl /\ entries[n].expires \in Nat
          BY <2>1, <2>6 DEF EntriesFresh, AdsIInv
        <4>2. \A part \in Kinds : ask[t].reads[part] # Nil =>
                /\ ask[t].reads[part] <= testbed[part]
                /\ LastSeen(part, ask[t].reads[part]) + Ttl + Patience >= clock + Ttl
                /\ LastSeen(part, ask[t].reads[part]) \in Nat
          BY <1>1, ReadsFresh
        <4>3. entries'[m].data = ask[t].reads /\ entries'[m].expires = entries[n].expires
          BY <2>7, <3>2
        <4> QED BY <1>2, <4>1, <4>2, <4>3
      <3> QED BY <3>1, <3>2
    <2>12. SlotsFilled'
      <3> SUFFICES ASSUME NEW k \in Keys, slot[k] # Nil
                   PROVE  slot[k] \in 1 .. Len(entries') /\ HasParts(entries'[slot[k]].data, k)
        BY <2>3 DEF SlotsFilled, HasParts
      <3>1. slot[k] \in 1 .. Len(entries) /\ HasParts(entries[slot[k]].data, k)
        BY DEF AdsIInv, SlotsFilled
      <3> QED BY <2>7, <2>10, <3>1 DEF EntriesLater
    <2>13. SeenSince(ask[t].reads, ask[t].since)' /\ clock' = clock
      <3>1. SeenSince(ask[t].reads, ask[t].since)
        BY <1>1, Knows
      <3> QED BY <1>1, <2>2, <2>8, <3>1, StandingSeen DEF SeenSince
    <2>14. EntryKnown(t)'
      BY <1>2, <2>1, <2>2, <2>7, <2>8 DEF EntryKnown, In, Key, HasParts
    <2>15. Progress(t)'
      BY <1>1, <1>2, <2>2, <2>8, <2>13 DEF Progress, In, Key, HasParts, SeenSince
    <2>16. Locked(t)' /\ Undisturbed(t)'
      BY <1>1, <1>2, <2>2, <2>3, <2>7, <2>8, OthersIdle DEF Locked, Undisturbed, In, OnlyOf, Held
    <2> QED BY <1>1, <2>8, <2>9, <2>10, <2>11, <2>12, <2>14, <2>15, <2>16, StepInv
  <1> QED BY <1>3, <1>4 DEF SetData

\* The entry still holds what its keeper has read, and lasts for Ttl from now.
LEMMA RenewInv == ASSUME AdsIInv, NEW t \in Readers, Renew(t) PROVE AdsIInv'
  <1> DEFINE n == ask[t].entry
  <1>1. ~In(t, "idle") /\ Standing /\ In(t, "renew")
    BY DEF Renew, In, Standing
  <1>2. /\ n \in 1 .. Len(entries) /\ HasParts(entries[n].data, Key(t)) /\ keeper = t
        /\ entries[n].data = ask[t].reads /\ clock \in Nat /\ t # Nil
    BY <1>1, Active, Knows DEF EntryKnown, Locked, Held
  <1>3. entries \in Seq([data : Seen, expires : Nat]) /\ Len(entries) \in Nat
    BY DEF AdsIInv, AdsTypeOK
  <1>4. /\ entries' = [entries EXCEPT ![n].expires = clock + Ttl]
        /\ keeper' = Nil /\ Finish(t, ask[t].reads) /\ slot' = slot
    BY DEF Renew
  <1> HIDE DEF n
  <1>5. entries[n] \in [data : Seen, expires : Nat] /\ entries[n].expires <= clock + Ttl
    BY <1>2, <1>3, Element DEF AdsIInv, EntriesFresh
  <1>6. /\ entries' \in Seq([data : Seen, expires : Nat]) /\ Len(entries') = Len(entries)
        /\ entries'[n].data = entries[n].data /\ entries'[n].expires = clock + Ttl
        /\ \A m \in 1 .. Len(entries) : m # n => entries'[m] = entries[m]
    BY <1>2, <1>3, <1>4, <1>5
  <1>7. /\ where' \in [Readers -> Steps] /\ ask' \in [Readers -> Asking \cup {Nil}]
        /\ OnlyOf(t) /\ EntryKnown(t)' /\ Progress(t)' /\ Undisturbed(t)' /\ where'[t] = "idle"
    BY <1>1, <1>2, <1>4, FinishFrame DEF OnlyOf
  <1>8. AdsTypeOK'
    BY <1>1, <1>4, <1>6, <1>7 DEF AdsIInv, AdsTypeOK, Standing, world
  <1>9. EntriesLater(t)
    <2>1. \A m \in 1 .. Len(entries) : entries[m].expires \in Nat
      BY EntryType DEF AdsIInv
    <2>2. \A m \in 1 .. Len(entries) : entries'[m].data = entries[m].data
      BY <1>6
    <2>3. \A m \in 1 .. Len(entries) : entries'[m].expires >= entries[m].expires
      BY <1>5, <1>6, <2>1
    <2>4. \A m \in 1 .. Len(entries) : \A k \in Keys :
            HasParts(entries[m].data, k) => HasParts(entries'[m].data, k)
      BY <2>2
    <2> QED BY <1>3, <1>6, <2>2, <2>3, <2>4 DEF EntriesLater
  <1>10. EntriesFresh'
    <2> SUFFICES ASSUME NEW m \in 1 .. Len(entries')
                 PROVE  /\ entries'[m].expires <= clock + Ttl
                        /\ \A part \in Kinds : entries'[m].data[part] # Nil =>
                             /\ entries'[m].data[part] <= testbed[part]
                             /\ LastSeen(part, entries'[m].data[part]) + Ttl + Patience >= entries'[m].expires
      BY <1>1 DEF EntriesFresh, Standing, world, LastSeen
    <2>1. CASE m # n
      BY <1>6, <2>1 DEF EntriesFresh, AdsIInv
    <2>2. CASE m = n
      <3>1. \A part \in Kinds : ask[t].reads[part] # Nil =>
              /\ ask[t].reads[part] <= testbed[part]
              /\ LastSeen(part, ask[t].reads[part]) + Ttl + Patience >= clock + Ttl
        BY <1>1, ReadsFresh
      <3> QED BY <1>2, <1>6, <2>2, <3>1
    <2> QED BY <2>1, <2>2
  <1>11. SlotsFilled'
    <2> SUFFICES ASSUME NEW k \in Keys, slot[k] # Nil
                 PROVE  slot[k] \in 1 .. Len(entries') /\ HasParts(entries'[slot[k]].data, k)
      BY <1>4 DEF SlotsFilled, HasParts
    <2>1. slot[k] \in 1 .. Len(entries) /\ HasParts(entries[slot[k]].data, k)
      BY DEF AdsIInv, SlotsFilled
    <2> QED BY <1>6, <1>9, <2>1 DEF EntriesLater
  <1>12. Locked(t)'
    BY <1>2, <1>4, <1>7 DEF Locked, In
  <1> QED BY <1>1, <1>7, <1>8, <1>9, <1>10, <1>11, <1>12, StepInv

-----------------------------------------------------------------------------
(* Requests that come, changes of the testbed, and time                       *)

\* A request is what it was, but may have been overlapped.
AskKept(u) ==
  /\ where'[u] = where[u]
  /\ ask[u] = Nil => ask'[u] = Nil
  /\ ask[u] # Nil =>
       /\ ask'[u] \in Asking /\ ask'[u].key = ask[u].key /\ ask'[u].since = ask[u].since
       /\ ask'[u].entry = ask[u].entry /\ ask'[u].reads = ask[u].reads
       /\ ask'[u].alone => /\ ask[u].alone /\ siteless' = siteless
                           /\ \A v \in Readers : where'[v] = where[v]

LEMMA KeptThrough ==
  ASSUME AdsIInv, LaterOn, UNCHANGED store, NEW u \in Readers, AskKept(u),
         ~In(u, "idle") => clock' <= ask[u].since + Patience
  PROVE  EntryKnown(u)' /\ Progress(u)' /\ Locked(u)' /\ Undisturbed(u)'
  <1>1. slot' = slot /\ entries' = entries /\ keeper' = keeper /\ where'[u] = where[u]
    BY DEF store, AskKept
  <1>2. EntryKnown(u) /\ Progress(u) /\ Locked(u) /\ Undisturbed(u)
    BY DEF AdsIInv
  <1>3. CASE In(u, "idle")
    BY <1>1, <1>2, <1>3 DEF AskKept, EntryKnown, Progress, Locked, Undisturbed, In
  <1>4. CASE ~In(u, "idle")
    <2>1. /\ ask[u] \in Asking /\ ask[u] # Nil /\ ask[u].since \in Nat /\ ask[u].reads \in Seen /\ clock \in Nat
      BY <1>2, <1>4, Active DEF Progress
    <2>2. /\ ask'[u] \in Asking /\ ask'[u].key = ask[u].key /\ ask'[u].since = ask[u].since
          /\ ask'[u].entry = ask[u].entry /\ ask'[u].reads = ask[u].reads /\ ask'[u] # Nil
      BY <2>1 DEF AskKept
    <2>3. SeenSince(ask[u].reads, ask[u].since)'
      <3>1. \A seen \in Seen, s \in Nat : SeenSince(seen, s) => SeenSince(seen, s)'
        BY SeenStill DEF AdsIInv
      <3>2. SeenSince(ask[u].reads, ask[u].since)
        BY <1>2, <1>4 DEF Progress
      <3> QED BY <2>1, <2>2, <3>1, <3>2 DEF SeenSince
    <2>4. clock' \in Nat /\ ask[u].since <= clock'
      BY <1>2, <1>4, <2>1 DEF LaterOn, Progress
    <2>5. EntryKnown(u)'
      BY <1>1, <1>2, <2>2 DEF EntryKnown, In, Key, HasParts
    <2>6. Progress(u)'
      BY <1>1, <1>2, <1>4, <2>2, <2>3, <2>4 DEF Progress, In, Key, HasParts, SeenSince, Held, Shows
    <2>7. Locked(u)'
      BY <1>1, <1>2, <2>2 DEF Locked, In, Held
    <2>8. Undisturbed(u)'
      BY <1>1, <1>2, <1>4, <2>1, <2>2 DEF Undisturbed, In, Key, AskKept
    <2> QED BY <2>5, <2>6, <2>7, <2>8
  <1> QED BY <1>3, <1>4

LEMMA FreshThrough ==
  ASSUME AdsIInv, LaterOn, UNCHANGED store
  PROVE  EntriesFresh' /\ SlotsFilled'
  <1>1. entries' = entries /\ slot' = slot /\ clock \in Nat
    BY DEF store, AdsIInv, AdsTypeOK
  <1>2. SlotsFilled'
    BY <1>1 DEF SlotsFilled, AdsIInv, HasParts
  <1>3. EntriesFresh'
    <2> SUFFICES ASSUME NEW n \in 1 .. Len(entries)
                 PROVE  /\ entries[n].expires <= clock' + Ttl
                        /\ \A part \in Kinds : entries[n].data[part] # Nil =>
                             /\ entries[n].data[part] <= testbed'[part]
                             /\ LastSeen(part, entries[n].data[part])' + Ttl + Patience >= entries[n].expires
      BY <1>1 DEF EntriesFresh
    <2>1. entries[n].data \in Seen /\ entries[n].expires \in Nat /\ entries[n].expires <= clock + Ttl
      BY EntryType DEF AdsIInv, EntriesFresh
    <2>2. clock <= clock' /\ clock' \in Nat
      BY DEF LaterOn
    <2>3. ASSUME NEW part \in Kinds, entries[n].data[part] # Nil
          PROVE  /\ entries[n].data[part] <= testbed'[part]
                 /\ LastSeen(part, entries[n].data[part])' + Ttl + Patience >= entries[n].expires
      <3> DEFINE v == entries[n].data[part]
      <3>1. v \in Nat /\ v <= testbed[part] /\ LastSeen(part, v) + Ttl + Patience >= entries[n].expires
        BY <2>1, <2>3, SeenPart DEF AdsIInv, EntriesFresh
      <3>2. LastSeen(part, v) \in Nat /\ testbed[part] \in Nat
        BY <3>1, LastSeenType, HistoryPart DEF AdsIInv
      <3>3. \A w \in Nat : w <= testbed[part] => LastSeen(part, w)' >= LastSeen(part, w) /\ LastSeen(part, w)' \in Nat
        BY DEF LaterOn
      <3>4. LastSeen(part, v)' >= LastSeen(part, v) /\ LastSeen(part, v)' \in Nat
        BY <1>1, <3>1, <3>3 DEF LastSeen
      <3>5. testbed[part] <= testbed'[part] /\ testbed'[part] \in Nat
        BY DEF LaterOn
      <3> HIDE DEF v
      <3>6. v <= testbed'[part]
        BY <3>1, <3>2, <3>5
      <3>7. LastSeen(part, v)' + Ttl + Patience >= entries[n].expires
        BY <2>1, <3>1, <3>2, <3>4, AdsAssumption
      <3> QED BY <3>6, <3>7 DEF v
    <2>4. entries[n].expires <= clock' + Ttl
      BY <1>1, <2>1, <2>2
    <2> QED BY <2>3, <2>4
  <1> QED BY <1>2, <1>3

LEMMA ClockTickInv == ASSUME AdsIInv, ClockTick PROVE AdsIInv'
  <1>1. /\ clock \in Nat /\ clock' = clock + 1 /\ testbed' = testbed /\ ended' = ended /\ siteless' = siteless
        /\ UNCHANGED store /\ UNCHANGED <<where, ask>>
    BY DEF ClockTick, world, AdsIInv, AdsTypeOK
  <1>2. LaterOn
    <2> SUFFICES ASSUME NEW part \in Kinds
                 PROVE  /\ testbed[part] \in Nat
                        /\ \A v \in Nat : v <= testbed[part] => LastSeen(part, v)' >= LastSeen(part, v)
                                                                /\ LastSeen(part, v)' \in Nat
      BY <1>1 DEF LaterOn
    <2>1. testbed[part] \in Nat
      BY HistoryPart DEF AdsIInv
    <2>2. ASSUME NEW v \in Nat, v <= testbed[part]
          PROVE  LastSeen(part, v)' >= LastSeen(part, v) /\ LastSeen(part, v)' \in Nat
      <3>1. LastSeen(part, v) \in Nat
        BY <2>2, LastSeenType DEF AdsIInv
      <3> QED BY <1>1, <3>1 DEF LastSeen
    <2> QED BY <2>1, <2>2
  <1>3. AdsTypeOK'
    BY <1>1 DEF AdsIInv, AdsTypeOK, store
  <1>4. HistoryOK'
    <2>1. \A part \in Kinds : ended[part] \in Seq(Nat)
      BY HistoryPart DEF AdsIInv
    <2>2. \A part \in Kinds : \A n \in 1 .. Len(ended[part]) : ended[part][n] \in Nat
      BY <2>1
    <2>3. \A part \in Kinds : \A n \in 1 .. Len(ended[part]) : ended[part][n] <= clock + 1
      BY <1>1, <2>2 DEF AdsIInv, HistoryOK
    <2> QED BY <1>1, <2>3 DEF AdsIInv, HistoryOK
  <1>5. \A u \in Readers : AskKept(u)
    BY <1>1 DEF AskKept, AdsIInv, AdsTypeOK
  <1>6. \A u \in Readers : ~In(u, "idle") => clock' <= ask[u].since + Patience
    <2> SUFFICES ASSUME NEW u \in Readers, ~In(u, "idle")
                 PROVE  clock + 1 <= ask[u].since + Patience
      BY <1>1
    <2>1. ask[u] # Nil /\ ask[u].since \in Nat
      BY Active, Knows DEF Progress
    <2> QED BY <1>1, <2>1 DEF ClockTick
  <1> QED BY <1>1, <1>2, <1>3, <1>4, <1>5, <1>6, FreshThrough, KeptThrough DEF AdsIInv

\* A change puts the present state of a part into the history.
LEMMA ChangeInv == ASSUME AdsIInv, Change PROVE AdsIInv'
  <1>1. PICK p \in Parts("all"), site \in BOOLEAN :
          /\ testbed' = [testbed EXCEPT ![p] = @ + 1]
          /\ ended' = [ended EXCEPT ![p] = Append(@, clock)]
          /\ site => p = "resources"
          /\ siteless' = IF site THEN testbed.resources + 1 ELSE siteless
    BY DEF Change
  <1>2. /\ clock \in Nat /\ clock' = clock /\ UNCHANGED store /\ where' = where /\ p \in Kinds
        /\ ask' = [t \in Readers |-> IF ask[t] = Nil THEN Nil ELSE [ask[t] EXCEPT !.alone = FALSE]]
    BY PartsOfKeys DEF Change, AdsIInv, AdsTypeOK
  <1>3. \A part \in Kinds : ended[part] \in Seq(Nat) /\ testbed[part] \in Nat /\ Len(ended[part]) = testbed[part]
    BY HistoryPart DEF AdsIInv, HistoryOK
  <1>4. /\ testbed'[p] = testbed[p] + 1 /\ ended'[p] = Append(ended[p], clock)
        /\ \A part \in Kinds \ {p} : testbed'[part] = testbed[part] /\ ended'[part] = ended[part]
    BY <1>1, <1>2 DEF AdsIInv, AdsTypeOK, Kinds
  <1>5. testbed' \in [resources : Nat, leases : Nat] /\ ended' \in [resources : Seq(Nat), leases : Seq(Nat)]
    <2>1. testbed[p] + 1 \in Nat /\ Append(ended[p], clock) \in Seq(Nat)
      BY <1>2, <1>3
    <2>2. testbed \in [resources : Nat, leases : Nat] /\ ended \in [resources : Seq(Nat), leases : Seq(Nat)]
      BY DEF AdsIInv, AdsTypeOK
    <2>3. p = "resources" \/ p = "leases"
      BY <1>2 DEF Kinds
    <2> QED BY <1>1, <2>1, <2>2, <2>3
  <1>6. /\ Len(ended'[p]) = testbed[p] + 1 /\ ended'[p][testbed[p] + 1] = clock
        /\ \A n \in 1 .. testbed[p] : ended'[p][n] = ended[p][n]
    BY <1>2, <1>3, <1>4
  <1>7. \A part \in Kinds, v \in Nat : v <= testbed[part] => LastSeen(part, v)' = LastSeen(part, v)
    <2> SUFFICES ASSUME NEW part \in Kinds, NEW v \in Nat, v <= testbed[part]
                 PROVE  LastSeen(part, v)' = LastSeen(part, v)
      OBVIOUS
    <2>1. CASE part # p
      BY <1>2, <1>4, <2>1 DEF LastSeen
    <2>2. CASE part = p /\ v < testbed[p]
      <3>1. v + 1 \in 1 .. testbed[p] /\ v < testbed[p] + 1 /\ testbed[p] \in Nat
        BY <1>2, <1>3, <2>2
      <3> QED BY <1>2, <1>3, <1>6, <2>2, <3>1 DEF LastSeen
    <2>3. CASE part = p /\ v = testbed[p]
      <3>1. ~(v < Len(ended[p])) /\ v < Len(ended'[p])
        BY <1>2, <1>3, <1>6, <2>3
      <3> QED BY <1>6, <2>3, <3>1 DEF LastSeen
    <2>4. testbed[part] \in Nat
      BY <1>3
    <2> QED BY <2>1, <2>2, <2>3, <2>4
  <1>8. LaterOn
    <2>1. \A part \in Kinds, v \in Nat : v <= testbed[part] => LastSeen(part, v) \in Nat
      BY LastSeenType DEF AdsIInv
    <2>2. \A part \in Kinds : testbed[part] <= testbed'[part] /\ testbed'[part] \in Nat
      BY <1>2, <1>3, <1>4
    <2> QED BY <1>2, <1>7, <2>1, <2>2 DEF LaterOn
  <1>9. siteless' \in Nat /\ siteless' <= testbed'.resources
    <2>1. testbed.resources \in Nat /\ siteless \in Nat /\ siteless <= testbed.resources
      BY DEF AdsIInv, AdsTypeOK, HistoryOK
    <2>2. testbed'.resources >= testbed.resources /\ (site => testbed'.resources = testbed.resources + 1)
      BY <1>1, <1>2, <2>1 DEF AdsIInv, AdsTypeOK, Kinds
    <2>3. testbed'.resources \in Nat
      BY <1>5
    <2> QED BY <1>1, <2>1, <2>2, <2>3
  <1>10. ask' \in [Readers -> Asking \cup {Nil}] /\ \A u \in Readers : AskKept(u)
    BY ZenonT(40), <1>2 DEF AskKept, AdsIInv, AdsTypeOK, Asking
  <1>11. AdsTypeOK'
    BY <1>2, <1>5, <1>9, <1>10 DEF AdsIInv, AdsTypeOK, store
  <1>12. HistoryOK'
    <2>1. \A part \in Kinds : \A n \in 1 .. Len(ended[part]) : ended[part][n] \in Nat /\ ended[part][n] <= clock
      BY <1>3 DEF AdsIInv, HistoryOK
    <2>2. ASSUME NEW part \in Kinds
          PROVE  /\ Len(ended'[part]) = testbed'[part]
                 /\ \A n \in 1 .. Len(ended'[part]) : ended'[part][n] <= clock'
                 /\ \A m, n \in 1 .. Len(ended'[part]) : m <= n => ended'[part][m] <= ended'[part][n]
      <3>1. CASE part # p
        BY <1>2, <1>4, <3>1 DEF AdsIInv, HistoryOK
      <3>2. CASE part = p
        <4>1. \A n \in 1 .. testbed[p] : ended'[p][n] <= clock
          BY <1>2, <1>3, <1>6, <2>1
        <4>2. \A m, n \in 1 .. testbed[p] : m <= n => ended'[p][m] <= ended'[p][n]
          BY <1>2, <1>3, <1>6 DEF AdsIInv, HistoryOK
        <4>3. testbed[p] \in Nat
          BY <1>2, <1>3
        <4>4. \A n \in 1 .. testbed[p] + 1 : n \in 1 .. testbed[p] \/ n = testbed[p] + 1
          BY <4>3
        <4>5. \A n \in 1 .. testbed[p] + 1 : ended'[p][n] <= clock
          BY <1>2, <1>6, <4>1, <4>4
        <4>6. \A m, n \in 1 .. testbed[p] + 1 : m <= n => ended'[p][m] <= ended'[p][n]
          <5> SUFFICES ASSUME NEW m \in 1 .. testbed[p] + 1, NEW n \in 1 .. testbed[p] + 1, m <= n
                       PROVE  ended'[p][m] <= ended'[p][n]
            OBVIOUS
          <5>1. CASE n = testbed[p] + 1
            BY <1>6, <4>5, <5>1
          <5>2. CASE n \in 1 .. testbed[p]
            <6>1. m \in 1 .. testbed[p]
              BY <4>3, <5>2
            <6> QED BY <4>2, <5>2, <6>1
          <5> QED BY <4>4, <5>1, <5>2
        <4> QED BY <1>2, <1>4, <1>6, <3>2, <4>5, <4>6
      <3> QED BY <3>1, <3>2
    <2> QED BY <1>9, <2>2 DEF HistoryOK
  <1>13. \A u \in Readers : ~In(u, "idle") => clock' <= ask[u].since + Patience
    BY <1>2, Knows DEF Progress
  <1> QED BY <1>2, <1>8, <1>10, <1>11, <1>12, <1>13, FreshThrough, KeptThrough DEF AdsIInv

LEMMA ListResourcesInv == ASSUME AdsIInv, NEW t \in Readers, ListResources(t) PROVE AdsIInv'
  <1> DEFINE others == {u \in Readers : ~In(u, "idle")}
  <1>1. PICK key \in Asked, cached \in BOOLEAN :
          /\ ask' = [u \in Readers |->
                IF u = t THEN [key |-> key, since |-> clock, entry |-> Nil, reads |-> Shows(Nil, Nil),
                               alone |-> others = {}]
                ELSE IF u \in others THEN [ask[u] EXCEPT !.alone = FALSE] ELSE ask[u]]
          /\ Move(t, IF cached THEN "get" ELSE FirstRead(key))
    BY DEF ListResources
  <1>2. Standing /\ UNCHANGED store /\ In(t, "idle") /\ LaterOn /\ HistoryOK' /\ clock \in Nat
    BY StandingIsLater DEF ListResources, Standing, AdsIInv, AdsTypeOK
  <1>3. key \in Keys /\ Shows(Nil, Nil) \in Seen
    BY AskedAssumption, ShowsType DEF Keys
  <1> DEFINE a == [key |-> key, since |-> clock, entry |-> Nil, reads |-> Shows(Nil, Nil),
                   alone |-> others = {}]
             label == IF cached THEN "get" ELSE FirstRead(key)
  <1>4. a \in Asking /\ a.key = key /\ a.since = clock /\ a.reads = Shows(Nil, Nil) /\ a # Nil
        /\ (a.alone => others = {})
    <2> DEFINE b == others = {}
    <2>1. b \in BOOLEAN /\ (b => others = {}) /\ a.alone = b
      OBVIOUS
    <2> HIDE DEF b, others
    <2> QED BY <1>2, <1>3, <2>1 DEF Asking
  <1>5. /\ label \in {"get", "nodes", "leases"} /\ label \in Steps
        /\ (label = "nodes" => key # "leases")
        /\ (label = "leases" => key # "resources" /\ key # "all")
        /\ Shows(Nil, Nil).resources = Nil /\ Shows(Nil, Nil).leases = Nil
    BY <1>3, FirstReads, ShowsType DEF Steps
  <1>6. ask'[t] = a /\ where'[t] = label /\ where' \in [Readers -> Steps]
        /\ \A u \in Readers \ {t} : where'[u] = where[u]
    BY <1>1, <1>5 DEF Move, AdsIInv, AdsTypeOK
  <1>7. \A u \in Readers \ {t} : AskKept(u) /\ ask'[u] \in Asking \cup {Nil}
    <2> SUFFICES ASSUME NEW u \in Readers \ {t} PROVE AskKept(u) /\ ask'[u] \in Asking \cup {Nil}
      OBVIOUS
    <2>1. CASE u \in others
      <3>1. ask[u] \in Asking /\ ask[u] # Nil
        BY <2>1, Active DEF AdsIInv, Progress
      <3>2. ask'[u] = [ask[u] EXCEPT !.alone = FALSE]
        BY <1>1, <2>1
      <3> QED BY <1>6, <3>1, <3>2 DEF AskKept, Asking
    <2>2. CASE u \notin others
      <3>1. ask[u] = Nil /\ ask'[u] = Nil
        BY <1>1, <2>2 DEF AdsIInv, Progress
      <3> QED BY <1>6, <3>1 DEF AskKept
    <2> QED BY <2>1, <2>2
  <1>8. ask' \in [Readers -> Asking \cup {Nil}]
    <2>1. ask' = [u \in Readers |-> ask'[u]]
      BY <1>1
    <2>2. \A u \in Readers : ask'[u] \in Asking \cup {Nil}
      BY <1>4, <1>6, <1>7
    <2> QED BY <2>1, <2>2
  <1>9. AdsTypeOK' /\ EntriesFresh' /\ SlotsFilled'
    BY <1>2, <1>6, <1>8, TypeStands, FreshThrough
  <1>10. \A u \in Readers \ {t} : EntryKnown(u)' /\ Progress(u)' /\ Locked(u)' /\ Undisturbed(u)'
    <2>1. \A u \in Readers : ~In(u, "idle") => clock' <= ask[u].since + Patience
      BY <1>2, Knows DEF Progress, Standing
    <2> QED BY <1>2, <1>7, <2>1, KeptThrough
  <1>11. \A part \in Kinds : Shows(Nil, Nil)[part] = Nil
    BY <1>5 DEF Kinds, Shows
  <1>12. a.alone => \A u \in Readers \ {t} : In(u, "idle")'
    BY <1>4, <1>6 DEF In
  <1> HIDE DEF a, label, others
  <1>13. EntryKnown(t)' /\ Progress(t)'
    <2>1. clock' = clock /\ clock <= clock + Patience /\ clock <= clock
      BY <1>2 DEF Standing
    <2> QED BY <1>4, <1>5, <1>6, <1>11, <2>1 DEF EntryKnown, Progress, In, Key, SeenSince
  <1>14. Locked(t)' /\ Undisturbed(t)'
    <2>1. keeper' = keeper /\ keeper # t
      BY <1>2 DEF store, AdsIInv, Locked, In
    <2> QED BY <1>4, <1>5, <1>6, <1>12, <2>1 DEF Locked, Undisturbed, In
  <1> QED BY <1>2, <1>9, <1>10, <1>13, <1>14 DEF AdsIInv

LEMMA AdsInitInv == ASSUME AdsInit PROVE AdsIInv
  <1>1. /\ testbed = Shows(0, 0) /\ siteless = 0 /\ clock = 0 /\ ended = Shows(<<>>, <<>>)
        /\ keeper = Nil /\ where = [t \in Readers |-> "idle"] /\ ask = [t \in Readers |-> Nil]
    BY DEF AdsInit
  <1>2. /\ \A part \in Kinds : testbed[part] = 0 /\ ended[part] = <<>>
        /\ testbed \in [resources : Nat, leases : Nat] /\ ended \in [resources : Seq(Nat), leases : Seq(Nat)]
    BY <1>1 DEF Shows, Kinds
  <1>3. HistoryOK
    BY <1>1, <1>2 DEF HistoryOK, Shows
  <1>4. \A part \in Kinds : LastSeen(part, 0) = 0
    BY <1>1, <1>2 DEF LastSeen
  <1>5. /\ slot \in [Keys -> Nat \cup {Nil}] /\ entries \in Seq([data : Seen, expires : Nat])
        /\ EntriesFresh /\ SlotsFilled
    <2>1. CASE slot = [k \in Keys |-> Nil] /\ entries = <<>>
      BY <2>1 DEF EntriesFresh, SlotsFilled
    <2>2. ASSUME NEW cached \in Asked,
                 slot = [k \in Keys |-> IF k = cached THEN 1 ELSE Nil],
                 entries = <<[data |-> Shows(IF "resources" \in Parts(cached) THEN 0 ELSE Nil,
                                             IF "leases" \in Parts(cached) THEN 0 ELSE Nil),
                              expires |-> Ttl]>>
          PROVE  /\ slot \in [Keys -> Nat \cup {Nil}] /\ entries \in Seq([data : Seen, expires : Nat])
                 /\ EntriesFresh /\ SlotsFilled
      <3> DEFINE d == Shows(IF "resources" \in Parts(cached) THEN 0 ELSE Nil,
                            IF "leases" \in Parts(cached) THEN 0 ELSE Nil)
                 e == [data |-> d, expires |-> Ttl]
      <3>1. d \in Seen /\ HasParts(d, cached) /\ \A part \in Kinds : d[part] # Nil => d[part] = 0
        BY DEF Shows, Seen, HasParts, Kinds
      <3> HIDE DEF d
      <3>2. e \in [data : Seen, expires : Nat] /\ e.data = d /\ e.expires = Ttl
        BY <3>1
      <3>3. entries = <<e>>
        BY <2>2 DEF d
      <3> HIDE DEF e
      <3>4. entries \in Seq([data : Seen, expires : Nat]) /\ Len(entries) = 1 /\ entries[1] = e
        BY <3>2, <3>3
      <3>5. EntriesFresh
        <4> SUFFICES ASSUME NEW n \in 1 .. Len(entries)
                     PROVE  /\ entries[n].expires <= clock + Ttl
                            /\ \A part \in Kinds : entries[n].data[part] # Nil =>
                                 /\ entries[n].data[part] <= testbed[part]
                                 /\ LastSeen(part, entries[n].data[part]) + Ttl + Patience >= entries[n].expires
          BY DEF EntriesFresh
        <4>1. n = 1 /\ entries[n] = e
          BY <3>4
        <4> QED BY <1>1, <1>2, <1>4, <3>1, <3>2, <4>1
      <3>6. slot \in [Keys -> Nat \cup {Nil}] /\ SlotsFilled
        BY <2>2, <3>1, <3>2, <3>4 DEF SlotsFilled
      <3> QED BY <3>4, <3>5, <3>6
    <2> QED BY <2>1, <2>2 DEF AdsInit
  <1>6. AdsTypeOK
    BY <1>1, <1>2, <1>5 DEF AdsTypeOK, Steps
  <1>7. \A t \in Readers : EntryKnown(t) /\ Progress(t) /\ Locked(t) /\ Undisturbed(t)
    BY <1>1 DEF EntryKnown, Progress, Locked, Undisturbed, In
  <1> QED BY <1>3, <1>5, <1>6, <1>7 DEF AdsIInv

LEMMA AdsStutterInv == ASSUME AdsIInv, UNCHANGED adsVars PROVE AdsIInv'
  BY DEF adsVars, world, store, AdsIInv, AdsTypeOK, HistoryOK, EntriesFresh, SlotsFilled, HasParts, LastSeen,
         EntryKnown, Progress, Locked, Undisturbed, In, Key, Held, SeenSince

LEMMA AdsNextInv == ASSUME AdsIInv, AdsNext PROVE AdsIInv'
  BY ListResourcesInv, GetEntryInv, CheckAgeInv, TakeDataInv, FindKeyInv, PopInv, GetNodesInv, GetSitesInv,
     GetLeasesInv, AddEntryInv, SetDataInv, RenewInv, ChangeInv, ClockTickInv DEF AdsNext, AdsStep

-----------------------------------------------------------------------------
(* What the answers say                                                       *)

LEMMA AnswerHolds ==
  ASSUME AdsIInv, NEW t \in Readers, Standing, NEW answer \in Seen, Finish(t, answer),
         HasParts(answer, Key(t)),
         \A part \in Kinds : answer[part] # Nil => LastSeen(part, answer[part]) + Ttl + 2 * Patience >= clock
  PROVE  AdsFollowTestbed'
  <1> DEFINE r == [key |-> Key(t), shows |-> answer, at |-> clock, alone |-> ask[t].alone]
  <1>1. said' = r
    BY DEF Finish
  <1>2. r.key = Key(t) /\ r.shows = answer /\ r.at = clock /\ answer # Nil
    BY ShowsType DEF Shows, Seen
  <1> HIDE DEF r
  <1>3. \A part \in Kinds, v \in Nat : LastSeen(part, v)' = LastSeen(part, v)
    BY StandingSeen
  <1>4. \A part \in Parts("all") :
           /\ answer[part] # Nil <=> part \in Parts(Key(t))
           /\ answer[part] # Nil => LastSeen(part, answer[part])' + Ttl + 2 * Patience >= clock
    BY <1>3, PartsOfKeys, SeenPart DEF HasParts
  <1> QED BY <1>1, <1>2, <1>4 DEF AdsFollowTestbed, LastSeen

LEMMA FaultHolds ==
  ASSUME NEW t \in Readers, Finish(t, Nil), ~ask[t].alone
  PROVE  AdsFollowTestbed'
  <1> DEFINE r == [key |-> Key(t), shows |-> Nil, at |-> clock, alone |-> ask[t].alone]
  <1>1. said' = r /\ r.shows = Nil /\ r.alone = ask[t].alone
    BY DEF Finish
  <1> HIDE DEF r
  <1> QED BY <1>1 DEF AdsFollowTestbed

LEMMA SilenceHolds == ASSUME said' = Nil PROVE AdsFollowTestbed'
  BY DEF AdsFollowTestbed

\* What a thread has just read is younger than what an entry may hold.
LEMMA ReadsHold ==
  ASSUME AdsIInv, NEW t \in Readers, ~In(t, "idle"), Standing, HasParts(ask[t].reads, Key(t)),
         Finish(t, ask[t].reads)
  PROVE  AdsFollowTestbed'
  <1>1. ask[t].reads \in Seen /\ clock \in Nat
    BY Active
  <1>2. ASSUME NEW part \in Kinds, ask[t].reads[part] # Nil
        PROVE  LastSeen(part, ask[t].reads[part]) + Ttl + 2 * Patience >= clock
    BY <1>1, <1>2, ReadsFresh
  <1> QED BY <1>1, <1>2, AnswerHolds

LEMMA StepAnswers == ASSUME AdsIInv, NEW t \in Readers, AdsStep(t) PROVE AdsFollowTestbed'
  <1>1. Standing
    BY DEF AdsStep, GetEntry, CheckAge, TakeData, FindKey, Pop, GetNodes, GetSites, GetLeases, AddEntry,
           SetData, Renew, Standing
  <1>2. ~In(t, "idle")
    BY DEF AdsStep, GetEntry, CheckAge, TakeData, FindKey, Pop, GetNodes, GetSites, GetLeases, AddEntry,
           SetData, Renew, In
  <1>3. EntryKnown(t) /\ Progress(t) /\ Undisturbed(t)
    BY <1>2, Knows
  <1>4. CASE TakeData(t)
    <2>1. /\ ask[t].entry \in 1 .. Len(entries) /\ HasParts(Held(t).data, Key(t))
          /\ Held(t).expires >= ask[t].since /\ clock <= ask[t].since + Patience
      BY <1>2, <1>3, <1>4 DEF TakeData, EntryKnown, Progress, Held
    <2>2. /\ Held(t).data \in Seen /\ Held(t).expires \in Nat /\ ask[t].since \in Nat /\ clock \in Nat
      BY <1>2, <2>1, EntryType, Active DEF Held, AdsIInv
    <2>3. ASSUME NEW part \in Kinds, Held(t).data[part] # Nil
          PROVE  LastSeen(part, Held(t).data[part]) + Ttl + 2 * Patience >= clock
      <3> DEFINE v == Held(t).data[part]
      <3>1. v \in Nat /\ v <= testbed[part] /\ LastSeen(part, v) + Ttl + Patience >= Held(t).expires
        BY <2>1, <2>2, <2>3, SeenPart DEF AdsIInv, EntriesFresh, Held
      <3>2. LastSeen(part, v) \in Nat
        BY <3>1, LastSeenType DEF AdsIInv
      <3> QED BY SMTT(30), <2>1, <2>2, <3>1, <3>2
    <2> QED BY <1>1, <1>4, <2>1, <2>2, <2>3, AnswerHolds DEF TakeData
  <1>5. CASE Pop(t)
    BY <1>2, <1>3, <1>5, FaultHolds, SilenceHolds DEF Pop, Undisturbed
  <1>6. CASE GetSites(t)
    <2>1. SiteMissing(ask[t].reads.resources) => ~ask[t].alone
      <3>1. ask[t].reads.resources # Nil /\ ask[t].reads \in Seen /\ siteless \in Nat
        BY <1>2, <1>3, <1>6, Active DEF GetSites, Progress, AdsIInv, AdsTypeOK
      <3>2. ask[t].reads.resources \in Nat
        BY <3>1 DEF Seen
      <3>3. ask[t].alone => ask[t].reads.resources >= siteless
        BY <1>2, <1>3, <1>6 DEF GetSites, Undisturbed
      <3> QED BY <3>1, <3>2, <3>3 DEF SiteMissing
    <2> QED BY <1>6, <2>1, FaultHolds, SilenceHolds DEF GetSites
  <1>7. CASE AddEntry(t)
    <2>1. HasParts(ask[t].reads, Key(t))
      BY <1>3, <1>7 DEF AddEntry, Progress
    <2> QED BY <1>1, <1>2, <1>7, <2>1, ReadsHold, SilenceHolds DEF AddEntry
  <1>8. CASE SetData(t)
    BY <1>2, <1>3, <1>8, FaultHolds, SilenceHolds DEF SetData, Undisturbed
  <1>9. CASE Renew(t)
    <2>1. HasParts(ask[t].reads, Key(t))
      BY <1>3, <1>9 DEF Renew, Progress
    <2> QED BY <1>1, <1>2, <1>9, <2>1, ReadsHold DEF Renew
  <1>10. CASE GetEntry(t) \/ CheckAge(t) \/ FindKey(t) \/ GetNodes(t) \/ GetLeases(t)
    BY <1>10, SilenceHolds DEF GetEntry, CheckAge, FindKey, GetNodes, GetLeases
  <1> QED BY <1>4, <1>5, <1>6, <1>7, <1>8, <1>9, <1>10 DEF AdsStep

LEMMA AdsAnswers == ASSUME AdsIInv, AdsNext PROVE AdsFollowTestbed'
  <1>1. CASE Change
    BY <1>1, SilenceHolds DEF Change
  <1>2. CASE ClockTick
    BY <1>2, SilenceHolds DEF ClockTick
  <1>3. ASSUME NEW t \in Readers, ListResources(t) PROVE AdsFollowTestbed'
    BY <1>3, SilenceHolds DEF ListResources
  <1> QED BY <1>1, <1>2, <1>3, StepAnswers DEF AdsNext

LEMMA AdsStutterAnswers == ASSUME AdsFollowTestbed, UNCHANGED adsVars PROVE AdsFollowTestbed'
  BY DEF AdsFollowTestbed, adsVars, world, LastSeen

-----------------------------------------------------------------------------
(* Descriptions of slivers: what a request has read was so since it came      *)

Pairs == Slices \X Hosts
Rows == {Nowhere, "allocated", "provisioned"}
Stages == {"idle", "check", "slices", "keys", "tags", "nodes", "expire", "rows", "sites"}

World ==
  [on : SUBSET Pairs, barred : SUBSET Pairs, row : [Pairs -> Rows], up : SUBSET Hosts, gone : SUBSET Hosts,
   members : SUBSET (Slices \X Persons), keyed : SUBSET Persons, tags : SUBSET (Slices \X (Hosts \cup {"slice"})),
   late : SUBSET Slices]

Looks ==
  [q : Questions, again : BOOLEAN, of : Slices \cup {Nowhere}, on : SUBSET Pairs, users : SUBSET Persons,
   keyed : SUBSET Persons, tags : SUBSET (Slices \X (Hosts \cup {"slice"})), late : BOOLEAN,
   up : SUBSET Hosts, barred : SUBSET Pairs, row : {Nowhere} \cup UNION {[S -> Rows] : S \in SUBSET Pairs}]

\* Which slivers a request has found, and its users, tags and expiration.
SlicesSeen ==
  /\ look.of \in Named(look.q) /\ look.of \in Slices
  /\ look.on \subseteq AskedFor(look.q, look.of)
  /\ \A x \in look.on : \E w \in during : x \in w.on
  /\ \A x \in AskedFor(look.q, look.of) \ look.on : \E w \in during :
       x \notin w.on \/ (stage \in {"rows", "sites"} /\ look.q.booted /\ x[2] \notin w.up)
  /\ \E w \in during : look.users = {p \in Persons : \E r \in Named(look.q) : <<r, p>> \in w.members}
  /\ \A t \in look.tags : \E w \in during : t \in w.tags
  /\ \A t \in {<<look.of, "slice">>} \cup look.on : (\A w \in during : t \in w.tags) => t \in look.tags
  /\ \E w \in during : look.late <=> look.of \in w.late

NodesSeen ==
  /\ \E w \in during : look.up = w.up /\ look.barred = w.barred
  /\ \A x \in look.on : \E w \in during : x[2] \notin w.gone
  /\ look.q.op = "Renew" => look.again

LookOK ==
  /\ look \in Looks /\ plc \in during
  /\ stage \in {"slices", "keys", "tags", "nodes", "expire", "rows", "sites"} => look.q.op # "Shutdown"
  /\ stage \in {"keys", "tags", "nodes", "rows", "sites"} => SlicesSeen
  /\ stage \in {"tags", "nodes", "rows", "sites"} => \E w \in during : look.keyed = look.users \cap w.keyed
  /\ stage \in {"rows", "sites"} => NodesSeen
  /\ stage = "sites" => \E w \in during : look.row = [x \in look.on |-> w.row[x]]
  /\ stage = "expire" => look.of \in Named(look.q)
  /\ look.again /\ look.q.op = "Renew" => \E r \in Named(look.q), w \in during : r \in w.late

ManifestIInv ==
  /\ plc \in World /\ \A x \in plc.on : x[2] \notin plc.gone
  /\ stage \in Stages
  /\ stage # "idle" => LookOK

LEMMA QuestionType ==
  ASSUME NEW q \in Questions
  PROVE  /\ q.slivers \subseteq Pairs /\ Named(q) \subseteq Slices
         /\ \A s \in Slices : AskedFor(q, s) \subseteq {s} \X Hosts /\ AskedFor(q, s) \subseteq Pairs
  BY QuestionsAssumption DEF Question, Pairs, Named, AskedFor, SliversOf

\* Slivers of one slice are asked for by name.
LEMMA AskedByName ==
  ASSUME NEW q \in Questions, NEW s \in Slices, Named(q) = {s}
  PROVE  AskedFor(q, s) = IF q.slivers = {} THEN SliversOf(s) ELSE q.slivers
  <1>1. CASE q.slivers = {}
    BY <1>1 DEF AskedFor
  <1>2. CASE q.slivers # {}
    <2>1. \A x \in q.slivers : x[1] = s /\ x[2] \in Hosts /\ x = <<s, x[2]>>
      BY SMTT(30), <1>2, QuestionType DEF Named, Pairs
    <2> QED BY SMTT(30), <1>2, <2>1 DEF AskedFor
  <1> QED BY <1>1, <1>2

\* What was so stays what was so.
LEMMA LookKept ==
  ASSUME LookOK, UNCHANGED <<stage, look>>, during \subseteq during', plc' \in during'
  PROVE  LookOK'
  <1>1. stage \in {"keys", "tags", "nodes", "rows", "sites"} => SlicesSeen'
    BY DEF LookOK, SlicesSeen
  <1>2. stage \in {"rows", "sites"} => NodesSeen'
    BY DEF LookOK, NodesSeen
  <1> QED BY <1>1, <1>2 DEF LookOK

LEMMA LookType ==
  ASSUME ManifestIInv, stage # "idle"
  PROVE  /\ LookOK /\ look \in Looks /\ look.q \in Questions /\ look.on \subseteq Pairs
         /\ look.users \subseteq Persons /\ look.again \in BOOLEAN /\ plc \in World /\ plc \in during
  BY DEF ManifestIInv, LookOK, Looks

\* A step that reads something and goes on.
LEMMA ReadOn ==
  ASSUME ManifestIInv, stage # "idle", Reading, NEW next \in Stages, NEW seen \in Looks, To(next, seen), LookOK'
  PROVE  ManifestIInv' /\ DescribedAsItWas'
  <1>1. plc' = plc /\ stage' = next /\ told' = Nowhere
    BY DEF Reading, To
  <1> QED BY <1>1 DEF ManifestIInv, DescribedAsItWas

LEMMA GetSlicesInv == ASSUME ManifestIInv, GetSlices PROVE ManifestIInv' /\ DescribedAsItWas'
  <1>1. stage = "slices" /\ stage # "idle" /\ Reading /\ during' = during /\ plc' = plc
    BY DEF GetSlices, Reading
  <1>2. PICK s \in Named(look.q) :
          To("keys", [look EXCEPT !.of = s, !.on = plc.on \cap AskedFor(look.q, s),
                               !.users = {p \in Persons : \E r \in Named(look.q) : <<r, p>> \in plc.members},
                               !.tags = {t \in plc.tags : t[1] = s}, !.late = s \in plc.late])
    BY DEF GetSlices
  <1> DEFINE b == s \in plc.late
             u == {p \in Persons : \E r \in Named(look.q) : <<r, p>> \in plc.members}
             g == {t \in plc.tags : t[1] = s}
             o == plc.on \cap AskedFor(look.q, s)
             n == [look EXCEPT !.of = s, !.on = o, !.users = u, !.tags = g, !.late = b]
  <1>3. LookOK /\ look \in Looks /\ look.q \in Questions /\ plc \in World /\ plc \in during
    BY <1>1, LookType
  <1>4. s \in Slices /\ AskedFor(look.q, s) \subseteq {s} \X Hosts /\ AskedFor(look.q, s) \subseteq Pairs
    BY <1>3, QuestionType
  <1>5. b \in BOOLEAN /\ u \subseteq Persons /\ g \subseteq Slices \X (Hosts \cup {"slice"}) /\ o \subseteq Pairs
    BY <1>3, <1>4 DEF World
  <1>6. look' = n /\ stage' = "keys"
    BY <1>2 DEF To
  <1> HIDE DEF b, u, g, o
  <1>7. /\ n \in Looks /\ n.q = look.q /\ n.of = s /\ n.on = o /\ n.users = u /\ n.tags = g /\ n.late = b
        /\ n.again = look.again
    BY <1>3, <1>4, <1>5 DEF Looks
  <1> HIDE DEF n
  <1>8. SlicesSeen'
    <2>1. \A t \in {<<s, "slice">>} \cup o : t \in plc.tags => t \in g
      BY <1>4 DEF g, o
    <2>2. (\E w \in during : b <=> s \in w.late) /\ (\E w \in during : u = {p \in Persons : \E r \in Named(look.q) : <<r, p>> \in w.members})
      BY <1>3 DEF b, u
    <2>3. (\A x \in o : x \in plc.on) /\ (\A x \in AskedFor(look.q, s) \ o : x \notin plc.on) /\ g \subseteq plc.tags
          /\ o \subseteq AskedFor(look.q, s)
      BY DEF o, g
    <2> QED BY <1>1, <1>3, <1>4, <1>6, <1>7, <2>1, <2>2, <2>3 DEF SlicesSeen
  <1>9. LookOK'
    BY <1>1, <1>3, <1>6, <1>7, <1>8 DEF LookOK
  <1> QED BY <1>1, <1>2, <1>7, <1>9, ReadOn DEF Stages, n, b, u, g, o

\* A step that reads something and answers.
LEMMA AnswerInv ==
  ASSUME ManifestIInv, stage # "idle", Reading, NEW fault, NEW says, Answer(fault, says)
  PROVE  /\ ManifestIInv' /\ during' = during
         /\ told'.question = look.q /\ told'.fault = fault /\ told'.says = says
  BY DEF ManifestIInv, Reading, Answer, Stages

LEMMA AskManifestInv == ASSUME ManifestIInv, AskManifest PROVE ManifestIInv' /\ DescribedAsItWas'
  <1>1. PICK q \in Questions :
          To("check", [q |-> q, again |-> FALSE, of |-> Nowhere, on |-> {}, users |-> {}, keyed |-> {},
                       tags |-> {}, late |-> FALSE, up |-> {}, barred |-> {}, row |-> Nowhere])
    BY DEF AskManifest
  <1> DEFINE n == [q |-> q, again |-> FALSE, of |-> Nowhere, on |-> {}, users |-> {}, keyed |-> {},
                   tags |-> {}, late |-> FALSE, up |-> {}, barred |-> {}, row |-> Nowhere]
  <1>2. n \in Looks /\ ~n.again
    BY DEF Looks
  <1>3. look' = n /\ stage' = "check" /\ told' = Nowhere /\ plc' = plc /\ during' = {plc}
    BY <1>1 DEF To, AskManifest
  <1> HIDE DEF n
  <1>4. LookOK'
    BY <1>2, <1>3 DEF LookOK
  <1> QED BY <1>3, <1>4 DEF ManifestIInv, Stages, DescribedAsItWas

LEMMA CheckSliverCredentialsInv ==
  ASSUME ManifestIInv, CheckSliverCredentials
  PROVE  ManifestIInv' /\ DescribedAsItWas'
  <1>1. stage = "check" /\ stage # "idle" /\ Reading
    BY DEF CheckSliverCredentials
  <1>2. CASE look.q.op # "Shutdown" /\ To("slices", look)
    <2>1. LookOK /\ look \in Looks
      BY <1>1, LookType
    <2>2. LookOK'
      BY <1>1, <1>2, <2>1 DEF LookOK, To, Reading
    <2> QED BY <1>1, <1>2, <2>1, <2>2, ReadOn DEF Stages
  <1>3. CASE ~({x[1] : x \in look.q.slivers} \subseteq look.q.creds) /\ Answer("Forbidden", Nowhere)
    <2>1. /\ ManifestIInv' /\ told'.question = look.q /\ told'.fault = "Forbidden" /\ told'.says = Nowhere
      BY <1>1, <1>3, AnswerInv
    <2>2. \E x \in look.q.slivers : x[1] \notin look.q.creds
      BY <1>3
    <2> QED BY <2>1, <2>2, NowhereAssumption DEF DescribedAsItWas, FaultsHaveCauses, Faults
  <1>4. CASE look.q.op = "Shutdown" /\ Answer("NameError", Nowhere)
    <2>1. ManifestIInv' /\ told'.question = look.q /\ told'.fault = "NameError"
      BY <1>1, <1>4, AnswerInv
    <2> QED BY <1>4, <2>1, NowhereAssumption DEF DescribedAsItWas, FaultsHaveCauses, Faults
  <1> QED BY <1>2, <1>3, <1>4 DEF CheckSliverCredentials, Shutdown

LEMMA GetKeysInv == ASSUME ManifestIInv, GetKeys PROVE ManifestIInv' /\ DescribedAsItWas'
  <1> DEFINE k == look.users \cap plc.keyed
             n == [look EXCEPT !.keyed = k]
  <1>1. stage = "keys" /\ stage # "idle" /\ Reading /\ during' = during /\ plc' = plc /\ To("tags", n)
    BY DEF GetKeys, Reading
  <1>2. LookOK /\ look \in Looks /\ look.users \subseteq Persons /\ plc \in during
    BY <1>1, LookType
  <1>3. look' = n /\ stage' = "tags" /\ k \subseteq Persons /\ \E w \in during : k = look.users \cap w.keyed
    BY <1>1, <1>2 DEF To
  <1> HIDE DEF k
  <1>4. /\ n \in Looks /\ n.q = look.q /\ n.again = look.again /\ n.of = look.of /\ n.on = look.on
        /\ n.users = look.users /\ n.tags = look.tags /\ n.late = look.late /\ n.keyed = k
    BY <1>2, <1>3 DEF Looks
  <1> HIDE DEF n
  <1>5. SlicesSeen'
    <2>1. SlicesSeen
      BY <1>1, <1>2 DEF LookOK
    <2>2. /\ look'.q = look.q /\ look'.of = look.of /\ look'.on = look.on
          /\ look'.users = look.users /\ look'.tags = look.tags /\ look'.late = look.late
          /\ stage' \notin {"rows", "sites"} /\ stage \notin {"rows", "sites"}
      BY <1>1, <1>3, <1>4
    <2>3. /\ look'.of \in Named(look'.q) /\ look'.of \in Slices
          /\ look'.on \subseteq AskedFor(look'.q, look'.of)
          /\ \A x \in look'.on : \E w \in during' : x \in w.on
      BY <1>1, <2>1, <2>2 DEF SlicesSeen
    <2>4. \A x \in AskedFor(look'.q, look'.of) \ look'.on : \E w \in during' : x \notin w.on
      BY <1>1, <2>1, <2>2 DEF SlicesSeen
    <2>5. \E w \in during' :
             look'.users = {p \in Persons : \E r \in Named(look'.q) : <<r, p>> \in w.members}
      BY <1>1, <2>1, <2>2 DEF SlicesSeen
    <2>6. /\ \A t \in look'.tags : \E w \in during' : t \in w.tags
          /\ \A t \in {<<look'.of, "slice">>} \cup look'.on :
                (\A w \in during' : t \in w.tags) => t \in look'.tags
      BY <1>1, <2>1, <2>2 DEF SlicesSeen
    <2>7. \E w \in during' : look'.late <=> look'.of \in w.late
      <3>1. PICK w \in during : look.late <=> look.of \in w.late
        BY <2>1 DEF SlicesSeen
      <3> QED BY <1>1, <2>2, <3>1
    <2> QED BY <2>3, <2>4, <2>5, <2>6, <2>7 DEF SlicesSeen
  <1>6. LookOK'
    BY <1>1, <1>2, <1>3, <1>4, <1>5 DEF LookOK
  <1> QED BY <1>1, <1>4, <1>6, ReadOn DEF Stages

LEMMA GetSliceTagsInv == ASSUME ManifestIInv, GetSliceTags PROVE ManifestIInv' /\ DescribedAsItWas'
  <1> DEFINE g == look.tags \cap plc.tags
             n == [look EXCEPT !.tags = g]
  <1>1. stage = "tags" /\ stage # "idle" /\ Reading /\ during' = during /\ plc' = plc
        /\ To("nodes", [look EXCEPT !.tags = @ \cap plc.tags])
    BY DEF GetSliceTags, Reading
  <1>2. LookOK /\ look \in Looks /\ plc \in during /\ plc \in World
    BY <1>1, LookType
  <1>3. look' = n /\ stage' = "nodes" /\ g \subseteq Slices \X (Hosts \cup {"slice"})
        /\ g \subseteq look.tags /\ \A t \in look.tags : t \in plc.tags => t \in g
    BY <1>1, <1>2 DEF To, World, Looks
  <1> HIDE DEF g
  <1>4. /\ n \in Looks /\ n.q = look.q /\ n.again = look.again /\ n.of = look.of /\ n.on = look.on
        /\ n.users = look.users /\ n.tags = g /\ n.late = look.late /\ n.keyed = look.keyed
    BY <1>2, <1>3 DEF Looks
  <1> HIDE DEF n
  <1>5. SlicesSeen'
    BY SMTT(30), <1>1, <1>2, <1>3, <1>4 DEF LookOK, SlicesSeen
  <1>6. LookOK'
    BY <1>1, <1>2, <1>3, <1>4, <1>5 DEF LookOK
  <1>7. To("nodes", n)
    BY <1>1, <1>3 DEF To
  <1> QED BY <1>1, <1>4, <1>6, <1>7, ReadOn DEF Stages

LEMMA GetSliceNodesInv == ASSUME ManifestIInv, GetSliceNodes PROVE ManifestIInv' /\ DescribedAsItWas'
  <1> DEFINE onlyUp == look.q.booted /\ (look.q.op \in {"Describe", "Start"} \/ look.again)
             found == {x \in look.on : x[2] \notin plc.gone /\ (onlyUp => x[2] \in plc.up)}
             g == {t \in look.tags : t[2] = "slice" \/ t \in found}
             n == [look EXCEPT !.on = found, !.up = plc.up, !.barred = plc.barred, !.tags = g]
  <1>1. stage = "nodes" /\ stage # "idle" /\ Reading /\ during' = during /\ plc' = plc
    BY DEF GetSliceNodes, Reading
  <1>2. LookOK /\ look \in Looks /\ look.q \in Questions /\ plc \in during /\ plc \in World /\ look.on \subseteq Pairs
    BY <1>1, LookType
  <1>3. /\ found \subseteq look.on /\ g \subseteq look.tags
        /\ \A x \in found : x[2] \notin plc.gone
        /\ \A x \in look.on \ found : x[2] \in plc.gone \/ (look.q.booted /\ x[2] \notin plc.up)
        /\ \A t \in {<<look.of, "slice">>} \cup found : t \in look.tags => t \in g
    OBVIOUS
  <1>4. \A x \in look.on \ found : x \notin plc.on \/ (look.q.booted /\ x[2] \notin plc.up)
    BY <1>2, <1>3 DEF ManifestIInv
  <1>5. look.q.op = "Renew" /\ ~look.again => \A x \in look.on \ found : x \notin plc.on
    BY <1>2 DEF ManifestIInv
  <1> HIDE DEF onlyUp, found, g
  <1>6. found \subseteq Pairs /\ g \subseteq Slices \X (Hosts \cup {"slice"})
    BY <1>2, <1>3 DEF Looks
  <1>7. /\ n \in Looks /\ n.q = look.q /\ n.again = look.again /\ n.of = look.of /\ n.on = found
        /\ n.users = look.users /\ n.tags = g /\ n.late = look.late /\ n.keyed = look.keyed
        /\ n.up = plc.up /\ n.barred = plc.barred
    BY <1>2, <1>6 DEF Looks, World
  <1> HIDE DEF n
  <1>8. CASE To("rows", n) /\ ~(look.q.op = "Renew" /\ ~look.again)
    <2>1. look' = n /\ stage' = "rows"
      BY <1>8 DEF To
    <2>2. SlicesSeen'
      <3>1. SlicesSeen
        BY <1>1, <1>2 DEF LookOK
      <3>2. found \subseteq AskedFor(look.q, look.of) /\ \A x \in found : \E w \in during : x \in w.on
        BY <1>3, <3>1 DEF SlicesSeen
      <3>3. \A x \in AskedFor(look.q, look.of) \ found : \E w \in during :
              x \notin w.on \/ (look.q.booted /\ x[2] \notin w.up)
        BY <1>1, <1>2, <1>4, <3>1 DEF SlicesSeen
      <3>4. \A t \in {<<look.of, "slice">>} \cup found : (\A w \in during : t \in w.tags) => t \in g
        BY <1>3, <3>1 DEF SlicesSeen
      <3> QED BY <1>1, <1>3, <1>7, <2>1, <3>1, <3>2, <3>3, <3>4 DEF SlicesSeen
    <2>3. NodesSeen'
      BY <1>1, <1>2, <1>3, <1>7, <1>8, <2>1 DEF NodesSeen
    <2>4. LookOK'
      BY <1>1, <1>2, <1>7, <2>1, <2>2, <2>3 DEF LookOK
    <2> QED BY <1>1, <1>7, <1>8, <2>4, ReadOn DEF Stages
  <1>9. CASE To("expire", n)
    <2>1. look' = n /\ stage' = "expire"
      BY <1>9 DEF To
    <2>2. LookOK'
      BY <1>1, <1>2, <1>7, <2>1 DEF LookOK, SlicesSeen
    <2> QED BY <1>1, <1>7, <1>9, <2>2, ReadOn DEF Stages
  <1>10. CASE look.q.op = "Renew" /\ ~look.again /\ found = {} /\ Answer("SearchFailed", Nowhere)
    <2>1. /\ ManifestIInv' /\ told'.question = look.q /\ told'.fault = "SearchFailed" /\ told'.says = Nowhere
          /\ during' = during
      BY <1>1, <1>10, AnswerInv
    <2>2. /\ look.of \in Named(look.q)
          /\ \A x \in AskedFor(look.q, look.of) : \E w \in during : x \notin w.on
      BY <1>1, <1>2, <1>5, <1>10 DEF LookOK, SlicesSeen
    <2> QED BY <2>1, <2>2, NowhereAssumption DEF DescribedAsItWas, FaultsHaveCauses, Faults, Ever
  <1>11. /\ (look.q.op = "Renew" /\ ~look.again) =>
               IF found = {} THEN Answer("SearchFailed", Nowhere) ELSE To("expire", n)
         /\ ~(look.q.op = "Renew" /\ ~look.again) => To("rows", n)
    <2>1. n = [look EXCEPT !.on = found, !.up = plc.up, !.barred = plc.barred,
                           !.tags = {t \in @ : t[2] = "slice" \/ t \in found}]
      BY <1>2 DEF n, g, Looks
    <2> QED BY <2>1 DEF GetSliceNodes, found, onlyUp
  <1> QED BY <1>8, <1>9, <1>10, <1>11

LEMMA UpdateSliceInv == ASSUME ManifestIInv, UpdateSlice PROVE ManifestIInv' /\ DescribedAsItWas'
  <1> DEFINE l == plc.late \cup {look.of}
             to == [plc EXCEPT !.late = l]
             n == [look EXCEPT !.again = TRUE]
  <1>1. stage = "expire" /\ stage # "idle" /\ plc' = to /\ during' = during \cup {to}
        /\ look' = n /\ stage' = "slices" /\ told' = Nowhere
    BY DEF UpdateSlice, Writing, To
  <1>2. LookOK /\ look \in Looks /\ look.q \in Questions /\ plc \in World /\ look.of \in Named(look.q)
        /\ look.of \in Slices
    <2>1. LookOK /\ look \in Looks /\ look.q \in Questions /\ plc \in World
      BY <1>1, LookType
    <2> QED BY <1>1, <2>1, QuestionType DEF LookOK
  <1>3. l \in SUBSET Slices /\ look.of \in l
    BY <1>2 DEF World
  <1> HIDE DEF l
  <1>4. to \in World /\ to.on = plc.on /\ to.gone = plc.gone /\ to.late = l
    BY <1>2, <1>3 DEF World
  <1> HIDE DEF to
  <1>5. n \in Looks /\ n.q = look.q
    BY <1>2 DEF Looks
  <1> HIDE DEF n
  <1>6. LookOK'
    BY <1>1, <1>2, <1>3, <1>4, <1>5 DEF LookOK
  <1> QED BY <1>1, <1>4, <1>6 DEF ManifestIInv, Stages, DescribedAsItWas

LEMMA QueryAllocationsInv == ASSUME ManifestIInv, QueryAllocations PROVE ManifestIInv' /\ DescribedAsItWas'
  <1> DEFINE r == [x \in look.on |-> plc.row[x]]
             n == [look EXCEPT !.row = r]
  <1>1. stage = "rows" /\ stage # "idle" /\ Reading /\ during' = during /\ plc' = plc /\ To("sites", n)
    BY DEF QueryAllocations, Reading
  <1>2. LookOK /\ look \in Looks /\ plc \in during /\ plc \in World /\ look.on \subseteq Pairs
    BY <1>1, LookType
  <1>3. r \in {Nowhere} \cup UNION {[S -> Rows] : S \in SUBSET Pairs}
    <2>1. r \in [look.on -> Rows]
      BY <1>2 DEF World
    <2> QED BY <1>2, <2>1
  <1>4. look' = n /\ stage' = "sites" /\ \E w \in during : r = [x \in look.on |-> w.row[x]]
    BY <1>1, <1>2 DEF To
  <1> HIDE DEF r
  <1>5. /\ n \in Looks /\ n.q = look.q /\ n.again = look.again /\ n.of = look.of /\ n.on = look.on
        /\ n.users = look.users /\ n.tags = look.tags /\ n.late = look.late /\ n.keyed = look.keyed
        /\ n.up = look.up /\ n.barred = look.barred /\ n.row = r
    BY <1>2, <1>3 DEF Looks
  <1> HIDE DEF n
  <1>6. SlicesSeen /\ NodesSeen
    BY <1>1, <1>2 DEF LookOK
  <1>7. SlicesSeen'
    BY ZenonT(40), <1>1, <1>4, <1>5, <1>6 DEF SlicesSeen
  <1>8. NodesSeen'
    BY <1>1, <1>4, <1>5, <1>6 DEF NodesSeen
  <1>9. LookOK'
    BY <1>1, <1>2, <1>4, <1>5, <1>7, <1>8 DEF LookOK
  <1> QED BY <1>1, <1>5, <1>9, ReadOn DEF Stages

\* What is said of a sliver.
LEMMA SliverSaid ==
  ASSUME NEW x
  PROVE  LET g == GeniSliver(x) IN
         /\ g.sliver = x /\ g.state = look.row[x]
         /\ g.op = "pending" <=> look.row[x] = "allocated"
         /\ g.op = "ready" => look.row[x] = "provisioned" /\ x[2] \in look.up
         /\ g.op = "failed" /\ look.row[x] = "provisioned" => x[2] \notin look.up
  BY DEF GeniSliver

\* The pieces of a description that is complete.
LEMMA DescriptionHolds ==
  ASSUME ManifestIInv, stage = "sites", during' = during, told'.question = look.q, told'.fault = Nowhere,
         told'.says = Description
  PROVE  DescribedAsItWas'
  <1>1. LookOK /\ look \in Looks /\ look.q \in Questions /\ look.on \subseteq Pairs /\ look.users \subseteq Persons
        /\ look.q.op # "Shutdown" /\ SlicesSeen /\ NodesSeen
    BY LookType DEF LookOK
  <1> SUFFICES ASSUME NEW one \in Slices, Named(look.q) = {one}
               PROVE  DescribesSlivers' /\ DescribesSlice'
    BY <1>1 DEF DescribedAsItWas
  <1> DEFINE q == look.q
             s == look.of
             asked == IF q.slivers = {} THEN SliversOf(s) ELSE q.slivers
             says == Description
  <1>2. s = one /\ s \in Slices /\ AskedFor(q, s) = asked /\ asked \subseteq Pairs
    BY <1>1, AskedByName, QuestionType DEF SlicesSeen
  <1>3. /\ says.of = s /\ says.users = look.users /\ says.keyed = look.keyed /\ says.tags = look.tags
        /\ says.late = look.late /\ says.slivers = {GeniSliver(x) : x \in Shown}
    BY DEF Description
  <1>4. Shown \subseteq look.on /\ \A x \in look.on \ Shown : \E w \in during : x \in w.barred
    BY <1>1 DEF Shown, NodesSeen
  <1>5. {g.sliver : g \in says.slivers} = Shown
    <2> DEFINE saidOf == {GeniSliver(x) : x \in Shown}
    <2>1. \A x : GeniSliver(x).sliver = x
      BY SliverSaid
    <2>2. \A x : x \in {g.sliver : g \in saidOf} <=> x \in Shown
      BY <2>1
    <2> QED BY <1>3, <2>2
  <1>6. PICK seen \in during : look.row = [x \in look.on |-> seen.row[x]]
    BY <1>1 DEF LookOK
  <1>7. PICK upThen \in during : look.up = upThen.up
    BY <1>1 DEF NodesSeen
  <1> HIDE DEF says, asked
  <1>8. DescribesSlivers'
    <2>1. Shown \subseteq asked
      BY <1>1, <1>2, <1>4 DEF SlicesSeen
    <2>2. ASSUME NEW x \in asked,
                 ~(\E w \in during : x \notin w.on \/ x \in w.barred \/ (q.booted /\ x[2] \notin w.up))
          PROVE  x \in Shown
      BY <1>1, <1>2, <1>4, <2>2 DEF SlicesSeen
    <2>3. ASSUME NEW g \in says.slivers
          PROVE  /\ \E w \in during : g.sliver \in w.on
                 /\ \E w \in during : w.row[g.sliver] = g.state
                 /\ g.op = "pending" <=> g.state = "allocated"
                 /\ g.op = "ready" => g.state = "provisioned" /\ \E w \in during : g.sliver[2] \in w.up
                 /\ g.op = "failed" /\ g.state = "provisioned" => \E w \in during : g.sliver[2] \notin w.up
      <3>1. PICK x \in Shown : g = GeniSliver(x)
        BY <1>3, <2>3
      <3>2. x \in look.on
        BY <1>4
      <3>3. /\ g.sliver = x /\ g.state = look.row[x]
            /\ g.op = "pending" <=> look.row[x] = "allocated"
            /\ g.op = "ready" => look.row[x] = "provisioned" /\ x[2] \in look.up
            /\ g.op = "failed" /\ look.row[x] = "provisioned" => x[2] \notin look.up
        BY <3>1, SliverSaid
      <3>4. look.row[x] = seen.row[x]
        BY <1>6, <3>2
      <3> QED BY <1>1, <1>6, <1>7, <3>2, <3>3, <3>4 DEF SlicesSeen
    <2>4. /\ told'.question = q /\ told'.says = says /\ says.of = s
      BY <1>3 DEF says
    <2>5. asked = IF told'.question.slivers = {} THEN SliversOf(told'.says.of) ELSE told'.question.slivers
      BY <2>4 DEF asked
    <2> HIDE DEF q, s
    <2> QED BY <1>5, <2>1, <2>2, <2>3, <2>4, <2>5 DEF DescribesSlivers, Ever
  <1>9. DescribesSlice'
    <2>1. PICK w1 \in during : look.users = {p \in Persons : \E r \in Named(look.q) : <<r, p>> \in w1.members}
      BY <1>1 DEF SlicesSeen
    <2>2. PICK w2 \in during : look.keyed = look.users \cap w2.keyed
      BY <1>1 DEF LookOK
    <2>3. look.users = {p \in Persons : <<s, p>> \in w1.members}
      BY <1>2, <2>1
    <2>4. /\ \A t \in look.tags : \E w \in during : t \in w.tags
          /\ \A t \in {<<s, "slice">>} \cup Shown : (\A w \in during : t \in w.tags) => t \in look.tags
          /\ \E w \in during : look.late <=> s \in w.late
      BY <1>1, <1>4 DEF SlicesSeen
    <2>5. q.op = "Renew" => \E w \in during : s \in w.late
      BY <1>1, <1>2 DEF NodesSeen, LookOK
    <2>6. told'.question = q /\ told'.says = says
      BY DEF says
    <2>7. /\ look.users \subseteq {p \in Persons : \E w \in during : <<s, p>> \in w.members}
          /\ {p \in Persons : \A w \in during : <<s, p>> \in w.members} \subseteq look.users
          /\ look.keyed \subseteq {p \in look.users : \E w \in during : p \in w.keyed}
          /\ {p \in look.users : \A w \in during : p \in w.keyed} \subseteq look.keyed
      BY <2>2, <2>3
    <2> HIDE DEF q, s
    <2> QED BY <1>3, <1>5, <2>4, <2>5, <2>6, <2>7 DEF DescribesSlice, Ever, Always
  <1> QED BY <1>8, <1>9

LEMMA GetNodeSitesInv == ASSUME ManifestIInv, GetNodeSites PROVE ManifestIInv' /\ DescribedAsItWas'
  <1>1. stage = "sites" /\ stage # "idle" /\ Reading /\ during' = during /\ plc' = plc
    BY DEF GetNodeSites, Reading
  <1>2. /\ LookOK /\ look \in Looks /\ look.q \in Questions /\ look.on \subseteq Pairs /\ plc \in during
        /\ look.q.op # "Shutdown" /\ SlicesSeen /\ NodesSeen /\ Shown \subseteq look.on
    BY <1>1, LookType DEF LookOK, Shown
  <1>3. CASE (\E x \in Shown : x[2] \in plc.gone) /\ Answer("KeyError", Nowhere)
    <2>1. /\ ManifestIInv' /\ told'.question = look.q /\ told'.fault = "KeyError" /\ during' = during
      BY <1>1, <1>3, AnswerInv
    <2>2. PICK x \in Shown : x[2] \in plc.gone
      BY <1>3
    <2>3. x[2] \in Hosts /\ (\E w \in during : x[2] \in w.gone) /\ (\E w \in during : ~(x[2] \in w.gone))
      BY <1>2, <2>2 DEF NodesSeen, Pairs
    <2> QED BY <2>1, <2>3, NowhereAssumption DEF DescribedAsItWas, FaultsHaveCauses, Faults, Ever, Always
  <1>4. CASE /\ \E g \in Description.slivers : g.op = "pending"
             /\ Answer("UnsupportedOperation", Nowhere)
    <2>1. /\ ManifestIInv' /\ told'.question = look.q /\ told'.fault = "UnsupportedOperation" /\ during' = during
      BY <1>1, <1>4, AnswerInv
    <2>2. PICK x \in Shown : GeniSliver(x).op = "pending"
      BY <1>4 DEF Description
    <2>3. look.row[x] = "allocated" /\ x \in look.on
      BY <1>2, <2>2, SliverSaid
    <2>4. PICK w \in during : look.row = [y \in look.on |-> w.row[y]]
      BY <1>1, <1>2 DEF LookOK
    <2>5. w.row[x] = "allocated"
      BY <2>3, <2>4
    <2>6. x \in UNION {AskedFor(look.q, s) : s \in Named(look.q)}
      BY <1>2, <2>3 DEF SlicesSeen
    <2>7. \E v \in during : v.row[x] = "allocated"
      BY <2>5
    <2> QED BY <2>1, <2>6, <2>7, NowhereAssumption DEF DescribedAsItWas, FaultsHaveCauses, Faults, Ever
  <1>5. CASE look.q.op = "Start" /\ To("slices", [look EXCEPT !.again = TRUE])
    <2> DEFINE n == [look EXCEPT !.again = TRUE]
    <2>1. n \in Looks /\ n.q = look.q /\ look' = n /\ stage' = "slices"
      BY <1>2, <1>5 DEF Looks, To
    <2> HIDE DEF n
    <2>2. LookOK'
      BY <1>1, <1>2, <1>5, <2>1 DEF LookOK
    <2> QED BY <1>1, <1>5, <2>1, <2>2, ReadOn DEF Stages, n
  <1>6. CASE Answer(Nowhere, Description)
    <2>1. /\ ManifestIInv' /\ told'.question = look.q /\ told'.fault = Nowhere /\ told'.says = Description
          /\ during' = during
      BY <1>1, <1>6, AnswerInv
    <2> QED BY <1>1, <2>1, DescriptionHolds
  <1> QED BY <1>3, <1>4, <1>5, <1>6 DEF GetNodeSites, Start

\* Whatever others do, the testbed and the rows stay of their kind.
LEMMA BecomeType ==
  ASSUME plc \in World, NEW x \in Pairs, NEW p \in Persons, NEW next \in Become(x, p)
  PROVE  next \in World
  <1>1. x[1] \in Slices /\ x[2] \in Hosts /\ <<x[1], p>> \in Slices \X Persons
        /\ <<x[1], "slice">> \in Slices \X (Hosts \cup {"slice"}) /\ x \in Slices \X (Hosts \cup {"slice"})
    BY DEF Pairs
  <1>2. \A S, T : \A y \in T : S \subseteq T => Toggled(S, y) \subseteq T
    BY DEF Toggled
  <1>3. ASSUME NEW S \in SUBSET Pairs
        PROVE  [plc EXCEPT !.on = S] \in World /\ [plc EXCEPT !.barred = S] \in World
    BY DEF World
  <1>4. ASSUME NEW S \in SUBSET Hosts
        PROVE  [plc EXCEPT !.up = S] \in World
    BY DEF World
  <1>5. ASSUME NEW S \in SUBSET (Slices \X Persons)
        PROVE  [plc EXCEPT !.members = S] \in World
    BY DEF World
  <1>6. ASSUME NEW S \in SUBSET Persons
        PROVE  [plc EXCEPT !.keyed = S] \in World
    BY DEF World
  <1>7. ASSUME NEW S \in SUBSET (Slices \X (Hosts \cup {"slice"}))
        PROVE  [plc EXCEPT !.tags = S] \in World
    BY DEF World
  <1>8. ASSUME NEW S \in SUBSET Slices
        PROVE  [plc EXCEPT !.late = S] \in World
    BY DEF World
  <1>10. ASSUME NEW S \in SUBSET Hosts, NEW T \in SUBSET Pairs
         PROVE  [plc EXCEPT !.gone = S, !.on = T] \in World
    BY DEF World
  <1>11. ASSUME NEW r \in {Nowhere, "allocated", "provisioned"}
         PROVE  [plc EXCEPT !.row[x] = r] \in World
    BY DEF World, Rows
  <1>12. /\ plc.on \subseteq Pairs /\ plc.barred \subseteq Pairs /\ plc.up \subseteq Hosts /\ plc.gone \subseteq Hosts
         /\ plc.members \subseteq Slices \X Persons /\ plc.keyed \subseteq Persons
         /\ plc.tags \subseteq Slices \X (Hosts \cup {"slice"}) /\ plc.late \subseteq Slices
    BY DEF World
  <1>13. CASE next = [plc EXCEPT !.on = Toggled(@, x)] \/ next = [plc EXCEPT !.barred = Toggled(@, x)]
    BY <1>2, <1>3, <1>12, <1>13 DEF World
  <1>14. CASE next = [plc EXCEPT !.up = Toggled(@, x[2])]
    BY <1>1, <1>2, <1>4, <1>12, <1>14 DEF World
  <1>15. CASE next = [plc EXCEPT !.gone = @ \cup {x[2]}, !.on = @ \ (Slices \X {x[2]})]
    <2>1. plc.gone \cup {x[2]} \in SUBSET Hosts /\ plc.on \ (Slices \X {x[2]}) \in SUBSET Pairs
      BY <1>1, <1>12
    <2> QED BY <1>10, <1>15, <2>1
  <1>16. CASE next = [plc EXCEPT !.members = Toggled(@, <<x[1], p>>)]
    <2>1. Toggled(plc.members, <<x[1], p>>) \subseteq Slices \X Persons
      <3>1. <<x[1], p>> \in Slices \X Persons /\ plc.members \subseteq Slices \X Persons
        BY <1>1, <1>12
      <3> QED BY <3>1, Zenon DEF Toggled
    <2> QED BY <1>5, <1>16, <2>1 DEF World
  <1>17. CASE next = [plc EXCEPT !.keyed = Toggled(@, p)]
    BY <1>2, <1>6, <1>12, <1>17 DEF World
  <1>18. CASE next = [plc EXCEPT !.tags = Toggled(@, x)] \/ next = [plc EXCEPT !.tags = Toggled(@, <<x[1], "slice">>)]
    <2>1. Toggled(plc.tags, x) \subseteq Slices \X (Hosts \cup {"slice"})
          /\ Toggled(plc.tags, <<x[1], "slice">>) \subseteq Slices \X (Hosts \cup {"slice"})
      <3>1. /\ x \in Slices \X (Hosts \cup {"slice"}) /\ <<x[1], "slice">> \in Slices \X (Hosts \cup {"slice"})
            /\ plc.tags \subseteq Slices \X (Hosts \cup {"slice"})
        BY <1>1, <1>12
      <3> QED BY <3>1, Zenon DEF Toggled
    <2> QED BY <1>7, <1>18, <2>1 DEF World
  <1>19. CASE next = [plc EXCEPT !.late = @ \ {x[1]}]
    BY <1>8, <1>12, <1>19 DEF World
  <1>21. CASE next \in {[plc EXCEPT !.row[x] = r] : r \in {Nowhere, "allocated", "provisioned"}}
    BY <1>11, <1>21
  <1> QED BY <1>13, <1>14, <1>15, <1>16, <1>17, <1>18, <1>19, <1>21 DEF Become

LEMMA OthersMoveInv == ASSUME ManifestIInv, OthersMove PROVE ManifestIInv' /\ DescribedAsItWas'
  <1>1. PICK x \in Pairs, p \in Persons : \E next \in Become(x, p) :
          /\ next.on \cap (Slices \X next.gone) = {}
          /\ plc' = next /\ during' = IF stage = "idle" THEN {} ELSE during \cup {next}
    BY DEF OthersMove, Pairs
  <1>2. /\ plc' \in World /\ plc'.on \cap (Slices \X plc'.gone) = {}
        /\ stage # "idle" => plc' \in during' /\ during \subseteq during'
    BY <1>1, BecomeType DEF ManifestIInv
  <1>3. told' = Nowhere /\ UNCHANGED <<stage, look>>
    BY DEF OthersMove
  <1>4. \A y \in plc'.on : y[2] \notin plc'.gone
    <2>1. plc'.on \subseteq Slices \X Hosts
      BY <1>2 DEF World, Pairs
    <2>2. \A y \in plc'.on : y[2] \in plc'.gone => y \in Slices \X plc'.gone
      BY <2>1
    <2> QED BY <1>2, <2>2
  <1>5. stage # "idle" => LookOK'
    BY <1>2, <1>3, LookKept DEF ManifestIInv
  <1> QED BY <1>2, <1>3, <1>4, <1>5 DEF ManifestIInv, DescribedAsItWas

LEMMA ManifestNextInv == ASSUME ManifestIInv, ManifestNext PROVE ManifestIInv' /\ DescribedAsItWas'
  BY AskManifestInv, CheckSliverCredentialsInv, GetSlicesInv, GetKeysInv, GetSliceTagsInv, GetSliceNodesInv,
     UpdateSliceInv, QueryAllocationsInv, GetNodeSitesInv, OthersMoveInv
  DEF ManifestNext

LEMMA ManifestStutter ==
  ASSUME ManifestIInv, DescribedAsItWas, UNCHANGED manifestVars
  PROVE  ManifestIInv' /\ DescribedAsItWas'
  <1>1. UNCHANGED <<plc, stage, look, during, told>>
    BY DEF manifestVars
  <1>2. ManifestIInv'
    BY <1>1, LookKept DEF ManifestIInv, LookOK
  <1>3. DescribedAsItWas'
    BY <1>1 DEF DescribedAsItWas, FaultsHaveCauses, DescribesSlivers, DescribesSlice, Ever, Always
  <1> QED BY <1>2, <1>3

LEMMA ManifestInitInv == ASSUME ManifestInit PROVE ManifestIInv /\ DescribedAsItWas
  <1>1. PICK one \in Home, on \in SUBSET (Home \X Hosts), done \in SUBSET (Home \X Hosts) :
          plc = Beginning(one, on, done)
    BY DEF ManifestInit, Beginnings
  <1>2. on \cup UNION {SliversOf(s) : s \in Slices \ {one}} \subseteq Pairs
    BY QuestionsAssumption DEF SliversOf, Pairs
  <1>3. on \cup {<<one, "slice">>} \subseteq Slices \X (Hosts \cup {"slice"})
    BY QuestionsAssumption
  <1>4. plc \in World /\ plc.gone = {}
    BY <1>1, <1>2, <1>3 DEF Beginning, World, Pairs, Rows
  <1> QED BY <1>4 DEF ManifestInit, ManifestIInv, Stages, DescribedAsItWas

-----------------------------------------------------------------------------
(* Both together, in the aggregate's server                                   *)

AnswersIInv == AdsIInv /\ AdsFollowTestbed /\ ManifestIInv /\ DescribedAsItWas

\* Whatever the threads, testbeds, requests and times, an advertisement shows
\* what was asked for and nothing that had gone for longer than an entry's life
\* and the time of two requests, cached or not, and a description of slivers is
\* made of what was so since the request came (AggregateManager.ListResources,
\* PlAggregate.list_resources, describe and get_slivers, Cache).
THEOREM AnswersFollow == ManagerSpec => []AnswersFollowTestbed
  <1>1. ManagerInit => AnswersIInv
    <2> SUFFICES ASSUME ManagerInit PROVE AnswersIInv
      OBVIOUS
    <2>1. AdsInit /\ ManifestInit /\ said = Nil
      BY DEF ManagerInit, PlAggregateInit, AdsInit
    <2> QED BY <2>1, AdsInitInv, ManifestInitInv DEF AnswersIInv, AdsFollowTestbed
  <1>2. AnswersIInv /\ [ManagerNext]_managerVars => AnswersIInv'
    <2> SUFFICES ASSUME AnswersIInv, [ManagerNext]_managerVars PROVE AnswersIInv'
      OBVIOUS
    <2>1. CASE UNCHANGED adsVars
      <3>1. AdsIInv' /\ AdsFollowTestbed'
        BY <2>1, AdsStutterInv, AdsStutterAnswers DEF AnswersIInv
      <3>2. CASE UNCHANGED manifestVars
        BY <3>1, <3>2, ManifestStutter DEF AnswersIInv
      <3>3. CASE ManifestNext
        BY <3>1, <3>3, ManifestNextInv DEF AnswersIInv
      <3>4. UNCHANGED manifestVars \/ ManifestNext
        BY DEF ManagerNext, PlAggregateNext, plAggregateVars, managerVars, AdsNext
      <3> QED BY <3>1, <3>2, <3>3, <3>4
    <2>2. CASE AdsNext /\ UNCHANGED manifestVars
      BY <2>2, AdsNextInv, AdsAnswers, ManifestStutter DEF AnswersIInv
    <2> QED BY <2>1, <2>2 DEF ManagerNext, PlAggregateNext, plAggregateVars, managerVars
  <1>3. AnswersIInv => AnswersFollowTestbed
    BY DEF AnswersIInv, AnswersFollowTestbed
  <1> QED BY <1>1, <1>2, <1>3, PTL DEF ManagerSpec

-----------------------------------------------------------------------------
(* Call ids                                                                  *)

\* What a thread knows where it is: its call, its table, and that it has the
\* lock of that table from the check to the answer.
Holds(w) ==
    /\ pc[w] # "idle" => call[w] \in Ids
    /\ pc[w] = "fetch" => instance \in Table
    /\ pc[w] \in {"acquire", "check", "store", "refuse"} => mine[w] \in Table
    /\ pc[w] \in {"check", "store", "refuse"} => lock[mine[w]] = w

\* A thread about to store an id has the lock, and the id is not in its table.
Unknown(w) == pc[w] = "store" => served[mine[w]][call[w]] = None

Past == \A n \in 1 .. Len(runs) : runs[n].at <= now

IInv ==
    /\ TypeOK
    /\ \A w \in Threads : Holds(w)
    /\ \A w \in Threads : Unknown(w)
    /\ Past
    /\ RememberedInTime
    /\ OncePerTable

USE RetriesAssumption, TimesAssumption, CallsAssumption, NoneAssumption

LEMMA InitInv == Init => IInv
  <1> SUFFICES ASSUME Init PROVE IInv
    OBVIOUS
  <1>1. TypeOK
    BY DEF Init, TypeOK, Table, Run
  <1>2. (\A w \in Threads : Holds(w)) /\ (\A w \in Threads : Unknown(w))
    BY DEF Init, Holds, Unknown
  <1>3. Past /\ RememberedInTime /\ OncePerTable
    BY DEF Init, Past, RememberedInTime, OncePerTable
  <1> QED BY <1>1, <1>2, <1>3 DEF IInv

-----------------------------------------------------------------------------
(* Helpers *)

\* No id is a number and no thread is a number or None: what the type
\* invariant leaves for the provers to know of None.
LEMMA NoneIsNothing == None \notin Table /\ None \notin Ids /\ None \notin Threads /\ None \notin Nat
  BY DEF Table

\* Purging keeps the type of a table's entries and what is young.
LEMMA PurgedType ==
  ASSUME NEW e \in [Ids -> (0 .. MaxTime) \cup {None}]
  PROVE  Purged(e) \in [Ids -> (0 .. MaxTime) \cup {None}]
  BY DEF Purged

LEMMA PurgedKeepsYoung ==
  ASSUME NEW e \in [Ids -> (0 .. MaxTime) \cup {None}], NEW i \in Ids,
         e[i] # None => now - e[i] < PurgeTimeout, now \in Nat
  PROVE  Purged(e)[i] = e[i]
  BY NoneIsNothing DEF Purged

LEMMA PurgedKeepsNone ==
  ASSUME NEW e, NEW i \in Ids, e[i] = None
  PROVE  Purged(e)[i] = None
  BY DEF Purged

-----------------------------------------------------------------------------
(* Type correctness, one lemma per group of actions *)

LEMMA ReturnType ==
  ASSUME TypeOK, NEW w \in Threads, Return(w)
  PROVE  /\ pc' \in [Threads -> {"idle", "test", "create", "fetch", "acquire",
                                 "check", "store", "refuse"}]
         /\ call' \in [Threads -> Ids \cup {None}]
         /\ mine' \in [Threads -> Table \cup {None}]
         /\ tries' \in [Threads -> 0 .. Retries - 1]
  BY DEF TypeOK, Return, Goto

LEMMA HandleType ==
  ASSUME TypeOK, NEW w \in Threads, NEW b \in BOOLEAN, Handle(w, b),
         call[w] \in Ids, mine[w] \in Table
  PROVE  /\ runs' \in Seq(Run)
         /\ Len(runs') = Len(runs) + 1
         /\ \A n \in 1 .. Len(runs) : runs'[n] = runs[n]
         /\ runs'[Len(runs) + 1] = [id |-> call[w], table |-> mine[w],
                                    at |-> now, locked |-> b]
  <1> DEFINE r == [id |-> call[w], table |-> mine[w], at |-> now, locked |-> b]
  <1>1. r \in Run
    BY DEF TypeOK, Run
  <1>2. runs \in Seq(Run) /\ runs' = Append(runs, r)
    BY DEF TypeOK, Handle
  <1> QED BY <1>1, <1>2

LEMMA TypeStep == IInv /\ [Next]_vars => TypeOK'
  <1> SUFFICES ASSUME IInv, [Next]_vars PROVE TypeOK'
    OBVIOUS
  <1> USE DEF IInv
  <1>1. CASE Tick
    BY <1>1 DEF TypeOK, Tick, locals
  <1>2. CASE UNCHANGED vars
    BY <1>2 DEF TypeOK, vars, locals
  <1>3. ASSUME NEW w \in Threads, Call(w) PROVE TypeOK'
    BY <1>3 DEF TypeOK, Call, Goto, At
  <1>4. ASSUME NEW w \in Threads, TestInstance(w) PROVE TypeOK'
    BY <1>4 DEF TypeOK, TestInstance, Goto, At, locals
  <1>5. ASSUME NEW w \in Threads, CreateInstance(w) PROVE TypeOK'
    BY <1>5 DEF TypeOK, CreateInstance, Goto, At, locals, Table
  <1>6. ASSUME NEW w \in Threads, FetchInstance(w) PROVE TypeOK'
    BY <1>6 DEF TypeOK, FetchInstance, Goto, At
  <1>7. ASSUME NEW w \in Threads, Acquire(w) PROVE TypeOK'
    <2>1. call[w] \in Ids /\ mine[w] \in Table
      BY <1>7 DEF Acquire, At, Holds
    <2>2. CASE lock[mine[w]] = None /\ Goto(w, "check") /\ UNCHANGED <<locals, runs>>
               /\ lock' = [lock EXCEPT ![mine[w]] = w]
      BY <1>7, <2>1, <2>2 DEF TypeOK, Acquire, Goto, locals
    <2>3. CASE tries[w] + 1 < Retries /\ tries' = [tries EXCEPT ![w] = @ + 1]
               /\ UNCHANGED <<lock, pc, call, mine, runs>>
      BY <1>7, <2>3 DEF TypeOK, Acquire
    <2>4. CASE Handle(w, FALSE) /\ UNCHANGED lock
      <3>1. runs' \in Seq(Run)
        BY <2>1, <2>4, HandleType
      <3>2. Return(w)
        BY <2>4 DEF Handle
      <3> QED BY <1>7, <2>4, <3>1, <3>2, ReturnType DEF TypeOK, Acquire
    <2> QED BY <1>7, <2>2, <2>3, <2>4 DEF Acquire
  <1>8. ASSUME NEW w \in Threads, Check(w) PROVE TypeOK'
    BY <1>8 DEF TypeOK, Check, Goto, At, locals
  <1>9. ASSUME NEW w \in Threads, Store(w) PROVE TypeOK'
    <2>1. call[w] \in Ids /\ mine[w] \in Table
      BY <1>9 DEF Store, At, Holds
    <2>2. [served[mine[w]] EXCEPT ![call[w]] = now] \in [Ids -> (0 .. MaxTime) \cup {None}]
      BY <2>1 DEF TypeOK
    <2>3. served' \in [Table -> [Ids -> (0 .. MaxTime) \cup {None}]]
      BY <1>9, <2>1, <2>2, PurgedType DEF TypeOK, Store
    <2>4. runs' \in Seq(Run) /\ Return(w)
      <3>1. Handle(w, TRUE)
        BY <1>9 DEF Store
      <3> QED BY <3>1, <2>1, HandleType DEF Handle
    <2> QED BY <1>9, <2>3, <2>4, ReturnType DEF TypeOK, Store
  <1>10. ASSUME NEW w \in Threads, Refuse(w) PROVE TypeOK'
    <2>1. mine[w] \in Table
      BY <1>10 DEF Refuse, At, Holds
    <2>2. served' \in [Table -> [Ids -> (0 .. MaxTime) \cup {None}]]
      BY <1>10, <2>1, PurgedType DEF TypeOK, Refuse
    <2> QED BY <1>10, <2>2, ReturnType DEF TypeOK, Refuse
  <1> QED
    BY <1>1, <1>2, <1>3, <1>4, <1>5, <1>6, <1>7, <1>8, <1>9, <1>10 DEF Next, Step

-----------------------------------------------------------------------------
(* The lock *)

\* Two threads that hold a lock hold the locks of different tables.
LEMMA LocksDiffer ==
  ASSUME IInv, NEW v \in Threads, NEW w \in Threads, v # w,
         pc[v] \in {"check", "store", "refuse"}, pc[w] \in {"check", "store", "refuse"}
  PROVE  mine[v] # mine[w]
  BY DEF IInv, Holds

LEMMA HoldsStep == IInv /\ [Next]_vars => \A w \in Threads : Holds(w)'
  <1> SUFFICES ASSUME IInv, [Next]_vars, NEW v \in Threads PROVE Holds(v)'
    OBVIOUS
  <1> USE DEF IInv
  <1>0. Holds(v)
    OBVIOUS
  <1>1. CASE Tick
    BY <1>1, <1>0 DEF Holds, Tick, locals
  <1>2. CASE UNCHANGED vars
    BY <1>2, <1>0 DEF Holds, vars, locals
  <1>3. ASSUME NEW w \in Threads, Call(w) PROVE Holds(v)'
    BY <1>3, <1>0 DEF TypeOK, Holds, Call, Goto, At
  <1>4. ASSUME NEW w \in Threads, TestInstance(w) PROVE Holds(v)'
    BY <1>4, <1>0 DEF TypeOK, Holds, TestInstance, Missing, Goto, At, locals
  <1>5. ASSUME NEW w \in Threads, CreateInstance(w) PROVE Holds(v)'
    BY <1>5, <1>0 DEF TypeOK, Holds, CreateInstance, Goto, At, locals, Table
  <1>6. ASSUME NEW w \in Threads, FetchInstance(w) PROVE Holds(v)'
    BY <1>6, <1>0 DEF TypeOK, Holds, FetchInstance, Goto, At
  <1>7. ASSUME NEW w \in Threads, Acquire(w) PROVE Holds(v)'
    <2>1. mine[w] \in Table /\ Holds(w)
      BY <1>7 DEF Acquire, At, Holds
    <2>2. CASE lock[mine[w]] = None /\ Goto(w, "check") /\ UNCHANGED <<locals, runs>>
               /\ lock' = [lock EXCEPT ![mine[w]] = w]
      BY <1>7, <1>0, <2>1, <2>2, NoneIsNothing DEF TypeOK, Holds, Acquire, Goto, At, locals
    <2>3. CASE UNCHANGED <<lock, pc, call, mine, runs>>
      BY <1>7, <1>0, <2>3 DEF Holds, Acquire
    <2>4. CASE Handle(w, FALSE) /\ UNCHANGED lock
      BY <1>7, <1>0, <2>4 DEF TypeOK, Holds, Acquire, Handle, Return, Goto, At
    <2> QED BY <1>7, <2>2, <2>3, <2>4 DEF Acquire
  <1>8. ASSUME NEW w \in Threads, Check(w) PROVE Holds(v)'
    BY <1>8, <1>0 DEF TypeOK, Holds, Check, Goto, At, locals
  <1>9. ASSUME NEW w \in Threads, Store(w) PROVE Holds(v)'
    BY <1>9, <1>0, LocksDiffer DEF TypeOK, Holds, Store, Handle, Return, Goto, At
  <1>10. ASSUME NEW w \in Threads, Refuse(w) PROVE Holds(v)'
    BY <1>10, <1>0, LocksDiffer DEF TypeOK, Holds, Refuse, Return, Goto, At
  <1> QED
    BY <1>1, <1>2, <1>3, <1>4, <1>5, <1>6, <1>7, <1>8, <1>9, <1>10 DEF Next, Step

LEMMA UnknownStep == IInv /\ [Next]_vars => \A w \in Threads : Unknown(w)'
  <1> SUFFICES ASSUME IInv, [Next]_vars, NEW v \in Threads, pc'[v] = "store"
               PROVE  served'[mine'[v]][call'[v]] = None
    BY DEF Unknown
  <1> USE DEF IInv
  <1>1. CASE pc[v] = "check" /\ Check(v)
    BY <1>1 DEF TypeOK, Check, Goto, At, locals
  <1>2. CASE pc[v] = "store" /\ mine'[v] = mine[v] /\ call'[v] = call[v]
    <2>1. served[mine[v]][call[v]] = None
      BY <1>2 DEF Unknown
    <2>2. ASSUME NEW w \in Threads, w # v, Store(w) \/ Refuse(w)
          PROVE served'[mine[v]] = served[mine[v]]
      <3>1. mine[v] # mine[w]
        BY <2>2, <1>2, LocksDiffer DEF Store, Refuse, At
      <3>2. mine[v] \in Table
        BY <1>2 DEF Holds
      <3> QED BY <2>2, <3>1, <3>2 DEF TypeOK, Store, Refuse
    <2>3. served'[mine[v]] = served[mine[v]]
      <3>1. CASE UNCHANGED served
        BY <3>1
      <3>2. CASE \E w \in Threads : Store(w) \/ Refuse(w)
        <4>1. ASSUME NEW w \in Threads, Store(w) \/ Refuse(w) PROVE w # v
          BY <4>1, <1>2 DEF TypeOK, Store, Refuse, Handle, Return, Goto, At
        <4> QED BY <3>2, <4>1, <2>2
      <3> QED
        BY <3>1, <3>2 DEF Next, Step, Tick, Call, TestInstance, CreateInstance,
                          FetchInstance, Acquire, Check, vars
    <2> QED BY <1>2, <2>1, <2>3
  <1>3. (pc[v] = "check" /\ Check(v)) \/ (pc[v] = "store" /\ mine'[v] = mine[v] /\ call'[v] = call[v])
    <2>1. CASE Tick \/ UNCHANGED vars
      BY <2>1 DEF Tick, vars, locals
    <2>2. ASSUME NEW w \in Threads, Call(w) \/ TestInstance(w) \/ CreateInstance(w) \/ FetchInstance(w)
          PROVE  pc[v] = "store" /\ mine'[v] = mine[v] /\ call'[v] = call[v]
      BY <2>2 DEF TypeOK, Call, TestInstance, CreateInstance, FetchInstance, Goto, At, locals
    <2>3. ASSUME NEW w \in Threads, Acquire(w)
          PROVE  pc[v] = "store" /\ mine'[v] = mine[v] /\ call'[v] = call[v]
      BY <2>3 DEF TypeOK, Acquire, Handle, Return, Goto, At, locals
    <2>4. ASSUME NEW w \in Threads, Check(w)
          PROVE  <1>3!1 \/ <1>3!2
      BY <2>4 DEF TypeOK, Check, Goto, At, locals
    <2>5. ASSUME NEW w \in Threads, Store(w) \/ Refuse(w)
          PROVE  pc[v] = "store" /\ mine'[v] = mine[v] /\ call'[v] = call[v]
      BY <2>5 DEF TypeOK, Store, Refuse, Handle, Return, Goto, At
    <2> QED BY <2>1, <2>2, <2>3, <2>4, <2>5 DEF Next, Step
  <1> QED BY <1>1, <1>2, <1>3

-----------------------------------------------------------------------------
(* The calls that went through *)

\* A call that got no lock, or one that stored its id, is the last of runs.
LEMMA RunsStep ==
  ASSUME IInv, [Next]_vars
  PROVE  \/ UNCHANGED runs
         \/ \E w \in Threads, b \in BOOLEAN :
              /\ pc[w] \in {"acquire", "store"} /\ Handle(w, b)
              /\ b => Store(w)
              /\ ~b => UNCHANGED served
  <1> DEFINE Through == \E w \in Threads, b \in BOOLEAN :
                          /\ pc[w] \in {"acquire", "store"} /\ Handle(w, b)
                          /\ b => Store(w)
                          /\ ~b => UNCHANGED served
  <1>1. CASE Tick \/ UNCHANGED vars
    BY <1>1 DEF Tick, vars
  <1>2. ASSUME NEW w \in Threads, Call(w) \/ TestInstance(w) \/ CreateInstance(w) \/ FetchInstance(w)
        PROVE  UNCHANGED runs
    BY <1>2 DEF Call, TestInstance, CreateInstance, FetchInstance
  <1>3. ASSUME NEW w \in Threads, Check(w) \/ Refuse(w)
        PROVE  UNCHANGED runs
    BY <1>3 DEF Check, Refuse
  <1>4. ASSUME NEW w \in Threads, Acquire(w)
        PROVE  UNCHANGED runs \/ Through
    <2>1. pc[w] = "acquire" /\ UNCHANGED served /\ (UNCHANGED runs \/ Handle(w, FALSE))
      BY <1>4 DEF Acquire, At
    <2>2. CASE Handle(w, FALSE)
      BY <2>1, <2>2
    <2> QED BY <2>1, <2>2
  <1>5. ASSUME NEW w \in Threads, Store(w)
        PROVE  Through
    <2>1. pc[w] = "store" /\ Handle(w, TRUE)
      BY <1>5 DEF Store, At
    <2> QED BY <1>5, <2>1
  <1>6. Tick \/ UNCHANGED vars \/ \E w \in Threads : Call(w) \/ Step(w)
    BY DEF Next
  <1>7. ASSUME NEW w \in Threads, Call(w) \/ Step(w)
        PROVE  UNCHANGED runs \/ Through
    <2>1. CASE Call(w) \/ TestInstance(w) \/ CreateInstance(w) \/ FetchInstance(w)
      BY <1>2, <2>1
    <2>2. CASE Check(w) \/ Refuse(w)
      BY <1>3, <2>2
    <2>3. CASE Acquire(w)
      BY <1>4, <2>3
    <2>4. CASE Store(w)
      BY <1>5, <2>4
    <2> QED BY <1>7, <2>1, <2>2, <2>3, <2>4 DEF Step
  <1>8. CASE \E w \in Threads : Call(w) \/ Step(w)
    BY <1>7, <1>8
  <1> QED BY <1>1, <1>6, <1>8

LEMMA NowStep ==
  ASSUME IInv, [Next]_vars
  PROVE  /\ now \in Nat /\ now' \in Nat /\ now <= now'
         /\ UNCHANGED runs \/ now' = now
  <1>1. now \in 0 .. MaxTime /\ now \in Nat
    BY TimesAssumption DEF IInv, TypeOK
  <1>2. CASE Tick
    BY <1>1, <1>2 DEF Tick
  <1>3. CASE UNCHANGED vars
    BY <1>1, <1>3 DEF vars
  <1>4. ASSUME NEW w \in Threads, Call(w) \/ TestInstance(w) \/ CreateInstance(w) \/ FetchInstance(w)
        PROVE  now' = now
    BY <1>4 DEF Call, TestInstance, CreateInstance, FetchInstance
  <1>5. ASSUME NEW w \in Threads, Acquire(w) \/ Check(w) \/ Store(w) \/ Refuse(w)
        PROVE  now' = now
    BY <1>5 DEF Acquire, Check, Store, Refuse
  <1>6. Tick \/ UNCHANGED vars \/ now' = now
    BY <1>4, <1>5 DEF Next, Step
  <1> QED BY <1>1, <1>2, <1>3, <1>6

LEMMA RunType ==
  ASSUME TypeOK, NEW n \in 1 .. Len(runs)
  PROVE  /\ runs[n] \in Run /\ runs[n].id \in Ids /\ runs[n].table \in Table
         /\ runs[n].at \in 0 .. MaxTime /\ runs[n].locked \in BOOLEAN
  <1>1. runs \in Seq(Run)
    BY DEF TypeOK
  <1>2. runs[n] \in Run
    BY <1>1
  <1> QED BY <1>2 DEF Run

\* What an entry becomes in one step: a young one of a call that went through
\* stays, since an id is stored again only where there is no entry for it.
LEMMA EntriesKept ==
  ASSUME IInv, [Next]_vars, NEW n \in 1 .. Len(runs), runs[n].locked,
         now' < runs[n].at + PurgeTimeout
  PROVE  served'[runs[n].table][runs[n].id] = runs[n].at
  <1> DEFINE t == runs[n].table
             i == runs[n].id
  <1>1. t \in Table /\ i \in Ids /\ runs[n].at \in 0 .. MaxTime
    BY RunType DEF IInv
  <1>2. now \in Nat /\ now < runs[n].at + PurgeTimeout /\ now - runs[n].at < PurgeTimeout
    BY <1>1, NowStep
  <1>3. served[t][i] = runs[n].at
    BY <1>2 DEF IInv, RememberedInTime
  <1>4. ASSUME NEW w \in Threads, Store(w)
        PROVE  served'[t][i] = runs[n].at
    <2> DEFINE e == [served[t] EXCEPT ![call[w]] = now]
    <2>1. call[w] \in Ids /\ mine[w] \in Table /\ served[mine[w]][call[w]] = None
      BY <1>4 DEF IInv, Holds, Unknown, Store, At
    <2>2. CASE mine[w] # t
      BY <1>4, <1>1, <1>3, <2>1, <2>2 DEF Store, IInv, TypeOK
    <2>3. CASE mine[w] = t
      <3>1. call[w] # i
        BY <2>1, <2>3, <1>1, <1>3, NoneIsNothing
      <3>2. e \in [Ids -> (0 .. MaxTime) \cup {None}] /\ e[i] = runs[n].at
        BY <1>1, <1>3, <2>1, <3>1 DEF IInv, TypeOK
      <3>3. Purged(e)[i] = e[i]
        BY <3>2, <1>1, <1>2, PurgedKeepsYoung
      <3>4. served'[t] = Purged(e)
        BY <1>4, <1>1, <2>3 DEF Store, IInv, TypeOK
      <3> QED BY <3>2, <3>3, <3>4
    <2> QED BY <2>2, <2>3
  <1>5. ASSUME NEW w \in Threads, Refuse(w)
        PROVE  served'[t][i] = runs[n].at
    <2>1. served[t] \in [Ids -> (0 .. MaxTime) \cup {None}] /\ mine[w] \in Table
      BY <1>1, <1>5 DEF IInv, TypeOK, Holds, Refuse, At
    <2>2. Purged(served[t])[i] = served[t][i]
      BY <2>1, <1>1, <1>2, <1>3, PurgedKeepsYoung
    <2>3. served'[t] = served[t] \/ served'[t] = Purged(served[t])
      BY <1>5, <1>1, <2>1 DEF Refuse, IInv, TypeOK
    <2> QED BY <2>2, <2>3, <1>3
  <1>6. CASE UNCHANGED served
    BY <1>6, <1>3
  <1> QED
    BY <1>4, <1>5, <1>6 DEF Next, Step, Tick, Call, TestInstance, CreateInstance,
                            FetchInstance, Acquire, Check, vars

\* The entry that a call leaves when it goes through.
LEMMA EntryStored ==
  ASSUME IInv, NEW w \in Threads, Store(w)
  PROVE  served'[mine[w]][call[w]] = now
  <1> DEFINE e == [served[mine[w]] EXCEPT ![call[w]] = now]
  <1>1. call[w] \in Ids /\ mine[w] \in Table /\ now \in 0 .. MaxTime
    BY DEF IInv, TypeOK, Holds, Store, At
  <1>2. e \in [Ids -> (0 .. MaxTime) \cup {None}] /\ e[call[w]] = now
    BY <1>1 DEF IInv, TypeOK
  <1>3. Purged(e)[call[w]] = now
    BY <1>1, <1>2, PurgedKeepsYoung
  <1>4. served'[mine[w]] = Purged(e)
    BY <1>1 DEF Store, IInv, TypeOK
  <1> QED BY <1>3, <1>4

LEMMA HistoryStep == IInv /\ [Next]_vars => Past' /\ RememberedInTime' /\ OncePerTable'
  <1> SUFFICES ASSUME IInv, [Next]_vars PROVE Past' /\ RememberedInTime' /\ OncePerTable'
    OBVIOUS
  <1>1. CASE UNCHANGED runs
    <2>1. Past'
      <3> SUFFICES ASSUME NEW n \in 1 .. Len(runs) PROVE runs[n].at <= now'
        BY <1>1 DEF Past
      <3> QED BY NowStep, RunType DEF IInv, Past
    <2>2. RememberedInTime'
      BY <1>1, EntriesKept DEF RememberedInTime
    <2>3. OncePerTable'
      BY <1>1 DEF IInv, OncePerTable
    <2> QED BY <2>1, <2>2, <2>3
  <1>2. ASSUME NEW w \in Threads, NEW b \in BOOLEAN, pc[w] \in {"acquire", "store"},
               Handle(w, b), b => Store(w)
        PROVE  Past' /\ RememberedInTime' /\ OncePerTable'
    <2> DEFINE L == Len(runs)
               r == [id |-> call[w], table |-> mine[w], at |-> now, locked |-> b]
    <2>1. call[w] \in Ids /\ mine[w] \in Table
      BY <1>2 DEF IInv, Holds
    <2>2. /\ L \in Nat /\ Len(runs') = L + 1 /\ runs'[L + 1] = r
          /\ \A n \in 1 .. L : runs'[n] = runs[n]
      BY <1>2, <2>1, HandleType DEF IInv, TypeOK
    <2>3. now \in Nat /\ now' = now
      <3>1. runs' # runs
        BY <2>2
      <3> QED BY <3>1, NowStep
    <2>4. Past'
      <3> SUFFICES ASSUME NEW n \in 1 .. L + 1 PROVE runs'[n].at <= now
        BY <2>2, <2>3 DEF Past
      <3> QED BY <2>2, <2>3 DEF IInv, Past
    <2>5. RememberedInTime'
      <3> SUFFICES ASSUME NEW n \in 1 .. L + 1, runs'[n].locked,
                          now' < runs'[n].at + PurgeTimeout
                   PROVE  served'[runs'[n].table][runs'[n].id] = runs'[n].at
        BY <2>2 DEF RememberedInTime
      <3>1. CASE n \in 1 .. L
        BY <2>2, <3>1, EntriesKept
      <3>2. CASE n = L + 1
        BY <1>2, <2>2, <3>2, EntryStored
      <3> QED BY <2>2, <3>1, <3>2
    <2>6. OncePerTable'
      <3> SUFFICES ASSUME NEW m \in 1 .. L + 1, NEW n \in 1 .. L + 1, m < n,
                          Repeated(runs'[m], runs'[n])
                   PROVE  runs'[m].table # runs'[n].table
        BY <2>2 DEF OncePerTable
      <3>1. CASE n \in 1 .. L
        BY <2>2, <3>1 DEF IInv, OncePerTable
      <3>2. CASE n = L + 1
        <4>1. m \in 1 .. L /\ runs'[m] = runs[m]
          BY <2>2, <3>2
        <4>2. runs[m].id = call[w] /\ runs[m].locked /\ b /\ now - runs[m].at < PurgeTimeout
          BY <4>1, <3>2, <2>2 DEF Repeated
        <4>3. served[mine[w]][call[w]] = None
          BY <1>2, <4>2 DEF IInv, Unknown, Store, At
        <4>4. runs[m].at \in Nat /\ now < runs[m].at + PurgeTimeout
          BY <4>1, <4>2, <2>3, RunType DEF IInv
        <4>5. served[runs[m].table][runs[m].id] = runs[m].at
          BY <4>1, <4>2, <4>4 DEF IInv, RememberedInTime
        <4> QED BY <4>1, <4>2, <4>3, <4>4, <4>5, <3>2, <2>2, NoneIsNothing
      <3> QED BY <2>2, <3>1, <3>2
    <2> QED BY <2>4, <2>5, <2>6
  <1> QED BY <1>1, <1>2, RunsStep

LEMMA CallsInv == IInv /\ [Next]_vars => IInv'
  BY TypeStep, HoldsStep, UnknownStep, HistoryStep DEF IInv

LEMMA Invariant == Spec => []IInv
  BY InitInv, CallsInv, PTL DEF Spec

-----------------------------------------------------------------------------
(* The theorems *)

\* Every variable of the table of call ids keeps its type; in particular a
\* thread always has a table when it asks for the lock.
THEOREM TypeCorrect == Spec => []TypeOK
  <1>1. IInv => TypeOK
    BY DEF IInv
  <1> QED BY <1>1, Invariant, PTL

\* A table lets an id through once within the purge timeout.
THEOREM IdOncePerTable == Spec => []OncePerTable
  <1>1. IInv => OncePerTable
    BY DEF IInv
  <1> QED BY <1>1, Invariant, PTL

\* A call that went through is remembered until it is too old.
THEOREM IdRemembered == Spec => []RememberedInTime
  <1>1. IInv => RememberedInTime
    BY DEF IInv
  <1> QED BY <1>1, Invariant, PTL
=============================================================================
