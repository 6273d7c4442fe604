--------------------------- MODULE Advertisements ---------------------------
(* ListResources of a PlanetLab aggregate: the advertisement is taken from   *)
(* the cache or read from the testbed, call by call, and cached for Ttl.     *)
(* The cache is a dict of entries that the server's threads share; adding    *)
(* to it takes a lock that reading and removing do not.  Nothing invalidates *)
(* an entry when the testbed changes.                                        *)
EXTENDS Naturals, Sequences

CONSTANTS
  Readers,         \* threads of the aggregate's server that run ListResources
  Ttl,             \* how long an entry is kept
  Patience,        \* within which a request is answered
  Nil,
  Asked,           \* the keys of the requests
  MaxLists, MaxChanges, MaxClock   \* bounds

ASSUME AdsAssumption == Ttl \in Nat /\ Patience \in Nat /\ Nil \notin Nat \cup Readers
ASSUME AskedAssumption == Asked \subseteq {"all", "resources", "leases"}

\* get_rspec_version_string: of what makes the key, the version, geni_available,
\* info and list_leases, only the last is varied here.
Keys == {"all", "resources", "leases"}
Parts(key) == IF key = "all" THEN {"resources", "leases"} ELSE {key}

\* What was read of the testbed, and a request with what it has read so far.
Seen == [resources : Nat \cup {Nil}, leases : Nat \cup {Nil}]
Asking == [key : Keys, since : Nat, entry : Nat \cup {Nil}, reads : Seen, alone : BOOLEAN]
ASSUME NilAssumption == Nil \notin Seen \cup Asking

VARIABLES
  testbed,     \* how often its nodes and its leases have changed
  siteless,    \* ... its nodes by then when a site was last removed
  slot,        \* the dict: the entry of a key, or Nil
  entries,     \* what entries hold, and until when
  keeper,      \* the thread that has the cache's lock, or Nil
  where, ask,  \* a thread: how far it is, and its request with what it knows
  clock, lists, changes,
  ended,       \* history: when a state of the nodes or leases was replaced
  said         \* history: the answer or fault of the last step, if it gave one

store == <<slot, entries, keeper>>
world == <<testbed, siteless, ended>>
adsVars == <<world, store, where, ask, clock, lists, changes, said>>

Shows(r, l) == [resources |-> r, leases |-> l]

\* A server that has just started, or has just cached its first answer.
AdsInit ==
  /\ testbed = Shows(0, 0) /\ siteless = 0
  /\ \/ slot = [k \in Keys |-> Nil] /\ entries = <<>>
     \/ \E cached \in Asked :
          /\ slot = [k \in Keys |-> IF k = cached THEN 1 ELSE Nil]
          /\ entries = <<[data |-> Shows(IF "resources" \in Parts(cached) THEN 0 ELSE Nil,
                                        IF "leases" \in Parts(cached) THEN 0 ELSE Nil),
                         expires |-> Ttl]>>
  /\ keeper = Nil
  /\ where = [t \in Readers |-> "idle"] /\ ask = [t \in Readers |-> Nil]
  /\ clock = 0 /\ lists = 0 /\ changes = 0
  /\ ended = Shows(<<>>, <<>>) /\ said = Nil

In(t, label) == where[t] = label
Move(t, label) == where' = [where EXCEPT ![t] = label]
Key(t) == ask[t].key
Held(t) == entries[ask[t].entry]

\* Where reading the testbed begins.
FirstRead(key) == IF key = "leases" THEN "leases" ELSE "nodes"

\* The request comes to its end.
Finish(t, answer) ==
  /\ Move(t, "idle") /\ ask' = [ask EXCEPT ![t] = Nil]
  /\ said' = [key |-> Key(t), shows |-> answer, at |-> clock, alone |-> ask[t].alone]

ListResources(t) ==
  /\ In(t, "idle") /\ lists < MaxLists /\ lists' = lists + 1
  /\ \E key \in Asked, cached \in BOOLEAN :
       LET others == {u \in Readers : ~In(u, "idle")}
       IN  /\ ask' = [u \in Readers |->
                IF u = t THEN [key |-> key, since |-> clock, entry |-> Nil, reads |-> Shows(Nil, Nil),
                               alone |-> others = {}]
                ELSE IF u \in others THEN [ask[u] EXCEPT !.alone = FALSE] ELSE ask[u]]
           /\ Move(t, IF cached THEN "get" ELSE FirstRead(key))
  /\ UNCHANGED <<world, store, clock, changes>> /\ said' = Nil

------------------------------------------------------------------------------
(* Cache.get                                                                  *)

GetEntry(t) ==
  /\ In(t, "get")
  /\ ask' = [ask EXCEPT ![t].entry = slot[Key(t)]]
  /\ Move(t, IF slot[Key(t)] = Nil THEN FirstRead(Key(t)) ELSE "age")
  /\ UNCHANGED <<world, store, clock, lists, changes>> /\ said' = Nil

IsExpired(entry) == clock > entry.expires

CheckAge(t) ==
  /\ In(t, "age") /\ Move(t, IF IsExpired(Held(t)) THEN "find" ELSE "take")
  /\ UNCHANGED <<world, store, ask, clock, lists, changes>> /\ said' = Nil

TakeData(t) ==
  /\ In(t, "take") /\ Finish(t, Held(t).data)
  /\ UNCHANGED <<world, store, clock, lists, changes>>

\* pop: is the key there? Then it is removed, or another thread has just done so.
FindKey(t) ==
  /\ In(t, "find") /\ Move(t, IF slot[Key(t)] = Nil THEN FirstRead(Key(t)) ELSE "pop")
  /\ UNCHANGED <<world, store, ask, clock, lists, changes>> /\ said' = Nil

Pop(t) ==
  /\ In(t, "pop")
  /\ IF slot[Key(t)] = Nil THEN Finish(t, Nil) /\ UNCHANGED store
     ELSE /\ slot' = [slot EXCEPT ![Key(t)] = Nil] /\ Move(t, FirstRead(Key(t)))
          /\ UNCHANGED <<entries, keeper, ask>> /\ said' = Nil
  /\ UNCHANGED <<world, clock, lists, changes>>

------------------------------------------------------------------------------
(* PlAggregate.list_resources                                                 *)

GetNodes(t) ==
  /\ In(t, "nodes") /\ Move(t, "sites")
  /\ ask' = [ask EXCEPT ![t].reads.resources = testbed.resources]
  /\ UNCHANGED <<world, store, clock, lists, changes>> /\ said' = Nil

\* node_to_rspec_node: a node whose site has gone since is a KeyError.
SiteMissing(nodes) == nodes < siteless

\* Sites, interfaces, tags and what else there is to say of the nodes.
GetSites(t) ==
  /\ In(t, "sites")
  /\ IF SiteMissing(ask[t].reads.resources) THEN Finish(t, Nil)
     ELSE Move(t, IF Key(t) = "resources" THEN "add" ELSE "leases") /\ UNCHANGED ask /\ said' = Nil
  /\ UNCHANGED <<world, store, clock, lists, changes>>

GetLeases(t) ==
  /\ In(t, "leases") /\ Move(t, "add")
  /\ ask' = [ask EXCEPT ![t].reads.leases = testbed.leases]
  /\ UNCHANGED <<world, store, clock, lists, changes>> /\ said' = Nil

------------------------------------------------------------------------------
(* Cache.add, under the lock of the cache                                     *)

AddEntry(t) ==
  /\ In(t, "add") /\ keeper = Nil
  /\ IF slot[Key(t)] # Nil
     THEN keeper' = t /\ Move(t, "set") /\ UNCHANGED <<slot, entries, ask>> /\ said' = Nil
     ELSE /\ entries' = Append(entries, [data |-> ask[t].reads, expires |-> clock + Ttl])
          /\ slot' = [slot EXCEPT ![Key(t)] = Len(entries) + 1]
          /\ Finish(t, ask[t].reads) /\ UNCHANGED keeper
  /\ UNCHANGED <<world, clock, lists, changes>>

\* The key was there: is it still?
SetData(t) ==
  /\ In(t, "set")
  /\ IF slot[Key(t)] = Nil
     THEN keeper' = Nil /\ Finish(t, Nil) /\ UNCHANGED <<slot, entries>>
     ELSE /\ entries' = [entries EXCEPT ![slot[Key(t)]].data = ask[t].reads]
          /\ ask' = [ask EXCEPT ![t].entry = slot[Key(t)]]
          /\ Move(t, "renew") /\ UNCHANGED <<slot, keeper>> /\ said' = Nil
  /\ UNCHANGED <<world, clock, lists, changes>>

Renew(t) ==
  /\ In(t, "renew")
  /\ entries' = [entries EXCEPT ![ask[t].entry].expires = clock + Ttl]
  /\ keeper' = Nil /\ Finish(t, ask[t].reads)
  /\ UNCHANGED <<world, slot, clock, lists, changes>>

------------------------------------------------------------------------------
(* The testbed and the time                                                   *)

Change ==
  /\ changes < MaxChanges /\ changes' = changes + 1
  /\ \E part \in Parts("all"), site \in BOOLEAN :
       /\ testbed' = [testbed EXCEPT ![part] = @ + 1]
       /\ ended' = [ended EXCEPT ![part] = Append(@, clock)]
       /\ site => part = "resources"
       /\ siteless' = IF site THEN testbed.resources + 1 ELSE siteless
  /\ ask' = [t \in Readers |-> IF ask[t] = Nil THEN Nil ELSE [ask[t] EXCEPT !.alone = FALSE]]
  /\ UNCHANGED <<store, where, clock, lists>> /\ said' = Nil

ClockTick ==
  /\ clock < MaxClock /\ clock' = clock + 1
  /\ \A t \in Readers : ask[t] # Nil => clock - ask[t].since < Patience
  /\ UNCHANGED <<world, store, where, ask, lists, changes>> /\ said' = Nil

AdsStep(t) ==
  \/ GetEntry(t) \/ CheckAge(t) \/ TakeData(t) \/ FindKey(t) \/ Pop(t)
  \/ GetNodes(t) \/ GetSites(t) \/ GetLeases(t) \/ AddEntry(t) \/ SetData(t) \/ Renew(t)

AdsNext == Change \/ ClockTick \/ \E t \in Readers : ListResources(t) \/ AdsStep(t)

------------------------------------------------------------------------------
(* Correctness                                                                *)

\* When this state of the nodes or of the leases was last to be seen.
LastSeen(part, v) == IF v < Len(ended[part]) THEN ended[part][v + 1] ELSE clock

\* Whatever is cached, renewed and removed at the same time, an answer has the
\* parts that were asked for, no others, and none that the testbed had stopped
\* to be like for longer than an entry's life and the time of two requests; and
\* a request that neither another one nor a change overlaps is answered.
AdsFollowTestbed ==
  said # Nil =>
    IF said.shows = Nil THEN ~said.alone
    ELSE \A part \in Parts("all") :
           /\ said.shows[part] # Nil <=> part \in Parts(said.key)
           /\ said.shows[part] # Nil =>
                LastSeen(part, said.shows[part]) + Ttl + 2 * Patience >= said.at
=============================================================================
