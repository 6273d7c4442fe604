----------------------------- MODULE Federation -----------------------------
(* Registries that know each other (server/registry.py, registries.xml) and  *)
(* look names up for clients and for one another: Resolve and List of        *)
(* registry_manager.py.  A registry forwards what is not its own, and the    *)
(* thread that does so waits for the answer, without a limit: the timeout of *)
(* Interface.server_proxy gets into another parameter of SfaServerProxy.     *)
EXTENDS Integers, Sequences, FiniteSets, PrefixTree

CONSTANTS
  Registries,  \* their names
  Neighbours,  \* what the file registries.xml of each one lists, in order
  Requests,    \* what clients ask: a kind and the names, as a set
  Directories, \* the names that may be registered, all in all
  Nobody,      \* no call
  PoolSize,    \* threads of a registry
  MaxLookups,  \* bound on the lookups, all of which may be open at the same time
  MaxStops     \* bound on the restarts

Lookups == 1 .. MaxLookups
Threads == Registries \X (1 .. PoolSize)

VARIABLES
  registered,          \* the names that are registered, each one at its home
  lookup, outcome,     \* a client: its request, and what came of it
  mail,                \* a registry: its queue of calls
  task, place,         \* a thread: the call it serves and how far it is
  todo, found, reply,  \* ... the registries it has yet to ask, what it found, an answer it got
  credential,          \* a registry: the file with its credential
  stops,               \* counter of the restarts
  upset                \* history: lookups that met a restart or a credential half written

clients == <<lookup, outcome>>
threads == <<task, place, todo, found, reply>>
peerVars == <<registered, clients, mail, threads, credential, stops, upset>>

\* api.registries: the file, and then the registry itself.
KnownOthers(r) == Neighbours[r]
Known(r) == Append(Neighbours[r], r)
Tree == [r \in Registries |-> Load(Known(r))]
Names == UNION {q.names : q \in Requests}
Best == [r \in Registries |-> [name \in Names |-> BestMatch(Tree[r], name)]]

\* The authority of a name is the one just above it.
Authority(name) == LET above == Ancestors(name) IN IF above = <<>> THEN <<>> ELSE above[Len(above)]
Covers(authority, name) == name = authority \/ IsPrefix(Append(authority, "."), name)

\* The registry where a name is registered, if it is: the one for the smallest
\* authority around it.
Homes(name) == {r \in Registries : Covers(r, name)}
IsHome(r, name) == r \in Homes(name) /\ \A s \in Homes(name) : Len(s) <= Len(r)

Own == [r \in Registries |-> {n \in UNION Directories : IsHome(r, n)}]
Here(r) == registered \cap Own[r]

PeersInit ==
  /\ registered \in Directories
  /\ lookup = [l \in Lookups |-> Nobody]
  /\ outcome = [l \in Lookups |-> [state |-> "unsent", found |-> {}]]
  /\ mail = [r \in Registries |-> <<>>]
  /\ task = [t \in Threads |-> Nobody] /\ place = [t \in Threads |-> "idle"]
  /\ todo = [t \in Threads |-> {}] /\ found = [t \in Threads |-> {}]
  /\ reply = [t \in Threads |-> Nobody]
  /\ credential = [r \in Registries |-> "none"]
  /\ stops = 0 /\ upset = {}

------------------------------------------------------------------------------
(* Calls and answers.                                                         *)

\* A client asks a registry.
Ask(l) ==
  /\ outcome[l].state = "unsent" /\ \A k \in 1 .. (l - 1) : outcome[k].state # "unsent"
  /\ \E r \in Registries, q \in Requests :
       /\ lookup' = [lookup EXCEPT ![l] = [at |-> r, request |-> q]]
       /\ mail' = [mail EXCEPT ![r] =
            Append(@, [root |-> l, client |-> TRUE, thread |-> Nobody, request |-> q])]
  /\ outcome' = [outcome EXCEPT ![l].state = "open"]
  /\ UNCHANGED <<registered, threads, credential, stops, upset>>

Of(t) == t[1]
Request(t) == task[t].request
To(t, where) == place' = [place EXCEPT ![t] = where]

\* The thread is done; what it answers gets to a client or to another thread,
\* if that one is still there.
Reply(t, state, names) ==
  LET call == task[t]
      answer == [state |-> state, found |-> names]
  IN  /\ outcome' = IF call.client THEN [outcome EXCEPT ![call.root] = answer] ELSE outcome
      /\ reply' = IF call.thread # Nobody THEN [reply EXCEPT ![call.thread] = answer] ELSE reply
      /\ task' = [task EXCEPT ![t] = Nobody] /\ To(t, "idle")
      /\ found' = [found EXCEPT ![t] = {}] /\ todo' = [todo EXCEPT ![t] = {}]
      /\ UNCHANGED <<registered, lookup, mail, credential, stops, upset>>

Refuse(t) == place[t] = "refuse" /\ Reply(t, "refused", {})

------------------------------------------------------------------------------
(* The work of a thread.                                                      *)

IdleAt(r) == {i \in 1 .. PoolSize : place[<<r, i>>] = "idle"}

\* The call's names are looked up among the known registries: which ones have to
\* be asked?  A List of a name that none begins is refused.
Take(t) ==
  LET call == Head(mail[Of(t)])
      best == {Best[Of(t)][n] : n \in call.request.names}
  IN  /\ place[t] = "idle" /\ t[2] = First(IdleAt(Of(t)))
      /\ mail[Of(t)] # <<>>
      /\ mail' = [mail EXCEPT ![Of(t)] = Tail(@)]
      /\ task' = [task EXCEPT ![t] = call]
      /\ todo' = [todo EXCEPT ![t] = best \ {<<>>, Of(t)}]
      /\ To(t, IF call.request.kind = "List" /\ best = {<<>>} THEN "refuse" ELSE "look")
      /\ UNCHANGED <<registered, clients, found, reply, credential, stops, upset>>

\* One of the registries in question is asked for the names that are its own; a
\* part of a registry's name that is no registry cannot be asked.
Forward(t) ==
  \E p \in todo[t] :
    IF p \notin Range(Known(Of(t)))
    THEN To(t, "refuse") /\ UNCHANGED <<mail, todo>>
    ELSE /\ mail' = [mail EXCEPT ![p] = Append(@,
              [root |-> task[t].root, client |-> FALSE, thread |-> t,
               request |-> [Request(t) EXCEPT !.names = {n \in @ : Best[Of(t)][n] = p}]])]
         /\ todo' = [todo EXCEPT ![t] = @ \ {p}]
         /\ To(t, "wait")

\* SfaApi.getCredential: the file, if it is there and can be read.
UseCredential(t) ==
  /\ place[t] = "look" /\ todo[t] # {}
  /\ CASE credential[Of(t)] = "none"  -> To(t, "make") /\ UNCHANGED <<mail, todo, upset>>
       [] credential[Of(t)] = "empty" ->
            To(t, "refuse") /\ upset' = upset \cup {task[t].root} /\ UNCHANGED <<mail, todo>>
       [] credential[Of(t)] = "whole" -> Forward(t) /\ UNCHANGED upset
  /\ UNCHANGED <<registered, clients, task, found, reply, credential, stops>>

\* Otherwise it is made, and the file emptied and then written.
OpenCredential(t) ==
  /\ place[t] = "make" /\ To(t, "write")
  /\ credential' = [credential EXCEPT ![Of(t)] = "empty"]
  /\ UNCHANGED <<registered, clients, mail, task, todo, found, reply, stops, upset>>

WriteCredential(t) ==
  /\ place[t] = "write"
  /\ credential' = [credential EXCEPT ![Of(t)] = "whole"]
  /\ Forward(t)
  /\ UNCHANGED <<registered, clients, task, found, reply, stops, upset>>

\* An answer: a fault is passed on.
Continue(t) ==
  /\ place[t] = "wait" /\ reply[t] # Nobody
  /\ reply' = [reply EXCEPT ![t] = Nobody]
  /\ found' = [found EXCEPT ![t] = @ \cup reply[t].found]
  /\ To(t, IF reply[t].state = "refused" THEN "refuse" ELSE "look")
  /\ UNCHANGED <<registered, clients, mail, task, todo, credential, stops, upset>>

Looking(t, kind) == place[t] = "look" /\ todo[t] = {} /\ Request(t).kind = kind

\* The names that were not found elsewhere are looked for in the database.
Resolve(t) ==
  LET names == found[t] \cup (Request(t).names \cap Here(Of(t)))
  IN  /\ Looking(t, "Resolve")
      /\ Reply(t, IF names = {} THEN "refused" ELSE "answered", names)

\* An authority is listed from the database if no other registry named a record.
List(t) ==
  LET here == \E a \in Request(t).names : IsHome(Of(t), a) /\ (a \in Registries \cup registered)
      names == {n \in Here(Of(t)) : Authority(n) \in Request(t).names}
  IN  /\ Looking(t, "List")
      /\ IF found[t] # {} THEN Reply(t, "answered", found[t])
         ELSE IF here THEN Reply(t, "answered", names) ELSE Reply(t, "refused", {})

Serve(t) ==
  \/ Take(t) \/ UseCredential(t) \/ OpenCredential(t) \/ WriteCredential(t) \/ Continue(t)
  \/ Resolve(t) \/ List(t) \/ Refuse(t)

------------------------------------------------------------------------------
(* A registry stops and starts again: who waits for it gets an error, whom it *)
(* waits for answers to nobody, and the file with its credential stays.       *)

Lost(r) == Range(mail[r]) \cup ({task[<<r, i>>] : i \in 1 .. PoolSize} \ {Nobody})

Gone(r, call) == IF call # Nobody /\ call.thread # Nobody /\ Of(call.thread) = r
                 THEN [call EXCEPT !.thread = Nobody] ELSE call

Restart(r) ==
  LET clientsOf == {c.root : c \in {d \in Lost(r) : d.client}}
      threadsOf == {c.thread : c \in Lost(r)}
      fault == [state |-> "refused", found |-> {}]
      InR(t) == Of(t) = r
  IN  /\ stops < MaxStops /\ stops' = stops + 1
      /\ outcome' = [l \in Lookups |-> IF l \in clientsOf THEN fault ELSE outcome[l]]
      /\ reply' = [t \in Threads |-> IF InR(t) THEN Nobody ELSE IF t \in threadsOf THEN fault ELSE reply[t]]
      /\ mail' = [s \in Registries |->
                    IF s = r THEN <<>> ELSE [i \in DOMAIN mail[s] |-> Gone(r, mail[s][i])]]
      /\ task' = [t \in Threads |-> IF InR(t) THEN Nobody ELSE Gone(r, task[t])]
      /\ place' = [t \in Threads |-> IF InR(t) THEN "idle" ELSE place[t]]
      /\ todo' = [t \in Threads |-> IF InR(t) THEN {} ELSE todo[t]]
      /\ found' = [t \in Threads |-> IF InR(t) THEN {} ELSE found[t]]
      /\ upset' = upset \cup {c.root : c \in Lost(r)}
      /\ UNCHANGED <<registered, lookup, credential>>

PeersNext ==
  \/ \E l \in Lookups : Ask(l)
  \/ \E t \in Threads : Serve(t)
  \/ \E r \in Registries : Restart(r)

\* As long as a thread of some registry can take a step, one of them does.
PeersWork == \E t \in Threads : Serve(t)

------------------------------------------------------------------------------
(* Properties.                                                                *)

Open(l) == outcome[l].state = "open"
Calls == UNION {Lost(r) : r \in Registries}

\* What the variables may hold; a thread that waits has a call somewhere, one
\* that does not waits for nothing; and so does a client.
FederationTypeOK ==
  /\ \A t \in Threads :
       /\ place[t] \in {"idle", "look", "make", "write", "wait", "refuse"}
       /\ place[t] = "idle" <=> task[t] = Nobody
       /\ (place[t] = "wait" /\ reply[t] = Nobody) <=> (\E c \in Calls : c.thread = t)
  /\ \A l \in Lookups : Open(l) <=> \E c \in Calls : c.client /\ c.root = l

\* The registry that a registry should ask: of those it knows, itself among
\* them, the one for the smallest authority around the name.
Nearest(r, name) ==
  LET around == {k \in Range(Known(r)) : Covers(k, name)}
  IN  IF around = {} THEN r ELSE CHOOSE k \in around : \A m \in around : Len(m) <= Len(k)

\* ... unless a longer beginning of the name is a part of a known registry's
\* name, or its name without being an authority of this one.
Misled(r, name) ==
  \E k \in Range(Known(r)) : \E p \in {k} \cup Range(Ancestors(k)) :
    IsPrefix(p, name) /\ (~Covers(Nearest(r, name), name) \/ Len(p) > Len(Nearest(r, name)))

\* From registry to registry to the name's home, in at most as many steps as
\* there are registries.
LeadsHome(r, name) ==
  LET hop[i \in 0 .. Cardinality(Registries)] == IF i = 0 THEN r ELSE Nearest(hop[i - 1], name)
  IN  /\ IsHome(hop[Cardinality(Registries)], name)
      /\ \A i \in DOMAIN hop : ~Misled(hop[i], name)
Led == {p \in Registries \X Names : LeadsHome(p[1], p[2])}

\* Whichever registry is asked, and however long the way from there: names that
\* are registered are all found and an authority's records listed, unless a
\* registry restarts in the middle of it or leaves its credential half written;
\* and no answer ever names what is not registered or was not asked for.
FoundAtHome ==
  \A l \in {k \in Lookups : outcome[k].state \in {"answered", "refused"}} :
    LET kind == lookup[l].request.kind
        names == lookup[l].request.names
        right == {n \in registered : IF kind = "Resolve" THEN n \in names ELSE Authority(n) \in names}
    IN  /\ outcome[l].found \subseteq right
        /\ /\ l \notin upset
           /\ \A n \in names : <<lookup[l].at, n>> \in Led
           /\ right # {} /\ (kind = "Resolve" => right = names)
           => outcome[l] = [state |-> "answered", found |-> right]

\* Every lookup ends, although threads wait for other registries, which may wait
\* for this one, without a limit: as long as fewer lookups are open than two
\* registries have threads.
LookupsEnd == []<>(\A l \in Lookups : ~Open(l))
=============================================================================
