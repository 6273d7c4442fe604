------------------------------- MODULE Client -------------------------------
(* The command-line client and the servers it talks to                        *)
(* (src/sfa/client/sfaclientlib.py and sfi.py).  Each user keeps files next   *)
(* to each other in a directory: his private key, the certificate he signed   *)
(* himself, the gid the registry has for him, credentials, gids of others.    *)
(* A command makes the files it lacks one request at a time, while others     *)
(* change the registry and time passes; only an expired credential is ever    *)
(* fetched again.                                                             *)
EXTENDS SfiCommands

CONSTANTS Clients,   \* the users that run sfi; the others only act on delegated credentials
          MaxSwaps,     \* bound on the times one user replaces his private key file
          MaxCommands,  \* bound on the commands of one user
          MaxChanges    \* bound on the changes of the registry by others

ASSUME ClientAssumption ==
  Clients \subseteq Users /\ MaxSwaps \in Nat /\ MaxCommands \in Nat /\ MaxChanges \in Nat

VARIABLES
  clock,
  gid, made,            \* at the registry: the gid of each user, and how many were made anew
  registered, members,  \* ... the slices and authorities; researchers, respectively PIs
  pkey, sscert, mygid, cred, togid, passed,  \* the files; passed are delegated credentials
  pc, cmd, mine,        \* the command, what is left of it, the user's credential it read
  granted,              \* the expiration last handed to the aggregate's driver
  last, swaps, commands, changes        \* history and counters

registry == <<gid, made, registered, members>>
files    == <<pkey, sscert, mygid, cred, togid, passed>>
process  == <<pc, cmd, mine>>
vars     == <<clock, registry, files, process, granted, last, swaps, commands, changes>>

Registered(o) == IF o \in Users THEN gid[o] # None ELSE o \in registered

\* Auth.determine_user_rights; get_pis fails without a record of the authority.
HasRights(u, o) ==
  CASE KindOf(o) = "user"      -> TRUE
    [] KindOf(o) = "slice"     -> /\ AuthorityOf[o] \in registered
                                  /\ u \in members[o] \cup members[AuthorityOf[o]]
    [] KindOf(o) = "authority" -> u \in members[o]

Grantable(u, o) == Registered(u) /\ Registered(o) /\ HasRights(u, o)

\* What the user can have a credential of his own on.
Own(u) == {u} \cup Slices \cup Auths

\* Whoever has rights now has had them until now.
Watch == last' = [u \in Clients |-> [o \in Own(u) |->
                    IF Grantable(u, o)' THEN clock' ELSE last[u][o]]]

Running(u) == pc[u] \in {"boot", "gid", "work"}
Valid(u, o) == cred[u][o] # None /\ ~Expired(cred[u][o], clock)

Init ==
  /\ clock = 0
  /\ gid \in {[u \in Users |-> [owner |-> u, key |-> k, made |-> 0]] : k \in Keys}
  /\ made = [u \in Users |-> 0]
  /\ registered = Slices \cup Auths
  /\ members \in [Slices \cup Auths -> SUBSET Clients]
  /\ pkey = [u \in Clients |-> gid[u].key]
  /\ sscert = [u \in Clients |-> None]
  /\ mygid = [u \in Clients |-> None]
  /\ cred = [u \in Clients |-> [o \in Own(u) |-> None]]
  /\ togid = [u \in Clients |-> [v \in Users |-> None]]
  /\ passed = [u \in Clients |-> [o \in Own(u) |-> [v \in Users |-> None]]]
  /\ pc = [u \in Clients |-> "done"]
  /\ cmd = [u \in Clients |-> None]
  /\ mine = [u \in Clients |-> None]
  /\ granted = [s \in Slices |-> None]
  /\ last = [u \in Clients |-> [o \in Own(u) |-> IF Grantable(u, o) THEN 0 ELSE -1]]
  /\ swaps = [u \in Clients |-> 0]
  /\ commands = [u \in Clients |-> 0]
  /\ changes = 0

------------------------------------------------------------------------------
(* What happens at the registry.                                              *)

MakeGid(u, k) ==
  /\ made[u] < MaxMade
  /\ made' = [made EXCEPT ![u] = @ + 1]
  /\ gid' = [gid EXCEPT ![u] = [owner |-> u, key |-> k, made |-> made[u] + 1]]

Create(o) ==
  /\ ~Registered(o)
  /\ IF o \in Users
     THEN (\E k \in Keys : MakeGid(o, k)) /\ UNCHANGED <<registered, members>>
     ELSE /\ registered' = registered \cup {o}
          /\ \E group \in SUBSET Clients : members' = [members EXCEPT ![o] = group]
          /\ UNCHANGED <<gid, made>>

Change(o) ==
  /\ Registered(o)
  /\ IF o \in Users
     THEN /\ \E k \in Keys \ {gid[o].key} : MakeGid(o, k)
          /\ UNCHANGED <<registered, members>>
     ELSE /\ \E group \in (SUBSET Clients) \ {members[o]} : members' = [members EXCEPT ![o] = group]
          /\ UNCHANGED <<gid, made, registered>>

Erase(o) ==
  /\ Registered(o)
  /\ made' = made
  /\ IF o \in Users
     THEN /\ gid' = [gid EXCEPT ![o] = None]
          /\ members' = [m \in DOMAIN members |-> members[m] \ {o}]
          /\ registered' = registered
     ELSE /\ registered' = registered \ {o}
          /\ members' = [members EXCEPT ![o] = {}]
          /\ gid' = gid

\* sfaresetgids, or an import, makes a gid anew for a key that did not change.
ResetGid(u) == Registered(u) /\ MakeGid(u, gid[u].key) /\ UNCHANGED <<registered, members>>

\* Somebody else than the clients: other users, the importer, administrators.
Elsewhere ==
  /\ changes < MaxChanges /\ changes' = changes + 1
  /\ \/ \E o \in Objects : Create(o) \/ Change(o) \/ Erase(o)
     \/ \E u \in Users : ResetGid(u)
  /\ UNCHANGED <<clock, files, process, granted, swaps, commands>>
  /\ Watch

Tick ==
  /\ clock < MaxTime
  /\ clock' = clock + 1
  /\ UNCHANGED <<registry, files, process, granted, swaps, commands, changes>>
  /\ Watch

------------------------------------------------------------------------------
(* Between commands the user may replace his key, or remove all other files.  *)

ReplaceKey(u) ==
  /\ ~Running(u) /\ swaps[u] < MaxSwaps /\ commands[u] < MaxCommands
  /\ \E k \in Keys \ {pkey[u]} : pkey' = [pkey EXCEPT ![u] = k]
  /\ swaps' = [swaps EXCEPT ![u] = @ + 1]
  /\ UNCHANGED <<clock, registry, sscert, mygid, cred, togid, passed, process, granted, last, commands, changes>>

RemoveFiles(u) ==
  /\ ~Running(u) /\ commands[u] < MaxCommands
  /\ sscert' = [sscert EXCEPT ![u] = None]
  /\ mygid' = [mygid EXCEPT ![u] = None]
  /\ cred' = [cred EXCEPT ![u] = [o \in Own(u) |-> None]]
  /\ togid' = [togid EXCEPT ![u] = [v \in Users |-> None]]
  /\ UNCHANGED <<clock, registry, pkey, passed, process, granted, last, swaps, commands, changes>>

------------------------------------------------------------------------------
(* A command.                                                                 *)

\* What the registry will do of a call that it accepts.
Doable(call) ==
  CASE call.method = Register -> /\ ~Registered(call.target)
                                 /\ call.target \in Users => made[call.target] < MaxMade
    [] call.method \in {Update, Remove, Resolve} -> Registered(call.target)
    [] OTHER -> TRUE

Start(u) ==
  /\ ~Running(u) /\ commands[u] < MaxCommands
  /\ commands' = [commands EXCEPT ![u] = @ + 1]
  /\ \E c \in Commands(u) : cmd' = [cmd EXCEPT ![u] = c]
  /\ pc' = [pc EXCEPT ![u] = "boot"]
  /\ UNCHANGED <<clock, registry, files, mine, granted, last, swaps, changes>>

Go(u, place) == pc' = [pc EXCEPT ![u] = place] /\ UNCHANGED <<cmd, mine>>

EndKeepsRead(u, how) ==
  /\ pc' = [pc EXCEPT ![u] = how]
  /\ cmd' = [cmd EXCEPT ![u] = None]
  /\ UNCHANGED mine

End(u, how) ==
  /\ pc' = [pc EXCEPT ![u] = how]
  /\ cmd' = [cmd EXCEPT ![u] = None]
  /\ mine' = [mine EXCEPT ![u] = None]

\* GetSelfCredential, over a connection made with the self-signed certificate.
SelfAccepted(u, ss) == ss = pkey[u] /\ Registered(u) /\ gid[u].key = ss

\* my_credential_produce, in place of a credential that is missing or expired.
ProduceCredential(u, ss, onward, refused) ==
  /\ ~Valid(u, u)
  /\ IF SelfAccepted(u, ss)
     THEN cred' = [cred EXCEPT ![u][u] = Issue(gid[u], u, clock)] /\ onward
     ELSE cred' = [cred EXCEPT ![u][u] = None] /\ refused

BootCredential(u) ==
  LET ss == IF sscert[u] = None THEN pkey[u] ELSE sscert[u]
  IN  /\ pc[u] = "boot"
      /\ sscert' = [sscert EXCEPT ![u] = ss]
      /\ \/ Valid(u, u) /\ Go(u, "gid") /\ cred' = cred
         \/ ProduceCredential(u, ss, Go(u, "gid"), End(u, "refused"))
      /\ UNCHANGED <<clock, registry, pkey, mygid, togid, passed, granted, last, swaps, commands, changes>>

\* my_gid, from the file or from Resolve; then the credential is read.
BootGid(u) ==
  LET accepted == /\ sscert[u] = pkey[u]
                  /\ Check(cred[u][u], Resolve, u, u, sscert[u], clock)
                  /\ Registered(u)
  IN  /\ pc[u] = "gid"
      /\ \/ ~Valid(u, u) /\ Go(u, "boot") /\ mygid' = mygid
         \/ Valid(u, u) /\ mygid[u] = None /\ ~accepted /\ End(u, "refused") /\ mygid' = mygid
         \/ /\ Valid(u, u) /\ (mygid[u] # None \/ accepted)
            /\ mygid' = [mygid EXCEPT ![u] = IF @ = None THEN gid[u] ELSE @]
            /\ pc' = [pc EXCEPT ![u] = "work"]
            /\ mine' = [mine EXCEPT ![u] = cred[u][u]]
            /\ cmd' = cmd
      /\ UNCHANGED <<clock, registry, pkey, sscert, cred, togid, passed, granted, last, swaps, commands, changes>>

\* A server accepts a call made with the gid file and a credential.
Accepted(u, c, method, target) ==
  /\ mygid[u].key = pkey[u]
  /\ Check(c, method, target, u, mygid[u].key, clock)

Missing(u) == {o \in cmd[u].needs : ~Valid(u, o)}

\* gid_produce of the one delegated to, left out when its file is there.
LacksGid(u) == cmd[u].to # None /\ togid[u][cmd[u].to] = None

\* All credentials are there, and nothing is left but to sign.
Signing(u) ==
  pc[u] = "work" /\ cmd[u].kind \in {"delegate", "myslice"} /\ ~cmd[u].lookup /\ cmd[u].needs = {}

\* The user's own credential expired: it is fetched again before it is used.
Refetch(u) ==
  /\ pc[u] = "work"
  /\ \/ Missing(u) # {}
     \/ Signing(u) /\ LacksGid(u)
  /\ ProduceCredential(u, sscert[u], UNCHANGED process, End(u, "refused"))
  /\ UNCHANGED <<clock, registry, pkey, sscert, mygid, togid, passed, granted, last, swaps, commands, changes>>

Found(u, o) ==
  /\ cmd' = [cmd EXCEPT ![u].needs = @ \ {o}]
  /\ UNCHANGED <<pc, mine>>

\* myslice goes on without the slices that it gets no credential on.
Optional(u, o) == cmd[u].kind = "myslice" /\ o \in Slices

GoesWithout(u, o) ==
  /\ cmd' = [cmd EXCEPT ![u].needs = @ \ {o}, ![u].delegates = @ \ {o}]
  /\ UNCHANGED <<pc, mine>>

\* credential_produce: GetCredential with the user's credential.
Fetch(u) ==
  /\ pc[u] = "work"
  /\ \E o \in cmd[u].needs :
       LET accepted == Accepted(u, cred[u][u], GetCredential, o) /\ Grantable(u, o)
       IN  \/ Valid(u, o) /\ Found(u, o) /\ cred' = cred
           \/ /\ ~Valid(u, o) /\ Valid(u, u) /\ accepted
              /\ cred' = [cred EXCEPT ![u][o] = Issue(gid[u], o, clock)]
              /\ Found(u, o)
           \/ /\ ~Valid(u, o) /\ Valid(u, u) /\ ~accepted
              /\ cred' = [cred EXCEPT ![u][o] = None]
              /\ IF Optional(u, o) THEN GoesWithout(u, o) ELSE End(u, "refused")
  /\ UNCHANGED <<clock, registry, pkey, sscert, mygid, togid, passed, granted, last, swaps, commands, changes>>

LeaseUntrimmed(c, method, s) ==
  CASE method = Allocate -> granted' = [granted EXCEPT ![s] = Top(c).expires]
    [] method = Renew    -> \E t \in Times : granted' = [granted EXCEPT ![s] = t]
    [] OTHER             -> granted' = granted

\* What a call that is accepted does.
Lease(c, method, s) ==
  CASE method = Allocate -> granted' = [granted EXCEPT ![s] = Top(c).expires]
    [] method = Renew    -> \E t \in clock..Top(c).expires : granted' = [granted EXCEPT ![s] = t]
    [] OTHER             -> granted' = granted

Served(u, c, call) ==
  /\ CASE call.method = Register -> Create(call.target)
       [] call.method = Update   -> Change(call.target) \/ UNCHANGED registry
       [] call.method = Remove   -> Erase(call.target)
       [] OTHER                  -> UNCHANGED registry
  /\ Lease(c, call.method, call.target)
  /\ clock' = clock
  /\ Watch

MyObjects(u) == {u} \cup {o \in Slices \cup Auths : u \in members[o]}

Held(u, o) == IF o = u THEN mine[u] ELSE cred[u][o]

\* allocate and provision look the slice up, myslice the user and all he has.
Lookup(u) ==
  LET target == cmd[u].object
  IN  /\ pc[u] = "work" /\ cmd[u].lookup /\ cmd[u].needs = {}
      /\ IF Accepted(u, mine[u], Resolve, target) /\ Registered(target)
         THEN /\ cmd' = [cmd EXCEPT ![u].lookup = FALSE,
                     ![u].needs = IF cmd[u].kind = "myslice" THEN MyObjects(u) \ {u} ELSE {},
                     ![u].delegates = IF cmd[u].kind = "myslice" THEN MyObjects(u) ELSE {}]
              /\ UNCHANGED <<pc, mine>>
         ELSE End(u, "refused")
      /\ UNCHANGED <<clock, registry, files, granted, last, swaps, commands, changes>>

Call(u) ==
  /\ pc[u] = "work" /\ cmd[u].kind \in {"call", "lookup"} /\ ~cmd[u].lookup /\ cmd[u].needs = {}
  /\ \E call \in LastCalls(u, cmd[u]) :
       LET c == Held(u, call.object)
       IN  IF Accepted(u, c, call.method, call.target) /\ Doable(call)
           THEN Served(u, c, call) /\ End(u, "done")
           ELSE End(u, "refused") /\ UNCHANGED <<clock, registry, granted, last>>
  /\ UNCHANGED <<files, swaps, commands, changes>>

\* gid_produce of the one delegated to, then one delegated credential per object.
Sign(u) ==
  LET v == cmd[u].to
      accepted == Accepted(u, cred[u][u], Resolve, v) /\ Registered(v)
  IN  /\ Signing(u)
      /\ \/ /\ LacksGid(u) /\ Valid(u, u) /\ accepted
            /\ togid' = [togid EXCEPT ![u][v] = gid[v]]
            /\ UNCHANGED <<passed, process>>
         \/ /\ LacksGid(u) /\ Valid(u, u) /\ ~accepted
            /\ End(u, "refused") /\ UNCHANGED <<togid, passed>>
         \/ /\ ~LacksGid(u)
            /\ passed' = [passed EXCEPT ![u] = [o \in Own(u) |->
                 IF o \in cmd[u].delegates
                 THEN [@[o] EXCEPT ![v] = Delegate(Held(u, o), togid[u][v], mygid[u], pkey[u])]
                 ELSE @[o]]]
            /\ End(u, "done") /\ UNCHANGED togid
  /\ UNCHANGED <<clock, registry, pkey, sscert, mygid, cred, granted, last, swaps, commands, changes>>

\* Whom a credential on a slice was delegated to calls the aggregate with it.
DelegateeAccepted(u, v, s, method) ==
  /\ passed[u][s][v] # None /\ Registered(v)
  /\ Check(passed[u][s][v], method, s, v, gid[v].key, clock)

DelegateeCall(u, v, s) ==
  /\ \E method \in {Allocate, Renew} :
       DelegateeAccepted(u, v, s, method) /\ Lease(passed[u][s][v], method, s)
  /\ UNCHANGED <<clock, registry, files, process, last, swaps, commands, changes>>

------------------------------------------------------------------------------
Step(u) == BootCredential(u) \/ BootGid(u) \/ Refetch(u) \/ Fetch(u) \/ Lookup(u) \/ Call(u) \/ Sign(u)

Next ==
  \/ \E u \in Clients : Start(u) \/ Step(u) \/ ReplaceKey(u) \/ RemoveFiles(u)
  \/ \E u \in Clients, v \in Users, s \in Slices : DelegateeCall(u, v, s)
  \/ Elsewhere \/ Tick

Spec == Init /\ [][Next]_vars

------------------------------------------------------------------------------
(* Properties.                                                                *)

FileGids == Gid \cup {None}
FileCredentials == Credential \cup {None}

\* What each variable may hold.
ClientTypeOK ==
  /\ clock \in 0..MaxTime
  /\ \A u \in Users : gid[u] = None \/ (gid[u] \in Gid /\ gid[u].owner = u /\ gid[u].made = made[u])
  /\ registered \subseteq Slices \cup Auths
  /\ \A o \in Slices \cup Auths : members[o] \subseteq Clients
  /\ \A u \in Clients :
       /\ pc[u] \in {"done", "refused", "boot", "gid", "work"}
       /\ Running(u) <=> cmd[u] # None
       /\ mine[u] # None <=> pc[u] = "work"
       /\ pc[u] = "work" => mygid[u] # None /\ sscert[u] # None
       /\ \A o \in Own(u) : cred[u][o] # None =>
            Len(cred[u][o]) = 1 /\ Top(cred[u][o]).object = o /\ Top(cred[u][o]).caller.owner = u

\* Losing the rights to an object is final within the life of a credential:
\* whatever was fetched, kept in a file, read by a command or delegated to
\* somebody else expires at most Lifetime after its user last had the rights.
FollowsRights(u, o, c) ==
  c # None => last[u][o] >= 0 /\ Top(c).expires <= last[u][o] + Lifetime
CredentialsFollowRights == \A u \in Clients :
  /\ FollowsRights(u, u, mine[u])
  /\ \A o \in Own(u) : /\ FollowsRights(u, o, cred[u][o])
                        /\ \A v \in Users : FollowsRights(u, o, passed[u][o][v])

\* The expiration that the aggregate's driver is given for a slice is one that
\* somebody's rights bear: resources go, at the latest, one credential's life
\* after the last of those who had rights to the slice lost them.
GrantsFollowRights == \A s \in Slices : granted[s] # None =>
  \E u \in Clients : last[u][s] >= 0 /\ granted[s] <= last[u][s] + Lifetime
=============================================================================
