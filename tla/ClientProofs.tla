----------------------------- MODULE ClientProofs -----------------------------
(***************************************************************************)
(* Theorems about the command-line client, for any users, objects, files   *)
(* and bounds: what it keeps follows the rights of its user, and no        *)
(* resources are granted for longer than the rights of a member allow.     *)
(* They are theorems of the client's specification.                        *)
(***************************************************************************)
EXTENDS Client, SequenceTheorems, TLAPS

-----------------------------------------------------------------------------
(* What the files hold *)

\* What the registry issued to user u on object o, at some time.
IssuedTo(u, o, c) ==
  \E g \in Gid, t \in 0..MaxTime : g.owner = u /\ c = Issue(g, o, t)

\* What u delegated to v, from a credential of his on o.
DelegatedTo(u, o, v, c) ==
  \E g \in Gid, t \in 0..MaxTime, to \in Gid, me \in Gid, k \in Keys :
    /\ g.owner = u /\ to.owner = v /\ me.owner = u
    /\ c = Delegate(Issue(g, o, t), to, me, k)

Places == {"done", "refused", "boot", "gid", "work"}

RegistryShape ==
  /\ clock \in 0..MaxTime
  /\ DOMAIN gid = Users /\ made \in [Users -> 0..MaxMade]
  /\ \A u \in Users : gid[u] = None \/ (gid[u] \in Gid /\ gid[u].owner = u /\ gid[u].made = made[u])
  /\ registered \subseteq Slices \cup Auths
  /\ members \in [Slices \cup Auths -> SUBSET Clients]

GidsShape ==
  /\ pkey \in [Clients -> Keys]
  /\ sscert \in [Clients -> Keys \cup {None}]
  /\ DOMAIN mygid = Clients /\ DOMAIN togid = Clients
  /\ \A u \in Clients : mygid[u] = None \/ (mygid[u] \in Gid /\ mygid[u].owner = u)
  /\ \A u \in Clients : DOMAIN togid[u] = Users
  /\ \A u \in Clients, v \in Users :
       togid[u][v] = None \/ (togid[u][v] \in Gid /\ togid[u][v].owner = v)

CredentialsShape ==
  /\ DOMAIN cred = Clients
  /\ \A u \in Clients : DOMAIN cred[u] = Own(u)
  /\ \A u \in Clients : \A o \in Own(u) : cred[u][o] = None \/ IssuedTo(u, o, cred[u][o])

PassedShape ==
  /\ DOMAIN passed = Clients
  /\ \A u \in Clients : DOMAIN passed[u] = Own(u)
  /\ \A u \in Clients : \A o \in Own(u) : DOMAIN passed[u][o] = Users
  /\ \A u \in Clients : \A o \in Own(u) : \A v \in Users :
       passed[u][o][v] = None \/ DelegatedTo(u, o, v, passed[u][o][v])

\* What is left of a command of u.
CommandOf(u, c) ==
  /\ c \in CommandRecord
  /\ c.needs \subseteq Own(u) \ {u} /\ c.delegates \subseteq Own(u)
  /\ c.object \in Own(u)
  /\ c.kind = "lookup" => c.object \in Slices
  /\ c.kind \in {"delegate", "myslice"} => c.to \in Users
  /\ c.kind = "myslice" => c.object = u

ProcessShape ==
  /\ pc \in [Clients -> Places]
  /\ DOMAIN cmd = Clients /\ DOMAIN mine = Clients
  /\ \A u \in Clients : cmd[u] # None => CommandOf(u, cmd[u])
  /\ \A u \in Clients : Running(u) <=> cmd[u] # None
  /\ \A u \in Clients : mine[u] = None \/ IssuedTo(u, u, mine[u])
  /\ \A u \in Clients : mine[u] # None <=> pc[u] = "work"
  /\ \A u \in Clients : pc[u] = "work" => mygid[u] # None /\ sscert[u] # None
  /\ \A u \in Clients : pc[u] = "gid" => sscert[u] # None

HistoryShape ==
  /\ DOMAIN last = Clients
  /\ \A u \in Clients : DOMAIN last[u] = Own(u)
  /\ DOMAIN granted = Slices
  /\ swaps \in [Clients -> Nat] /\ commands \in [Clients -> Nat] /\ changes \in Nat

Shape ==
  RegistryShape /\ GidsShape /\ CredentialsShape /\ PassedShape /\ ProcessShape /\ HistoryShape

-----------------------------------------------------------------------------
(* What the properties rest on *)

\* Who has rights to an object has them now; he had them at no later time.
LastSeen ==
  \A u \in Clients : \A o \in Own(u) :
    last[u][o] \in -1..clock /\ (Grantable(u, o) => last[u][o] = clock)

\* The objects on which a command has made sure of a credential.
Secured(u) == ({cmd[u].object} \cup cmd[u].delegates) \ (cmd[u].needs \cup {u})

\* No step between takes such a credential away.
SecuredThere == \A u \in Clients : cmd[u] # None => \A o \in Secured(u) : cred[u][o] # None

GrantsAreTimes == \A s \in Slices : granted[s] # None => granted[s] \in Int

-----------------------------------------------------------------------------
(* Gids and credentials *)

LEMMA Disjoint ==
  /\ \A u \in Users : KindOf(u) = "user" /\ u \notin Slices /\ u \notin Auths
  /\ \A s \in Slices : KindOf(s) = "slice" /\ s \notin Users /\ s \notin Auths
  /\ \A a \in Auths : KindOf(a) = "authority" /\ a \notin Users /\ a \notin Slices
  BY CredentialsAssumption DEF KindOf

LEMMA KindRightsKnown == \A o \in Objects : KindRights(KindOf(o)) \subseteq DOMAIN Privileges
  BY DEF KindOf, KindRights, Privileges, PrivilegeNames

LEMMA OwnObjects == ASSUME NEW u \in Clients
                    PROVE  Own(u) \subseteq Objects /\ u \in Own(u) /\ u \in Users /\ Slices \subseteq Own(u)
  BY ClientAssumption DEF Own, Objects

LEMMA Numbers ==
  /\ MaxTime \in Nat /\ Lifetime \in Nat /\ MaxMade \in Nat
  /\ MaxSwaps \in Nat /\ MaxCommands \in Nat /\ MaxChanges \in Nat
  BY CredentialsAssumption, ClientAssumption

\* None is nothing that a variable or a field holds.
LEMMA NoneIsNone ==
  /\ None \notin Gid /\ None \notin Keys /\ None \notin Users
  /\ None \notin Seq(Link) /\ None \notin CommandRecord
  BY CredentialsAssumption, NoFileAssumption, CommandsAssumption DEF Gid

\* What the registry issues is one link that it signed, good for one lifetime.
LEMMA IssueIs ==
  ASSUME NEW g \in Gid, NEW o \in Objects, NEW t \in 0..MaxTime
  PROVE  /\ Issue(g, o, t) \in Seq(Link) /\ Issue(g, o, t) # None
         /\ Len(Issue(g, o, t)) = 1
         /\ Top(Issue(g, o, t)) =
              [caller |-> g, object |-> o, privileges |-> KindRights(KindOf(o)), delegate |-> TRUE,
               expires |-> t + Lifetime, signer |-> Registry, sealed |-> TRUE]
  <1> DEFINE link == [caller |-> g, object |-> o,
                      privileges |-> KindRights(KindOf(o)), delegate |-> TRUE,
                      expires |-> t + Lifetime, signer |-> Registry, sealed |-> TRUE]
  <1>1. Issue(g, o, t) = <<link>>
    BY DEF Issue
  <1>2. t + Lifetime \in Times
    BY Numbers DEF Times
  <1>3. KindRights(KindOf(o)) \in SUBSET DOMAIN Privileges
    BY KindRightsKnown
  <1>4. link \in Link
    BY <1>2, <1>3 DEF Link
  <1>5. <<link>> \in Seq(Link) /\ Len(<<link>>) = 1 /\ <<link>>[1] = link
    BY <1>4
  <1>6. <<link>> # None
    BY <1>5, NoneIsNone
  <1> HIDE DEF link
  <1>7. Top(Issue(g, o, t)) = link
    BY <1>1, <1>5 DEF Top
  <1> QED
    BY <1>1, <1>5, <1>6, <1>7 DEF link

LEMMA BeforeOne ==
  ASSUME NEW S, NEW e \in S, NEW q \in Seq(S), Len(q) = 1
  PROVE  /\ Len(<<e>> \o q) = 2 /\ (<<e>> \o q)[1] = e /\ (<<e>> \o q)[2] = q[1]
         /\ DOMAIN (<<e>> \o q) = 1..2
  <1>1. <<e>> \in Seq(S) /\ Len(<<e>>) = 1 /\ <<e>>[1] = e
    OBVIOUS
  <1> DEFINE w == <<e>>
  <1> HIDE DEF w
  <1>2. w \in Seq(S) /\ Len(w) = 1
    BY <1>1 DEF w
  <1>3. w \o q \in Seq(S) /\ Len(w \o q) = Len(w) + Len(q)
    BY <1>2, ConcatProperties
  <1>4. Len(w \o q) = 2
    BY <1>2, <1>3
  <1>5. \A i \in 1..(Len(w) + Len(q)) : (w \o q)[i] = IF i <= Len(w) THEN w[i] ELSE q[i - Len(w)]
    BY <1>2, ConcatProperties
  <1>6. (w \o q)[1] = w[1]
    BY <1>2, <1>5
  <1>7. (w \o q)[2] = q[1]
    <2>1. 2 \in 1..(Len(w) + Len(q)) /\ ~(2 <= Len(w)) /\ 2 - Len(w) = 1
      BY <1>2
    <2> QED
      BY <1>5, <2>1, Zenon
  <1> QED
    BY <1>1, <1>3, <1>4, <1>6, <1>7 DEF w

\* A delegated credential has the parent below a link of the delegator's.
LEMMA DelegateIs ==
  ASSUME NEW p \in Seq(Link), Len(p) = 1, NEW to, NEW me, NEW k
  PROVE  /\ Len(Delegate(p, to, me, k)) = 2 /\ DOMAIN Delegate(p, to, me, k) = {1, 2}
         /\ Delegate(p, to, me, k)[2] = Top(p)
         /\ Delegate(p, to, me, k)[1] =
              [caller |-> to, object |-> Top(p).object, privileges |-> Top(p).privileges,
               delegate |-> TRUE, expires |-> Top(p).expires, signer |-> me, sealed |-> me.key = k]
  <1> DEFINE link == [caller |-> to, object |-> Top(p).object, privileges |-> Top(p).privileges,
                      delegate |-> TRUE, expires |-> Top(p).expires, signer |-> me,
                      sealed |-> me.key = k]
  <1>1. Delegate(p, to, me, k) = <<link>> \o p
    BY DEF Delegate, DelegatedExpiry
  <1> HIDE DEF link
  <1>2. p \in Seq(Link \cup {link}) /\ link \in Link \cup {link} /\ Len(p) = 1
    OBVIOUS
  <1>3. /\ Len(<<link>> \o p) = 2 /\ (<<link>> \o p)[1] = link /\ (<<link>> \o p)[2] = p[1]
        /\ DOMAIN (<<link>> \o p) = 1..2
    BY <1>2, BeforeOne
  <1>4. 1..2 = {1, 2}
    OBVIOUS
  <1> QED
    BY <1>1, <1>3, <1>4, Zenon DEF link, Top

-----------------------------------------------------------------------------
(* The registry *)

LEMMA MakeGidShape ==
  ASSUME RegistryShape, NEW u \in Users, NEW k \in Keys, MakeGid(u, k)
  PROVE  /\ DOMAIN gid' = Users /\ made' \in [Users -> 0..MaxMade]
         /\ \A v \in Users : gid'[v] = None \/ (gid'[v] \in Gid /\ gid'[v].owner = v /\ gid'[v].made = made'[v])
         /\ \A v \in Users : v # u => gid'[v] = gid[v] /\ made'[v] = made[v]
         /\ gid'[u] = [owner |-> u, key |-> k, made |-> made'[u]] /\ gid'[u] # None
         /\ made'[u] > 0
  <1>1. made[u] \in Nat /\ made[u] + 1 \in 0..MaxMade /\ made[u] + 1 > 0
    BY Numbers DEF MakeGid, RegistryShape
  <1>2. made' \in [Users -> 0..MaxMade] /\ made'[u] = made[u] + 1
    BY <1>1 DEF MakeGid, RegistryShape
  <1>3. \A v \in Users : v # u => gid'[v] = gid[v] /\ made'[v] = made[v]
    BY DEF MakeGid, RegistryShape
  <1> DEFINE g == [owner |-> u, key |-> k, made |-> made[u] + 1]
  <1>4. g \in Gid /\ g.owner = u /\ g.made = made[u] + 1
    BY <1>1 DEF Gid
  <1>5. DOMAIN gid' = Users /\ gid'[u] = g
    BY DEF MakeGid, RegistryShape
  <1>6. g # None
    BY <1>4, NoneIsNone
  <1> HIDE DEF g
  <1>7. gid'[u] = [owner |-> u, key |-> k, made |-> made'[u]]
    BY <1>2, <1>5 DEF g
  <1> QED
    BY <1>1, <1>2, <1>3, <1>4, <1>5, <1>6, <1>7 DEF RegistryShape

LEMMA CreateShape ==
  ASSUME RegistryShape, clock' = clock, NEW o \in Objects, Create(o) PROVE RegistryShape'
  <1>1. CASE o \in Users
    <2>1. PICK k \in Keys : MakeGid(o, k)
      BY <1>1 DEF Create
    <2>2. registered' = registered /\ members' = members
      BY <1>1 DEF Create
    <2> QED
      BY <1>1, <2>1, <2>2, MakeGidShape DEF RegistryShape
  <1>2. CASE o \notin Users
    <2>1. PICK group \in SUBSET Clients : members' = [members EXCEPT ![o] = group]
      BY <1>2 DEF Create
    <2>2. registered' = registered \cup {o} /\ gid' = gid /\ made' = made
      BY <1>2 DEF Create
    <2>3. o \in Slices \cup Auths
      BY <1>2 DEF Objects
    <2> QED
      BY <2>1, <2>2, <2>3 DEF RegistryShape
  <1> QED
    BY <1>1, <1>2

LEMMA ChangeShape ==
  ASSUME RegistryShape, clock' = clock, NEW o \in Objects, Change(o) PROVE RegistryShape'
  <1>1. CASE o \in Users
    <2>1. PICK k \in Keys : MakeGid(o, k)
      BY <1>1 DEF Change
    <2>2. registered' = registered /\ members' = members
      BY <1>1 DEF Change
    <2> QED
      BY <1>1, <2>1, <2>2, MakeGidShape DEF RegistryShape
  <1>2. CASE o \notin Users
    <2>1. PICK group \in SUBSET Clients : members' = [members EXCEPT ![o] = group]
      BY <1>2 DEF Change
    <2>2. registered' = registered /\ gid' = gid /\ made' = made
      BY <1>2 DEF Change
    <2>3. o \in Slices \cup Auths
      BY <1>2 DEF Objects
    <2> QED
      BY <2>1, <2>2, <2>3 DEF RegistryShape
  <1> QED
    BY <1>1, <1>2

LEMMA EraseShape ==
  ASSUME RegistryShape, clock' = clock, NEW o \in Objects, Erase(o) PROVE RegistryShape'
  <1>1. CASE o \in Users
    <2>1. gid' = [gid EXCEPT ![o] = None] /\ made' = made /\ registered' = registered
      BY <1>1 DEF Erase
    <2>2. members' = [m \in DOMAIN members |-> members[m] \ {o}]
      BY <1>1 DEF Erase
    <2>3. members' \in [Slices \cup Auths -> SUBSET Clients]
      BY <2>2 DEF RegistryShape
    <2> QED
      BY <2>1, <2>3 DEF RegistryShape
  <1>2. CASE o \notin Users
    <2>1. members' = [members EXCEPT ![o] = {}] /\ made' = made /\ gid' = gid
      BY <1>2 DEF Erase
    <2>2. registered' \subseteq registered
      BY <1>2 DEF Erase
    <2> QED
      BY <2>1, <2>2 DEF RegistryShape
  <1> QED
    BY <1>1, <1>2

LEMMA ResetGidShape ==
  ASSUME RegistryShape, clock' = clock, NEW u \in Users, ResetGid(u) PROVE RegistryShape'
  <1>1. gid[u] \in Gid
    BY DEF ResetGid, Registered, RegistryShape
  <1>2. gid[u].key \in Keys /\ MakeGid(u, gid[u].key)
    BY <1>1 DEF ResetGid, Gid
  <1>3. registered' = registered /\ members' = members
    BY DEF ResetGid
  <1> QED
    BY <1>2, <1>3, MakeGidShape DEF RegistryShape

LEMMA RegistryStays ==
  ASSUME RegistryShape, clock' \in 0..MaxTime, UNCHANGED registry PROVE RegistryShape'
  BY DEF RegistryShape, registry


-----------------------------------------------------------------------------
(* The files and the process of a command *)

\* Files once there stay there.
Kept == \A v \in Clients : /\ sscert[v] # None => sscert'[v] # None
                           /\ mygid[v] # None => mygid'[v] # None

LEMMA KeptIfUnchanged == ASSUME UNCHANGED <<sscert, mygid>> PROVE Kept
  BY DEF Kept

LEMMA GidsStay == ASSUME GidsShape, UNCHANGED <<pkey, sscert, mygid, togid>> PROVE GidsShape'
  BY DEF GidsShape

LEMMA CredentialsStay == ASSUME CredentialsShape, UNCHANGED cred PROVE CredentialsShape'
  BY DEF CredentialsShape

LEMMA PassedStay == ASSUME PassedShape, UNCHANGED passed PROVE PassedShape'
  BY DEF PassedShape

LEMMA ProcessStays == ASSUME ProcessShape, UNCHANGED process, Kept PROVE ProcessShape'
  BY DEF ProcessShape, process, Kept, Running

LEMMA WatchShape ==
  ASSUME Watch PROVE DOMAIN last' = Clients /\ \A u \in Clients : DOMAIN last'[u] = Own(u)
  BY DEF Watch

LEMMA HistoryStays ==
  ASSUME HistoryShape, UNCHANGED <<granted, last, swaps, commands, changes>> PROVE HistoryShape'
  BY DEF HistoryShape

LEMMA GoShape ==
  ASSUME ProcessShape, NEW u \in Clients, pc[u] \in {"boot", "gid"}, NEW place \in {"boot", "gid"},
         Go(u, place), Kept, sscert'[u] # None
  PROVE  ProcessShape'
  <1>1. /\ pc' \in [Clients -> Places] /\ pc'[u] = place
        /\ \A v \in Clients : v # u => pc'[v] = pc[v]
    BY DEF Go, ProcessShape, Places
  <1>2. cmd' = cmd /\ mine' = mine
    BY DEF Go
  <1>3. \A v \in Clients : /\ Running(v)' <=> Running(v)
                           /\ pc'[v] = "work" <=> pc[v] = "work"
                           /\ pc'[v] = "gid" => v = u \/ pc[v] = "gid"
    BY <1>1 DEF Running
  <1> QED
    BY <1>1, <1>2, <1>3 DEF ProcessShape, Kept

LEMMA EndShape ==
  ASSUME ProcessShape, NEW u \in Clients, NEW how \in {"done", "refused"}, End(u, how), Kept
  PROVE  ProcessShape'
  <1>1. /\ pc' \in [Clients -> Places] /\ pc'[u] = how
        /\ \A v \in Clients : v # u => pc'[v] = pc[v]
    BY DEF End, ProcessShape, Places
  <1>2. /\ DOMAIN cmd' = Clients /\ cmd'[u] = None
        /\ \A v \in Clients : v # u => cmd'[v] = cmd[v]
        /\ DOMAIN mine' = Clients /\ mine'[u] = None
        /\ \A v \in Clients : v # u => mine'[v] = mine[v]
    BY DEF End, ProcessShape
  <1>3. ~Running(u)' /\ pc'[u] \notin {"work", "gid"}
    BY <1>1 DEF Running
  <1>4. \A v \in Clients : v # u => (Running(v)' <=> Running(v))
    BY <1>1 DEF Running
  <1> QED
    BY <1>1, <1>2, <1>3, <1>4 DEF ProcessShape, Kept

\* A step that changes nothing of a command but the objects it is about.
LEMMA CommandShape ==
  ASSUME ProcessShape, NEW u \in Clients, Running(u), UNCHANGED <<pc, mine>>, Kept,
         DOMAIN cmd' = Clients, CommandOf(u, cmd'[u]), \A v \in Clients : v # u => cmd'[v] = cmd[v]
  PROVE  ProcessShape'
  <1>1. cmd'[u] # None
    BY NoneIsNone DEF CommandOf
  <1>2. \A v \in Clients : Running(v)' <=> Running(v)
    BY DEF Running
  <1> QED
    BY <1>1, <1>2 DEF ProcessShape, Kept

LEMMA CommandIs ==
  ASSUME NEW u \in Clients, NEW kind \in {"call", "lookup", "delegate", "myslice"}, NEW o \in Own(u),
         NEW lookup \in BOOLEAN, NEW needs \in SUBSET (Own(u) \ {u}), NEW delegates \in SUBSET Own(u),
         NEW to \in Users \cup {None},
         kind = "lookup" => o \in Slices, kind \in {"delegate", "myslice"} => to \in Users,
         kind = "myslice" => o = u
  PROVE  CommandOf(u, [kind |-> kind, object |-> o, lookup |-> lookup, needs |-> needs,
                       delegates |-> delegates, to |-> to])
  <1>1. o \in Objects /\ needs \in SUBSET Objects /\ delegates \in SUBSET Objects
    BY OwnObjects
  <1> QED
    BY <1>1 DEF CommandOf, CommandRecord

LEMMA StillCommand ==
  ASSUME NEW u \in Clients, NEW c, CommandOf(u, c), NEW d \in CommandRecord,
         d.needs \subseteq Own(u) \ {u}, d.delegates \subseteq Own(u),
         d.object = c.object, d.kind = c.kind, d.to = c.to
  PROVE  CommandOf(u, d)
  BY DEF CommandOf

\* Taking an object off what a command needs, or is about, leaves a command.
LEMMA FewerObjects ==
  ASSUME ProcessShape, NEW u \in Clients, Running(u), NEW o, Found(u, o) \/ GoesWithout(u, o)
  PROVE  /\ DOMAIN cmd' = Clients /\ \A v \in Clients : v # u => cmd'[v] = cmd[v]
         /\ CommandOf(u, cmd'[u]) /\ UNCHANGED <<pc, mine>>
         /\ cmd'[u].needs = cmd[u].needs \ {o}
         /\ cmd'[u].delegates = IF Found(u, o) THEN cmd[u].delegates ELSE cmd[u].delegates \ {o}
         /\ cmd'[u].object = cmd[u].object /\ cmd'[u].kind = cmd[u].kind
         /\ cmd'[u].to = cmd[u].to /\ cmd'[u].lookup = cmd[u].lookup
  <1>1. PICK c : c = cmd[u]
    OBVIOUS
  <1>2. PICK d : d = cmd'[u]
    OBVIOUS
  <1>3. CommandOf(u, c) /\ c \in CommandRecord
    BY <1>1 DEF ProcessShape, CommandOf
  <1>4. /\ c.needs \ {o} \in SUBSET Objects /\ c.delegates \in SUBSET Objects
        /\ c.delegates \ {o} \in SUBSET Objects /\ c.lookup \in BOOLEAN
        /\ c.needs \ {o} \subseteq Own(u) \ {u} /\ c.delegates \subseteq Own(u)
        /\ c.delegates \ {o} \subseteq Own(u)
    BY <1>3 DEF CommandOf, CommandRecord
  <1>5. UNCHANGED <<pc, mine>> /\ DOMAIN cmd' = Clients /\ \A v \in Clients : v # u => cmd'[v] = cmd[v]
    BY DEF Found, GoesWithout, ProcessShape
  <1>6. CASE Found(u, o)
    <2>1. d = [c EXCEPT !.needs = c.needs \ {o}]
      BY <1>1, <1>2, <1>6 DEF Found, ProcessShape
    <2>2. /\ d \in CommandRecord
          /\ d.needs = c.needs \ {o} /\ d.delegates = c.delegates /\ d.lookup = c.lookup
          /\ d.object = c.object /\ d.kind = c.kind /\ d.to = c.to
      BY <1>3, <1>4, <2>1 DEF CommandRecord
    <2>3. CommandOf(u, d)
      BY <1>3, <1>4, <2>2, StillCommand
    <2> QED
      BY <1>1, <1>2, <1>5, <1>6, <2>2, <2>3, Zenon
  <1>7. CASE ~Found(u, o)
    <2>1. d = [c EXCEPT !.needs = c.needs \ {o}, !.delegates = c.delegates \ {o}]
      BY <1>1, <1>2, <1>7 DEF GoesWithout, ProcessShape
    <2>2. /\ d \in CommandRecord
          /\ d.needs = c.needs \ {o} /\ d.delegates = c.delegates \ {o} /\ d.lookup = c.lookup
          /\ d.object = c.object /\ d.kind = c.kind /\ d.to = c.to
      BY <1>3, <1>4, <2>1 DEF CommandRecord
    <2>3. CommandOf(u, d)
      BY <1>3, <1>4, <2>2, StillCommand
    <2> QED
      BY <1>1, <1>2, <1>5, <1>7, <2>2, <2>3, Zenon
  <1> QED
    BY <1>6, <1>7

\* Every command that can be given is one.
LEMMA CommandsAreCommands ==
  ASSUME NEW u \in Clients, NEW c \in Commands(u) PROVE CommandOf(u, c)
  <1>1. /\ u \in Users /\ AuthorityOf[u] \in Auths /\ u \notin Slices /\ u \notin Auths
        /\ Slices \cup Auths \cup {u} = Own(u) /\ Targets \subseteq Objects
    BY OwnObjects, Disjoint, CredentialsAssumption, CommandsAssumption DEF Own
  <1>2. CASE c \in {CallCommand(u, o) : o \in {u, AuthorityOf[u]} \cup Slices}
    <2>1. PICK o \in {u, AuthorityOf[u]} \cup Slices : c = CallCommand(u, o)
      BY <1>2
    <2>2. o \in Own(u) /\ {o} \ {u} \in SUBSET (Own(u) \ {u})
      BY <1>1
    <2> QED
      BY <2>1, <2>2, CommandIs DEF CallCommand, Command
  <1>3. CASE c \in {LookupCommand(s) : s \in Slices}
    <2>1. PICK s \in Slices : c = LookupCommand(s)
      BY <1>3
    <2>2. s \in Own(u) /\ {s} \in SUBSET (Own(u) \ {u})
      BY <1>1
    <2> QED
      BY <2>1, <2>2, CommandIs DEF LookupCommand, Command
  <1>4. CASE c \in {DelegateCommand(u, o, v) : o \in Targets \ (Users \ {u}), v \in Users \ {u}}
    <2>1. PICK o \in Targets \ (Users \ {u}), v \in Users \ {u} : c = DelegateCommand(u, o, v)
      BY <1>4
    <2>2. o \in Own(u) /\ {o} \ {u} \in SUBSET (Own(u) \ {u}) /\ {o} \in SUBSET Own(u)
      BY <1>1 DEF Objects
    <2> QED
      BY <2>1, <2>2, CommandIs DEF DelegateCommand, Command
  <1>5. CASE c \in {MysliceCommand(u, v) : v \in Users \ {u}}
    <2>1. PICK v \in Users \ {u} : c = MysliceCommand(u, v)
      BY <1>5
    <2>2. u \in Own(u) /\ {} \in SUBSET (Own(u) \ {u}) /\ {} \in SUBSET Own(u)
      BY <1>1
    <2> QED
      BY <2>1, <2>2, CommandIs DEF MysliceCommand, Command
  <1> QED
    BY <1>2, <1>3, <1>4, <1>5 DEF Commands

-----------------------------------------------------------------------------
(* What each step leaves *)

LEMMA InitShape == ASSUME Init PROVE Shape
  <1>1. PICK k \in Keys : gid = [u \in Users |-> [owner |-> u, key |-> k, made |-> 0]]
    BY DEF Init
  <1>2. \A u \in Users : /\ gid[u] = [owner |-> u, key |-> k, made |-> 0]
                         /\ gid[u] \in Gid /\ gid[u].owner = u /\ gid[u].made = 0 /\ gid[u].key = k
    BY <1>1, Numbers DEF Gid
  <1>3. RegistryShape
    <2>1. clock \in 0..MaxTime /\ made \in [Users -> 0..MaxMade] /\ made = [u \in Users |-> 0]
      BY Numbers DEF Init
    <2>2. registered \subseteq Slices \cup Auths /\ members \in [Slices \cup Auths -> SUBSET Clients]
      BY DEF Init
    <2> QED
      BY <1>1, <1>2, <2>1, <2>2 DEF RegistryShape
  <1>4. pkey \in [Clients -> Keys]
    BY <1>2, OwnObjects DEF Init
  <1>5. GidsShape
    BY <1>4 DEF Init, GidsShape
  <1>6. CredentialsShape /\ PassedShape
    BY DEF Init, CredentialsShape, PassedShape
  <1>7. ProcessShape
    BY DEF Init, ProcessShape, Places, Running
  <1>8. DOMAIN last = Clients /\ \A u \in Clients : DOMAIN last[u] = Own(u)
    BY DEF Init
  <1>9. HistoryShape
    BY <1>8 DEF Init, HistoryShape
  <1> QED
    BY <1>3, <1>5, <1>6, <1>7, <1>9 DEF Shape

LEMMA ElsewhereShape == ASSUME Shape, Elsewhere PROVE Shape'
  <1>1. /\ UNCHANGED <<pkey, sscert, mygid, cred, togid, passed, process, granted, swaps, commands>>
        /\ clock' = clock /\ Watch
    BY DEF Elsewhere, files
  <1>2. RegistryShape'
    BY <1>1, CreateShape, ChangeShape, EraseShape, ResetGidShape DEF Elsewhere, Shape
  <1>3. HistoryShape'
    BY <1>1, WatchShape DEF Elsewhere, Shape, HistoryShape
  <1> QED
    BY <1>1, <1>2, <1>3, KeptIfUnchanged, GidsStay, CredentialsStay, PassedStay, ProcessStays DEF Shape

LEMMA TickShape == ASSUME Shape, Tick PROVE Shape'
  <1>1. /\ UNCHANGED <<registry, pkey, sscert, mygid, cred, togid, passed, process, granted, swaps, commands, changes>>
        /\ Watch
    BY DEF Tick, files
  <1>2. clock' \in 0..MaxTime
    BY Numbers DEF Tick, Shape, RegistryShape
  <1>3. HistoryShape'
    BY <1>1, WatchShape DEF Tick, Shape, HistoryShape
  <1> QED
    BY <1>1, <1>2, <1>3, RegistryStays, KeptIfUnchanged, GidsStay, CredentialsStay, PassedStay, ProcessStays DEF Shape

LEMMA ReplaceKeyShape == ASSUME Shape, NEW u \in Clients, ReplaceKey(u) PROVE Shape'
  <1>1. UNCHANGED <<clock, registry, sscert, mygid, cred, togid, passed, process, granted, last, commands, changes>>
    BY DEF ReplaceKey
  <1>2. GidsShape'
    BY <1>1 DEF ReplaceKey, Shape, GidsShape
  <1>3. HistoryShape'
    <2>1. swaps' \in [Clients -> Nat]
      BY DEF ReplaceKey, Shape, HistoryShape
    <2> QED
      BY <1>1, <2>1 DEF Shape, HistoryShape
  <1>4. clock' \in 0..MaxTime
    BY <1>1 DEF Shape, RegistryShape
  <1> QED
    BY <1>1, <1>2, <1>3, <1>4, RegistryStays, KeptIfUnchanged, CredentialsStay, PassedStay, ProcessStays DEF Shape

LEMMA RemoveFilesShape == ASSUME Shape, NEW u \in Clients, RemoveFiles(u) PROVE Shape'
  <1>1. UNCHANGED <<clock, registry, pkey, passed, process, granted, last, swaps, commands, changes>>
    BY DEF RemoveFiles
  <1>2. GidsShape'
    BY <1>1 DEF RemoveFiles, Shape, GidsShape
  <1>3. CredentialsShape'
    BY DEF RemoveFiles, Shape, CredentialsShape
  <1>4. clock' \in 0..MaxTime
    BY <1>1 DEF Shape, RegistryShape
  <1>5. ProcessShape'
    <2>1. pc[u] \notin {"gid", "work"} /\ UNCHANGED <<pc, cmd, mine>>
      BY <1>1 DEF RemoveFiles, Running, process
    <2>2. \A v \in Clients : v # u => sscert'[v] = sscert[v] /\ mygid'[v] = mygid[v]
      BY DEF RemoveFiles, Shape, GidsShape
    <2> QED
      BY <2>1, <2>2 DEF Shape, ProcessShape, Running
  <1> QED
    BY <1>1, <1>2, <1>3, <1>4, <1>5, RegistryStays, PassedStay, HistoryStays DEF Shape

LEMMA StartShape == ASSUME Shape, NEW u \in Clients, Start(u) PROVE Shape'
  <1>1. UNCHANGED <<clock, registry, pkey, sscert, mygid, cred, togid, passed, mine, granted, last, swaps, changes>>
    BY DEF Start, files
  <1>2. PICK c \in Commands(u) : cmd' = [cmd EXCEPT ![u] = c]
    BY DEF Start
  <1>3. HistoryShape'
    <2>1. commands' \in [Clients -> Nat]
      BY DEF Start, Shape, HistoryShape
    <2> QED
      BY <1>1, <2>1 DEF Shape, HistoryShape
  <1>4. clock' \in 0..MaxTime
    BY <1>1 DEF Shape, RegistryShape
  <1>5. ProcessShape'
    <2>1. /\ pc' \in [Clients -> Places] /\ pc'[u] = "boot" /\ pc[u] # "work"
          /\ \A v \in Clients : v # u => pc'[v] = pc[v]
      BY DEF Start, Running, Shape, ProcessShape, Places
    <2>2. DOMAIN cmd' = Clients /\ cmd'[u] = c /\ \A v \in Clients : v # u => cmd'[v] = cmd[v]
      BY <1>2 DEF Shape, ProcessShape
    <2>3. CommandOf(u, c) /\ c # None
      BY CommandsAreCommands, NoneIsNone DEF CommandOf
    <2>4. Running(u)' /\ \A v \in Clients : v # u => (Running(v)' <=> Running(v))
      BY <2>1 DEF Running
    <2> QED
      BY <1>1, <2>1, <2>2, <2>3, <2>4 DEF Shape, ProcessShape
  <1> QED
    BY <1>1, <1>3, <1>4, <1>5, RegistryStays, GidsStay, CredentialsStay, PassedStay DEF Shape


\* Writing the file of one credential leaves the others.
LEMMA StoreOne ==
  ASSUME CredentialsShape, NEW u \in Clients, NEW o \in Own(u)
  PROVE  \A c : cred' = [cred EXCEPT ![u][o] = c] =>
           /\ cred'[u][o] = c
           /\ \A p \in Own(u) : p # o => cred'[u][p] = cred[u][p]
           /\ \A v \in Clients : v # u => cred'[v] = cred[v]
           /\ c = None \/ IssuedTo(u, o, c) => CredentialsShape'
  <1>1. SUFFICES ASSUME NEW c, cred' = [cred EXCEPT ![u][o] = c]
                 PROVE  /\ cred'[u][o] = c
                        /\ \A p \in Own(u) : p # o => cred'[u][p] = cred[u][p]
                        /\ \A v \in Clients : v # u => cred'[v] = cred[v]
                        /\ c = None \/ IssuedTo(u, o, c) => CredentialsShape'
    OBVIOUS
  <1>2. /\ cred'[u][o] = c /\ DOMAIN cred' = Clients /\ DOMAIN cred'[u] = Own(u)
        /\ \A p \in Own(u) : p # o => cred'[u][p] = cred[u][p]
        /\ \A v \in Clients : v # u => cred'[v] = cred[v]
    BY <1>1 DEF CredentialsShape
  <1> QED
    BY <1>2 DEF CredentialsShape

LEMMA IssueNow ==
  ASSUME RegistryShape, NEW u \in Clients, Registered(u), NEW o \in Own(u)
  PROVE  /\ gid[u] \in Gid /\ gid[u].owner = u /\ gid[u].made = made[u] /\ gid[u] # None
         /\ IssuedTo(u, o, Issue(gid[u], o, clock)) /\ Issue(gid[u], o, clock) # None
         /\ Len(Issue(gid[u], o, clock)) = 1
         /\ Top(Issue(gid[u], o, clock)).caller = gid[u]
         /\ Top(Issue(gid[u], o, clock)).expires = clock + Lifetime
  <1>1. gid[u] \in Gid /\ gid[u].owner = u /\ gid[u].made = made[u] /\ gid[u] # None /\ o \in Objects /\ clock \in 0..MaxTime
    BY OwnObjects, Disjoint DEF RegistryShape, Registered
  <1>2. PICK g \in Gid, t \in 0..MaxTime : g = gid[u] /\ t = clock
    BY <1>1
  <1>3. Issue(g, o, t) # None /\ Len(Issue(g, o, t)) = 1 /\ Top(Issue(g, o, t)).caller = g
        /\ Top(Issue(g, o, t)).expires = t + Lifetime
    BY <1>1, IssueIs
  <1>4. IssuedTo(u, o, Issue(g, o, t))
    BY <1>1, <1>2 DEF IssuedTo
  <1> QED
    BY <1>1, <1>2, <1>3, <1>4

\* The file that my_credential_produce writes.
LEMMA Produced ==
  ASSUME RegistryShape, CredentialsShape, NEW u \in Clients, NEW ss,
         IF SelfAccepted(u, ss) THEN cred' = [cred EXCEPT ![u][u] = Issue(gid[u], u, clock)]
                                ELSE cred' = [cred EXCEPT ![u][u] = None]
  PROVE  /\ CredentialsShape'
         /\ \A o \in Own(u) : o # u => cred'[u][o] = cred[u][o]
         /\ \A v \in Clients : v # u => cred'[v] = cred[v]
         /\ SelfAccepted(u, ss) => Registered(u) /\ cred'[u][u] = Issue(gid[u], u, clock)
         /\ ~SelfAccepted(u, ss) => cred'[u][u] = None
  <1>1. u \in Own(u)
    BY OwnObjects
  <1>2. CASE SelfAccepted(u, ss)
    <2>1. cred' = [cred EXCEPT ![u][u] = Issue(gid[u], u, clock)] /\ Registered(u)
      BY <1>2 DEF SelfAccepted
    <2>2. IssuedTo(u, u, Issue(gid[u], u, clock))
      BY <1>1, <2>1, IssueNow
    <2>3. PICK c : c = Issue(gid[u], u, clock)
      OBVIOUS
    <2>4. cred' = [cred EXCEPT ![u][u] = c] /\ IssuedTo(u, u, c)
      BY <2>1, <2>2, <2>3
    <2>5. /\ cred'[u][u] = c /\ \A p \in Own(u) : p # u => cred'[u][p] = cred[u][p]
          /\ \A v \in Clients : v # u => cred'[v] = cred[v]
      BY <1>1, <2>4 DEF CredentialsShape
    <2>6. CredentialsShape'
      BY <1>1, <2>4, StoreOne
    <2> QED
      BY <1>2, <2>1, <2>3, <2>5, <2>6, Zenon
  <1>3. CASE ~SelfAccepted(u, ss)
    <2>1. cred' = [cred EXCEPT ![u][u] = None]
      BY <1>3
    <2>2. /\ cred'[u][u] = None /\ \A p \in Own(u) : p # u => cred'[u][p] = cred[u][p]
          /\ \A v \in Clients : v # u => cred'[v] = cred[v]
      BY <1>1, <2>1 DEF CredentialsShape
    <2>3. CredentialsShape'
      BY <1>1, <2>1, StoreOne
    <2> QED
      BY <1>3, <2>2, <2>3, Zenon
  <1> QED
    BY <1>2, <1>3

\* The two outcomes of making the user's credential, each with its step.
LEMMA BootOutcome ==
  ASSUME Shape, NEW u \in Clients, BootCredential(u)
  PROVE  /\ UNCHANGED <<clock, registry, pkey, mygid, togid, passed, granted, last, swaps, commands, changes>>
         /\ pc[u] = "boot"
         /\ sscert' \in [Clients -> Keys \cup {None}] /\ \A v \in Clients : v # u => sscert'[v] = sscert[v]
         /\ sscert'[u] = (IF sscert[u] = None THEN pkey[u] ELSE sscert[u]) /\ sscert'[u] # None
         /\ CredentialsShape'
         /\ \A o \in Own(u) : o # u => cred'[u][o] = cred[u][o]
         /\ \A v \in Clients : v # u => cred'[v] = cred[v]
         /\ \/ Valid(u, u) /\ Go(u, "gid") /\ cred' = cred
            \/ /\ ~Valid(u, u) /\ SelfAccepted(u, sscert'[u]) /\ Registered(u) /\ Go(u, "gid")
               /\ cred'[u][u] = Issue(gid[u], u, clock)
            \/ ~Valid(u, u) /\ ~SelfAccepted(u, sscert'[u]) /\ End(u, "refused") /\ cred'[u][u] = None
  <1> DEFINE ss == IF sscert[u] = None THEN pkey[u] ELSE sscert[u]
  <1>1. /\ UNCHANGED <<clock, registry, pkey, mygid, togid, passed, granted, last, swaps, commands, changes>>
        /\ pc[u] = "boot" /\ sscert' = [sscert EXCEPT ![u] = ss]
        /\ \/ Valid(u, u) /\ Go(u, "gid") /\ cred' = cred
           \/ ProduceCredential(u, ss, Go(u, "gid"), End(u, "refused"))
    BY DEF BootCredential
  <1>2. ss \in Keys /\ ss # None
    BY NoneIsNone DEF Shape, GidsShape
  <1> HIDE DEF ss
  <1>3. /\ sscert' \in [Clients -> Keys \cup {None}] /\ sscert'[u] = ss
        /\ \A v \in Clients : v # u => sscert'[v] = sscert[v]
    BY <1>1, <1>2 DEF Shape, GidsShape
  <1>4. CASE Valid(u, u) /\ Go(u, "gid") /\ cred' = cred
    <2>1. CredentialsShape'
      BY <1>4, CredentialsStay DEF Shape
    <2> QED
      BY <1>1, <1>2, <1>3, <1>4, <2>1 DEF ss
  <1>5. CASE ProduceCredential(u, ss, Go(u, "gid"), End(u, "refused"))
    <2>1. RegistryShape /\ CredentialsShape
      BY DEF Shape
    <2>2. ~Valid(u, u) /\ (IF SelfAccepted(u, ss) THEN cred' = [cred EXCEPT ![u][u] = Issue(gid[u], u, clock)]
                                                  ELSE cred' = [cred EXCEPT ![u][u] = None])
          /\ (SelfAccepted(u, ss) => Go(u, "gid")) /\ (~SelfAccepted(u, ss) => End(u, "refused"))
      BY <1>5, Zenon DEF ProduceCredential
    <2>3. /\ CredentialsShape'
          /\ \A o \in Own(u) : o # u => cred'[u][o] = cred[u][o]
          /\ \A v \in Clients : v # u => cred'[v] = cred[v]
          /\ SelfAccepted(u, ss) => Registered(u) /\ cred'[u][u] = Issue(gid[u], u, clock)
          /\ ~SelfAccepted(u, ss) => cred'[u][u] = None
      BY <2>1, <2>2, Produced, Zenon
    <2>4. sscert'[u] = (IF sscert[u] = None THEN pkey[u] ELSE sscert[u])
      BY <1>3 DEF ss
    <2> QED
      BY <1>1, <1>2, <1>3, <2>2, <2>3, <2>4, Zenon
  <1> QED
    BY <1>1, <1>4, <1>5

LEMMA BootCredentialShape == ASSUME Shape, NEW u \in Clients, BootCredential(u) PROVE Shape'
  <1>1. UNCHANGED <<clock, registry, pkey, mygid, togid, passed, granted, last, swaps, commands, changes>>
        /\ pc[u] = "boot" /\ CredentialsShape' /\ (Go(u, "gid") \/ End(u, "refused")) /\ sscert'[u] # None
    BY BootOutcome
  <1>2. sscert' \in [Clients -> Keys \cup {None}] /\ \A v \in Clients : v # u => sscert'[v] = sscert[v]
    BY BootOutcome
  <1>3. GidsShape'
    BY <1>1, <1>2 DEF Shape, GidsShape
  <1>4. Kept
    BY <1>1, <1>2 DEF Kept
  <1>5. ProcessShape'
    BY <1>1, <1>4, GoShape, EndShape DEF Shape
  <1>6. clock' \in 0..MaxTime
    BY <1>1 DEF Shape, RegistryShape
  <1> QED
    BY <1>1, <1>3, <1>5, <1>6, RegistryStays, PassedStay, HistoryStays DEF Shape


-----------------------------------------------------------------------------
(* The calls that a command can end with *)

MethodsOfUser      == {List, ListResources, CreateGid, Resolve, Update}
MethodsOfSlice     == {Describe, Delete, Status, PerformOperationalAction, Renew, Shutdown, Allocate, Provision}
MethodsOfAuthority == {GetTrustedCerts, Register, Remove, Update}

\* A call is made with the credential on the object of its command; those that
\* ask for the very object are about it.
CallOf(c, call) ==
  /\ call.object = c.object /\ call.target \in Objects
  /\ \/ KindOf(c.object) = "user" /\ call.method \in MethodsOfUser
     \/ KindOf(c.object) = "slice" /\ call.method \in MethodsOfSlice /\ call.target = c.object
     \/ KindOf(c.object) = "slice" /\ call.method = Update
     \/ KindOf(c.object) = "authority" /\ call.method \in MethodsOfAuthority

LEMMA UpdatesAre ==
  ASSUME NEW u \in Clients, NEW o \in Own(u), NEW call \in Updates(u, o)
  PROVE  call.method = Update /\ call.object = o /\ call.target \in Objects
  <1>1. PICK t \in Targets : call = UpdateCommand(o, t)
    BY DEF Updates
  <1> QED
    BY <1>1, CommandsAssumption DEF UpdateCommand, Use

LEMMA CallsAreCalls ==
  ASSUME NEW u \in Clients, NEW c, CommandOf(u, c), NEW call \in LastCalls(u, c)
  PROVE  CallOf(c, call)
  <1>1. PICK o \in Own(u) : o = c.object
    BY DEF CommandOf
  <1>2. o \in Objects /\ Targets \subseteq Objects /\ u \in Objects
    BY OwnObjects, CommandsAssumption
  <1>3. CASE c.kind = "lookup"
    <2>1. o \in Slices /\ KindOf(o) = "slice"
      BY <1>1, <1>3, Disjoint DEF CommandOf
    <2>2. call = Use(Allocate, o, o) \/ call = Use(Provision, o, o)
      BY <1>1, <1>3 DEF LastCalls, AfterLookup, AllocateCommand, ProvisionCommand
    <2>3. call.object = o /\ call.target = o /\ call.method \in {Allocate, Provision}
      BY <2>2 DEF Use
    <2> QED
      BY <1>1, <1>2, <2>1, <2>3 DEF CallOf, MethodsOfSlice
  <1>4. CASE c.kind # "lookup"
    <2>1. call \in Calls(u, o)
      BY <1>1, <1>4 DEF LastCalls
    <2>2. CASE call \in Updates(u, o)
      <3>1. call.method = Update /\ call.object = o /\ call.target \in Objects
        BY <2>2, UpdatesAre
      <3>2. KindOf(o) \in {"user", "slice", "authority"}
        BY DEF KindOf
      <3> QED
        BY <1>1, <3>1, <3>2 DEF CallOf, MethodsOfUser, MethodsOfAuthority
    <2>3. CASE call \notin Updates(u, o) /\ KindOf(o) = "user"
      <3>1. o = u
        BY <2>3, Disjoint DEF Own
      <3>2. call \in OwnCalls(u)
        BY <2>1, <2>3, <3>1 DEF Calls
      <3>3. call.object = u /\ call.target \in Objects /\ call.method \in {List, ListResources, CreateGid, Resolve}
        BY <1>2, <3>2 DEF OwnCalls, ListCommand, ResourcesCommand, GidCommand, ShowCommand, Use
      <3> QED
        BY <1>1, <2>3, <3>1, <3>3 DEF CallOf, MethodsOfUser
    <2>4. CASE call \notin Updates(u, o) /\ KindOf(o) = "slice"
      <3>1. call \in SliceCalls(o)
        BY <2>1, <2>4 DEF Calls
      <3>2. call.object = o /\ call.target = o
            /\ call.method \in {Describe, Delete, Status, PerformOperationalAction, Renew, Shutdown}
        BY <3>1 DEF SliceCalls, DescribeCommand, DeleteCommand, StatusCommand, ActionCommand, RenewCommand,
                    ShutdownCommand, Use
      <3> QED
        BY <1>1, <1>2, <2>4, <3>2 DEF CallOf, MethodsOfSlice
    <2>5. CASE call \notin Updates(u, o) /\ KindOf(o) = "authority"
      <3>1. call \in AuthorityCalls(o)
        BY <2>1, <2>5 DEF Calls
      <3>2. call.object = o /\ call.target \in Objects /\ call.method \in {GetTrustedCerts, Register, Remove}
        BY <1>2, <3>1 DEF AuthorityCalls, TrustedCommand, RegisterCommand, RemoveCommand, Use
      <3> QED
        BY <1>1, <2>5, <3>2 DEF CallOf, MethodsOfAuthority
    <2>6. KindOf(o) \in {"user", "slice", "authority"}
      BY DEF KindOf
    <2> QED
      BY <2>2, <2>3, <2>4, <2>5, <2>6
  <1> QED
    BY <1>3, <1>4

\* Only the calls about the very slice give the aggregate's driver an expiration.
LEMMA LeaseCalls ==
  ASSUME NEW u \in Clients, NEW c, CommandOf(u, c), NEW call, CallOf(c, call), call.method \in {Allocate, Renew}
  PROVE  call.target = c.object /\ c.object \in Slices
  <1>1. /\ Allocate.name = "Allocate" /\ Renew.name = "Renew" /\ Update.name = "Update"
        /\ List.name = "List" /\ ListResources.name = "ListResources" /\ CreateGid.name = "CreateGid"
        /\ Resolve.name = "Resolve" /\ GetTrustedCerts.name = "get_trusted_certs"
        /\ Register.name = "Register" /\ Remove.name = "Remove"
    BY DEF Allocate, Renew, Update, List, ListResources, CreateGid, Resolve, GetTrustedCerts, Register, Remove
  <1>2. call.method.name \in {"Allocate", "Renew"}
    BY <1>1
  <1>3. call.method \notin MethodsOfUser /\ call.method \notin MethodsOfAuthority /\ call.method # Update
    BY <1>1, <1>2 DEF MethodsOfUser, MethodsOfAuthority
  <1>4. KindOf(c.object) = "slice" /\ call.target = c.object
    BY <1>3 DEF CallOf
  <1> QED
    BY <1>4 DEF KindOf, CommandOf


-----------------------------------------------------------------------------
(* What the other steps of a command leave *)

LEMMA BootGidShape == ASSUME Shape, NEW u \in Clients, BootGid(u) PROVE Shape'
  <1>1. /\ UNCHANGED <<clock, registry, pkey, sscert, cred, togid, passed, granted, last, swaps, commands, changes>>
        /\ pc[u] = "gid" /\ sscert[u] # None /\ Running(u)
    BY DEF BootGid, Shape, ProcessShape, Running
  <1>2. clock' \in 0..MaxTime
    BY <1>1 DEF Shape, RegistryShape
  <1>3. SUFFICES GidsShape' /\ ProcessShape'
    BY <1>1, <1>2, RegistryStays, CredentialsStay, PassedStay, HistoryStays DEF Shape
  <1>4. CASE ~Valid(u, u) /\ Go(u, "boot") /\ mygid' = mygid
    <2>1. Kept
      BY <1>1, <1>4, KeptIfUnchanged
    <2> QED
      BY <1>1, <1>4, <2>1, GoShape, GidsStay DEF Shape
  <1>5. CASE End(u, "refused") /\ mygid' = mygid
    <2>1. Kept
      BY <1>1, <1>5, KeptIfUnchanged
    <2> QED
      BY <1>1, <1>5, <2>1, EndShape, GidsStay DEF Shape
  <1>6. CASE /\ Valid(u, u) /\ (mygid[u] # None \/ Registered(u))
             /\ mygid' = [mygid EXCEPT ![u] = IF @ = None THEN gid[u] ELSE @]
             /\ pc' = [pc EXCEPT ![u] = "work"]
             /\ mine' = [mine EXCEPT ![u] = cred[u][u]]
             /\ cmd' = cmd
    <2>1. u \in Own(u) /\ u \in Users /\ cred[u][u] # None
      BY <1>6, OwnObjects DEF Valid
    <2>2. IssuedTo(u, u, cred[u][u])
      BY <2>1 DEF Shape, CredentialsShape
    <2>3. Registered(u) => gid[u] \in Gid /\ gid[u].owner = u /\ gid[u] # None
      BY <2>1 DEF Registered, Shape, RegistryShape
    <2>4. /\ DOMAIN mygid' = Clients /\ mygid'[u] = (IF mygid[u] = None THEN gid[u] ELSE mygid[u])
          /\ \A v \in Clients : v # u => mygid'[v] = mygid[v]
      BY <1>6 DEF Shape, GidsShape
    <2>5. mygid'[u] \in Gid /\ mygid'[u].owner = u /\ mygid'[u] # None
      BY <1>6, <2>3, <2>4, NoneIsNone DEF Shape, GidsShape
    <2>6. GidsShape'
      BY <1>1, <2>4, <2>5 DEF Shape, GidsShape
    <2>7. /\ pc' \in [Clients -> Places] /\ pc'[u] = "work" /\ \A v \in Clients : v # u => pc'[v] = pc[v]
          /\ DOMAIN mine' = Clients /\ mine'[u] = cred[u][u] /\ \A v \in Clients : v # u => mine'[v] = mine[v]
      BY <1>6 DEF Shape, ProcessShape, Places
    <2>8. \A v \in Clients : Running(v)' <=> Running(v)
      BY <1>1, <2>7 DEF Running
    <2>9. ProcessShape'
      BY <1>1, <1>6, <2>1, <2>2, <2>4, <2>5, <2>7, <2>8 DEF Shape, ProcessShape
    <2> QED
      BY <2>6, <2>9
  <1> QED
    BY <1>4, <1>5, <1>6 DEF BootGid

\* The two outcomes of fetching the user's own credential again.
LEMMA RefetchOutcome ==
  ASSUME Shape, NEW u \in Clients, Refetch(u)
  PROVE  /\ UNCHANGED <<clock, registry, pkey, sscert, mygid, togid, passed, granted, last, swaps, commands, changes>>
         /\ pc[u] = "work" /\ ~Valid(u, u) /\ CredentialsShape'
         /\ \A o \in Own(u) : o # u => cred'[u][o] = cred[u][o]
         /\ \A v \in Clients : v # u => cred'[v] = cred[v]
         /\ \/ /\ SelfAccepted(u, sscert[u]) /\ Registered(u) /\ UNCHANGED process
               /\ cred'[u][u] = Issue(gid[u], u, clock)
            \/ ~SelfAccepted(u, sscert[u]) /\ End(u, "refused") /\ cred'[u][u] = None
  <1>1. /\ UNCHANGED <<clock, registry, pkey, sscert, mygid, togid, passed, granted, last, swaps, commands, changes>>
        /\ pc[u] = "work" /\ ProduceCredential(u, sscert[u], UNCHANGED process, End(u, "refused"))
    BY DEF Refetch
  <1>2. RegistryShape /\ CredentialsShape
    BY DEF Shape
  <1> DEFINE ss == sscert[u]
  <1>3. ~Valid(u, u) /\ (IF SelfAccepted(u, ss) THEN cred' = [cred EXCEPT ![u][u] = Issue(gid[u], u, clock)]
                                                ELSE cred' = [cred EXCEPT ![u][u] = None])
        /\ (SelfAccepted(u, ss) => UNCHANGED process) /\ (~SelfAccepted(u, ss) => End(u, "refused"))
    BY <1>1, Zenon DEF ProduceCredential
  <1> HIDE DEF ss
  <1>4. /\ CredentialsShape'
        /\ \A o \in Own(u) : o # u => cred'[u][o] = cred[u][o]
        /\ \A v \in Clients : v # u => cred'[v] = cred[v]
        /\ SelfAccepted(u, ss) => Registered(u) /\ cred'[u][u] = Issue(gid[u], u, clock)
        /\ ~SelfAccepted(u, ss) => cred'[u][u] = None
    BY <1>2, <1>3, Produced, Zenon
  <1> QED
    BY <1>1, <1>3, <1>4, Zenon DEF ss

LEMMA RefetchShape == ASSUME Shape, NEW u \in Clients, Refetch(u) PROVE Shape'
  <1>1. /\ UNCHANGED <<clock, registry, pkey, sscert, mygid, togid, passed, granted, last, swaps, commands, changes>>
        /\ CredentialsShape' /\ (UNCHANGED process \/ End(u, "refused"))
    BY RefetchOutcome
  <1>2. Kept
    BY <1>1, KeptIfUnchanged
  <1>3. clock' \in 0..MaxTime
    BY <1>1 DEF Shape, RegistryShape
  <1>4. ProcessShape'
    BY <1>1, <1>2, EndShape, ProcessStays DEF Shape
  <1> QED
    BY <1>1, <1>3, <1>4, RegistryStays, GidsStay, PassedStay, HistoryStays DEF Shape

\* The three outcomes of making sure of one credential: it is there, it is
\* issued, or it is refused.
FetchAccepted(u, o) == Accepted(u, cred[u][u], GetCredential, o) /\ Grantable(u, o)

LEMMA FetchOutcome ==
  ASSUME Shape, NEW u \in Clients, Fetch(u)
  PROVE  /\ UNCHANGED <<clock, registry, pkey, sscert, mygid, togid, passed, granted, last, swaps, commands, changes>>
         /\ pc[u] = "work" /\ Running(u) /\ CredentialsShape' /\ cmd[u] # None /\ CommandOf(u, cmd[u])
         /\ \A v \in Clients : v # u => cred'[v] = cred[v]
         /\ \E o \in cmd[u].needs :
              /\ o \in Own(u) /\ o # u
              /\ \A p \in Own(u) : p # o => cred'[u][p] = cred[u][p]
              /\ \/ Valid(u, o) /\ Found(u, o) /\ cred' = cred
                 \/ /\ ~Valid(u, o) /\ Valid(u, u) /\ FetchAccepted(u, o) /\ Registered(u) /\ Found(u, o)
                    /\ cred'[u][o] = Issue(gid[u], o, clock)
                 \/ /\ ~Valid(u, o) /\ Valid(u, u) /\ ~FetchAccepted(u, o) /\ cred'[u][o] = None
                    /\ Optional(u, o) /\ GoesWithout(u, o)
                 \/ /\ ~Valid(u, o) /\ Valid(u, u) /\ ~FetchAccepted(u, o) /\ cred'[u][o] = None
                    /\ ~Optional(u, o) /\ End(u, "refused")
  <1>1. /\ UNCHANGED <<clock, registry, pkey, sscert, mygid, togid, passed, granted, last, swaps, commands, changes>>
        /\ pc[u] = "work" /\ Running(u)
    BY DEF Fetch, Running
  <1>2. PICK o \in cmd[u].needs :
          \/ Valid(u, o) /\ Found(u, o) /\ cred' = cred
          \/ /\ ~Valid(u, o) /\ Valid(u, u) /\ FetchAccepted(u, o)
             /\ cred' = [cred EXCEPT ![u][o] = Issue(gid[u], o, clock)]
             /\ Found(u, o)
          \/ /\ ~Valid(u, o) /\ Valid(u, u) /\ ~FetchAccepted(u, o)
             /\ cred' = [cred EXCEPT ![u][o] = None]
             /\ IF Optional(u, o) THEN GoesWithout(u, o) ELSE End(u, "refused")
    BY Zenon DEF Fetch, FetchAccepted
  <1>3. cmd[u] # None /\ CommandOf(u, cmd[u]) /\ o \in Own(u) /\ o # u
    BY <1>1 DEF Shape, ProcessShape, CommandOf
  <1>4. CredentialsShape
    BY DEF Shape
  <1>5. CASE Valid(u, o) /\ Found(u, o) /\ cred' = cred
    <2>1. CredentialsShape' /\ \A v \in Clients : cred'[v] = cred[v]
      BY <1>4, <1>5, CredentialsStay
    <2> QED
      BY <1>1, <1>3, <1>5, <2>1, Zenon
  <1>6. CASE /\ ~Valid(u, o) /\ Valid(u, u) /\ FetchAccepted(u, o)
             /\ cred' = [cred EXCEPT ![u][o] = Issue(gid[u], o, clock)]
             /\ Found(u, o)
    <2>1. PICK c : c = Issue(gid[u], o, clock)
      OBVIOUS
    <2>2. Registered(u) /\ IssuedTo(u, o, c)
      BY <1>3, <1>6, <2>1, IssueNow DEF FetchAccepted, Grantable, Shape
    <2>3. cred' = [cred EXCEPT ![u][o] = c]
      BY <1>6, <2>1
    <2>4. /\ cred'[u][o] = c /\ \A p \in Own(u) : p # o => cred'[u][p] = cred[u][p]
          /\ \A v \in Clients : v # u => cred'[v] = cred[v]
      BY <1>3, <1>4, <2>3 DEF CredentialsShape
    <2>5. CredentialsShape'
      BY <1>3, <1>4, <2>2, <2>3, StoreOne
    <2> QED
      BY <1>1, <1>3, <1>6, <2>1, <2>2, <2>4, <2>5, Zenon
  <1>7. CASE /\ ~Valid(u, o) /\ Valid(u, u) /\ ~FetchAccepted(u, o)
             /\ cred' = [cred EXCEPT ![u][o] = None]
             /\ IF Optional(u, o) THEN GoesWithout(u, o) ELSE End(u, "refused")
    <2>1. cred' = [cred EXCEPT ![u][o] = None]
      BY <1>7
    <2>2. /\ cred'[u][o] = None /\ \A p \in Own(u) : p # o => cred'[u][p] = cred[u][p]
          /\ \A v \in Clients : v # u => cred'[v] = cred[v]
      BY <1>3, <1>4, <2>1 DEF CredentialsShape
    <2>3. CredentialsShape'
      BY <1>3, <1>4, <2>1, StoreOne
    <2> QED
      BY <1>1, <1>3, <1>7, <2>2, <2>3, Zenon
  <1> QED
    BY <1>2, <1>5, <1>6, <1>7

LEMMA FetchShape == ASSUME Shape, NEW u \in Clients, Fetch(u) PROVE Shape'
  <1>1. /\ UNCHANGED <<clock, registry, pkey, sscert, mygid, togid, passed, granted, last, swaps, commands, changes>>
        /\ CredentialsShape' /\ Running(u)
    BY FetchOutcome
  <1>2. PICK o : Found(u, o) \/ GoesWithout(u, o) \/ End(u, "refused")
    BY FetchOutcome
  <1>3. Kept
    BY <1>1, KeptIfUnchanged
  <1>4. clock' \in 0..MaxTime
    BY <1>1 DEF Shape, RegistryShape
  <1>5. ProcessShape'
    <2>1. CASE End(u, "refused")
      BY <1>3, <2>1, EndShape DEF Shape
    <2>2. CASE Found(u, o) \/ GoesWithout(u, o)
      BY <1>1, <1>3, <2>2, FewerObjects, CommandShape DEF Shape
    <2> QED
      BY <1>2, <2>1, <2>2
  <1> QED
    BY <1>1, <1>4, <1>5, RegistryStays, GidsStay, PassedStay, HistoryStays DEF Shape


LEMMA LookupOutcome ==
  ASSUME Shape, NEW u \in Clients, Lookup(u)
  PROVE  /\ UNCHANGED <<clock, registry, files, granted, last, swaps, commands, changes>>
         /\ pc[u] = "work" /\ Running(u) /\ cmd[u].lookup /\ cmd[u].needs = {}
         /\ cmd[u] # None /\ CommandOf(u, cmd[u])
         /\ \/ /\ ~(Accepted(u, mine[u], Resolve, cmd[u].object) /\ Registered(cmd[u].object))
               /\ End(u, "refused")
            \/ /\ Registered(cmd[u].object) /\ UNCHANGED <<pc, mine>>
               /\ DOMAIN cmd' = Clients /\ \A v \in Clients : v # u => cmd'[v] = cmd[v]
               /\ CommandOf(u, cmd'[u]) /\ ~cmd'[u].lookup
               /\ cmd'[u].object = cmd[u].object /\ cmd'[u].kind = cmd[u].kind /\ cmd'[u].to = cmd[u].to
               /\ cmd'[u].needs = (IF cmd[u].kind = "myslice" THEN MyObjects(u) \ {u} ELSE {})
               /\ cmd'[u].delegates = (IF cmd[u].kind = "myslice" THEN MyObjects(u) ELSE {})
  <1>1. /\ UNCHANGED <<clock, registry, files, granted, last, swaps, commands, changes>>
        /\ pc[u] = "work" /\ Running(u) /\ cmd[u].lookup /\ cmd[u].needs = {}
    BY DEF Lookup, Running
  <1>2. PICK c : c = cmd[u]
    OBVIOUS
  <1>3. PICK d : d = cmd'[u]
    OBVIOUS
  <1>4. c # None /\ CommandOf(u, c) /\ c \in CommandRecord
    BY <1>1, <1>2 DEF Shape, ProcessShape, CommandOf
  <1>5. CASE Accepted(u, mine[u], Resolve, cmd[u].object) /\ Registered(cmd[u].object)
    <2> DEFINE needs == IF c.kind = "myslice" THEN MyObjects(u) \ {u} ELSE {}
               delegates == IF c.kind = "myslice" THEN MyObjects(u) ELSE {}
    <2>1. cmd' = [cmd EXCEPT ![u].lookup = FALSE,
                     ![u].needs = IF cmd[u].kind = "myslice" THEN MyObjects(u) \ {u} ELSE {},
                     ![u].delegates = IF cmd[u].kind = "myslice" THEN MyObjects(u) ELSE {}]
          /\ UNCHANGED <<pc, mine>>
      BY <1>5 DEF Lookup
    <2>2. MyObjects(u) \subseteq Own(u) /\ MyObjects(u) \subseteq Objects
      BY OwnObjects DEF MyObjects, Own
    <2>3. /\ needs \in SUBSET Objects /\ delegates \in SUBSET Objects
          /\ needs \subseteq Own(u) \ {u} /\ delegates \subseteq Own(u)
      BY <2>2
    <2>4. DOMAIN cmd' = Clients /\ \A v \in Clients : v # u => cmd'[v] = cmd[v]
      BY <2>1 DEF Shape, ProcessShape
    <2>5. d = [c EXCEPT !.lookup = FALSE, !.needs = needs, !.delegates = delegates]
      BY <1>2, <1>3, <2>1 DEF Shape, ProcessShape
    <2> HIDE DEF needs, delegates
    <2>6. /\ d \in CommandRecord
          /\ d.needs = needs /\ d.delegates = delegates /\ d.lookup = FALSE
          /\ d.object = c.object /\ d.kind = c.kind /\ d.to = c.to
      BY <1>4, <2>3, <2>5 DEF CommandRecord
    <2>7. CommandOf(u, d)
      BY <1>4, <2>3, <2>6, StillCommand
    <2> QED
      BY <1>1, <1>2, <1>3, <1>4, <1>5, <2>1, <2>4, <2>6, <2>7, Zenon DEF needs, delegates
  <1>6. CASE ~(Accepted(u, mine[u], Resolve, cmd[u].object) /\ Registered(cmd[u].object))
    <2>1. End(u, "refused")
      BY <1>6 DEF Lookup
    <2> QED
      BY <1>1, <1>2, <1>4, <1>6, <2>1, Zenon
  <1> QED
    BY <1>5, <1>6

LEMMA LookupShape == ASSUME Shape, NEW u \in Clients, Lookup(u) PROVE Shape'
  <1>1. UNCHANGED <<clock, registry, pkey, sscert, mygid, cred, togid, passed, granted, last, swaps, commands, changes>>
        /\ Running(u)
    BY LookupOutcome DEF files
  <1>2. Kept
    BY <1>1, KeptIfUnchanged
  <1>3. clock' \in 0..MaxTime
    BY <1>1 DEF Shape, RegistryShape
  <1>4. ProcessShape'
    <2>1. CASE End(u, "refused")
      BY <1>2, <2>1, EndShape DEF Shape
    <2>2. CASE ~End(u, "refused")
      <3>1. /\ UNCHANGED <<pc, mine>> /\ DOMAIN cmd' = Clients /\ \A v \in Clients : v # u => cmd'[v] = cmd[v]
            /\ CommandOf(u, cmd'[u])
        BY <2>2, LookupOutcome
      <3> QED
        BY <1>1, <1>2, <3>1, CommandShape DEF Shape
    <2> QED
      BY <2>1, <2>2
  <1> QED
    BY <1>1, <1>3, <1>4, RegistryStays, GidsStay, CredentialsStay, PassedStay, HistoryStays DEF Shape

LEMMA LeaseShape ==
  ASSUME DOMAIN granted = Slices, NEW c, NEW method, NEW s, Lease(c, method, s)
  PROVE  DOMAIN granted' = Slices
  <1>1. Allocate.name = "Allocate" /\ Renew.name = "Renew"
    BY DEF Allocate, Renew
  <1>2. CASE method = Allocate
    BY <1>2 DEF Lease
  <1>3. CASE method = Renew
    <2>1. method # Allocate
      BY <1>1, <1>3
    <2>2. PICK t \in clock..Top(c).expires : granted' = [granted EXCEPT ![s] = t]
      BY <1>3, <2>1 DEF Lease
    <2> QED
      BY <2>2
  <1>4. CASE method # Allocate /\ method # Renew
    BY <1>4 DEF Lease
  <1> QED
    BY <1>2, <1>3, <1>4

\* A call that is let through, or not.
LEMMA CallOutcome ==
  ASSUME Shape, NEW u \in Clients, Call(u)
  PROVE  /\ UNCHANGED <<files, swaps, commands, changes>> /\ clock' = clock
         /\ pc[u] = "work" /\ Running(u) /\ cmd[u] # None /\ CommandOf(u, cmd[u])
         /\ cmd[u].kind \in {"call", "lookup"} /\ ~cmd[u].lookup /\ cmd[u].needs = {}
         /\ \E call \in LastCalls(u, cmd[u]) :
              /\ CallOf(cmd[u], call)
              /\ \/ Served(u, Held(u, call.object), call) /\ End(u, "done")
                 \/ /\ ~(Accepted(u, Held(u, call.object), call.method, call.target) /\ Doable(call))
                    /\ End(u, "refused") /\ UNCHANGED <<registry, granted, last>>
  <1>1. /\ UNCHANGED <<files, swaps, commands, changes>>
        /\ pc[u] = "work" /\ Running(u)
        /\ cmd[u].kind \in {"call", "lookup"} /\ ~cmd[u].lookup /\ cmd[u].needs = {}
    BY DEF Call, Running
  <1>2. cmd[u] # None /\ CommandOf(u, cmd[u])
    BY <1>1 DEF Shape, ProcessShape
  <1>3. PICK call \in LastCalls(u, cmd[u]) :
          IF Accepted(u, Held(u, call.object), call.method, call.target) /\ Doable(call)
          THEN Served(u, Held(u, call.object), call) /\ End(u, "done")
          ELSE End(u, "refused") /\ UNCHANGED <<clock, registry, granted, last>>
    BY Zenon DEF Call
  <1>4. CallOf(cmd[u], call)
    BY <1>2, CallsAreCalls
  <1>5. CASE Accepted(u, Held(u, call.object), call.method, call.target) /\ Doable(call)
    <2>1. Served(u, Held(u, call.object), call) /\ End(u, "done") /\ clock' = clock
      BY <1>3, <1>5 DEF Served
    <2> QED
      BY <1>1, <1>2, <1>4, <2>1, Zenon
  <1>6. CASE ~(Accepted(u, Held(u, call.object), call.method, call.target) /\ Doable(call))
    <2>1. End(u, "refused") /\ UNCHANGED <<registry, granted, last>> /\ clock' = clock
      BY <1>3, <1>6
    <2> QED
      BY <1>1, <1>2, <1>4, <1>6, <2>1, Zenon
  <1> QED
    BY <1>5, <1>6

LEMMA ServedShape ==
  ASSUME RegistryShape, HistoryShape, NEW u \in Clients, NEW c, NEW call, call.target \in Objects,
         Served(u, c, call), UNCHANGED <<swaps, commands, changes>>
  PROVE  RegistryShape' /\ HistoryShape'
  <1>1. clock' = clock /\ Watch /\ Lease(c, call.method, call.target)
    BY DEF Served
  <1>2. Create(call.target) \/ Change(call.target) \/ Erase(call.target) \/ UNCHANGED registry
    BY DEF Served
  <1>3. RegistryShape'
    <2>1. clock' \in 0..MaxTime
      BY <1>1 DEF RegistryShape
    <2> QED
      BY <1>1, <1>2, <2>1, CreateShape, ChangeShape, EraseShape, RegistryStays
  <1>4. DOMAIN granted' = Slices
    BY <1>1, LeaseShape DEF HistoryShape
  <1> QED
    BY <1>1, <1>3, <1>4, WatchShape DEF HistoryShape

LEMMA CallShape == ASSUME Shape, NEW u \in Clients, Call(u) PROVE Shape'
  <1>1. UNCHANGED <<pkey, sscert, mygid, cred, togid, passed, swaps, commands, changes>> /\ clock' = clock
    BY CallOutcome DEF files
  <1>2. Kept
    BY <1>1, KeptIfUnchanged
  <1>3. PICK call : /\ CallOf(cmd[u], call)
                    /\ \/ Served(u, Held(u, call.object), call) /\ End(u, "done")
                       \/ End(u, "refused") /\ UNCHANGED <<registry, granted, last>>
    BY CallOutcome, Zenon
  <1>4. ProcessShape'
    BY <1>2, <1>3, EndShape DEF Shape
  <1>5. CASE Served(u, Held(u, call.object), call)
    <2>1. RegistryShape' /\ HistoryShape'
      BY <1>1, <1>3, <1>5, ServedShape DEF Shape, CallOf
    <2> QED
      BY <1>1, <1>4, <2>1, GidsStay, CredentialsStay, PassedStay DEF Shape
  <1>6. CASE UNCHANGED <<registry, granted, last>>
    <2>1. RegistryShape'
      BY <1>1, <1>6, RegistryStays DEF Shape, RegistryShape
    <2>2. HistoryShape'
      BY <1>1, <1>6 DEF Shape, HistoryShape
    <2> QED
      BY <1>1, <1>4, <2>1, <2>2, GidsStay, CredentialsStay, PassedStay DEF Shape
  <1> QED
    BY <1>3, <1>5, <1>6


LEMMA HeldIssued ==
  ASSUME Shape, SecuredThere, NEW u \in Clients, pc[u] = "work", cmd[u].needs = {},
         NEW o \in Own(u), o = cmd[u].object \/ o \in cmd[u].delegates
  PROVE  IssuedTo(u, o, Held(u, o)) /\ Held(u, o) # None
  <1>1. cmd[u] # None
    BY DEF Shape, ProcessShape, Running
  <1>2. CASE o = u
    BY <1>2 DEF Shape, ProcessShape, Held
  <1>3. CASE o # u
    <2>1. o \in Secured(u)
      BY <1>3 DEF Secured
    <2>2. cred[u][o] # None
      BY <1>1, <2>1 DEF SecuredThere
    <2> QED
      BY <1>3, <2>2 DEF Held, Shape, CredentialsShape
  <1> QED
    BY <1>2, <1>3

\* The gid of the one delegated to is fetched, or refused, or all is signed.
LEMMA SignOutcome ==
  ASSUME Shape, SecuredThere, NEW u \in Clients, Sign(u)
  PROVE  /\ UNCHANGED <<clock, registry, pkey, sscert, mygid, cred, granted, last, swaps, commands, changes>>
         /\ pc[u] = "work" /\ Running(u) /\ cmd[u] # None /\ CommandOf(u, cmd[u]) /\ Signing(u)
         /\ cmd[u].needs = {} /\ cmd[u].to \in Users /\ cmd[u].to # None
         /\ \/ /\ UNCHANGED <<passed, process>> /\ Registered(cmd[u].to)
               /\ togid' = [togid EXCEPT ![u][cmd[u].to] = gid[cmd[u].to]]
            \/ /\ LacksGid(u) /\ Valid(u, u)
               /\ ~(Accepted(u, cred[u][u], Resolve, cmd[u].to) /\ Registered(cmd[u].to))
               /\ End(u, "refused") /\ UNCHANGED <<togid, passed>>
            \/ /\ togid[u][cmd[u].to] # None /\ End(u, "done") /\ UNCHANGED togid
               /\ passed' = [passed EXCEPT ![u] = [o \in Own(u) |->
                    IF o \in cmd[u].delegates
                    THEN [passed[u][o] EXCEPT ![cmd[u].to] =
                            Delegate(Held(u, o), togid[u][cmd[u].to], mygid[u], pkey[u])]
                    ELSE passed[u][o]]]
  <1>1. /\ UNCHANGED <<clock, registry, pkey, sscert, mygid, cred, granted, last, swaps, commands, changes>>
        /\ pc[u] = "work" /\ Running(u) /\ Signing(u) /\ cmd[u].needs = {}
    BY DEF Sign, Signing, Running
  <1>2. cmd[u] # None /\ CommandOf(u, cmd[u])
    BY <1>1 DEF Shape, ProcessShape
  <1>3. cmd[u].to \in Users /\ cmd[u].to # None
    BY <1>1, <1>2, NoneIsNone DEF Signing, CommandOf
  <1>4. CASE /\ LacksGid(u) /\ Valid(u, u) /\ Accepted(u, cred[u][u], Resolve, cmd[u].to) /\ Registered(cmd[u].to)
             /\ togid' = [togid EXCEPT ![u][cmd[u].to] = gid[cmd[u].to]]
             /\ UNCHANGED <<passed, process>>
    BY <1>1, <1>2, <1>3, <1>4, Zenon
  <1>5. CASE /\ LacksGid(u) /\ Valid(u, u)
             /\ ~(Accepted(u, cred[u][u], Resolve, cmd[u].to) /\ Registered(cmd[u].to))
             /\ End(u, "refused") /\ UNCHANGED <<togid, passed>>
    BY <1>1, <1>2, <1>3, <1>5, Zenon
  <1>6. CASE /\ ~LacksGid(u)
             /\ passed' = [passed EXCEPT ![u] = [o \in Own(u) |->
                    IF o \in cmd[u].delegates
                    THEN [passed[u][o] EXCEPT ![cmd[u].to] =
                            Delegate(Held(u, o), togid[u][cmd[u].to], mygid[u], pkey[u])]
                    ELSE passed[u][o]]]
             /\ End(u, "done") /\ UNCHANGED togid
    <2>1. togid[u][cmd[u].to] # None
      BY <1>3, <1>6 DEF LacksGid
    <2> QED
      BY <1>1, <1>2, <1>3, <1>6, <2>1, Zenon
  <1> QED
    BY <1>4, <1>5, <1>6, Zenon DEF Sign

\* What a signature writes, file by file.
LEMMA SignedFiles ==
  ASSUME Shape, SecuredThere, NEW u \in Clients, Sign(u), togid[u][cmd[u].to] # None, End(u, "done"),
         passed' = [passed EXCEPT ![u] = [o \in Own(u) |->
                    IF o \in cmd[u].delegates
                    THEN [passed[u][o] EXCEPT ![cmd[u].to] =
                            Delegate(Held(u, o), togid[u][cmd[u].to], mygid[u], pkey[u])]
                    ELSE passed[u][o]]]
  PROVE  /\ DOMAIN passed' = Clients /\ \A v \in Clients : v # u => passed'[v] = passed[v]
         /\ DOMAIN passed'[u] = Own(u) /\ \A o \in Own(u) : DOMAIN passed'[u][o] = Users
         /\ \A o \in Own(u), v \in Users :
              \/ passed'[u][o][v] = passed[u][o][v]
              \/ /\ o \in cmd[u].delegates /\ v = cmd[u].to
                 /\ passed'[u][o][v] = Delegate(Held(u, o), togid[u][v], mygid[u], pkey[u])
  <1>1. cmd[u].to \in Users
    BY SignOutcome
  <1>2. DOMAIN passed' = Clients /\ \A v \in Clients : v # u => passed'[v] = passed[v]
    BY DEF Shape, PassedShape
  <1>3. passed'[u] = [o \in Own(u) |->
                    IF o \in cmd[u].delegates
                    THEN [passed[u][o] EXCEPT ![cmd[u].to] =
                            Delegate(Held(u, o), togid[u][cmd[u].to], mygid[u], pkey[u])]
                    ELSE passed[u][o]]
    BY DEF Shape, PassedShape
  <1>4. ASSUME NEW o \in Own(u)
        PROVE  /\ DOMAIN passed'[u][o] = Users
               /\ \A v \in Users :
                    \/ passed'[u][o][v] = passed[u][o][v]
                    \/ /\ o \in cmd[u].delegates /\ v = cmd[u].to
                       /\ passed'[u][o][v] = Delegate(Held(u, o), togid[u][v], mygid[u], pkey[u])
    <2>1. DOMAIN passed[u][o] = Users
      BY DEF Shape, PassedShape
    <2>2. CASE o \in cmd[u].delegates
      <3>1. passed'[u][o] = [passed[u][o] EXCEPT ![cmd[u].to] =
                               Delegate(Held(u, o), togid[u][cmd[u].to], mygid[u], pkey[u])]
        BY <1>3, <2>2
      <3> QED
        BY <1>1, <2>1, <2>2, <3>1
    <2>3. CASE o \notin cmd[u].delegates
      BY <1>3, <2>1, <2>3
    <2> QED
      BY <2>2, <2>3
  <1> QED
    BY <1>2, <1>3, <1>4

LEMMA DelegateHeld ==
  ASSUME Shape, SecuredThere, NEW u \in Clients, Sign(u), NEW o \in Own(u), o \in cmd[u].delegates,
         NEW v \in Users, togid[u][v] # None
  PROVE  /\ DelegatedTo(u, o, v, Delegate(Held(u, o), togid[u][v], mygid[u], pkey[u]))
         /\ IssuedTo(u, o, Held(u, o)) /\ Held(u, o) # None
  <1>1. pc[u] = "work" /\ cmd[u].needs = {}
    BY SignOutcome
  <1>2. IssuedTo(u, o, Held(u, o)) /\ Held(u, o) # None
    BY <1>1, HeldIssued
  <1>3. PICK g \in Gid, t \in 0..MaxTime : g.owner = u /\ Held(u, o) = Issue(g, o, t)
    BY <1>2 DEF IssuedTo
  <1>4. togid[u][v] \in Gid /\ togid[u][v].owner = v /\ mygid[u] \in Gid /\ mygid[u].owner = u /\ pkey[u] \in Keys
    BY <1>1 DEF Shape, GidsShape, ProcessShape
  <1> QED
    BY <1>2, <1>3, <1>4 DEF DelegatedTo

LEMMA SignShape == ASSUME Shape, SecuredThere, NEW u \in Clients, Sign(u) PROVE Shape'
  <1>1. /\ UNCHANGED <<clock, registry, pkey, sscert, mygid, cred, granted, last, swaps, commands, changes>>
        /\ cmd[u].to \in Users
    BY SignOutcome
  <1>2. Kept
    BY <1>1, KeptIfUnchanged
  <1>3. clock' \in 0..MaxTime
    BY <1>1 DEF Shape, RegistryShape
  <1>4. SUFFICES GidsShape' /\ PassedShape' /\ ProcessShape'
    BY <1>1, <1>3, RegistryStays, CredentialsStay, HistoryStays DEF Shape
  <1>5. CASE /\ UNCHANGED <<passed, process>> /\ Registered(cmd[u].to)
             /\ togid' = [togid EXCEPT ![u][cmd[u].to] = gid[cmd[u].to]]
    <2>1. PICK v \in Users : v = cmd[u].to
      BY <1>1
    <2>2. gid[v] \in Gid /\ gid[v].owner = v
      BY <1>5, <2>1 DEF Registered, Shape, RegistryShape
    <2>3. togid' = [togid EXCEPT ![u][v] = gid[v]]
      BY <1>5, <2>1
    <2>4. /\ DOMAIN togid' = Clients /\ DOMAIN togid'[u] = Users /\ togid'[u][v] = gid[v]
          /\ \A w \in Users : w # v => togid'[u][w] = togid[u][w]
          /\ \A w \in Clients : w # u => togid'[w] = togid[w]
      BY <2>3 DEF Shape, GidsShape
    <2>5. GidsShape'
      BY <1>1, <2>2, <2>4 DEF Shape, GidsShape
    <2> QED
      BY <1>2, <1>5, <2>5, PassedStay, ProcessStays DEF Shape
  <1>6. CASE End(u, "refused") /\ UNCHANGED <<togid, passed>>
    BY <1>1, <1>2, <1>6, GidsStay, PassedStay, EndShape DEF Shape
  <1>7. CASE /\ togid[u][cmd[u].to] # None /\ End(u, "done") /\ UNCHANGED togid
             /\ passed' = [passed EXCEPT ![u] = [o \in Own(u) |->
                    IF o \in cmd[u].delegates
                    THEN [passed[u][o] EXCEPT ![cmd[u].to] =
                            Delegate(Held(u, o), togid[u][cmd[u].to], mygid[u], pkey[u])]
                    ELSE passed[u][o]]]
    <2>1. PassedShape'
      <3>1. /\ DOMAIN passed' = Clients /\ \A v \in Clients : v # u => passed'[v] = passed[v]
            /\ DOMAIN passed'[u] = Own(u) /\ \A o \in Own(u) : DOMAIN passed'[u][o] = Users
        BY <1>7, SignedFiles
      <3>2. ASSUME NEW o \in Own(u), NEW v \in Users
            PROVE  passed'[u][o][v] = None \/ DelegatedTo(u, o, v, passed'[u][o][v])
        <4>1. CASE passed'[u][o][v] = passed[u][o][v]
          BY <4>1 DEF Shape, PassedShape
        <4>2. CASE /\ o \in cmd[u].delegates /\ v = cmd[u].to
                   /\ passed'[u][o][v] = Delegate(Held(u, o), togid[u][v], mygid[u], pkey[u])
          BY <1>7, <4>2, DelegateHeld
        <4> QED
          BY <1>7, <4>1, <4>2, SignedFiles
      <3> QED
        BY <3>1, <3>2 DEF Shape, PassedShape
    <2> QED
      BY <1>1, <1>2, <1>7, <2>1, GidsStay, EndShape DEF Shape
  <1> QED
    BY <1>5, <1>6, <1>7, SignOutcome, Zenon

LEMMA DelegateeCallShape ==
  ASSUME Shape, NEW u \in Clients, NEW v \in Users, NEW s \in Slices, DelegateeCall(u, v, s) PROVE Shape'
  <1>1. /\ UNCHANGED <<clock, registry, pkey, sscert, mygid, cred, togid, passed, process, last, swaps, commands, changes>>
    BY DEF DelegateeCall, files
  <1>2. PICK method \in {Allocate, Renew} : Lease(passed[u][s][v], method, s)
    BY DEF DelegateeCall
  <1>3. HistoryShape'
    <2>1. DOMAIN granted' = Slices
      BY <1>2, LeaseShape DEF Shape, HistoryShape
    <2> QED
      BY <1>1, <2>1 DEF Shape, HistoryShape
  <1>4. clock' \in 0..MaxTime
    BY <1>1 DEF Shape, RegistryShape
  <1> QED
    BY <1>1, <1>3, <1>4, RegistryStays, KeptIfUnchanged, GidsStay, CredentialsStay, PassedStay, ProcessStays DEF Shape

LEMMA StutterShape == ASSUME Shape, UNCHANGED vars PROVE Shape'
  <1>1. UNCHANGED <<clock, registry, pkey, sscert, mygid, cred, togid, passed, process, granted, last, swaps, commands, changes>>
    BY DEF vars, files
  <1>2. clock' \in 0..MaxTime
    BY <1>1 DEF Shape, RegistryShape
  <1> QED
    BY <1>1, <1>2, RegistryStays, KeptIfUnchanged, GidsStay, CredentialsStay, PassedStay, ProcessStays, HistoryStays DEF Shape


-----------------------------------------------------------------------------
(* Where a step takes what it writes from *)

CredentialsEffect ==
  \A u \in Clients :
    /\ mine'[u] \in {None, mine[u], cred[u][u]}
    /\ \A o \in Own(u) :
         \/ cred'[u][o] \in {None, cred[u][o]}
         \/ clock' = clock /\ Grantable(u, o) /\ cred'[u][o] = Issue(gid[u], o, clock)

DelegatesEffect ==
  \A u \in Clients : \A o \in Own(u) : \A v \in Users :
    \/ passed'[u][o][v] = passed[u][o][v]
    \/ \E c : /\ c = cred[u][o] \/ (o = u /\ c = mine[u])
              /\ c # None /\ togid[u][v] # None /\ mygid[u] # None
              /\ passed'[u][o][v] = Delegate(c, togid[u][v], mygid[u], pkey[u])

Bears(u, s, t) ==
  \E c : /\ c = cred[u][s] \/ \E v \in Users : c = passed[u][s][v]
         /\ c # None /\ t \in Int /\ t <= Top(c).expires

GrantsEffect ==
  \A s \in Slices : granted'[s] = granted[s] \/ \E u \in Clients : Bears(u, s, granted'[s])

Effect == CredentialsEffect /\ DelegatesEffect /\ GrantsEffect

LEMMA DelegatesKept == ASSUME UNCHANGED passed PROVE DelegatesEffect
  BY DEF DelegatesEffect

LEMMA GrantsKept == ASSUME UNCHANGED granted PROVE GrantsEffect
  BY DEF GrantsEffect

\* A command that goes on, or ends, reads no credential anew.
LEMMA MineKept ==
  ASSUME Shape, NEW u \in Clients, NEW how, UNCHANGED mine \/ End(u, how)
  PROVE  \A v \in Clients : mine'[v] \in {None, mine[v], cred[v][v]}
  BY DEF End, Shape, ProcessShape

LEMMA CredentialsKept ==
  ASSUME Shape, NEW u \in Clients, NEW how, UNCHANGED mine \/ End(u, how), UNCHANGED cred
  PROVE  CredentialsEffect
  BY MineKept DEF CredentialsEffect

LEMMA ElsewhereEffect == ASSUME Shape, Elsewhere PROVE Effect
  <1>1. UNCHANGED <<pkey, mygid, cred, togid, passed, mine, granted, swaps>> /\ clock' = clock
    BY DEF Elsewhere, files, process
  <1> QED
    BY <1>1, DelegatesKept, GrantsKept DEF Effect, CredentialsEffect

LEMMA TickEffect == ASSUME Shape, Tick PROVE Effect
  <1>1. UNCHANGED <<registry, pkey, mygid, cred, togid, passed, mine, granted, swaps>> /\ clock' = clock + 1
    BY DEF Tick, files, process
  <1> QED
    BY <1>1, DelegatesKept, GrantsKept DEF Effect, CredentialsEffect

LEMMA ReplaceKeyEffect == ASSUME Shape, NEW u \in Clients, ReplaceKey(u) PROVE Effect
  <1>1. UNCHANGED <<registry, mygid, cred, togid, passed, mine, granted>> /\ clock' = clock
    BY DEF ReplaceKey, files, process
  <1> QED
    BY <1>1, DelegatesKept, GrantsKept DEF Effect, CredentialsEffect

LEMMA RemoveFilesEffect == ASSUME Shape, NEW u \in Clients, RemoveFiles(u) PROVE Effect
  <1>1. UNCHANGED <<registry, pkey, passed, mine, granted, swaps>> /\ clock' = clock
    BY DEF RemoveFiles, process
  <1>2. CredentialsEffect
    BY <1>1 DEF RemoveFiles, Shape, CredentialsShape, CredentialsEffect
  <1> QED
    BY <1>1, <1>2, DelegatesKept, GrantsKept DEF Effect

LEMMA StartEffect == ASSUME Shape, NEW u \in Clients, Start(u) PROVE Effect
  <1>1. UNCHANGED <<registry, pkey, mygid, cred, togid, passed, mine, granted, swaps>> /\ clock' = clock
    BY DEF Start, files
  <1> QED
    BY <1>1, DelegatesKept, GrantsKept DEF Effect, CredentialsEffect

LEMMA SelfGrantable == ASSUME NEW u \in Clients, Registered(u) PROVE Grantable(u, u)
  BY OwnObjects, Disjoint DEF Grantable, HasRights

LEMMA BootCredentialEffect == ASSUME Shape, NEW u \in Clients, BootCredential(u) PROVE Effect
  <1>1. UNCHANGED <<clock, registry, pkey, mygid, togid, passed, granted, swaps>>
    BY BootOutcome
  <1>2. \A v \in Clients : mine'[v] \in {None, mine[v], cred[v][v]}
    <2>1. UNCHANGED mine \/ End(u, "refused")
      BY BootOutcome DEF Go
    <2> QED
      BY <2>1, MineKept
  <1>3. /\ \A o \in Own(u) : o # u => cred'[u][o] = cred[u][o]
        /\ \A v \in Clients : v # u => cred'[v] = cred[v]
        /\ cred'[u][u] \in {None, cred[u][u]} \/ (Registered(u) /\ cred'[u][u] = Issue(gid[u], u, clock))
    BY BootOutcome
  <1>4. CredentialsEffect
    BY <1>1, <1>2, <1>3, SelfGrantable DEF CredentialsEffect
  <1> QED
    BY <1>1, <1>4, DelegatesKept, GrantsKept DEF Effect

LEMMA BootGidEffect == ASSUME Shape, NEW u \in Clients, BootGid(u) PROVE Effect
  <1>1. UNCHANGED <<clock, registry, pkey, cred, togid, passed, granted, swaps>>
    BY DEF BootGid
  <1>2. CredentialsEffect
    <2>1. CASE UNCHANGED mine \/ End(u, "refused")
      BY <1>1, <2>1, CredentialsKept
    <2>2. CASE mine' = [mine EXCEPT ![u] = cred[u][u]]
      BY <1>1, <2>2 DEF Shape, ProcessShape, CredentialsEffect
    <2> QED
      BY <2>1, <2>2 DEF BootGid, Go
  <1> QED
    BY <1>1, <1>2, DelegatesKept, GrantsKept DEF Effect

LEMMA RefetchEffect == ASSUME Shape, NEW u \in Clients, Refetch(u) PROVE Effect
  <1>1. UNCHANGED <<clock, registry, pkey, mygid, togid, passed, granted, swaps>>
    BY RefetchOutcome
  <1>2. \A v \in Clients : mine'[v] \in {None, mine[v], cred[v][v]}
    <2>1. UNCHANGED mine \/ End(u, "refused")
      BY RefetchOutcome DEF process
    <2> QED
      BY <2>1, MineKept
  <1>3. /\ \A o \in Own(u) : o # u => cred'[u][o] = cred[u][o]
        /\ \A v \in Clients : v # u => cred'[v] = cred[v]
        /\ cred'[u][u] \in {None, cred[u][u]} \/ (Registered(u) /\ cred'[u][u] = Issue(gid[u], u, clock))
    BY RefetchOutcome
  <1>4. CredentialsEffect
    BY <1>1, <1>2, <1>3, SelfGrantable DEF CredentialsEffect
  <1> QED
    BY <1>1, <1>4, DelegatesKept, GrantsKept DEF Effect

LEMMA FetchEffect == ASSUME Shape, NEW u \in Clients, Fetch(u) PROVE Effect
  <1>1. UNCHANGED <<clock, registry, pkey, mygid, togid, passed, granted, swaps>>
    BY FetchOutcome
  <1>2. \A v \in Clients : mine'[v] \in {None, mine[v], cred[v][v]}
    <2>1. UNCHANGED mine \/ End(u, "refused")
      BY FetchOutcome DEF Found, GoesWithout
    <2> QED
      BY <2>1, MineKept
  <1>3. \A v \in Clients : v # u => cred'[v] = cred[v]
    BY FetchOutcome
  <1>4. \A o \in Own(u) : \/ cred'[u][o] \in {None, cred[u][o]}
                          \/ Grantable(u, o) /\ cred'[u][o] = Issue(gid[u], o, clock)
    <2>1. PICK o \in cmd[u].needs :
              /\ o \in Own(u)
              /\ \A p \in Own(u) : p # o => cred'[u][p] = cred[u][p]
              /\ \/ cred' = cred
                 \/ FetchAccepted(u, o) /\ cred'[u][o] = Issue(gid[u], o, clock)
                 \/ cred'[u][o] = None
      BY FetchOutcome
    <2> QED
      BY <2>1 DEF FetchAccepted
  <1>5. CredentialsEffect
    BY <1>1, <1>2, <1>3, <1>4 DEF CredentialsEffect
  <1> QED
    BY <1>1, <1>5, DelegatesKept, GrantsKept DEF Effect


LEMMA IssuedIs ==
  ASSUME NEW u \in Clients, NEW o \in Own(u), NEW c, IssuedTo(u, o, c)
  PROVE  /\ c \in Seq(Link) /\ Len(c) = 1
         /\ Top(c).expires \in Nat /\ Top(c).object = o
         /\ Top(c).caller \in Gid /\ Top(c).caller.owner = u
  <1>1. PICK g \in Gid, t \in 0..MaxTime : g.owner = u /\ c = Issue(g, o, t)
    BY DEF IssuedTo
  <1>2. o \in Objects
    BY OwnObjects
  <1>3. Top(c) = [caller |-> g, object |-> o, privileges |-> KindRights(KindOf(o)), delegate |-> TRUE,
                  expires |-> t + Lifetime, signer |-> Registry, sealed |-> TRUE]
        /\ c \in Seq(Link) /\ Len(c) = 1
    BY <1>1, <1>2, IssueIs
  <1> QED
    BY <1>1, <1>3, Numbers

\* A delegated credential: the link of the delegator's over the one that he held.
LEMMA DelegatedIs ==
  ASSUME NEW u \in Clients, NEW o \in Own(u), NEW c, IssuedTo(u, o, c), NEW to, NEW me, NEW k
  PROVE  /\ Top(Delegate(c, to, me, k)).expires = Top(c).expires
         /\ Top(Delegate(c, to, me, k)).caller = to
         /\ Delegate(c, to, me, k)[1].signer = me
         /\ Delegate(c, to, me, k)[1].sealed = (me.key = k)
         /\ Delegate(c, to, me, k)[2] = Top(c)
  <1>1. c \in Seq(Link) /\ Len(c) = 1
    BY IssuedIs
  <1>2. PICK d : d = Delegate(c, to, me, k)
    OBVIOUS
  <1>3. /\ d[2] = Top(c)
        /\ d[1] = [caller |-> to, object |-> Top(c).object, privileges |-> Top(c).privileges,
                   delegate |-> TRUE, expires |-> Top(c).expires, signer |-> me, sealed |-> me.key = k]
    BY <1>1, <1>2, DelegateIs
  <1>4. /\ d[1].expires = Top(c).expires /\ d[1].caller = to /\ d[1].signer = me
        /\ d[1].sealed = (me.key = k)
    BY <1>3
  <1> QED
    BY <1>2, <1>3, <1>4 DEF Top

LEMMA DelegatedExpires ==
  ASSUME NEW u \in Clients, NEW o \in Own(u), NEW v, NEW c, DelegatedTo(u, o, v, c)
  PROVE  Top(c).expires \in Nat
  <1>1. PICK g \in Gid, t \in 0..MaxTime, to \in Gid, me \in Gid, k \in Keys :
          g.owner = u /\ c = Delegate(Issue(g, o, t), to, me, k)
    BY DEF DelegatedTo
  <1>2. IssuedTo(u, o, Issue(g, o, t))
    BY <1>1 DEF IssuedTo
  <1>3. Top(c).expires = Top(Issue(g, o, t)).expires
    BY <1>1, <1>2, DelegatedIs
  <1> QED
    BY <1>2, <1>3, IssuedIs

LEMMA LookupEffect == ASSUME Shape, NEW u \in Clients, Lookup(u) PROVE Effect
  <1>1. UNCHANGED <<clock, registry, pkey, mygid, cred, togid, passed, granted, swaps>>
    BY LookupOutcome DEF files
  <1>2. CredentialsEffect
    <2>1. UNCHANGED mine \/ End(u, "refused")
      BY LookupOutcome
    <2> QED
      BY <1>1, <2>1, CredentialsKept
  <1> QED
    BY <1>1, <1>2, DelegatesKept, GrantsKept DEF Effect

\* What a call gives the driver is borne by the credential that it is made with.
LEMMA LeaseIs ==
  ASSUME clock \in Nat, DOMAIN granted = Slices, NEW c, Top(c).expires \in Int, NEW method, NEW s,
         method \in {Allocate, Renew} => s \in Slices, Lease(c, method, s)
  PROVE  \/ granted' = granted
         \/ /\ \A r \in Slices : r # s => granted'[r] = granted[r]
            /\ s \in Slices /\ granted'[s] \in Int /\ granted'[s] <= Top(c).expires
            /\ method \in {Allocate, Renew}
  <1>1. Allocate.name = "Allocate" /\ Renew.name = "Renew"
    BY DEF Allocate, Renew
  <1>2. CASE method = Allocate
    BY <1>2 DEF Lease
  <1>3. CASE method = Renew
    <2>1. method # Allocate
      BY <1>1, <1>3
    <2>2. PICK t \in clock..Top(c).expires : granted' = [granted EXCEPT ![s] = t]
      BY <1>3, <2>1 DEF Lease
    <2> QED
      BY <1>3, <2>2
  <1>4. CASE method # Allocate /\ method # Renew
    BY <1>4 DEF Lease
  <1> QED
    BY <1>2, <1>3, <1>4

LEMMA CallEffect == ASSUME Shape, SecuredThere, NEW u \in Clients, Call(u) PROVE Effect
  <1>1. UNCHANGED <<clock, pkey, mygid, cred, togid, passed, swaps>>
        /\ pc[u] = "work" /\ cmd[u].needs = {} /\ cmd[u] # None /\ CommandOf(u, cmd[u])
    BY CallOutcome DEF files
  <1>2. PICK call : /\ CallOf(cmd[u], call)
                    /\ \/ Served(u, Held(u, call.object), call) /\ End(u, "done")
                       \/ End(u, "refused") /\ UNCHANGED <<registry, granted>>
    BY CallOutcome, Zenon
  <1>3. CredentialsEffect
    BY <1>1, <1>2, CredentialsKept
  <1>4. GrantsEffect
    <2>1. CASE Served(u, Held(u, call.object), call)
      <3>1. PICK s : s = call.target
        OBVIOUS
      <3>2. PICK c : c = Held(u, call.object)
        OBVIOUS
      <3>3. Lease(c, call.method, s)
        BY <2>1, <3>1, <3>2 DEF Served
      <3>4. call.method \in {Allocate, Renew} => s \in Slices /\ s = call.object
        BY <1>1, <1>2, <3>1, LeaseCalls DEF CallOf
      <3>5. IssuedTo(u, call.object, c) /\ c # None /\ Top(c).expires \in Int
        <4>1. call.object = cmd[u].object /\ call.object \in Own(u)
          BY <1>1, <1>2 DEF CallOf, CommandOf
        <4>2. IssuedTo(u, call.object, c) /\ c # None
          BY <1>1, <3>2, <4>1, HeldIssued
        <4> QED
          BY <4>1, <4>2, IssuedIs
      <3>6. CASE granted' = granted
        BY <3>6, GrantsKept
      <3>7. CASE granted' # granted
        <4>1. clock \in Nat /\ DOMAIN granted = Slices
          BY Numbers DEF Shape, RegistryShape, HistoryShape
        <4>2. /\ \A r \in Slices : r # s => granted'[r] = granted[r]
              /\ s \in Slices /\ granted'[s] \in Int /\ granted'[s] <= Top(c).expires
              /\ call.method \in {Allocate, Renew}
          BY <3>3, <3>4, <3>5, <3>7, <4>1, LeaseIs
        <4>3. s # u /\ c = cred[u][s]
          BY <3>2, <3>4, <4>2, OwnObjects, Disjoint DEF Held
        <4>4. Bears(u, s, granted'[s])
          BY <3>5, <4>2, <4>3 DEF Bears
        <4> QED
          BY <4>2, <4>4 DEF GrantsEffect
      <3> QED
        BY <3>6, <3>7
    <2> QED
      BY <1>2, <2>1, GrantsKept
  <1> QED
    BY <1>1, <1>3, <1>4, DelegatesKept DEF Effect

LEMMA DelegateeCallEffect ==
  ASSUME Shape, NEW u \in Clients, NEW v \in Users, NEW s \in Slices, DelegateeCall(u, v, s) PROVE Effect
  <1>1. UNCHANGED <<clock, registry, pkey, mygid, cred, togid, passed, mine, swaps>>
    BY DEF DelegateeCall, files, process
  <1>2. PICK method \in {Allocate, Renew} : DelegateeAccepted(u, v, s, method) /\ Lease(passed[u][s][v], method, s)
    BY DEF DelegateeCall
  <1>3. PICK c : c = passed[u][s][v]
    OBVIOUS
  <1>4. c # None /\ Top(c).expires \in Int
    <2>1. c # None /\ s \in Own(u)
      BY <1>2, <1>3, OwnObjects DEF DelegateeAccepted
    <2>2. DelegatedTo(u, s, v, c)
      BY <1>3, <2>1 DEF Shape, PassedShape
    <2> QED
      BY <2>1, <2>2, DelegatedExpires
  <1>5. GrantsEffect
    <2>1. CASE granted' = granted
      BY <2>1, GrantsKept
    <2>2. CASE granted' # granted
      <3>1. clock \in Nat /\ DOMAIN granted = Slices
        BY Numbers DEF Shape, RegistryShape, HistoryShape
      <3>2. Lease(c, method, s)
        BY <1>2, <1>3
      <3>3. /\ \A r \in Slices : r # s => granted'[r] = granted[r]
            /\ granted'[s] \in Int /\ granted'[s] <= Top(c).expires
        BY <1>4, <2>2, <3>1, <3>2, LeaseIs
      <3>4. Bears(u, s, granted'[s])
        BY <1>3, <1>4, <3>3 DEF Bears
      <3> QED
        BY <3>3, <3>4 DEF GrantsEffect
    <2> QED
      BY <2>1, <2>2
  <1> QED
    BY <1>1, <1>5, DelegatesKept DEF Effect, CredentialsEffect

LEMMA SignEffect == ASSUME Shape, SecuredThere, NEW u \in Clients, Sign(u) PROVE Effect
  <1>1. UNCHANGED <<clock, registry, pkey, mygid, cred, granted, swaps>>
        /\ cmd[u].to \in Users /\ pc[u] = "work"
    BY SignOutcome
  <1>2. CredentialsEffect
    <2>1. UNCHANGED mine \/ End(u, "refused") \/ End(u, "done")
      BY SignOutcome, Zenon DEF process
    <2> QED
      BY <1>1, <2>1, CredentialsKept
  <1>3. SUFFICES DelegatesEffect
    BY <1>1, <1>2, GrantsKept DEF Effect
  <1>4. CASE /\ UNCHANGED passed
             /\ togid' = [togid EXCEPT ![u][cmd[u].to] = gid[cmd[u].to]]
    BY <1>4, DelegatesKept
  <1>5. CASE UNCHANGED <<togid, passed>>
    BY <1>1, <1>5, DelegatesKept
  <1>6. CASE /\ togid[u][cmd[u].to] # None /\ End(u, "done") /\ UNCHANGED togid
             /\ passed' = [passed EXCEPT ![u] = [o \in Own(u) |->
                    IF o \in cmd[u].delegates
                    THEN [passed[u][o] EXCEPT ![cmd[u].to] =
                            Delegate(Held(u, o), togid[u][cmd[u].to], mygid[u], pkey[u])]
                    ELSE passed[u][o]]]
    <2>1. /\ \A v \in Clients : v # u => passed'[v] = passed[v]
          /\ \A o \in Own(u), v \in Users :
               \/ passed'[u][o][v] = passed[u][o][v]
               \/ /\ o \in cmd[u].delegates /\ v = cmd[u].to
                  /\ passed'[u][o][v] = Delegate(Held(u, o), togid[u][v], mygid[u], pkey[u])
      BY <1>6, SignedFiles
    <2>2. mygid[u] # None
      BY <1>1 DEF Shape, ProcessShape
    <2>3. ASSUME NEW o \in Own(u), NEW v \in Users, passed'[u][o][v] # passed[u][o][v]
          PROVE  \E c : /\ c = cred[u][o] \/ (o = u /\ c = mine[u])
                        /\ c # None /\ togid[u][v] # None /\ mygid[u] # None
                        /\ passed'[u][o][v] = Delegate(c, togid[u][v], mygid[u], pkey[u])
      <3>1. PICK c : c = Held(u, o)
        OBVIOUS
      <3>2. o \in cmd[u].delegates /\ v = cmd[u].to /\ passed'[u][o][v] = Delegate(c, togid[u][v], mygid[u], pkey[u])
        BY <2>1, <2>3, <3>1
      <3>3. togid[u][v] # None
        BY <1>6, <3>2
      <3>4. c # None
        BY <3>1, <3>2, <3>3, DelegateHeld
      <3>5. c = cred[u][o] \/ (o = u /\ c = mine[u])
        BY <3>1 DEF Held
      <3> QED
        BY <2>2, <3>2, <3>3, <3>4, <3>5
    <2>4. DelegatesEffect
      BY <2>1, <2>3 DEF DelegatesEffect
    <2> QED
      BY <1>1, <1>6, <2>4
  <1> QED
    BY <1>4, <1>5, <1>6, SignOutcome, Zenon

LEMMA StutterEffect == ASSUME Shape, UNCHANGED vars PROVE Effect
  <1>1. UNCHANGED <<clock, registry, pkey, mygid, cred, togid, passed, mine, granted, swaps>>
    BY DEF vars, files, process
  <1> QED
    BY <1>1, DelegatesKept, GrantsKept DEF Effect, CredentialsEffect


-----------------------------------------------------------------------------
(* What a command has made sure of stays there *)

LEMMA SecuredOwn ==
  ASSUME NEW u \in Clients, CommandOf(u, cmd[u]) PROVE Secured(u) \subseteq Own(u) \ {u}
  BY DEF Secured, CommandOf

LEMMA SecuredIf ==
  ASSUME Shape, SecuredThere, NEW u \in Clients,
         \A v \in Clients : v # u => cred'[v] = cred[v] /\ cmd'[v] = cmd[v],
         cmd'[u] # None => \A o \in Secured(u)' : cred'[u][o] # None
  PROVE  SecuredThere'
  BY DEF SecuredThere, Secured

LEMMA SecuredStays == ASSUME SecuredThere, UNCHANGED <<cred, cmd>> PROVE SecuredThere'
  BY DEF SecuredThere, Secured

\* Only the user's own credential is written, which no command counts on.
LEMMA SecuredOthers ==
  ASSUME Shape, SecuredThere, NEW u \in Clients,
         \A o \in Own(u) : o # u => cred'[u][o] = cred[u][o],
         \A v \in Clients : v # u => cred'[v] = cred[v],
         UNCHANGED cmd \/ End(u, "refused") \/ End(u, "done")
  PROVE  SecuredThere'
  <1>1. \A v \in Clients : v # u => cmd'[v] = cmd[v]
    BY DEF End, Shape, ProcessShape
  <1>2. CASE cmd'[u] = None
    BY <1>1, <1>2, SecuredIf
  <1>3. CASE cmd'[u] # None
    <2>1. cmd'[u] = cmd[u] /\ cmd[u] # None
      BY <1>3 DEF End, Shape, ProcessShape
    <2>2. CommandOf(u, cmd[u]) /\ Secured(u)' = Secured(u)
      BY <2>1 DEF Shape, ProcessShape, Secured
    <2>3. \A o \in Secured(u) : cred'[u][o] # None
      BY <2>1, <2>2, SecuredOwn DEF SecuredThere
    <2> QED
      BY <1>1, <2>2, <2>3, SecuredIf
  <1> QED
    BY <1>2, <1>3

LEMMA RemoveFilesSecured == ASSUME Shape, SecuredThere, NEW u \in Clients, RemoveFiles(u) PROVE SecuredThere'
  <1>1. cmd[u] = None /\ cmd' = cmd
    BY DEF RemoveFiles, Shape, ProcessShape, process
  <1>2. \A v \in Clients : v # u => cred'[v] = cred[v]
    BY DEF RemoveFiles
  <1> QED
    BY <1>1, <1>2, SecuredIf

\* A command starts with nothing made sure of.
LEMMA StartSecured == ASSUME Shape, SecuredThere, NEW u \in Clients, Start(u) PROVE SecuredThere'
  <1>1. PICK c \in Commands(u) : cmd' = [cmd EXCEPT ![u] = c]
    BY DEF Start
  <1>2. cmd'[u] = c /\ (\A v \in Clients : v # u => cmd'[v] = cmd[v]) /\ cred' = cred
    BY <1>1 DEF Start, files, Shape, ProcessShape
  <1>3. ({c.object} \cup c.delegates) \ (c.needs \cup {u}) = {}
    BY DEF Commands, CallCommand, LookupCommand, DelegateCommand, MysliceCommand, Command
  <1>4. Secured(u)' = {}
    BY <1>2, <1>3 DEF Secured
  <1> QED
    BY <1>2, <1>4, SecuredIf

LEMMA FetchSecured == ASSUME Shape, SecuredThere, NEW u \in Clients, Fetch(u) PROVE SecuredThere'
  <1>1. /\ Running(u) /\ cmd[u] # None /\ CommandOf(u, cmd[u]) /\ CredentialsShape'
        /\ \A v \in Clients : v # u => cred'[v] = cred[v]
    BY FetchOutcome
  <1>2. PICK o \in cmd[u].needs :
              /\ o \in Own(u) /\ o # u
              /\ \A p \in Own(u) : p # o => cred'[u][p] = cred[u][p]
              /\ \/ Valid(u, o) /\ Found(u, o) /\ cred' = cred
                 \/ Registered(u) /\ Found(u, o) /\ cred'[u][o] = Issue(gid[u], o, clock)
                 \/ Optional(u, o) /\ GoesWithout(u, o)
                 \/ End(u, "refused")
    BY FetchOutcome
  <1>3. ASSUME Found(u, o), cred'[u][o] # None PROVE SecuredThere'
    <2>1. /\ \A v \in Clients : v # u => cmd'[v] = cmd[v]
          /\ cmd'[u].needs = cmd[u].needs \ {o} /\ cmd'[u].object = cmd[u].object
          /\ cmd'[u].delegates = cmd[u].delegates
      BY <1>1, <1>3, FewerObjects DEF Shape
    <2>2. Secured(u)' \subseteq Secured(u) \cup {o}
      BY <2>1 DEF Secured
    <2>3. \A p \in Secured(u) : cred[u][p] # None /\ p \in Own(u)
      BY <1>1, SecuredOwn DEF SecuredThere
    <2>4. \A p \in Secured(u)' : cred'[u][p] # None
      BY <1>2, <1>3, <2>2, <2>3
    <2> QED
      BY <1>1, <2>1, <2>4, SecuredIf
  <1>4. CASE Valid(u, o) /\ Found(u, o) /\ cred' = cred
    BY <1>3, <1>4 DEF Valid
  <1>5. CASE Registered(u) /\ Found(u, o) /\ cred'[u][o] = Issue(gid[u], o, clock)
    <2>1. cred'[u][o] # None
      BY <1>2, <1>5, IssueNow DEF Shape
    <2> QED
      BY <1>3, <1>5, <2>1
  <1>6. CASE Optional(u, o) /\ GoesWithout(u, o)
    <2>1. /\ \A v \in Clients : v # u => cmd'[v] = cmd[v]
          /\ cmd'[u].needs = cmd[u].needs \ {o} /\ cmd'[u].object = cmd[u].object
          /\ cmd'[u].delegates \subseteq cmd[u].delegates /\ cmd[u].kind = "myslice"
          /\ (~Found(u, o) => cmd'[u].delegates = cmd[u].delegates \ {o})
      BY <1>1, <1>6, FewerObjects DEF Shape, Optional
    <2>2. cmd'[u].delegates = cmd[u].delegates \ {o}
      <3>1. cmd' = [cmd EXCEPT ![u].needs = cmd[u].needs \ {o}, ![u].delegates = cmd[u].delegates \ {o}]
        BY <1>6 DEF GoesWithout
      <3>2. cmd[u] \in CommandRecord
        BY <1>1 DEF CommandOf
      <3>3. cmd'[u] = [cmd[u] EXCEPT !.needs = cmd[u].needs \ {o}, !.delegates = cmd[u].delegates \ {o}]
        BY <3>1 DEF Shape, ProcessShape
      <3> QED
        BY <3>2, <3>3 DEF CommandRecord
    <2>3. cmd[u].object = u
      BY <1>1, <2>1 DEF CommandOf
    <2>4. Secured(u)' \subseteq Secured(u) \ {o}
      BY <1>2, <2>1, <2>2, <2>3 DEF Secured
    <2>5. \A p \in Secured(u) : cred[u][p] # None /\ p \in Own(u)
      BY <1>1, SecuredOwn DEF SecuredThere
    <2>6. \A p \in Secured(u)' : cred'[u][p] # None
      BY <1>2, <2>4, <2>5
    <2> QED
      BY <1>1, <2>1, <2>6, SecuredIf
  <1>7. CASE End(u, "refused")
    <2>1. cmd'[u] = None /\ \A v \in Clients : v # u => cmd'[v] = cmd[v]
      BY <1>7 DEF End, Shape, ProcessShape
    <2> QED
      BY <1>1, <2>1, SecuredIf
  <1> QED
    BY <1>2, <1>4, <1>5, <1>6, <1>7

LEMMA LookupSecured == ASSUME Shape, SecuredThere, NEW u \in Clients, Lookup(u) PROVE SecuredThere'
  <1>1. cred' = cred /\ cmd[u].needs = {} /\ cmd[u] # None /\ CommandOf(u, cmd[u])
    BY LookupOutcome DEF files
  <1>2. CASE End(u, "refused")
    BY <1>1, <1>2, SecuredOthers
  <1>3. CASE ~End(u, "refused")
    <2>1. /\ \A v \in Clients : v # u => cmd'[v] = cmd[v]
          /\ cmd'[u].object = cmd[u].object /\ CommandOf(u, cmd'[u]) /\ cmd'[u].kind = cmd[u].kind
          /\ cmd'[u].needs = (IF cmd[u].kind = "myslice" THEN MyObjects(u) \ {u} ELSE {})
          /\ cmd'[u].delegates = (IF cmd[u].kind = "myslice" THEN MyObjects(u) ELSE {})
      BY <1>3, LookupOutcome
    <2>2. Secured(u)' \subseteq Secured(u)
      <3>1. CASE cmd[u].kind = "myslice"
        <4>1. cmd[u].object = u
          BY <1>1, <3>1 DEF CommandOf
        <4> QED
          BY <2>1, <3>1, <4>1 DEF Secured
      <3>2. CASE cmd[u].kind # "myslice"
        BY <1>1, <2>1, <3>2 DEF Secured
      <3> QED
        BY <3>1, <3>2
    <2>3. \A o \in Secured(u) : cred[u][o] # None
      BY <1>1 DEF SecuredThere
    <2> QED
      BY <1>1, <2>1, <2>2, <2>3, SecuredIf
  <1> QED
    BY <1>2, <1>3

-----------------------------------------------------------------------------
(* Who has rights, and until when *)

LastGrows == \A u \in Clients : \A o \in Own(u) : last'[u][o] \in Int /\ last'[u][o] >= last[u][o]

LEMMA WatchLast ==
  ASSUME LastSeen, clock \in Nat, clock' \in Nat, clock' >= clock, Watch
  PROVE  LastSeen' /\ LastGrows
  <1>1. ASSUME NEW u \in Clients, NEW o \in Own(u)
        PROVE  /\ last'[u][o] \in -1..clock' /\ (Grantable(u, o)' => last'[u][o] = clock')
               /\ last'[u][o] \in Int /\ last'[u][o] >= last[u][o]
    <2>1. last'[u][o] = IF Grantable(u, o)' THEN clock' ELSE last[u][o]
      BY DEF Watch
    <2>2. last[u][o] \in -1..clock
      BY DEF LastSeen
    <2>3. CASE Grantable(u, o)'
      BY <2>1, <2>2, <2>3
    <2>4. CASE ~Grantable(u, o)'
      BY <2>1, <2>2, <2>4
    <2> QED
      BY <2>3, <2>4
  <1> QED
    BY <1>1 DEF LastSeen, LastGrows, Own

LEMMA SameRights ==
  ASSUME UNCHANGED registry PROVE \A u, o : Grantable(u, o)' <=> Grantable(u, o)
  BY DEF registry, Grantable, HasRights, Registered, KindOf

LEMMA LastStays ==
  ASSUME LastSeen, clock \in Nat, UNCHANGED <<clock, registry, last>> PROVE LastSeen' /\ LastGrows
  <1>1. LastSeen'
    BY SameRights DEF LastSeen, Own
  <1>2. LastGrows
    BY DEF LastSeen, LastGrows
  <1> QED
    BY <1>1, <1>2

LEMMA CallLast == ASSUME Shape, LastSeen, NEW u \in Clients, Call(u) PROVE LastSeen' /\ LastGrows
  <1>1. clock \in Nat /\ clock' = clock
    BY CallOutcome, Numbers DEF Shape, RegistryShape
  <1>2. PICK call : Served(u, Held(u, call.object), call) \/ UNCHANGED <<registry, last>>
    BY CallOutcome, Zenon
  <1>3. CASE Served(u, Held(u, call.object), call)
    <2>1. Watch
      BY <1>3 DEF Served
    <2> QED
      BY <1>1, <2>1, WatchLast
  <1>4. CASE UNCHANGED <<registry, last>>
    BY <1>1, <1>4, LastStays
  <1> QED
    BY <1>2, <1>3, <1>4

-----------------------------------------------------------------------------
(* What every step leaves so *)

Base == Shape /\ SecuredThere /\ LastSeen

LEMMA InitBase == ASSUME Init PROVE Base
  <1>1. SecuredThere
    BY DEF Init, SecuredThere
  <1>2. LastSeen
    BY DEF Init, LastSeen
  <1> QED
    BY <1>1, <1>2, InitShape DEF Base

\* One lemma per action: who has rights is seen, and what is there stays there.
LEMMA ElsewhereBase == ASSUME Base, Elsewhere PROVE Base' /\ LastGrows
  <1>1. Shape /\ SecuredThere /\ LastSeen /\ clock' = clock /\ Watch /\ cred' = cred /\ cmd' = cmd
    BY DEF Base, Elsewhere, files, process
  <1>2. clock \in Nat /\ clock' \in Nat /\ clock' >= clock
    BY <1>1, Numbers DEF Shape, RegistryShape
  <1>3. SecuredThere'
    BY <1>1, SecuredStays
  <1> QED
    BY <1>1, <1>2, <1>3, ElsewhereShape, WatchLast DEF Base

LEMMA TickBase == ASSUME Base, Tick PROVE Base' /\ LastGrows
  <1>1. Shape /\ SecuredThere /\ LastSeen /\ clock' = clock + 1 /\ Watch /\ cred' = cred /\ cmd' = cmd
    BY DEF Base, Tick, files, process
  <1>2. clock \in Nat /\ clock' \in Nat /\ clock' >= clock
    BY <1>1, Numbers DEF Shape, RegistryShape
  <1>3. SecuredThere'
    BY <1>1, SecuredStays
  <1> QED
    BY <1>1, <1>2, <1>3, TickShape, WatchLast DEF Base

LEMMA QuietBase ==
  ASSUME Base, UNCHANGED <<clock, registry, last>>, Shape', SecuredThere' PROVE Base' /\ LastGrows
  <1>1. clock \in Nat
    BY Numbers DEF Base, Shape, RegistryShape
  <1> QED
    BY <1>1, LastStays DEF Base

LEMMA ReplaceKeyBase == ASSUME Base, NEW u \in Clients, ReplaceKey(u) PROVE Base' /\ LastGrows
  <1>1. UNCHANGED <<clock, registry, last>> /\ UNCHANGED <<cred, cmd>>
    BY DEF ReplaceKey, process
  <1>2. SecuredThere'
    BY <1>1, SecuredStays DEF Base
  <1> QED
    BY <1>1, <1>2, ReplaceKeyShape, QuietBase DEF Base

LEMMA RemoveFilesBase == ASSUME Base, NEW u \in Clients, RemoveFiles(u) PROVE Base' /\ LastGrows
  <1>1. UNCHANGED <<clock, registry, last>>
    BY DEF RemoveFiles
  <1> QED
    BY <1>1, RemoveFilesShape, RemoveFilesSecured, QuietBase DEF Base

LEMMA StartBase == ASSUME Base, NEW u \in Clients, Start(u) PROVE Base' /\ LastGrows
  <1>1. UNCHANGED <<clock, registry, last>>
    BY DEF Start
  <1> QED
    BY <1>1, StartShape, StartSecured, QuietBase DEF Base

LEMMA BootCredentialBase == ASSUME Base, NEW u \in Clients, BootCredential(u) PROVE Base' /\ LastGrows
  <1>1. /\ UNCHANGED <<clock, registry, last>> /\ (UNCHANGED cmd \/ End(u, "refused") \/ End(u, "done"))
        /\ \A o \in Own(u) : o # u => cred'[u][o] = cred[u][o]
        /\ \A v \in Clients : v # u => cred'[v] = cred[v]
    BY BootOutcome DEF Base, Go
  <1>2. SecuredThere'
    BY <1>1, SecuredOthers DEF Base
  <1> QED
    BY <1>1, <1>2, BootCredentialShape, QuietBase DEF Base

LEMMA BootGidBase == ASSUME Base, NEW u \in Clients, BootGid(u) PROVE Base' /\ LastGrows
  <1>1. UNCHANGED <<clock, registry, last>> /\ cred' = cred /\ (UNCHANGED cmd \/ End(u, "refused") \/ End(u, "done"))
    BY DEF BootGid, Go
  <1>2. SecuredThere'
    BY <1>1, SecuredOthers DEF Base
  <1> QED
    BY <1>1, <1>2, BootGidShape, QuietBase DEF Base

LEMMA RefetchBase == ASSUME Base, NEW u \in Clients, Refetch(u) PROVE Base' /\ LastGrows
  <1>1. /\ UNCHANGED <<clock, registry, last>> /\ (UNCHANGED cmd \/ End(u, "refused") \/ End(u, "done"))
        /\ \A o \in Own(u) : o # u => cred'[u][o] = cred[u][o]
        /\ \A v \in Clients : v # u => cred'[v] = cred[v]
    BY RefetchOutcome DEF Base, process
  <1>2. SecuredThere'
    BY <1>1, SecuredOthers DEF Base
  <1> QED
    BY <1>1, <1>2, RefetchShape, QuietBase DEF Base

LEMMA FetchBase == ASSUME Base, NEW u \in Clients, Fetch(u) PROVE Base' /\ LastGrows
  <1>1. UNCHANGED <<clock, registry, last>>
    BY FetchOutcome DEF Base
  <1> QED
    BY <1>1, FetchShape, FetchSecured, QuietBase DEF Base

LEMMA LookupBase == ASSUME Base, NEW u \in Clients, Lookup(u) PROVE Base' /\ LastGrows
  <1>1. UNCHANGED <<clock, registry, last>>
    BY LookupOutcome DEF Base
  <1> QED
    BY <1>1, LookupShape, LookupSecured, QuietBase DEF Base

LEMMA CallBase == ASSUME Base, NEW u \in Clients, Call(u) PROVE Base' /\ LastGrows
  <1>1. cred' = cred /\ (End(u, "refused") \/ End(u, "done"))
    BY CallOutcome DEF Base, files
  <1>2. SecuredThere'
    BY <1>1, SecuredOthers DEF Base
  <1> QED
    BY <1>2, CallShape, CallLast DEF Base

LEMMA SignBase == ASSUME Base, NEW u \in Clients, Sign(u) PROVE Base' /\ LastGrows
  <1>1. UNCHANGED <<clock, registry, last>> /\ cred' = cred /\ (UNCHANGED cmd \/ End(u, "refused") \/ End(u, "done"))
    BY SignOutcome DEF Base, process
  <1>2. SecuredThere'
    BY <1>1, SecuredOthers DEF Base
  <1> QED
    BY <1>1, <1>2, SignShape, QuietBase DEF Base

LEMMA DelegateeCallBase ==
  ASSUME Base, NEW u \in Clients, NEW v \in Users, NEW s \in Slices, DelegateeCall(u, v, s)
  PROVE  Base' /\ LastGrows
  <1>1. UNCHANGED <<clock, registry, last>> /\ UNCHANGED <<cred, cmd>>
    BY DEF DelegateeCall, files, process
  <1>2. SecuredThere'
    BY <1>1, SecuredStays DEF Base
  <1> QED
    BY <1>1, <1>2, DelegateeCallShape, QuietBase DEF Base

LEMMA StutterBase == ASSUME Base, UNCHANGED vars PROVE Base' /\ LastGrows
  <1>1. UNCHANGED <<clock, registry, last>> /\ UNCHANGED <<cred, cmd>>
    BY DEF vars, files, process
  <1>2. SecuredThere'
    BY <1>1, SecuredStays DEF Base
  <1> QED
    BY <1>1, <1>2, StutterShape, QuietBase DEF Base

LEMMA BaseNext == ASSUME Base, [Next]_vars PROVE Base' /\ LastGrows /\ Effect
  <1>0. Shape /\ SecuredThere
    BY DEF Base
  <1>1. CASE Elsewhere
    BY <1>0, <1>1, ElsewhereBase, ElsewhereEffect
  <1>2. CASE Tick
    BY <1>0, <1>2, TickBase, TickEffect
  <1>3. CASE UNCHANGED vars
    BY <1>0, <1>3, StutterBase, StutterEffect
  <1>4. ASSUME NEW u \in Clients, NEW v \in Users, NEW s \in Slices, DelegateeCall(u, v, s)
        PROVE  Base' /\ LastGrows /\ Effect
    BY <1>0, <1>4, DelegateeCallBase, DelegateeCallEffect
  <1>5. ASSUME NEW u \in Clients, Start(u) \/ Step(u) \/ ReplaceKey(u) \/ RemoveFiles(u)
        PROVE  Base' /\ LastGrows /\ Effect
    <2>1. CASE Start(u)
      BY <1>0, <2>1, StartBase, StartEffect
    <2>2. CASE ReplaceKey(u)
      BY <1>0, <2>2, ReplaceKeyBase, ReplaceKeyEffect
    <2>3. CASE RemoveFiles(u)
      BY <1>0, <2>3, RemoveFilesBase, RemoveFilesEffect
    <2>4. CASE BootCredential(u)
      BY <1>0, <2>4, BootCredentialBase, BootCredentialEffect
    <2>5. CASE BootGid(u)
      BY <1>0, <2>5, BootGidBase, BootGidEffect
    <2>6. CASE Refetch(u)
      BY <1>0, <2>6, RefetchBase, RefetchEffect
    <2>7. CASE Fetch(u)
      BY <1>0, <2>7, FetchBase, FetchEffect
    <2>8. CASE Lookup(u)
      BY <1>0, <2>8, LookupBase, LookupEffect
    <2>9. CASE Call(u)
      BY <1>0, <2>9, CallBase, CallEffect
    <2>10. CASE Sign(u)
      BY <1>0, <2>10, SignBase, SignEffect
    <2> QED
      BY <1>5, <2>1, <2>2, <2>3, <2>4, <2>5, <2>6, <2>7, <2>8, <2>9, <2>10, Zenon DEF Step
  <1> QED
    BY <1>1, <1>2, <1>3, <1>4, <1>5, Zenon DEF Next

-----------------------------------------------------------------------------
(* What is kept follows the rights of its user *)

LEMMA InitRights == ASSUME Init PROVE CredentialsFollowRights /\ GrantsAreTimes /\ GrantsFollowRights
  <1>1. \A u \in Clients : u \in Own(u)
    BY OwnObjects
  <1>2. CredentialsFollowRights
    BY <1>1 DEF Init, CredentialsFollowRights, FollowsRights
  <1> QED
    BY <1>2 DEF Init, GrantsAreTimes, GrantsFollowRights

LEMMA FollowsOn ==
  ASSUME Base, LastGrows, NEW u \in Clients, NEW o \in Own(u), NEW c, Top(c).expires \in Int, c # None,
         FollowsRights(u, o, c)
  PROVE  last'[u][o] >= 0 /\ Top(c).expires <= last'[u][o] + Lifetime
  <1>1. last[u][o] \in Int /\ last'[u][o] \in Int /\ last'[u][o] >= last[u][o] /\ Lifetime \in Nat
    BY Numbers DEF Base, LastSeen, LastGrows, Shape, RegistryShape
  <1>2. last[u][o] >= 0 /\ Top(c).expires <= last[u][o] + Lifetime
    BY DEF FollowsRights
  <1> QED
    BY <1>1, <1>2

\* Nothing expires at what is no time.
LEMMA ExpiresAt ==
  ASSUME Shape, NEW u \in Clients
  PROVE  /\ mine[u] # None => Top(mine[u]).expires \in Int
         /\ \A o \in Own(u) : cred[u][o] # None => Top(cred[u][o]).expires \in Int
         /\ \A o \in Own(u) : \A v \in Users : passed[u][o][v] # None => Top(passed[u][o][v]).expires \in Int
  <1>1. mine[u] # None => Top(mine[u]).expires \in Int
    BY IssuedIs, OwnObjects DEF Shape, ProcessShape
  <1>2. \A o \in Own(u) : cred[u][o] # None => Top(cred[u][o]).expires \in Int
    BY IssuedIs DEF Shape, CredentialsShape
  <1>3. \A o \in Own(u) : \A v \in Users : passed[u][o][v] # None => Top(passed[u][o][v]).expires \in Int
    BY DelegatedExpires DEF Shape, PassedShape
  <1> QED
    BY <1>1, <1>2, <1>3

LEMMA RightsStep ==
  ASSUME Base, LastGrows, Effect, CredentialsFollowRights
  PROVE  CredentialsFollowRights'
  <1>0. Shape
    BY DEF Base
  <1>1. SUFFICES ASSUME NEW u \in Clients
        PROVE /\ mine'[u] # None => last'[u][u] >= 0 /\ Top(mine'[u]).expires <= last'[u][u] + Lifetime
              /\ \A o \in Own(u) :
                   /\ cred'[u][o] # None =>
                        last'[u][o] >= 0 /\ Top(cred'[u][o]).expires <= last'[u][o] + Lifetime
                   /\ \A v \in Users : passed'[u][o][v] # None =>
                        last'[u][o] >= 0 /\ Top(passed'[u][o][v]).expires <= last'[u][o] + Lifetime
    BY DEF CredentialsFollowRights, FollowsRights, Own, Top
  <1>2. \A o \in Own(u) : cred[u][o] # None =>
           last'[u][o] >= 0 /\ Top(cred[u][o]).expires <= last'[u][o] + Lifetime
    BY <1>0, FollowsOn, ExpiresAt DEF CredentialsFollowRights
  <1>3. mine[u] # None => last'[u][u] >= 0 /\ Top(mine[u]).expires <= last'[u][u] + Lifetime
    BY <1>0, FollowsOn, ExpiresAt, OwnObjects DEF CredentialsFollowRights
  <1>4. mine'[u] # None => last'[u][u] >= 0 /\ Top(mine'[u]).expires <= last'[u][u] + Lifetime
    <2>1. mine'[u] \in {None, mine[u], cred[u][u]} /\ u \in Own(u)
      BY OwnObjects DEF Effect, CredentialsEffect
    <2> QED
      BY <1>2, <1>3, <2>1
  <1>5. ASSUME NEW o \in Own(u), cred'[u][o] # None
        PROVE  last'[u][o] >= 0 /\ Top(cred'[u][o]).expires <= last'[u][o] + Lifetime
    <2>1. CASE cred'[u][o] = cred[u][o]
      BY <1>2, <1>5, <2>1
    <2>2. CASE Grantable(u, o) /\ cred'[u][o] = Issue(gid[u], o, clock)
      <3>1. Top(cred'[u][o]).expires = clock + Lifetime
        BY <1>0, <2>2, IssueNow DEF Grantable, Shape
      <3>2. last[u][o] = clock /\ clock \in Nat /\ last'[u][o] >= last[u][o] /\ last'[u][o] \in Int
        BY <2>2, Numbers DEF Base, LastSeen, LastGrows, Shape, RegistryShape
      <3> QED
        BY <3>1, <3>2, Numbers
    <2> QED
      BY <1>5, <2>1, <2>2 DEF Effect, CredentialsEffect
  <1>6. ASSUME NEW o \in Own(u), NEW v \in Users, passed'[u][o][v] # None
        PROVE  last'[u][o] >= 0 /\ Top(passed'[u][o][v]).expires <= last'[u][o] + Lifetime
    <2>1. CASE passed'[u][o][v] = passed[u][o][v]
      BY <1>0, <1>6, <2>1, FollowsOn, ExpiresAt DEF CredentialsFollowRights
    <2>2. ASSUME NEW c, c = cred[u][o] \/ (o = u /\ c = mine[u]), c # None,
                 passed'[u][o][v] = Delegate(c, togid[u][v], mygid[u], pkey[u])
          PROVE  last'[u][o] >= 0 /\ Top(passed'[u][o][v]).expires <= last'[u][o] + Lifetime
      <3>1. IssuedTo(u, o, c)
        BY <1>0, <2>2 DEF Shape, CredentialsShape, ProcessShape
      <3>2. Top(passed'[u][o][v]).expires = Top(c).expires
        BY <2>2, <3>1, DelegatedIs
      <3> QED
        BY <1>2, <1>3, <2>2, <3>2
    <2> QED
      BY <2>1, <2>2 DEF Effect, DelegatesEffect
  <1> QED
    BY <1>4, <1>5, <1>6

LEMMA GrantsStep ==
  ASSUME Base, LastGrows, Effect, CredentialsFollowRights, GrantsAreTimes, GrantsFollowRights
  PROVE  GrantsAreTimes' /\ GrantsFollowRights'
  <1>0. Shape
    BY DEF Base
  <1>1. ASSUME NEW s \in Slices, granted'[s] # None
        PROVE  /\ granted'[s] \in Int
               /\ \E u \in Clients : last'[u][s] >= 0 /\ granted'[s] <= last'[u][s] + Lifetime
    <2>1. CASE granted'[s] = granted[s]
      <3>1. granted[s] \in Int
        BY <1>1, <2>1 DEF GrantsAreTimes
      <3>2. PICK u \in Clients : last[u][s] >= 0 /\ granted[s] <= last[u][s] + Lifetime
        BY <1>1, <2>1 DEF GrantsFollowRights
      <3>3. last[u][s] \in Int /\ last'[u][s] \in Int /\ last'[u][s] >= last[u][s] /\ Lifetime \in Nat
        BY Numbers, OwnObjects DEF Base, LastSeen, LastGrows, Shape, RegistryShape
      <3> QED
        BY <2>1, <3>1, <3>2, <3>3
    <2>2. ASSUME NEW u \in Clients, Bears(u, s, granted'[s])
          PROVE  /\ granted'[s] \in Int
                 /\ last'[u][s] >= 0 /\ granted'[s] <= last'[u][s] + Lifetime
      <3>1. PICK c : /\ c = cred[u][s] \/ \E v \in Users : c = passed[u][s][v]
                     /\ c # None /\ granted'[s] \in Int /\ granted'[s] <= Top(c).expires
        BY <2>2 DEF Bears
      <3>2. s \in Own(u)
        BY OwnObjects
      <3>3. Top(c).expires \in Int /\ FollowsRights(u, s, c)
        BY <1>0, <3>1, <3>2, ExpiresAt DEF CredentialsFollowRights
      <3>4. last'[u][s] >= 0 /\ Top(c).expires <= last'[u][s] + Lifetime
        BY <3>1, <3>2, <3>3, FollowsOn
      <3>5. last'[u][s] \in Int /\ Lifetime \in Nat
        BY <3>2, Numbers DEF LastGrows
      <3> QED
        BY <3>1, <3>3, <3>4, <3>5
    <2> QED
      BY <2>1, <2>2 DEF Effect, GrantsEffect
  <1> QED
    BY <1>1 DEF GrantsAreTimes, GrantsFollowRights

-----------------------------------------------------------------------------
(* Theorems: types, rights and grants *)

LEMMA BaseTyped == ASSUME Base PROVE ClientTypeOK
  <1>1. ASSUME NEW u \in Clients
        PROVE  /\ pc[u] \in {"done", "refused", "boot", "gid", "work"}
               /\ Running(u) <=> cmd[u] # None
               /\ mine[u] # None <=> pc[u] = "work"
               /\ pc[u] = "work" => mygid[u] # None /\ sscert[u] # None
    BY DEF Base, Shape, ProcessShape, Places
  <1>2. ASSUME NEW u \in Clients, NEW o \in Own(u), cred[u][o] # None
        PROVE  Len(cred[u][o]) = 1 /\ Top(cred[u][o]).object = o /\ Top(cred[u][o]).caller.owner = u
    BY <1>2, IssuedIs DEF Base, Shape, CredentialsShape
  <1>3. \A o \in Slices \cup Auths : members[o] \subseteq Clients
    BY DEF Base, Shape, RegistryShape
  <1> QED
    BY <1>1, <1>2, <1>3 DEF Base, Shape, RegistryShape, ClientTypeOK

\* The files of every user hold what the code takes them to hold: credentials of
\* his own, each on the object that it is filed under, and a command in progress
\* has read what it goes on with (sfaclientlib.py).
THEOREM ClientTyped == Spec => []ClientTypeOK
  <1>1. Init => Base
    BY InitBase
  <1>2. Base /\ [Next]_vars => Base'
    BY BaseNext
  <1>3. Base => ClientTypeOK
    BY BaseTyped
  <1> QED
    BY <1>1, <1>2, <1>3, PTL DEF Spec

\* Whatever was fetched, kept in a file, read by a command or delegated expires
\* at most one lifetime after its user last had the rights, however the registry
\* changed and whichever files were kept, replaced or removed meanwhile.
THEOREM RightsFollowed == Spec => []CredentialsFollowRights
  <1>1. Init => Base /\ CredentialsFollowRights
    BY InitBase, InitRights
  <1>2. Base /\ CredentialsFollowRights /\ [Next]_vars => (Base /\ CredentialsFollowRights)'
    BY BaseNext, RightsStep
  <1> QED
    BY <1>1, <1>2, PTL DEF Spec

\* No expiration that the aggregate's driver was given for a slice, by a user or
\* by one whom he delegated to, lies beyond one lifetime after somebody had rights.
THEOREM GrantsBounded == Spec => []GrantsFollowRights
  <1> DEFINE I == Base /\ CredentialsFollowRights /\ GrantsAreTimes /\ GrantsFollowRights
  <1>1. Init => I
    BY InitBase, InitRights
  <1>2. I /\ [Next]_vars => I'
    BY BaseNext, RightsStep, GrantsStep
  <1>3. I => GrantsFollowRights
    OBVIOUS
  <1> HIDE DEF I
  <1> QED
    BY <1>1, <1>2, <1>3, PTL DEF Spec

=============================================================================
