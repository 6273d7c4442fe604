---------------------------- MODULE SfiCommands ----------------------------
(* The commands of sfi (src/sfa/client/sfi.py), each by the call it makes in  *)
(* the end: the method, the object whose credential goes with it, the target. *)
(* Before it a command makes sure of that credential.  Options, files and     *)
(* output are left out.                                                       *)
EXTENDS Credentials, Methods

CONSTANT Targets  \* what show, register, update, remove and delegate are about

Use(method, object, target) == [method |-> method, object |-> object, target |-> target]

\* With the credential of the user himself.
ListCommand(u)       == Use(List, u, u)
ShowCommand(u, o)    == Use(Resolve, u, o)
ResourcesCommand(u)  == Use(ListResources, u, u)
GidCommand(u)        == Use(CreateGid, u, u)

\* With the credential of the authority of the configuration.
RegisterCommand(a, o) == Use(Register, a, o)
RemoveCommand(a, o)   == Use(Remove, a, o)
TrustedCommand(a)     == Use(GetTrustedCerts, a, a)

\* With the credential of a slice.
DescribeCommand(s)   == Use(Describe, s, s)
DeleteCommand(s)     == Use(Delete, s, s)
AllocateCommand(s)   == Use(Allocate, s, s)
ProvisionCommand(s)  == Use(Provision, s, s)
StatusCommand(s)     == Use(Status, s, s)
ActionCommand(s)     == Use(PerformOperationalAction, s, s)
RenewCommand(s)      == Use(Renew, s, s)
ShutdownCommand(s)   == Use(Shutdown, s, s)

\* With the user's own credential on his record, a slice's on the slice's, and
\* the one of the authority on all others.
UpdateCommand(object, o) == Use(Update, object, o)
Updates(u, object) ==
  {UpdateCommand(object, o) :
     o \in {t \in Targets : object = IF t = u \/ t \in Slices THEN t ELSE AuthorityOf[u]}}

\* Allocate and provision look the slice and its users up at the registry first.
AfterLookup(s) == {AllocateCommand(s), ProvisionCommand(s)}

\* The calls that a command of user u can end with, by the object that it needs
\* a credential on.
OwnCalls(u) ==
  {ListCommand(u), ResourcesCommand(u), GidCommand(u)} \cup {ShowCommand(u, o) : o \in Targets}
AuthorityCalls(a) ==
  {TrustedCommand(a)} \cup {RegisterCommand(a, o) : o \in Targets}
                      \cup {RemoveCommand(a, o) : o \in Targets}
SliceCalls(s) ==
  {DescribeCommand(s), DeleteCommand(s), StatusCommand(s), ActionCommand(s), RenewCommand(s),
   ShutdownCommand(s)}

Calls(u, object) ==
  Updates(u, object) \cup
  CASE KindOf(object) = "user"      -> OwnCalls(u)
    [] KindOf(object) = "slice"     -> SliceCalls(object)
    [] KindOf(object) = "authority" -> AuthorityCalls(object)

LastCalls(u, c) == IF c.kind = "lookup" THEN AfterLookup(c.object) ELSE Calls(u, c.object)

\* What a command is before its last step: a call with the credential of an
\* object, after a look-up or not; or signatures that delegate credentials.
Command(kind, object, lookup, needs, delegates, to) ==
  [kind |-> kind, object |-> object, lookup |-> lookup, needs |-> needs,
   delegates |-> delegates, to |-> to]

CommandRecord ==
  [kind : {"call", "lookup", "delegate", "myslice"}, object : Objects, lookup : BOOLEAN,
   needs : SUBSET Objects, delegates : SUBSET Objects, to : Users \cup {None}]

ASSUME CommandsAssumption == Targets \subseteq Objects /\ None \notin CommandRecord

CallCommand(u, o)        == Command("call", o, FALSE, {o} \ {u}, {}, None)
LookupCommand(s)         == Command("lookup", s, TRUE, {s}, {}, None)
DelegateCommand(u, o, v) == Command("delegate", o, FALSE, {o} \ {u}, {o}, v)

\* Delegates all that the user has, once he has looked himself up.
MysliceCommand(u, v)     == Command("myslice", u, TRUE, {}, {}, v)

Commands(u) ==
  {CallCommand(u, o) : o \in {u, AuthorityOf[u]} \cup Slices}
  \cup {LookupCommand(s) : s \in Slices}
  \cup {DelegateCommand(u, o, v) : o \in Targets \ (Users \ {u}), v \in Users \ {u}}
  \cup {MysliceCommand(u, v) : v \in Users \ {u}}
=============================================================================
