------------------------------ MODULE SliceUsers ------------------------------
(* What Allocate and Provision do, on a PlanetLab testbed, to the persons of *)
(* slices, their keys and the slices' tags, call by call: the site is made   *)
(* if need be (verify_site), accounts are made for users that have none      *)
(* (create_person_from_user), the slice gets those of exactly these users    *)
(* (verify_persons) and they the keys (verify_keys); tags are added and      *)
(* removed (verify_slice_tags) and a slice with links gets an EGRE key that  *)
(* no other has, with the links' own tags (verify_slice_links).  Slices and  *)
(* slivers are in Slivers.                                                   *)
EXTENDS Naturals, FiniteSets

CONSTANTS
  Threads,       \* of the aggregate's server
  Slices, People, PubKeys,
  Tags,          \* name and value of a slice tag, other than hrn and egre_key;
                 \* one that several nodes have counts once, as it does in the code
  Managed,       \* the tags that users may set
  EgreKeys,
  Demands,       \* requests: what, for which slice, its users and all their keys, the
                 \* option pltags, the tags of the rspec, and the tags that its links
                 \* call for (netns, capabilities, topo_rspec, vini_topo): {} without links
  Nothing,
  MaxDemands, MaxMishaps   \* bounds

ASSUME EgreKeysAssumption == EgreKeys \in SUBSET (Nat \ {0})
ASSUME TagsAssumption == Tags \cap EgreKeys = {}
ASSUME DemandsAssumption ==
  Demands \subseteq [op : {"Allocate", "Provision"}, slice : Slices, users : SUBSET People,
                     keys : SUBSET PubKeys, pltags : {"ignore", "append", "sync"},
                     tags : SUBSET Tags, links : SUBSET Tags]

VARIABLES
  topology,      \* the file of the aggregate's own links: "missing", "empty", "listed"
  theSite,       \* that of the slices: "none", "unnamed" while its hrn is wrong, "there"
  made,          \* slices of the testbed
  persons,       \* accounts: by id, with an hrn, an e-mail and keys
  members,       \* ids of a slice's persons
  tags, egre,    \* a slice's tags, and the egre_key tags among them
  doing, next,   \* each thread's request and its next call
  known,         \* what it has read or made so far
  demands, mishaps,
  alone,         \* history: nothing else ran or failed since the thread's request began
  agreed,        \* history: a slice's last request, if it was answered and alone
  atOnce         \* history: two threads looked for an EGRE key at the same time

site == <<topology, theSite, made>>
accountsOf == <<persons, members>>
tagsOf == <<tags, egre>>
plcUsers == <<site, accountsOf, tagsOf>>
counts == <<demands, mishaps>>
memories == <<alone, agreed, atOnce>>
usersVars == <<plcUsers, doing, next, known, counts, memories>>

\* Persons read and made, hrns that have none; what is to be put on the slice,
\* taken off and given keys; the keys to add to, or the name to give, the current one.
Blank == [was |-> {}, found |-> {}, created |-> {}, missing |-> {}, add |-> {}, del |-> {},
          keyless |-> {}, put |-> {}, cur |-> Nothing, hrn |-> Nothing]

UsersInit ==
  /\ topology \in {"missing", "empty", "listed"}
  /\ theSite \in {"none", "there"} /\ made = {}
  /\ persons = [i \in {} |-> Nothing] /\ members = [s \in Slices |-> {}]
  /\ tags = [s \in Slices |-> {}] /\ egre = [s \in Slices |-> {}]
  /\ doing = [t \in Threads |-> Nothing] /\ next = [t \in Threads |-> "idle"]
  /\ known = [t \in Threads |-> Blank]
  /\ demands = 0 /\ mishaps = 0
  /\ alone = [t \in Threads |-> FALSE]
  /\ agreed = [s \in Slices |-> Nothing] /\ atOnce = FALSE

Is(t, label) == next[t] = label
Go(t, label) == next' = [next EXCEPT ![t] = label]
Keep(t, facts) == known' = [known EXCEPT ![t] = facts] /\ UNCHANGED doing
The(t) == doing[t].slice

Rest(t) ==
  /\ Go(t, "idle") /\ doing' = [doing EXCEPT ![t] = Nothing]
  /\ known' = [known EXCEPT ![t] = Blank] /\ alone' = [alone EXCEPT ![t] = FALSE]
GiveUp(t) == Rest(t) /\ UNCHANGED <<plcUsers, counts, agreed, atOnce>>
Writes == UNCHANGED <<counts, memories>>
Looks == Writes /\ UNCHANGED plcUsers
Knows == UNCHANGED <<doing, known>>

Demand(t) ==
  /\ Is(t, "idle") /\ demands < MaxDemands /\ demands' = demands + 1
  /\ \E d \in Demands :
       /\ d.op = "Provision" => d.slice \in made
       /\ doing' = [doing EXCEPT ![t] = d]
       /\ Go(t, IF d.op = "Provision" THEN "members" ELSE "site")
       /\ agreed' = [agreed EXCEPT ![d.slice] = Nothing]
  /\ LET others == {u \in Threads \ {t} : ~Is(u, "idle")}
     IN  alone' = [u \in Threads |-> IF u = t THEN others = {} ELSE FALSE]
  /\ UNCHANGED <<plcUsers, known, mishaps, atOnce>>

------------------------------------------------------------------------------
(* The site and the slice                                                     *)

FindSite(t) ==
  /\ Is(t, "site") /\ Go(t, IF theSite = "there" THEN "slice" ELSE "addsite")
  /\ Knows /\ Looks

\* A site with this login_base but another hrn is not found, and refused here.
AddSite(t) ==
  /\ Is(t, "addsite")
  /\ IF theSite = "none"
     THEN /\ theSite' = "unnamed" /\ Go(t, "namesite")
          /\ UNCHANGED <<topology, made, accountsOf, tagsOf>> /\ Knows /\ Writes
     ELSE GiveUp(t)

NameSite(t) ==
  /\ Is(t, "namesite") /\ theSite' = "there" /\ Go(t, "slice")
  /\ UNCHANGED <<topology, made, accountsOf, tagsOf>> /\ Knows /\ Writes

VerifySlice(t) ==
  /\ Is(t, "slice") /\ made' = made \cup {The(t)} /\ Go(t, "members")
  /\ UNCHANGED <<topology, theSite, accountsOf, tagsOf>> /\ Knows /\ Writes

------------------------------------------------------------------------------
(* verify_persons                                                             *)

ReadMembers(t) ==
  /\ Is(t, "members")
  /\ IF theSite = "there"
     THEN Keep(t, [known[t] EXCEPT !.was = members[The(t)]]) /\ Go(t, "persons") /\ Looks
     ELSE GiveUp(t)

AccountsOf(hrns) == {i \in DOMAIN persons : persons[i].hrn \in hrns}

\* Mutation: persons that are not wanted any longer stay in the slice.
ClassesKeepAll(j) ==
  [Blank EXCEPT !.add = j.created \cup (j.found \ j.was), !.keyless = j.created \cup j.found]

\* Persons to put on the slice, to take off, and whose keys are to be verified.
Classes(j) ==
  [Blank EXCEPT !.add = j.created \cup (j.found \ j.was), !.del = j.was \ j.found,
                !.keyless = j.created \cup j.found]

\* Accounts are made as long as users miss one; then the persons are sorted.
Proceed(t, j) ==
  IF j.missing # {} THEN Keep(t, j) /\ Go(t, "create") ELSE Keep(t, Classes(j)) /\ Go(t, "drop")

ReadPersons(t) ==
  /\ Is(t, "persons")
  /\ LET found == AccountsOf(doing[t].users)
     IN  Proceed(t, [known[t] EXCEPT !.found = found,
                       !.missing = doing[t].users \ {persons[i].hrn : i \in found}])
  /\ Looks

Own(h) == <<h, "own">>
Stub(h) == <<h, "stub">>
Free(mail) == \A i \in DOMAIN persons : persons[i].email # mail

\* The testbed may put another hrn on the account.
AddAccount(t, h, mail) ==
  LET id == Cardinality(DOMAIN persons) + 1
  IN  /\ \E name \in {h, Nothing} :
           persons' = [i \in DOMAIN persons \cup {id} |->
                         IF i = id THEN [hrn |-> name, email |-> mail, keys |-> {}] ELSE persons[i]]
      /\ Keep(t, [known[t] EXCEPT !.cur = id, !.hrn = h, !.created = @ \cup {id},
                                  !.missing = @ \ {h}])
      /\ Go(t, "name")
      /\ UNCHANGED <<site, members, tagsOf>>

\* An e-mail that is in use is refused; that of the hrn is the second chance.
AddPerson(t) ==
  /\ Is(t, "create")
  /\ \E h \in known[t].missing :
       IF \E mail \in {Own(h), Stub(h)} : Free(mail)
       THEN AddAccount(t, h, IF Free(Own(h)) THEN Own(h) ELSE Stub(h)) /\ Writes
       ELSE GiveUp(t)

\* Its role, its site and that it is enabled, which are set here too, are left out.
NamePerson(t) ==
  /\ Is(t, "name") /\ Proceed(t, known[t])
  /\ persons' = [persons EXCEPT ![known[t].cur].hrn = known[t].hrn]
  /\ UNCHANGED <<site, members, tagsOf>> /\ Writes

DropPerson(t) ==
  /\ Is(t, "drop")
  /\ \E i \in known[t].del :
       /\ members' = [members EXCEPT ![The(t)] = @ \ {i}]
       /\ Keep(t, [known[t] EXCEPT !.del = @ \ {i}])
  /\ UNCHANGED <<site, persons, tagsOf, next>> /\ Writes

AddMember(t) ==
  /\ Is(t, "drop") /\ known[t].del = {}
  /\ \E i \in known[t].add :
       /\ members' = [members EXCEPT ![The(t)] = @ \cup {i}]
       /\ Keep(t, [known[t] EXCEPT !.add = @ \ {i}])
  /\ UNCHANGED <<site, persons, tagsOf, next>> /\ Writes

\* verify_keys: the keys that a person lacks are looked up, then added.
ReadKeys(t) ==
  /\ Is(t, "drop") /\ known[t].del \cup known[t].add = {} /\ known[t].put = {}
  /\ \E i \in known[t].keyless :
       Keep(t, [known[t] EXCEPT !.keyless = @ \ {i}, !.cur = i,
                               !.put = doing[t].keys \ persons[i].keys])
  /\ UNCHANGED next /\ Looks

AddPersonKey(t) ==
  /\ Is(t, "drop")
  /\ \E k \in known[t].put :
       /\ persons' = [persons EXCEPT ![known[t].cur].keys = @ \cup {k}]
       /\ Keep(t, [known[t] EXCEPT !.put = @ \ {k}])
  /\ UNCHANGED <<site, members, tagsOf, next>> /\ Writes

\* All of them done, an Allocate goes on.
PersonsDone(t) ==
  Is(t, "drop") /\ known[t].del \cup known[t].add \cup known[t].keyless \cup known[t].put = {}

------------------------------------------------------------------------------
(* verify_slice_tags and verify_slice_links                                   *)

\* Only in mode sync, whoever set them, those that are not in the rspec.
Unwanted(t) ==
  IF doing[t].pltags = "sync"
  THEN (tags[The(t)] \ doing[t].tags) \cup egre[The(t)] ELSE {}

ReadTags(t) ==
  /\ PersonsDone(t) /\ doing[t].op = "Allocate" /\ doing[t].pltags # "ignore" /\ Go(t, "sync")
  /\ Keep(t, [known[t] EXCEPT !.del = Unwanted(t),
                           !.add = (doing[t].tags \cap Managed) \ tags[The(t)]])
  /\ Looks

DeleteSliceTag(t) ==
  /\ Is(t, "sync")
  /\ \E x \in known[t].del :
       /\ tags' = [tags EXCEPT ![The(t)] = @ \ {x}]
       /\ egre' = [egre EXCEPT ![The(t)] = @ \ {x}]
       /\ Keep(t, [known[t] EXCEPT !.del = @ \ {x}])
  /\ UNCHANGED <<site, accountsOf, next>> /\ Writes

AddSliceTag(t) ==
  /\ Is(t, "sync") /\ known[t].del = {}
  /\ \E x \in known[t].add :
       /\ tags' = [tags EXCEPT ![The(t)] = @ \cup {x}]
       /\ Keep(t, [known[t] EXCEPT !.add = @ \ {x}])
  /\ UNCHANGED <<site, accountsOf, egre, next>> /\ Writes

TagsDone(t) ==
  \/ PersonsDone(t) /\ doing[t].op = "Allocate" /\ doing[t].pltags = "ignore"
  \/ Is(t, "sync") /\ known[t].del \cup known[t].add = {}

Used == UNION {egre[s] : s \in Slices}
\* Mutation: the keys of other slices are not looked at.
FreeEgreKeysHere(t) == {k \in EgreKeys \ egre[The(t)] : \A l \in EgreKeys \ egre[The(t)] : k <= l}
\* free_egre_key: the first one, even when the slice has a key already.
FreeEgreKeys(t) == {k \in EgreKeys \ Used : \A l \in EgreKeys \ Used : k <= l}

\* It found a key and has not yet put it on the slice.
HasKey(t) == Is(t, "egre") \/ (Is(t, "links") /\ known[t].put # {})

\* Without the file of links the request fails, as it does when no key is free or
\* an end of a link is not on a node of the slice; without any link in it, nothing
\* is done.
FindEgreKey(t) ==
  /\ TagsDone(t) /\ doing[t].links # {} /\ topology # "empty"
  /\ \/ GiveUp(t)
     \/ /\ topology = "listed"
        /\ \E k \in FreeEgreKeys(t) : Keep(t, [known[t] EXCEPT !.put = {k}])
        /\ Go(t, "egre")
        /\ atOnce' = (atOnce \/ \E u \in Threads \ {t} : HasKey(u))
        /\ UNCHANGED <<plcUsers, counts, alone, agreed>>

\* verify_slice_tags again, in mode append, and all tags may be set this time.
ReadLinkTags(t) ==
  /\ Is(t, "egre") /\ Go(t, "links")
  /\ Keep(t, [known[t] EXCEPT !.add = doing[t].links \ tags[The(t)], !.put = @ \ egre[The(t)]])
  /\ Looks

AddEgreKey(t) ==
  /\ Is(t, "links") /\ known[t].put # {}
  /\ egre' = [egre EXCEPT ![The(t)] = @ \cup known[t].put]
  /\ Keep(t, [known[t] EXCEPT !.put = {}])
  /\ UNCHANGED <<site, accountsOf, tags, next>> /\ Writes

AddLinkTag(t) ==
  /\ Is(t, "links") /\ known[t].put = {}
  /\ \E x \in known[t].add :
       /\ tags' = [tags EXCEPT ![The(t)] = @ \cup {x}]
       /\ Keep(t, [known[t] EXCEPT !.add = @ \ {x}])
  /\ UNCHANGED <<site, accountsOf, egre, next>> /\ Writes

Respond(t) ==
  /\ \/ PersonsDone(t) /\ doing[t].op = "Provision"
     \/ TagsDone(t) /\ (doing[t].links = {} \/ topology = "empty")
     \/ Is(t, "links") /\ known[t].add \cup known[t].put = {}
  /\ Rest(t)
  /\ agreed' = [agreed EXCEPT ![The(t)] = IF alone[t] THEN doing[t] ELSE Nothing]
  /\ UNCHANGED <<plcUsers, counts, atOnce>>

------------------------------------------------------------------------------
(* Failures                                                                   *)

\* A call fails: the first try of an account is followed by another, a tag is
\* forgotten, anything else ends the request.
Mishap(t) ==
  /\ ~Is(t, "idle") /\ mishaps < MaxMishaps /\ mishaps' = mishaps + 1
  /\ UNCHANGED <<demands, agreed, atOnce>>
  /\ \/ (~Is(t, "sync") \/ TagsDone(t)) /\ ~Is(t, "links") /\ Rest(t) /\ UNCHANGED plcUsers
     \/ /\ alone' = [alone EXCEPT ![t] = FALSE]
        /\ \/ /\ Is(t, "create")
              /\ \E h \in known[t].missing : Free(Stub(h)) /\ AddAccount(t, h, Stub(h))
           \/ /\ Is(t, "links") /\ known[t].put # {}
              /\ Keep(t, [known[t] EXCEPT !.put = {}]) /\ UNCHANGED <<plcUsers, next>>
           \/ /\ Is(t, "sync") \/ (Is(t, "links") /\ known[t].put = {})
              /\ \E x \in known[t].del \cup known[t].add :
                   Keep(t, [known[t] EXCEPT !.del = @ \ {x}, !.add = @ \ {x}])
              /\ UNCHANGED <<plcUsers, next>>

Reboot ==
  /\ mishaps < MaxMishaps /\ mishaps' = mishaps + 1
  /\ \E t \in Threads : ~Is(t, "idle")
  /\ doing' = [t \in Threads |-> Nothing] /\ next' = [t \in Threads |-> "idle"]
  /\ known' = [t \in Threads |-> Blank]
  /\ alone' = [t \in Threads |-> FALSE]
  /\ UNCHANGED <<plcUsers, demands, agreed, atOnce>>

UsersStep(t) ==
  \/ FindSite(t) \/ AddSite(t) \/ NameSite(t) \/ VerifySlice(t)
  \/ ReadMembers(t) \/ ReadPersons(t) \/ AddPerson(t) \/ NamePerson(t)
  \/ DropPerson(t) \/ AddMember(t) \/ ReadKeys(t) \/ AddPersonKey(t)
  \/ ReadTags(t) \/ DeleteSliceTag(t) \/ AddSliceTag(t)
  \/ FindEgreKey(t) \/ ReadLinkTags(t) \/ AddEgreKey(t) \/ AddLinkTag(t) \/ Respond(t)

UsersNext == Reboot \/ \E t \in Threads : Demand(t) \/ UsersStep(t) \/ Mishap(t)

------------------------------------------------------------------------------
(* Correctness                                                                *)

UsersTypeOK ==
  /\ topology \in {"missing", "empty", "listed"}
  /\ theSite \in {"none", "unnamed", "there"} /\ made \subseteq Slices
  /\ \A i \in DOMAIN persons : persons[i].hrn \in People \cup {Nothing}
                               /\ persons[i].keys \subseteq PubKeys
  /\ members \in [Slices -> SUBSET DOMAIN persons]
  /\ tags \in [Slices -> SUBSET Tags] /\ egre \in [Slices -> SUBSET EgreKeys]
  /\ made # {} => theSite = "there"

\* The tags that come with the links of request d.
Linked(d) == IF d.op = "Allocate" /\ topology = "listed" THEN d.links ELSE {}

\* Whatever overlapped, failed or stopped half way before: a slice whose last
\* request was answered and not disturbed has accounts of all the users that it
\* named and of nobody else, each with all the keys, and the tags of its links;
\* and when it asked for its tags to be added or put in sync, the slice has those
\* users may set, and in sync mode no other than these and its links', an EGRE key
\* only for links and only one.
UsersAsAsked ==
  \A s \in Slices : agreed[s] # Nothing =>
    LET d == agreed[s]
    IN  /\ {persons[i].hrn : i \in members[s]} = d.users
        /\ \A i \in members[s] : d.keys \subseteq persons[i].keys
        /\ Linked(d) \subseteq tags[s]
        /\ d.op = "Allocate" /\ d.pltags # "ignore" => d.tags \cap Managed \subseteq tags[s]
        /\ d.op = "Allocate" /\ d.pltags = "sync" =>
             /\ tags[s] \subseteq d.tags \cup Linked(d)
             /\ Cardinality(egre[s]) = IF Linked(d) = {} THEN 0 ELSE 1

\* Two slices share an EGRE key only when two requests looked for one at once.
EgreKeysApart ==
  atOnce \/ \A r, s \in Slices : r # s => egre[r] \cap egre[s] = {}
=============================================================================
