------------------------------ MODULE Hierarchy ------------------------------
(***************************************************************************)
(* The tree of authorities that the registry server and the importer share *)
(* on disk: each authority has a key file and a gid file, and "exists if   *)
(* its disk files exist".  create_auth writes the two files one after the  *)
(* other, create_gid reads the parent's two files to sign, and nothing     *)
(* locks them.  A file is opened, hence emptied, before it is written.     *)
(***************************************************************************)
EXTENDS Naturals, Sequences

CONSTANTS
    Auths,          \* the hrns of authorities
    Parent,         \* get_authority: the parent of each one, or None
    Interface,      \* SFA_INTERFACE_HRN, whose gid is signed by itself
    Procs,          \* server threads and importer processes
    None,
    Absent, Empty,  \* what a file may be when it has no content
    Exclusive,      \* one create_auth at a time
    MaxAsks,        \* bound: requests that reach the hierarchy
    MaxCrashes      \* bound: processes that stop half-way

ASSUME ParentAssumption ==
    /\ None \notin Auths
    /\ Parent \in [Auths -> Auths \cup {None}]
ASSUME InterfaceAssumption == Interface \in Auths
ASSUME ExclusiveAssumption == Exclusive \in BOOLEAN
ASSUME BoundsAssumption == MaxAsks \in Nat /\ MaxCrashes \in Nat

Key == Nat \ {0}
\* What a gid says: the key it certifies, the key that signed it and the key that
\* its parent gid, saved in the same file, certifies, 0 without one; whole: its
\* parents reach up to a gid that signs itself.  History: early, it was made from
\* the gid of an authority, or one of its parents was, while that was written.
Gid == [key : Key, issuer : Key, above : Nat, whole : BOOLEAN, early : BOOLEAN]

ASSUME FilesAssumption == /\ Absent # Empty
                          /\ {Absent, Empty} \cap (Key \cup Gid) = {}

VARIABLES
    pkey,      \* key file of each authority: Absent, Empty or a key
    gid,       \* gid file of each authority: Absent, Empty or a gid
    pc,
    stack,     \* authorities a process is creating, the innermost first
    deep,      \* create_parents
    signer,    \* authority that signs what the process is making
    made,      \* the gid a process is making, field by field
    keys,      \* how many keys were generated so far
    issued,    \* the gids made for users, slices and nodes, with who signed
    left,      \* history: authorities whose gid file a process left empty
    asks, crashes

files == <<pkey, gid>>
locals == <<stack, deep, signer, made>>
past == <<issued, left>>
bounds == <<asks, crashes>>
vars == <<files, pc, locals, keys, past, bounds>>

\* auth_exists
Exists(a) == gid[a] # Absent /\ pkey[a] # Absent
SelfSigned(a) == Parent[a] = None \/ a = Interface
Blank == [key |-> 0, issuer |-> 0, above |-> 0, whole |-> FALSE, early |-> FALSE]

Init ==
    /\ pkey = [a \in Auths |-> Absent]
    /\ gid = [a \in Auths |-> Absent]
    /\ pc = [p \in Procs |-> "idle"]
    /\ stack = [p \in Procs |-> << >>]
    /\ deep = [p \in Procs |-> FALSE]
    /\ signer = [p \in Procs |-> None]
    /\ made = [p \in Procs |-> Blank]
    /\ keys = 0 /\ issued = {} /\ left = {} /\ asks = 0 /\ crashes = 0

At(p, label) == pc[p] = label
Goto(p, label) == pc' = [pc EXCEPT ![p] = label]
Top(p) == Head(stack[p])

\* The call returns to its caller, or raises and takes its callers with it.
Return(p) ==
    /\ Goto(p, "idle")
    /\ stack' = [stack EXCEPT ![p] = << >>]
    /\ deep' = [deep EXCEPT ![p] = FALSE]
    /\ signer' = [signer EXCEPT ![p] = None]
    /\ made' = [made EXCEPT ![p] = Blank]

Raise(p) == Return(p) /\ UNCHANGED <<files, keys, past, bounds>>

-----------------------------------------------------------------------------
(* create_auth *)

\* Register and the importer create what auth_exists denies, the importer its
\* top-level authorities with their parents; sfaresetgids does not ask.
Create(p) ==
    /\ At(p, "idle") /\ asks < MaxAsks
    /\ Exclusive => \A q \in Procs : stack[q] = << >>
    /\ \E a \in Auths, parents, reset \in BOOLEAN :
         /\ IF reset THEN ~parents ELSE ~Exists(a)
         /\ stack' = [stack EXCEPT ![p] = <<a>>]
         /\ deep' = [deep EXCEPT ![p] = parents]
    /\ asks' = asks + 1
    /\ Goto(p, "parent")
    /\ UNCHANGED <<files, signer, made, keys, past, crashes>>

\* Missing parents come first, but only when create_parents asks for them.
CreateParent(p) ==
    /\ At(p, "parent")
    /\ LET up == Parent[Top(p)]
       IN IF up # None /\ ~Exists(up) /\ deep[p]
            THEN stack' = [stack EXCEPT ![p] = <<up>> \o @] /\ pc' = pc
            ELSE Goto(p, "key") /\ stack' = stack
    /\ UNCHANGED <<files, deep, signer, made, keys, past, bounds>>

NewKey(p) ==
    /\ keys' = keys + 1
    /\ made' = [made EXCEPT ![p].key = keys + 1]
    /\ Goto(p, "openkey")
    /\ UNCHANGED <<files, stack, deep, signer, past, bounds>>

\* Mutation: a key file that exists is not reused.
LoadKeyAnew(p) == At(p, "key") /\ NewKey(p)

\* Mutation: an empty key file loads.
LoadKeyUnparsed(p) ==
    /\ At(p, "key")
    /\ \/ pkey[Top(p)] = Absent /\ NewKey(p)
       \/ /\ pkey[Top(p)] # Absent
          /\ made' = [made EXCEPT ![p].key = pkey[Top(p)]]
          /\ Goto(p, "sign")
          /\ UNCHANGED <<files, stack, deep, signer, keys, past, bounds>>

\* A key file that exists is reused; an empty one does not load.
LoadKey(p) ==
    /\ At(p, "key")
    /\ \/ pkey[Top(p)] = Absent /\ NewKey(p)
       \/ pkey[Top(p)] = Empty /\ Raise(p)
       \/ /\ pkey[Top(p)] \in Key
          /\ made' = [made EXCEPT ![p].key = pkey[Top(p)]]
          /\ Goto(p, "sign")
          /\ UNCHANGED <<files, stack, deep, signer, keys, past, bounds>>

OpenKey(p) ==
    /\ At(p, "openkey")
    /\ pkey' = [pkey EXCEPT ![Top(p)] = Empty]
    /\ Goto(p, "savekey")
    /\ UNCHANGED <<gid, locals, keys, past, bounds>>

SaveKey(p) ==
    /\ At(p, "savekey")
    /\ pkey' = [pkey EXCEPT ![Top(p)] = made[p].key]
    /\ Goto(p, "sign")
    /\ UNCHANGED <<gid, locals, keys, past, bounds>>

-----------------------------------------------------------------------------
(* create_gid *)

SelfSign(g) == [g EXCEPT !.issuer = g.key, !.above = g.key, !.whole = TRUE]

\* Mutation: the interface's gid is signed by its parent like any other.
SignRootOnly(p) ==
    /\ At(p, "sign")
    /\ IF Parent[Top(p)] = None
         THEN /\ made' = [made EXCEPT ![p] = SelfSign(@)]
              /\ Goto(p, "opengid")
              /\ UNCHANGED signer
         ELSE /\ signer' = [signer EXCEPT ![p] = Parent[Top(p)]]
              /\ Goto(p, "readgid")
              /\ UNCHANGED made
    /\ UNCHANGED <<files, stack, deep, keys, past, bounds>>

\* A root or interface authority signs for itself, the others need a parent.
Sign(p) ==
    /\ At(p, "sign")
    /\ IF SelfSigned(Top(p))
         THEN /\ made' = [made EXCEPT ![p] = SelfSign(@)]
              /\ Goto(p, "opengid")
              /\ UNCHANGED signer
         ELSE /\ signer' = [signer EXCEPT ![p] = Parent[Top(p)]]
              /\ Goto(p, "readgid")
              /\ UNCHANGED made
    /\ UNCHANGED <<files, stack, deep, keys, past, bounds>>

\* A gid for a user, a slice or a node of an authority, by any process.
Issue(p) ==
    /\ At(p, "idle") /\ asks < MaxAsks
    /\ \E a \in Auths : signer' = [signer EXCEPT ![p] = a]
    /\ asks' = asks + 1
    /\ Goto(p, "readgid")
    /\ UNCHANGED <<files, stack, deep, made, keys, past, crashes>>

\* An empty gid file gives a gid without content, of which nothing is saved.
Loaded(a) ==
    IF gid[a] # Empty THEN gid[a]
    ELSE [Blank EXCEPT !.early = \E q \in Procs : At(q, "savegid") /\ Top(q) = a]

WithParent(g, above) ==
    [g EXCEPT !.above = above.key, !.whole = above.whole, !.early = above.early]

\* get_auth_info: MissingAuthority, or the signer's gid file, whatever it holds.
ReadGid(p) ==
    /\ At(p, "readgid")
    /\ \/ ~Exists(signer[p]) /\ Raise(p)
       \/ /\ Exists(signer[p])
          /\ made' = [made EXCEPT ![p] = WithParent(@, Loaded(signer[p]))]
          /\ Goto(p, "readkey")
          /\ UNCHANGED <<files, stack, deep, signer, keys, past, bounds>>

\* get_pkey_object and the signature; then an authority's gid goes to its file,
\* another one to its owner.
ReadKey(p) ==
    /\ At(p, "readkey")
    /\ LET signed == [made[p] EXCEPT !.issuer = pkey[signer[p]]]
       IN \/ pkey[signer[p]] \notin Key /\ Raise(p)
          \/ /\ pkey[signer[p]] \in Key /\ stack[p] # << >>
             /\ made' = [made EXCEPT ![p] = signed]
             /\ Goto(p, "opengid")
             /\ UNCHANGED <<files, stack, deep, signer, keys, past, bounds>>
          \/ /\ pkey[signer[p]] \in Key /\ stack[p] = << >>
             /\ issued' = issued \cup {<<signer[p], signed>>}
             /\ Return(p)
             /\ UNCHANGED <<files, keys, left, bounds>>

OpenGid(p) ==
    /\ At(p, "opengid")
    /\ gid' = [gid EXCEPT ![Top(p)] = Empty]
    /\ Goto(p, "savegid")
    /\ UNCHANGED <<pkey, locals, keys, past, bounds>>

\* create_auth returns, to the creation of a child when there is one.
SaveGid(p) ==
    /\ At(p, "savegid")
    /\ gid' = [gid EXCEPT ![Top(p)] = made[p]]
    /\ IF Tail(stack[p]) = << >>
         THEN Return(p)
         ELSE /\ stack' = [stack EXCEPT ![p] = Tail(@)]
              /\ made' = [made EXCEPT ![p] = Blank]
              /\ Goto(p, "key")
              /\ UNCHANGED <<deep, signer>>
    /\ UNCHANGED <<pkey, keys, past, bounds>>

\* A process stops; the files stay as they are.
Crash(p) ==
    /\ ~At(p, "idle") /\ crashes < MaxCrashes
    /\ crashes' = crashes + 1
    /\ left' = IF At(p, "savegid") THEN left \cup {Top(p)} ELSE left
    /\ Return(p)
    /\ UNCHANGED <<files, keys, issued, asks>>

Step(p) ==
    \/ CreateParent(p) \/ LoadKey(p) \/ OpenKey(p) \/ SaveKey(p)
    \/ Sign(p) \/ ReadGid(p) \/ ReadKey(p) \/ OpenGid(p) \/ SaveGid(p)

Next == \E p \in Procs : Create(p) \/ Issue(p) \/ Step(p) \/ Crash(p)

Spec == Init /\ [][Next]_vars

-----------------------------------------------------------------------------
(* Correctness *)

Making == [key : Nat, issuer : Nat, above : Nat, whole : BOOLEAN, early : BOOLEAN]

TypeOK ==
    /\ pkey \in [Auths -> Key \cup {Absent, Empty}]
    /\ gid \in [Auths -> Gid \cup {Absent, Empty}]
    /\ pc \in [Procs -> {"idle", "parent", "key", "openkey", "savekey", "sign",
                         "readgid", "readkey", "opengid", "savegid"}]
    /\ stack \in [Procs -> Seq(Auths)]
    /\ deep \in [Procs -> BOOLEAN]
    /\ signer \in [Procs -> Auths \cup {None}]
    /\ made \in [Procs -> Making]
    /\ left \subseteq Auths /\ keys \in Nat /\ asks \in Nat /\ crashes \in Nat

\* A gid file certifies the key in the key file next to it, and is signed with
\* the parent's key file, through restarts between any two of the four writes.
GidMatchesKeys ==
    \A a \in Auths : gid[a] \in Gid =>
        /\ gid[a].key = pkey[a]
        /\ gid[a].issuer = IF SelfSigned(a) THEN pkey[a] ELSE pkey[Parent[a]]

\* An authority is the other one, or one of those that signed for it.
Over(b, a) ==
    \A S \in SUBSET Auths :
        a \in S /\ (\A c \in S : ~SelfSigned(c) => Parent[c] \in S) => b \in S

\* The parent that comes with a gid certifies the key that signed it.
Linked(g) == g.above = g.issuer \/ (g.above = 0 /\ ~g.whole)
\* Parents are missing for a reason, so that a's gid does not verify: it or one
\* above was signed from an empty file, in the middle of a write, or after a
\* process that stopped there.
Excused(a, g) == g.whole \/ g.early \/ \E b \in left : Over(b, a)

\* What create_gid issues, at any time, comes with the gids to verify it, up to
\* one that signs itself and each for the key that was used; but a gid file of
\* the authorities above that was empty as one of these was signed: a write
\* was under way, or was cut short, and of a chain so cut the rest is right.
IssuedVerifies == \A x \in issued : Linked(x[2]) /\ Excused(x[1], x[2])

\* The key of an authority is never replaced once it is written, even when its
\* gid is made again: what it has signed stays valid.
KeysAreKept == [][\A a \in Auths : pkey[a] \in Key => pkey'[a] = pkey[a]]_vars

=============================================================================
