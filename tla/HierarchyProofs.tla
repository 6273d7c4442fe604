--------------------------- MODULE HierarchyProofs ---------------------------
(***************************************************************************)
(* Theorems about Hierarchy, for any tree of authorities and any number of *)
(* processes, requests and crashes, as long as authorities are created one *)
(* at a time: keys are kept, gid files match key files, and what is issued *)
(* comes with its chain of gids, unless a gid file was empty. Issuing goes *)
(* on at any moment of a creation. And about Details, for any users,       *)
(* pointers and requests: a record's details name the people that records  *)
(* and testbed name.                                                       *)
(***************************************************************************)
EXTENDS Hierarchy, Details, TLAPS

Creating == {"parent", "key", "openkey", "savekey", "sign", "opengid", "savegid"}
Signing == {"readgid", "readkey"}

\* One process creates authorities, the others at most issue gids.
OneCreator == \A p, q \in Procs : stack[p] # << >> /\ stack[q] # << >> => p = q

\* The key in made is the one in the key file once that is written, and the
\* key file is absent, then empty, before.
KeyInMaking(p) ==
    /\ pc[p] \in {"openkey", "savekey"} => made[p].key \in Key
    /\ pc[p] = "openkey" => pkey[Top(p)] = Absent
    /\ pc[p] = "savekey" => pkey[Top(p)] = Empty
    /\ pc[p] \in {"sign", "opengid", "savegid"} \cup Signing /\ stack[p] # << >> =>
         pkey[Top(p)] \in Key /\ made[p].key = pkey[Top(p)]

\* What a process knows of the signer, whose key file no longer changes.
SignerKnown(p) ==
    /\ pc[p] \in Signing => signer[p] \in Auths
    /\ pc[p] \in Signing /\ stack[p] # << >> =>
         ~SelfSigned(Top(p)) /\ signer[p] = Parent[Top(p)]
    /\ pc[p] = "readkey" =>
         \/ pkey[signer[p]] \in Key /\ made[p].above = pkey[signer[p]]
         \/ made[p].above = 0 /\ ~made[p].whole

\* The key that signs the gid of an authority.
SigningKey(a) == IF SelfSigned(a) THEN pkey[a] ELSE pkey[Parent[a]]

\* A gid about to be saved is complete and signed with the right key.
GidInMaking(p) ==
    pc[p] \in {"opengid", "savegid"} =>
        /\ made[p] \in Gid
        /\ made[p].issuer = SigningKey(Top(p)) /\ Linked(made[p])

Local(p) ==
    /\ pc[p] = "idle" => stack[p] = << >>
    /\ pc[p] \in Creating => stack[p] # << >>
    /\ KeyInMaking(p) /\ SignerKnown(p) /\ GidInMaking(p)

IssuedLinked == \A x \in issued : Linked(x[2])

IInv ==
    /\ TypeOK
    /\ OneCreator
    /\ \A p \in Procs : Local(p)
    /\ GidMatchesKeys
    /\ IssuedLinked

USE ParentAssumption, InterfaceAssumption, ExclusiveAssumption, BoundsAssumption, FilesAssumption

LEMMA InitInv == Init => IInv
  <1> SUFFICES ASSUME Init PROVE IInv
    OBVIOUS
  <1>1. TypeOK
    BY DEF Init, TypeOK, Blank, Making
  <1>2. OneCreator /\ \A p \in Procs : Local(p)
    BY DEF Init, OneCreator, Local, KeyInMaking, SignerKnown, GidInMaking, Creating, Signing
  <1>3. GidMatchesKeys /\ IssuedLinked
    BY DEF Init, GidMatchesKeys, IssuedLinked, Key, Gid
  <1> QED BY <1>1, <1>2, <1>3 DEF IInv

-----------------------------------------------------------------------------
(* Helpers *)

Others(p) ==
    \A q \in Procs \ {p} : /\ pc'[q] = pc[q] /\ stack'[q] = stack[q]
                           /\ signer'[q] = signer[q] /\ made'[q] = made[q]

KeysStay == \A a \in Auths : pkey[a] \in Key => pkey'[a] = pkey[a]

\* A stack of authorities: its top, a push and a pop.
LEMMA TopIsAuth ==
  ASSUME NEW s \in Seq(Auths), s # << >>
  PROVE  Head(s) \in Auths /\ Tail(s) \in Seq(Auths)
  OBVIOUS

LEMMA Pushed ==
  ASSUME NEW s \in Seq(Auths), NEW a \in Auths
  PROVE  /\ <<a>> \o s \in Seq(Auths) /\ <<a>> \o s # << >>
         /\ Head(<<a>> \o s) = a
  OBVIOUS

LEMMA TopType ==
  ASSUME IInv, NEW p \in Procs, stack[p] # << >>
  PROVE  Top(p) \in Auths /\ (~SelfSigned(Top(p)) => Parent[Top(p)] \in Auths)
  <1>1. stack[p] \in Seq(Auths)
    BY DEF IInv, TypeOK
  <1> QED BY <1>1, TopIsAuth DEF Top, SelfSigned

\* The fields of a gid that is being made.
LEMMA SelfSignType ==
  ASSUME NEW g \in Making
  PROVE  /\ SelfSign(g) \in Making /\ SelfSign(g).key = g.key /\ SelfSign(g).issuer = g.key
         /\ SelfSign(g).above = g.key /\ SelfSign(g).whole = TRUE
  BY DEF SelfSign, Making

LEMMA WithParentType ==
  ASSUME NEW g \in Making, NEW u, u.key \in Nat, u.whole \in BOOLEAN, u.early \in BOOLEAN
  PROVE  /\ WithParent(g, u) \in Making /\ WithParent(g, u).key = g.key /\ WithParent(g, u).above = u.key
         /\ WithParent(g, u).whole = u.whole /\ WithParent(g, u).early = u.early
  BY DEF WithParent, Making

LEMMA EmptyLoaded ==
  ASSUME NEW a \in Auths, gid[a] = Empty
  PROVE  /\ Loaded(a).key = 0 /\ Loaded(a).whole = FALSE /\ Loaded(a).early \in BOOLEAN
         /\ Loaded(a).key \in Nat /\ Loaded(a).whole \in BOOLEAN
         /\ Loaded(a).early = (\E q \in Procs : At(q, "savegid") /\ Top(q) = a)
  BY DEF Loaded, Blank

\* What one process does to its own state, and to keys no one has written,
\* leaves what the others know true.
LEMMA LocalsInv ==
  ASSUME IInv, NEW p \in Procs, Others(p), Local(p)', KeysStay,
         pkey' = pkey \/ stack[p] # << >>,
         stack'[p] # << >> => stack[p] # << >> \/ \A q \in Procs : stack[q] = << >>
  PROVE  OneCreator' /\ \A q \in Procs : Local(q)'
  <1>1. OneCreator'
    BY DEF IInv, OneCreator, Others
  <1>2. ASSUME NEW q \in Procs, q # p PROVE Local(q)'
    <2>1. /\ pc'[q] = pc[q] /\ stack'[q] = stack[q]
          /\ signer'[q] = signer[q] /\ made'[q] = made[q]
      BY <1>2 DEF Others
    <2>2. stack[q] # << >> => pkey' = pkey
      BY <1>2 DEF IInv, OneCreator
    <2>3. Local(q)
      BY DEF IInv
    <2>4. KeyInMaking(q)'
      BY <2>1, <2>2, <2>3 DEF Local, KeyInMaking, Top, Creating, Signing
    <2>5. SignerKnown(q)'
      BY <2>1, <2>2, <2>3 DEF Local, SignerKnown, Top, SelfSigned, Creating, Signing, KeysStay
    <2>6. GidInMaking(q)'
      BY <2>1, <2>2, <2>3 DEF Local, GidInMaking, SigningKey, Top, SelfSigned, Creating
    <2> QED BY <2>1, <2>3, <2>4, <2>5, <2>6 DEF Local
  <1> QED BY <1>1, <1>2

\* A gid file made with keys that stay matches them for ever.
LEMMA GidsInv ==
  ASSUME IInv, KeysStay, NEW a \in Auths, gid[a] \in Gid
  PROVE  gid[a].key = pkey'[a] /\ gid[a].issuer = SigningKey(a)'
  <1>1. gid[a].key \in Key /\ gid[a].issuer \in Key
    BY DEF Gid
  <1>2. gid[a].key = pkey[a] /\ gid[a].issuer = IF SelfSigned(a) THEN pkey[a] ELSE pkey[Parent[a]]
    BY DEF IInv, GidMatchesKeys
  <1>3. ~SelfSigned(a) => Parent[a] \in Auths
    BY DEF SelfSigned
  <1> QED BY <1>1, <1>2, <1>3 DEF KeysStay, SigningKey, SelfSigned

LEMMA GidMatchesInv ==
  ASSUME IInv, KeysStay, gid' = gid
  PROVE  GidMatchesKeys'
  BY GidsInv DEF GidMatchesKeys, SigningKey, SelfSigned

\* A process that returns knows nothing.
LEMMA ReturnInv ==
  ASSUME IInv, NEW p \in Procs, Return(p)
  PROVE  /\ Others(p) /\ Local(p)' /\ stack'[p] = << >>
         /\ pc' \in [Procs -> {"idle", "parent", "key", "openkey", "savekey", "sign",
                               "readgid", "readkey", "opengid", "savegid"}]
         /\ stack' \in [Procs -> Seq(Auths)] /\ deep' \in [Procs -> BOOLEAN]
         /\ signer' \in [Procs -> Auths \cup {None}]
         /\ made' \in [Procs -> Making]
  <1>1. Others(p) /\ pc'[p] = "idle" /\ stack'[p] = << >>
    BY DEF IInv, TypeOK, Return, Goto, Others
  <1>2. Local(p)'
    BY <1>1 DEF Local, KeyInMaking, SignerKnown, GidInMaking, Creating, Signing
  <1>3. Blank \in Making /\ << >> \in Seq(Auths)
    BY DEF Blank, Making
  <1> QED BY <1>1, <1>2, <1>3 DEF IInv, TypeOK, Return, Goto

\* A call that raises, or a process that stops.
LEMMA StopInv ==
  ASSUME IInv, NEW p \in Procs, Return(p), UNCHANGED <<files, keys, issued, asks>>,
         crashes' \in Nat, left' \subseteq Auths
  PROVE  IInv' /\ KeysStay
  <1>1. KeysStay /\ pkey' = pkey /\ gid' = gid
    BY DEF files, KeysStay
  <1>2. TypeOK'
    BY <1>1, ReturnInv DEF IInv, TypeOK
  <1>3. OneCreator' /\ \A q \in Procs : Local(q)'
    BY <1>1, ReturnInv, LocalsInv
  <1>4. IssuedLinked'
    BY DEF IInv, IssuedLinked
  <1> QED BY <1>1, <1>2, <1>3, <1>4, GidMatchesInv DEF IInv

LEMMA RaiseInv ==
  ASSUME IInv, NEW p \in Procs, Raise(p)
  PROVE  IInv' /\ KeysStay
  <1>1. crashes' \in Nat /\ left' \subseteq Auths
    BY DEF Raise, past, bounds, IInv, TypeOK
  <1> QED BY <1>1, StopInv DEF Raise, past, bounds

-----------------------------------------------------------------------------
(* Each action *)

LEMMA CreateInv ==
  ASSUME IInv, Exclusive, NEW p \in Procs, Create(p)
  PROVE  IInv' /\ KeysStay
  <1>1. PICK a \in Auths : stack' = [stack EXCEPT ![p] = <<a>>]
    BY DEF Create
  <1>2. KeysStay /\ pkey' = pkey /\ gid' = gid /\ \A q \in Procs : stack[q] = << >>
    BY DEF Create, files, KeysStay
  <1>3. TypeOK'
    BY <1>1 DEF IInv, TypeOK, Create, Goto, files, past
  <1>4. Others(p) /\ pc'[p] = "parent" /\ stack'[p] # << >>
    BY <1>1 DEF Create, Goto, Others, IInv, TypeOK
  <1>5. Local(p)'
    BY <1>4 DEF Local, KeyInMaking, SignerKnown, GidInMaking, Creating, Signing
  <1>6. OneCreator' /\ \A q \in Procs : Local(q)'
    BY <1>2, <1>4, <1>5, LocalsInv
  <1>7. IssuedLinked'
    BY DEF Create, past, IInv, IssuedLinked
  <1> QED BY <1>2, <1>3, <1>6, <1>7, GidMatchesInv DEF IInv

LEMMA CreateParentInv ==
  ASSUME IInv, NEW p \in Procs, CreateParent(p)
  PROVE  IInv' /\ KeysStay
  <1>1. stack[p] # << >> /\ stack[p] \in Seq(Auths)
    BY DEF CreateParent, At, IInv, Local, Creating, TypeOK
  <1>2. KeysStay /\ pkey' = pkey /\ gid' = gid
    BY DEF CreateParent, files, KeysStay
  <1>3. /\ stack' \in [Procs -> Seq(Auths)] /\ stack'[p] # << >>
        /\ pc' = [pc EXCEPT ![p] = pc'[p]] /\ pc'[p] \in {"parent", "key"}
        /\ \A q \in Procs \ {p} : stack'[q] = stack[q]
    <2>1. CASE pc' = pc /\ stack' = [stack EXCEPT ![p] = <<Parent[Top(p)]>> \o @]
               /\ Parent[Top(p)] # None
      <3>1. Parent[Top(p)] \in Auths
        BY <1>1, <2>1, TopIsAuth DEF Top
      <3> QED BY <1>1, <2>1, <3>1, Pushed DEF CreateParent, At, IInv, TypeOK
    <2>2. CASE Goto(p, "key") /\ stack' = stack
      BY <1>1, <2>2 DEF Goto, IInv, TypeOK
    <2> QED BY <2>1, <2>2 DEF CreateParent
  <1>4. Others(p)
    BY <1>3 DEF CreateParent, Others, IInv, TypeOK
  <1>5. TypeOK'
    BY <1>3 DEF IInv, TypeOK, CreateParent, files, past, bounds
  <1>6. Local(p)'
    BY <1>3 DEF Local, KeyInMaking, SignerKnown, GidInMaking, Creating, Signing
  <1>7. OneCreator' /\ \A q \in Procs : Local(q)'
    BY <1>1, <1>2, <1>4, <1>6, LocalsInv
  <1>8. IssuedLinked'
    BY DEF CreateParent, past, IInv, IssuedLinked
  <1> QED BY <1>2, <1>5, <1>7, <1>8, GidMatchesInv DEF IInv

LEMMA LoadKeyInv ==
  ASSUME IInv, NEW p \in Procs, LoadKey(p)
  PROVE  IInv' /\ KeysStay
  <1>1. CASE Raise(p)
    BY <1>1, RaiseInv
  <1>2. CASE ~Raise(p)
    <2>1. stack[p] # << >> /\ Top(p) \in Auths
      BY TopType DEF LoadKey, At, IInv, Local, Creating
    <2>2. KeysStay /\ pkey' = pkey /\ gid' = gid /\ stack' = stack
      BY <1>2 DEF LoadKey, NewKey, files, KeysStay
    <2>3. PICK k \in Key : made' = [made EXCEPT ![p].key = k]
                           /\ (pc'[p] = "sign" => pkey[Top(p)] = k)
      <3>1. CASE pkey[Top(p)] = Absent /\ NewKey(p)
        <4>1. keys + 1 \in Key /\ pc'[p] = "openkey"
          BY <3>1 DEF NewKey, Goto, IInv, TypeOK, Key
        <4> QED BY <3>1, <4>1 DEF NewKey
      <3>2. CASE pkey[Top(p)] \in Key /\ made' = [made EXCEPT ![p].key = pkey[Top(p)]]
        BY <3>2
      <3> QED BY <1>2, <3>1, <3>2 DEF LoadKey
    <2>4. /\ pc' = [pc EXCEPT ![p] = pc'[p]] /\ pc'[p] \in {"openkey", "sign"}
          /\ (pc'[p] = "openkey" => pkey[Top(p)] = Absent)
      BY <1>2 DEF LoadKey, NewKey, Goto, IInv, TypeOK
    <2>5. Others(p)
      BY <1>2, <2>2, <2>3, <2>4 DEF LoadKey, NewKey, Others, IInv, TypeOK
    <2>6. TypeOK'
      <3>1. keys' \in Nat /\ asks' \in Nat /\ crashes' \in Nat /\ left' = left
        BY <1>2 DEF LoadKey, NewKey, IInv, TypeOK, past, bounds
      <3>2. made' \in [Procs -> Making]
        <4>1. k \in Nat /\ made[p] \in Making
          BY DEF IInv, TypeOK, Key
        <4>2. [made[p] EXCEPT !.key = k] \in Making
          BY <4>1 DEF Making
        <4> QED BY <2>3, <4>2 DEF IInv, TypeOK
      <3>3. deep' = deep /\ signer' = signer
        BY <1>2 DEF LoadKey, NewKey
      <3> QED BY <2>2, <2>4, <3>1, <3>2, <3>3 DEF IInv, TypeOK
    <2>7. made'[p].key \in Key /\ (pc'[p] = "sign" => made'[p].key = pkey[Top(p)])
      BY <2>3 DEF IInv, TypeOK, Making
    <2>8. Local(p)'
      BY <2>1, <2>2, <2>4, <2>7 DEF Local, KeyInMaking, SignerKnown, GidInMaking, Creating, Signing, Top
    <2>9. OneCreator' /\ \A q \in Procs : Local(q)'
      BY <2>1, <2>2, <2>5, <2>8, LocalsInv
    <2>10. IssuedLinked'
      BY <1>2 DEF LoadKey, NewKey, past, IInv, IssuedLinked
    <2> QED BY <2>2, <2>6, <2>9, <2>10, GidMatchesInv DEF IInv
  <1> QED BY <1>1, <1>2

\* The file is emptied, then written, before any gid can depend on its key.
LEMMA OpenKeyInv ==
  ASSUME IInv, NEW p \in Procs, OpenKey(p)
  PROVE  IInv' /\ KeysStay
  <1>1. stack[p] # << >> /\ Top(p) \in Auths /\ pkey[Top(p)] = Absent
    BY TopType DEF OpenKey, At, IInv, Local, KeyInMaking, Creating
  <1>2. KeysStay /\ gid' = gid /\ stack' = stack /\ pkey'[Top(p)] = Empty
    BY <1>1 DEF OpenKey, KeysStay, IInv, TypeOK, locals
  <1>3. Others(p) /\ pc'[p] = "savekey" /\ made'[p].key \in Key
    BY DEF OpenKey, At, Goto, Others, IInv, TypeOK, Making, Local, KeyInMaking, locals
  <1>4. TypeOK'
    BY <1>1 DEF IInv, TypeOK, OpenKey, Goto, locals, past, bounds
  <1>5. Local(p)'
    BY <1>1, <1>2, <1>3 DEF Local, KeyInMaking, SignerKnown, GidInMaking, Creating, Signing, Top
  <1>6. OneCreator' /\ \A q \in Procs : Local(q)'
    BY <1>1, <1>2, <1>3, <1>5, LocalsInv
  <1>7. IssuedLinked'
    BY DEF OpenKey, past, IInv, IssuedLinked
  <1> QED BY <1>2, <1>4, <1>6, <1>7, GidMatchesInv DEF IInv

LEMMA SaveKeyInv ==
  ASSUME IInv, NEW p \in Procs, SaveKey(p)
  PROVE  IInv' /\ KeysStay
  <1>1. stack[p] # << >> /\ Top(p) \in Auths /\ pkey[Top(p)] = Empty /\ made[p].key \in Key
    BY TopType DEF SaveKey, At, IInv, Local, KeyInMaking, Creating
  <1>2. KeysStay /\ gid' = gid /\ stack' = stack /\ pkey'[Top(p)] = made[p].key
    BY <1>1 DEF SaveKey, KeysStay, IInv, TypeOK, locals
  <1>3. Others(p) /\ pc'[p] = "sign" /\ made' = made
    BY DEF SaveKey, Goto, Others, IInv, TypeOK, locals
  <1>4. TypeOK'
    BY <1>1 DEF IInv, TypeOK, SaveKey, Goto, locals, past, bounds
  <1>5. Local(p)'
    BY <1>1, <1>2, <1>3 DEF Local, KeyInMaking, SignerKnown, GidInMaking, Creating, Signing, Top
  <1>6. OneCreator' /\ \A q \in Procs : Local(q)'
    BY <1>1, <1>2, <1>3, <1>5, LocalsInv
  <1>7. IssuedLinked'
    BY DEF SaveKey, past, IInv, IssuedLinked
  <1> QED BY <1>2, <1>4, <1>6, <1>7, GidMatchesInv DEF IInv

LEMMA SignInv ==
  ASSUME IInv, NEW p \in Procs, Sign(p)
  PROVE  IInv' /\ KeysStay
  <1>1. /\ stack[p] # << >> /\ Top(p) \in Auths
        /\ ~SelfSigned(Top(p)) => Parent[Top(p)] \in Auths
        /\ pkey[Top(p)] \in Key /\ made[p].key = pkey[Top(p)]
    BY TopType DEF Sign, At, IInv, Local, KeyInMaking, Creating
  <1>2. KeysStay /\ pkey' = pkey /\ gid' = gid /\ stack' = stack
    BY DEF Sign, files, KeysStay
  <1>3. CASE SelfSigned(Top(p))
    <2>1. /\ made' = [made EXCEPT ![p] = SelfSign(@)]
          /\ signer' = signer /\ Goto(p, "opengid")
      BY <1>3 DEF Sign
    <2>2. TypeOK' /\ Others(p) /\ pc'[p] = "opengid"
      <3>1. made' \in [Procs -> Making]
        BY <2>1, SelfSignType DEF IInv, TypeOK
      <3> QED BY <1>2, <2>1, <3>1 DEF Sign, Goto, IInv, TypeOK, past, bounds, Others
    <2>3. /\ made'[p].key = pkey[Top(p)] /\ made'[p].issuer = pkey[Top(p)]
          /\ Linked(made'[p]) /\ made'[p] \in Gid
      <3>1. made[p] \in Making /\ made'[p] = SelfSign(made[p])
        BY <2>1 DEF IInv, TypeOK
      <3>2. made'[p] \in Making
        BY <3>1, SelfSignType
      <3> QED BY <1>1, <3>1, <3>2, SelfSignType DEF Linked, Making, Gid
    <2>4. Local(p)'
      BY <1>1, <1>2, <1>3, <2>2, <2>3
      DEF Local, KeyInMaking, SignerKnown, GidInMaking, SigningKey, SelfSigned, Creating, Signing, Top
    <2> QED BY <1>1, <1>2, <2>2, <2>4, LocalsInv, GidMatchesInv DEF Sign, past, IInv, IssuedLinked
  <1>4. CASE ~SelfSigned(Top(p))
    <2>1. made' = made /\ signer' = [signer EXCEPT ![p] = Parent[Top(p)]] /\ Goto(p, "readgid")
      BY <1>4 DEF Sign
    <2>2. TypeOK' /\ Others(p) /\ pc'[p] = "readgid" /\ signer'[p] = Parent[Top(p)]
      BY <1>1, <1>2, <1>4, <2>1 DEF Sign, Goto, IInv, TypeOK, past, bounds, Others
    <2>3. Local(p)'
      BY <1>1, <1>2, <1>4, <2>1, <2>2
      DEF Local, KeyInMaking, SignerKnown, GidInMaking, SelfSigned, Creating, Signing, Top
    <2> QED BY <1>1, <1>2, <2>2, <2>3, LocalsInv, GidMatchesInv DEF Sign, past, IInv, IssuedLinked
  <1> QED BY <1>3, <1>4

LEMMA IssueInv ==
  ASSUME IInv, NEW p \in Procs, Issue(p)
  PROVE  IInv' /\ KeysStay
  <1>1. PICK a \in Auths : signer' = [signer EXCEPT ![p] = a]
    BY DEF Issue
  <1>2. KeysStay /\ pkey' = pkey /\ gid' = gid /\ stack' = stack /\ stack[p] = << >>
    BY DEF Issue, At, files, KeysStay, IInv, Local
  <1>3. TypeOK' /\ Others(p) /\ pc'[p] = "readgid" /\ signer'[p] = a
    BY <1>1, <1>2 DEF Issue, Goto, IInv, TypeOK, past, Others
  <1>4. Local(p)'
    BY <1>2, <1>3 DEF Local, KeyInMaking, SignerKnown, GidInMaking, Creating, Signing
  <1>5. IssuedLinked'
    BY DEF Issue, past, IInv, IssuedLinked
  <1> QED BY <1>2, <1>3, <1>4, <1>5, LocalsInv, GidMatchesInv DEF IInv

\* A gid file that parses certifies the key in the file next to it; an empty one
\* brings no parent.
LEMMA ReadGidInv ==
  ASSUME IInv, NEW p \in Procs, ReadGid(p)
  PROVE  IInv' /\ KeysStay
  <1>1. CASE Raise(p)
    BY <1>1, RaiseInv
  <1>2. CASE ~Raise(p)
    <2> DEFINE a == signer[p]
               m == WithParent(made[p], Loaded(a))
    <2>1. /\ Exists(a) /\ made' = [made EXCEPT ![p] = m]
          /\ Goto(p, "readkey") /\ UNCHANGED <<files, stack, deep, signer, keys, past, bounds>>
      BY <1>2 DEF ReadGid
    <2>2. a \in Auths
      BY DEF ReadGid, At, IInv, Local, SignerKnown, Signing
    <2>3. made[p] \in Making
      BY DEF IInv, TypeOK
    <2>4. /\ m \in Making /\ m.key = made[p].key
          /\ (pkey[a] \in Key /\ m.above = pkey[a]) \/ (m.above = 0 /\ ~m.whole)
      <3>1. CASE gid[a] = Empty
        <4>1. Loaded(a).key = 0 /\ Loaded(a).whole = FALSE /\ Loaded(a).early \in BOOLEAN
          BY <2>2, <3>1, EmptyLoaded
        <4>2. Loaded(a).key \in Nat /\ Loaded(a).whole \in BOOLEAN
          BY <2>2, <3>1, EmptyLoaded
        <4>3. m \in Making /\ m.key = made[p].key /\ m.above = Loaded(a).key /\ m.whole = Loaded(a).whole
          BY <2>3, <4>1, <4>2, WithParentType
        <4> HIDE DEF m
        <4> QED BY <4>1, <4>3
      <3>2. CASE gid[a] # Empty
        <4>1. gid[a] \in Gid /\ gid[a].key = pkey[a] /\ pkey[a] \in Key /\ Loaded(a) = gid[a]
          BY <2>1, <2>2, <3>2 DEF IInv, TypeOK, Exists, GidMatchesKeys, Gid, Loaded
        <4>2. Loaded(a).key \in Nat /\ Loaded(a).whole \in BOOLEAN /\ Loaded(a).early \in BOOLEAN
          BY <4>1 DEF Gid, Key
        <4> QED BY <2>3, <4>1, <4>2, WithParentType
      <3> QED BY <3>1, <3>2
    <2> HIDE DEF m
    <2>5. KeysStay /\ pkey' = pkey /\ gid' = gid /\ stack' = stack
      BY <2>1 DEF files, KeysStay
    <2>6. TypeOK' /\ Others(p) /\ pc'[p] = "readkey" /\ made'[p] = m /\ signer' = signer
      BY <2>1, <2>4 DEF Goto, IInv, TypeOK, Others, files, past, bounds
    <2>7. Local(p)
      BY DEF IInv
    <2>8. Local(p)'
      BY <2>4, <2>5, <2>6, <2>7
      DEF ReadGid, At, Local, KeyInMaking, SignerKnown, GidInMaking, SelfSigned, Creating, Signing, Top
    <2>9. IssuedLinked'
      BY <2>1 DEF past, IInv, IssuedLinked
    <2> QED BY <2>5, <2>6, <2>8, <2>9, LocalsInv, GidMatchesInv DEF IInv
  <1> QED BY <1>1, <1>2

\* The key that signs is still the one that the gid read before certifies.
LEMMA ReadKeyInv ==
  ASSUME IInv, NEW p \in Procs, ReadKey(p)
  PROVE  IInv' /\ KeysStay
  <1> DEFINE signed == [made[p] EXCEPT !.issuer = pkey[signer[p]]]
  <1>1. CASE Raise(p)
    BY <1>1, RaiseInv
  <1> SUFFICES ASSUME pkey[signer[p]] \in Key PROVE IInv' /\ KeysStay
    BY <1>1 DEF ReadKey
  <1>2. /\ signer[p] \in Auths /\ made[p] \in Making
        /\ made[p].above = pkey[signer[p]] \/ (made[p].above = 0 /\ ~made[p].whole)
    BY DEF ReadKey, At, IInv, TypeOK, Local, SignerKnown, Signing
  <1>3. /\ signed.key = made[p].key /\ signed.issuer = pkey[signer[p]] /\ Linked(signed)
        /\ signed \in Making /\ signed.issuer \in Key
    BY <1>2 DEF Making, Linked, Key
  <1>4. CASE /\ stack[p] # << >> /\ made' = [made EXCEPT ![p] = signed] /\ Goto(p, "opengid")
             /\ UNCHANGED <<files, stack, deep, signer, keys, past, bounds>>
    <2>1. KeysStay /\ pkey' = pkey /\ gid' = gid /\ stack' = stack
      BY <1>4 DEF files, KeysStay
    <2>2. signed \in Making
      BY <1>3
    <2>3. TypeOK' /\ Others(p) /\ pc'[p] = "opengid" /\ made'[p] = signed
      BY <1>4, <2>2 DEF Goto, IInv, TypeOK, Others, files, past, bounds
    <2>4. /\ pkey[Top(p)] \in Key /\ made[p].key = pkey[Top(p)]
          /\ ~SelfSigned(Top(p)) /\ signer[p] = Parent[Top(p)]
      BY <1>4 DEF ReadKey, At, IInv, Local, KeyInMaking, SignerKnown, Signing
    <2>5. signed \in Gid
      BY <1>3, <2>4 DEF Gid, Making
    <2>6. Local(p)'
      BY <1>3, <1>4, <2>1, <2>3, <2>4, <2>5
      DEF Local, KeyInMaking, SignerKnown, GidInMaking, SigningKey, SelfSigned, Creating, Signing, Top
    <2>7. IssuedLinked'
      BY <1>4 DEF past, IInv, IssuedLinked
    <2> QED BY <2>1, <2>3, <2>6, <2>7, LocalsInv, GidMatchesInv DEF IInv
  <1>5. CASE issued' = issued \cup {<<signer[p], signed>>} /\ Return(p) /\ UNCHANGED <<files, keys, left, bounds>>
    <2>1. KeysStay /\ pkey' = pkey /\ gid' = gid
      BY <1>5 DEF files, KeysStay
    <2>2. TypeOK' /\ OneCreator' /\ \A q \in Procs : Local(q)'
      BY <1>5, <2>1, ReturnInv, LocalsInv DEF IInv, TypeOK, bounds
    <2>3. IssuedLinked'
      BY <1>3, <1>5 DEF IInv, IssuedLinked
    <2> QED BY <2>1, <2>2, <2>3, GidMatchesInv DEF IInv
  <1> QED BY <1>1, <1>4, <1>5 DEF ReadKey

LEMMA OpenGidInv ==
  ASSUME IInv, NEW p \in Procs, OpenGid(p)
  PROVE  IInv' /\ KeysStay
  <1>1. stack[p] # << >> /\ Top(p) \in Auths
    BY TopType DEF OpenGid, At, IInv, Local, Creating
  <1>2. /\ KeysStay /\ pkey' = pkey /\ stack' = stack /\ made' = made /\ signer' = signer
        /\ gid' = [gid EXCEPT ![Top(p)] = Empty]
    BY DEF OpenGid, KeysStay, locals
  <1>3. TypeOK' /\ Others(p) /\ pc'[p] = "savegid"
    BY <1>1, <1>2 DEF OpenGid, Goto, IInv, TypeOK, Others, locals, past, bounds
  <1>4. Local(p)
    BY DEF IInv
  <1>5. Local(p)'
    BY <1>2, <1>3, <1>4
    DEF OpenGid, At, Local, KeyInMaking, SignerKnown, GidInMaking, SigningKey, SelfSigned, Creating, Signing, Top
  <1>6. GidMatchesKeys'
    <2> SUFFICES ASSUME NEW a \in Auths, gid'[a] \in Gid
                 PROVE  gid'[a].key = pkey'[a] /\ gid'[a].issuer = SigningKey(a)'
      BY DEF GidMatchesKeys, SigningKey, SelfSigned
    <2>1. gid'[a] = gid[a]
      BY <1>1, <1>2 DEF IInv, TypeOK
    <2> QED BY <1>2, <2>1, GidsInv
  <1>7. IssuedLinked'
    BY DEF OpenGid, past, IInv, IssuedLinked
  <1> QED BY <1>1, <1>2, <1>3, <1>5, <1>6, <1>7, LocalsInv DEF IInv

LEMMA SaveGidInv ==
  ASSUME IInv, NEW p \in Procs, SaveGid(p)
  PROVE  IInv' /\ KeysStay
  <1>1. stack[p] # << >> /\ Top(p) \in Auths /\ stack[p] \in Seq(Auths)
    BY TopType DEF SaveGid, At, IInv, Local, Creating, TypeOK
  <1>2. /\ made[p] \in Gid /\ made[p].key = pkey[Top(p)]
        /\ made[p].issuer = SigningKey(Top(p))
    BY <1>1 DEF SaveGid, At, IInv, Local, KeyInMaking, GidInMaking
  <1>3. KeysStay /\ pkey' = pkey /\ gid' = [gid EXCEPT ![Top(p)] = made[p]]
    BY DEF SaveGid, KeysStay
  <1>4. gid' \in [Auths -> Gid \cup {Absent, Empty}]
    BY <1>1, <1>2, <1>3 DEF IInv, TypeOK
  <1>5. /\ Others(p) /\ Local(p)'
        /\ pc' \in [Procs -> {"idle", "parent", "key", "openkey", "savekey", "sign",
                              "readgid", "readkey", "opengid", "savegid"}]
        /\ stack' \in [Procs -> Seq(Auths)] /\ deep' \in [Procs -> BOOLEAN]
        /\ signer' \in [Procs -> Auths \cup {None}]
        /\ made' \in [Procs -> Making]
    <2>1. CASE Return(p)
      BY <2>1, ReturnInv
    <2>2. CASE /\ Tail(stack[p]) # << >> /\ stack' = [stack EXCEPT ![p] = Tail(@)]
               /\ made' = [made EXCEPT ![p] = Blank] /\ Goto(p, "key")
               /\ UNCHANGED <<deep, signer>>
      <3>1. Tail(stack[p]) \in Seq(Auths) /\ Blank \in Making
        BY <1>1, TopIsAuth DEF Blank, Making
      <3>2. Others(p) /\ pc'[p] = "key" /\ stack'[p] # << >>
        BY <2>2 DEF Goto, Others, IInv, TypeOK
      <3>3. Local(p)'
        BY <3>2 DEF Local, KeyInMaking, SignerKnown, GidInMaking, Creating, Signing
      <3> QED BY <2>2, <3>1, <3>2, <3>3 DEF Goto, IInv, TypeOK
    <2> QED BY <2>1, <2>2 DEF SaveGid
  <1>6. TypeOK'
    BY <1>3, <1>4, <1>5 DEF SaveGid, IInv, TypeOK, past, bounds
  <1>7. GidMatchesKeys'
    <2> SUFFICES ASSUME NEW a \in Auths, gid'[a] \in Gid
                 PROVE  gid'[a].key = pkey'[a] /\ gid'[a].issuer = SigningKey(a)'
      BY DEF GidMatchesKeys, SigningKey, SelfSigned
    <2>1. CASE a = Top(p)
      <3>1. gid'[a] = made[p]
        BY <1>1, <1>3, <2>1 DEF IInv, TypeOK
      <3>2. SigningKey(a)' = SigningKey(a)
        BY <1>3 DEF SigningKey, SelfSigned
      <3> QED BY <1>2, <1>3, <2>1, <3>1, <3>2
    <2>2. CASE a # Top(p)
      <3>1. gid'[a] = gid[a]
        BY <1>1, <1>3, <2>2 DEF IInv, TypeOK
      <3> QED BY <1>3, <3>1, GidsInv
    <2> QED BY <2>1, <2>2
  <1>8. IssuedLinked'
    BY DEF SaveGid, past, IInv, IssuedLinked
  <1> QED BY <1>1, <1>3, <1>5, <1>6, <1>7, <1>8, LocalsInv DEF IInv

LEMMA CrashInv ==
  ASSUME IInv, NEW p \in Procs, Crash(p)
  PROVE  IInv' /\ KeysStay
  <1>1. crashes' \in Nat /\ left' \subseteq Auths
    BY TopType DEF Crash, At, IInv, TypeOK, Local, Creating
  <1> QED BY <1>1, StopInv DEF Crash

LEMMA StutterInv ==
  ASSUME IInv, UNCHANGED vars
  PROVE  IInv' /\ KeysStay
  <1>1. TypeOK' /\ OneCreator' /\ IssuedLinked' /\ KeysStay
    BY DEF vars, files, locals, past, bounds, IInv, TypeOK, OneCreator, IssuedLinked, KeysStay
  <1>2. \A p \in Procs : Local(p)'
    BY DEF vars, files, locals, IInv, Local, KeyInMaking, SignerKnown, GidInMaking,
           SigningKey, SelfSigned, Creating, Signing, Top
  <1> QED BY <1>1, <1>2, GidMatchesInv DEF IInv, vars, files

LEMMA NextInv ==
  ASSUME IInv, Exclusive, [Next]_vars
  PROVE  IInv' /\ KeysStay
  <1>1. CASE UNCHANGED vars
    BY <1>1, StutterInv
  <1>2. ASSUME NEW p \in Procs, Create(p) \/ Issue(p) \/ Step(p) \/ Crash(p)
        PROVE  IInv' /\ KeysStay
    BY <1>2, CreateInv, IssueInv, CreateParentInv, LoadKeyInv, OpenKeyInv, SaveKeyInv, SignInv,
       ReadGidInv, ReadKeyInv, OpenGidInv, SaveGidInv, CrashInv DEF Step
  <1> QED BY <1>1, <1>2 DEF Next

-----------------------------------------------------------------------------
(* Chains of gids that are cut short *)

\* What has to hold of the gids of authorities for what they sign to be excused.
ChainKnown(p) ==
    /\ pc[p] = "readkey" => Excused(signer[p], made[p])
    /\ pc[p] \in {"opengid", "savegid"} => Excused(Top(p), made[p])

\* A gid file is empty while a process writes it or since one stopped.
EmptyKnown ==
    \A a \in Auths : gid[a] = Empty => a \in left \/ \E q \in Procs : pc[q] = "savegid" /\ Top(q) = a

ChainInv ==
    /\ EmptyKnown
    /\ \A a \in Auths : gid[a] \in Gid => Excused(a, gid[a])
    /\ \A p \in Procs : ChainKnown(p)
    /\ \A x \in issued : Excused(x[1], x[2])

LEMMA OverSelf == ASSUME NEW a PROVE Over(a, a)
  BY DEF Over

\* What excuses a gid excuses those that are signed with it.
LEMMA ExcusedBelow ==
  ASSUME NEW a, ~SelfSigned(a), NEW g, NEW h, h.whole = g.whole, h.early = g.early, Excused(Parent[a], g)
  PROVE  Excused(a, h)
  <1>1. \A b : Over(b, Parent[a]) => Over(b, a)
    BY DEF Over
  <1> QED BY <1>1 DEF Excused

LEMMA ExcusedStays ==
  ASSUME left \subseteq left', NEW a, NEW g, Excused(a, g)
  PROVE  Excused(a, g)'
  BY DEF Excused, Over, SelfSigned

\* A step that writes no gid file, and issues nothing: who was writing one still
\* does, or has left it empty.
LEMMA ChainStays ==
  ASSUME ChainInv, NEW p \in Procs, Others(p), left \subseteq left', gid' = gid, issued' = issued,
         ChainKnown(p)', pc[p] = "savegid" => Top(p) \in left'
  PROVE  ChainInv'
  <1>1. \A q \in Procs \ {p} : ChainKnown(q)'
    <2> SUFFICES ASSUME NEW q \in Procs \ {p} PROVE ChainKnown(q)'
      OBVIOUS
    <2>1. pc'[q] = pc[q] /\ Top(q)' = Top(q) /\ signer'[q] = signer[q] /\ made'[q] = made[q] /\ ChainKnown(q)
      BY DEF Others, Top, ChainInv
    <2> QED BY <2>1, ExcusedStays DEF ChainKnown, Excused
  <1>2. EmptyKnown'
    BY DEF ChainInv, EmptyKnown, Others, Top
  <1>3. (\A a \in Auths : gid'[a] \in Gid => Excused(a, gid[a])') /\ \A x \in issued' : Excused(x[1], x[2])'
    BY ExcusedStays DEF ChainInv
  <1> QED BY <1>1, <1>2, <1>3 DEF ChainInv, Excused

LEMMA ReturnChain ==
  ASSUME IInv, ChainInv, NEW p \in Procs, Return(p), left \subseteq left', gid' = gid, issued' = issued,
         pc[p] = "savegid" => Top(p) \in left'
  PROVE  ChainInv'
  <1>1. Others(p) /\ pc'[p] = "idle"
    BY ReturnInv DEF Return, Goto, IInv, TypeOK
  <1>2. ChainKnown(p)'
    BY <1>1 DEF ChainKnown
  <1> QED BY <1>1, <1>2, ChainStays

LEMMA RaiseChain ==
  ASSUME IInv, ChainInv, NEW p \in Procs, Raise(p), pc[p] # "savegid"
  PROVE  ChainInv'
  BY ReturnChain DEF Raise, files, past

\* Everything before the gid is signed.
LEMMA EarlyChain ==
  ASSUME IInv, ChainInv, NEW p \in Procs,
         Create(p) \/ Issue(p) \/ CreateParent(p) \/ (LoadKey(p) /\ ~Raise(p)) \/ OpenKey(p) \/ SaveKey(p)
  PROVE  ChainInv'
  <1>1. gid' = gid /\ left' = left /\ issued' = issued /\ pc[p] \notin {"readkey", "opengid", "savegid"}
    BY DEF Create, Issue, CreateParent, LoadKey, NewKey, OpenKey, SaveKey, At, files, past
  <1>2. pc'[p] \notin {"readkey", "opengid", "savegid"}
    BY DEF Create, Issue, CreateParent, LoadKey, NewKey, OpenKey, SaveKey, At, Goto, IInv, TypeOK
  <1>3. Others(p)
    <2>1. CASE Create(p)
      BY <2>1 DEF Create, Goto, Others, IInv, TypeOK
    <2>2. CASE Issue(p)
      BY <2>2 DEF Issue, Goto, Others, IInv, TypeOK
    <2>3. CASE CreateParent(p)
      BY <2>3 DEF CreateParent, Goto, Others, IInv, TypeOK
    <2>4. CASE LoadKey(p) /\ ~Raise(p)
      BY <2>4 DEF LoadKey, NewKey, Goto, Others, IInv, TypeOK
    <2>5. CASE OpenKey(p) \/ SaveKey(p)
      BY <2>5 DEF OpenKey, SaveKey, Goto, Others, IInv, TypeOK, locals
    <2> QED BY <2>1, <2>2, <2>3, <2>4, <2>5
  <1>4. ChainKnown(p)'
    BY <1>2 DEF ChainKnown
  <1> QED BY <1>1, <1>3, <1>4, ChainStays

LEMMA SignChain == ASSUME IInv, ChainInv, NEW p \in Procs, Sign(p) PROVE ChainInv'
  <1>1. gid' = gid /\ left' = left /\ issued' = issued /\ pc[p] # "savegid" /\ Others(p)
    BY DEF Sign, At, Goto, Others, files, past, IInv, TypeOK
  <1>2. ChainKnown(p)'
    <2>1. CASE SelfSigned(Top(p))
      <3>1. pc'[p] = "opengid" /\ made'[p] = SelfSign(made[p]) /\ made[p] \in Making
        BY <2>1 DEF Sign, Goto, IInv, TypeOK
      <3>2. made'[p].whole = TRUE
        BY <3>1, SelfSignType
      <3> QED BY <3>1, <3>2 DEF ChainKnown, Excused
    <2>2. CASE ~SelfSigned(Top(p))
      <3>1. pc'[p] = "readgid"
        BY <2>2 DEF Sign, Goto, IInv, TypeOK
      <3> QED BY <3>1 DEF ChainKnown
    <2> QED BY <2>1, <2>2
  <1> QED BY <1>1, <1>2, ChainStays

\* An empty gid file excuses what is made from it.
LEMMA ReadGidChain == ASSUME IInv, ChainInv, NEW p \in Procs, ReadGid(p) PROVE ChainInv'
  <1> DEFINE a == signer[p]
             m == WithParent(made[p], Loaded(a))
  <1>1. CASE Raise(p)
    BY <1>1, RaiseChain DEF ReadGid, At
  <1>2. CASE ~Raise(p)
    <2>1. /\ Exists(a) /\ made' = [made EXCEPT ![p] = m]
          /\ Goto(p, "readkey") /\ UNCHANGED <<files, stack, deep, signer, keys, past, bounds>>
      BY <1>2 DEF ReadGid
    <2>2. a \in Auths /\ made[p] \in Making /\ pc[p] = "readgid"
      BY DEF ReadGid, At, IInv, TypeOK, Local, SignerKnown, Signing
    <2>3. Excused(a, m)
      <3>1. CASE gid[a] = Empty
        <4>1. /\ Loaded(a).key = 0 /\ Loaded(a).whole = FALSE /\ Loaded(a).early \in BOOLEAN
              /\ Loaded(a).early = (\E q \in Procs : At(q, "savegid") /\ Top(q) = a)
          BY <2>2, <3>1, EmptyLoaded
        <4>2. Loaded(a).key \in Nat /\ Loaded(a).whole \in BOOLEAN
          BY <2>2, <3>1, EmptyLoaded
        <4>3. m.early = Loaded(a).early
          BY <2>2, <4>1, <4>2, WithParentType
        <4> HIDE DEF m
        <4>4. a \in left \/ m.early
          BY <2>2, <3>1, <4>1, <4>3 DEF ChainInv, EmptyKnown, At
        <4> QED BY <4>4, OverSelf DEF Excused
      <3>2. CASE gid[a] # Empty
        <4>1. gid[a] \in Gid /\ Loaded(a) = gid[a]
          BY <2>1, <2>2, <3>2 DEF IInv, TypeOK, Exists, Loaded
        <4>2. m.whole = gid[a].whole /\ m.early = gid[a].early
          BY <2>2, <4>1, WithParentType DEF Gid, Key
        <4>3. Excused(a, gid[a])
          BY <2>2, <4>1 DEF ChainInv
        <4> QED BY <4>2, <4>3 DEF Excused
      <3> QED BY <3>1, <3>2
    <2> HIDE DEF m
    <2>4. gid' = gid /\ left' = left /\ issued' = issued
      BY <2>1 DEF files, past
    <2>5. Others(p) /\ pc'[p] = "readkey" /\ made'[p] = m /\ signer'[p] = a
      BY <2>1, <2>2 DEF Goto, Others, IInv, TypeOK
    <2>6. ChainKnown(p)'
      BY <2>3, <2>4, <2>5, ExcusedStays DEF ChainKnown
    <2> QED BY <2>2, <2>4, <2>5, <2>6, ChainStays
  <1> QED BY <1>1, <1>2

LEMMA ReadKeyChain == ASSUME IInv, ChainInv, NEW p \in Procs, ReadKey(p) PROVE ChainInv'
  <1> DEFINE signed == [made[p] EXCEPT !.issuer = pkey[signer[p]]]
  <1>1. CASE Raise(p)
    BY <1>1, RaiseChain DEF ReadKey, At
  <1>2. /\ pc[p] = "readkey" /\ Excused(signer[p], made[p]) /\ made[p] \in Making
        /\ signed.whole = made[p].whole /\ signed.early = made[p].early
    <2>1. pc[p] = "readkey" /\ made[p] \in Making
      BY DEF ReadKey, At, IInv, TypeOK
    <2> QED BY <2>1 DEF ChainInv, ChainKnown, Making
  <1> HIDE DEF signed
  <1>3. CASE /\ stack[p] # << >> /\ made' = [made EXCEPT ![p] = signed] /\ Goto(p, "opengid")
             /\ UNCHANGED <<files, stack, deep, signer, keys, past, bounds>>
    <2>1. gid' = gid /\ left' = left /\ issued' = issued
      BY <1>3 DEF files, past
    <2>2. Others(p) /\ pc'[p] = "opengid" /\ made'[p] = signed /\ Top(p)' = Top(p)
      BY <1>3 DEF Goto, Others, Top, IInv, TypeOK
    <2>3. ~SelfSigned(Top(p)) /\ signer[p] = Parent[Top(p)]
      BY <1>2, <1>3 DEF IInv, Local, SignerKnown, Signing
    <2>4. Excused(Top(p), signed)
      BY <1>2, <2>3, ExcusedBelow
    <2>5. ChainKnown(p)'
      BY <2>1, <2>2, <2>4, ExcusedStays DEF ChainKnown
    <2> QED BY <1>2, <2>1, <2>2, <2>5, ChainStays
  <1>4. CASE issued' = issued \cup {<<signer[p], signed>>} /\ Return(p) /\ UNCHANGED <<files, keys, left, bounds>>
    <2>1. gid' = gid /\ left' = left /\ Others(p) /\ pc'[p] = "idle"
      BY <1>4, ReturnInv DEF files, Return, Goto, IInv, TypeOK
    <2>2. Excused(signer[p], signed)
      BY <1>2 DEF Excused
    <2>3. \A x \in issued' : Excused(x[1], x[2])'
      BY <1>4, <2>1, <2>2, ExcusedStays DEF ChainInv
    <2>4. EmptyKnown'
      BY <1>2, <2>1 DEF ChainInv, EmptyKnown, Others, Top
    <2>5. \A a \in Auths : gid'[a] \in Gid => Excused(a, gid[a])'
      BY <2>1, ExcusedStays DEF ChainInv
    <2>6. \A q \in Procs : ChainKnown(q)'
      <3> SUFFICES ASSUME NEW q \in Procs, q # p PROVE ChainKnown(q)'
        BY <2>1 DEF ChainKnown
      <3>1. pc'[q] = pc[q] /\ Top(q)' = Top(q) /\ signer'[q] = signer[q] /\ made'[q] = made[q] /\ ChainKnown(q)
        BY <2>1 DEF Others, Top, ChainInv
      <3> QED BY <2>1, <3>1, ExcusedStays DEF ChainKnown, Excused
    <2> QED BY <2>1, <2>3, <2>4, <2>5, <2>6 DEF ChainInv
  <1> QED BY <1>1, <1>3, <1>4 DEF ReadKey, signed

\* What a write of a gid file leaves of the files and of the other processes.
LEMMA WriteChain ==
  ASSUME IInv, ChainInv, NEW p \in Procs, Others(p), left' = left, issued' = issued, ChainKnown(p)', EmptyKnown',
         NEW b \in Auths, \A a \in Auths \ {b} : gid'[a] = gid[a],
         gid'[b] \in Gid => Excused(b, gid[b])'
  PROVE  ChainInv'
  <1>1. \A q \in Procs : ChainKnown(q)'
    <2> SUFFICES ASSUME NEW q \in Procs, q # p PROVE ChainKnown(q)'
      OBVIOUS
    <2>1. pc'[q] = pc[q] /\ Top(q)' = Top(q) /\ signer'[q] = signer[q] /\ made'[q] = made[q] /\ ChainKnown(q)
      BY DEF Others, Top, ChainInv
    <2> QED BY <2>1, ExcusedStays DEF ChainKnown, Excused
  <1>2. \A a \in Auths : gid'[a] \in Gid => Excused(a, gid[a])'
    <2> SUFFICES ASSUME NEW a \in Auths, gid'[a] \in Gid PROVE Excused(a, gid[a])'
      OBVIOUS
    <2>1. CASE a = b
      BY <2>1 DEF Excused, Over, SelfSigned
    <2>2. CASE a # b
      <3>1. gid'[a] = gid[a] /\ Excused(a, gid[a])
        BY <2>2 DEF ChainInv
      <3> QED BY <3>1, ExcusedStays DEF Excused
    <2> QED BY <2>1, <2>2
  <1>3. \A x \in issued' : Excused(x[1], x[2])'
    BY ExcusedStays DEF ChainInv
  <1> QED BY <1>1, <1>2, <1>3 DEF ChainInv

LEMMA OpenGidChain == ASSUME IInv, ChainInv, NEW p \in Procs, OpenGid(p) PROVE ChainInv'
  <1>1. Top(p) \in Auths /\ pc[p] = "opengid" /\ Excused(Top(p), made[p])
    BY TopType DEF OpenGid, At, IInv, Local, Creating, ChainInv, ChainKnown
  <1>2. /\ left' = left /\ issued' = issued /\ Top(p)' = Top(p) /\ made' = made /\ Others(p)
        /\ pc'[p] = "savegid" /\ gid' = [gid EXCEPT ![Top(p)] = Empty]
    BY DEF OpenGid, Goto, Others, Top, locals, past, IInv, TypeOK
  <1>3. ChainKnown(p)'
    BY <1>1, <1>2, ExcusedStays DEF ChainKnown, Excused
  <1>4. gid'[Top(p)] = Empty /\ \A a \in Auths \ {Top(p)} : gid'[a] = gid[a]
    BY <1>1, <1>2 DEF IInv, TypeOK
  <1>5. EmptyKnown'
    <2> SUFFICES ASSUME NEW a \in Auths, gid'[a] = Empty
                 PROVE  a \in left' \/ \E q \in Procs : pc'[q] = "savegid" /\ Top(q)' = a
      BY DEF EmptyKnown
    <2>1. CASE a = Top(p)
      BY <1>2, <2>1
    <2>2. CASE a # Top(p)
      <3>1. a \in left \/ \E q \in Procs : pc[q] = "savegid" /\ Top(q) = a
        BY <1>4, <2>2 DEF ChainInv, EmptyKnown
      <3> QED BY <1>1, <1>2, <3>1 DEF Others, Top
    <2> QED BY <2>1, <2>2
  <1> QED BY <1>1, <1>2, <1>3, <1>4, <1>5, WriteChain

LEMMA SaveGidChain == ASSUME IInv, ChainInv, NEW p \in Procs, SaveGid(p) PROVE ChainInv'
  <1>1. /\ Top(p) \in Auths /\ pc[p] = "savegid" /\ Excused(Top(p), made[p]) /\ made[p] \in Gid
        /\ stack[p] # << >>
    BY TopType DEF SaveGid, At, IInv, Local, Creating, GidInMaking, ChainInv, ChainKnown
  <1>2. left' = left /\ issued' = issued /\ gid' = [gid EXCEPT ![Top(p)] = made[p]]
    BY DEF SaveGid, past
  <1>3. Others(p) /\ pc'[p] \in {"idle", "key"}
    <2>1. CASE Return(p)
      BY <2>1, ReturnInv DEF Return, Goto, IInv, TypeOK
    <2>2. CASE ~Return(p)
      BY <2>2 DEF SaveGid, Goto, Others, IInv, TypeOK
    <2> QED BY <2>1, <2>2
  <1>4. ChainKnown(p)'
    BY <1>3 DEF ChainKnown
  <1>5. gid'[Top(p)] = made[p] /\ \A a \in Auths \ {Top(p)} : gid'[a] = gid[a]
    BY <1>1, <1>2 DEF IInv, TypeOK
  <1>6. EmptyKnown'
    <2> SUFFICES ASSUME NEW a \in Auths, gid'[a] = Empty
                 PROVE  a \in left' \/ \E q \in Procs : pc'[q] = "savegid" /\ Top(q)' = a
      BY DEF EmptyKnown
    <2>1. a # Top(p)
      BY <1>1, <1>5
    <2>2. a \in left \/ \E q \in Procs : pc[q] = "savegid" /\ Top(q) = a
      BY <1>5, <2>1 DEF ChainInv, EmptyKnown
    <2> QED BY <1>2, <1>3, <2>1, <2>2 DEF Others, Top
  <1>7. PICK b \in Auths : b = Top(p)
    BY <1>1
  <1>8. gid'[b] \in Gid => Excused(b, gid[b])'
    BY <1>1, <1>2, <1>5, <1>7 DEF Excused, Over, SelfSigned
  <1> QED BY <1>2, <1>3, <1>4, <1>5, <1>6, <1>7, <1>8, WriteChain

LEMMA CrashChain == ASSUME IInv, ChainInv, NEW p \in Procs, Crash(p) PROVE ChainInv'
  BY ReturnChain DEF Crash, At, files

LEMMA NextChain ==
  ASSUME IInv, ChainInv, [Next]_vars
  PROVE  ChainInv'
  <1>1. CASE UNCHANGED vars
    <2>1. UNCHANGED <<gid, pc, stack, signer, made, issued, left>>
      BY <1>1 DEF vars, files, locals, past
    <2> QED BY <2>1 DEF ChainInv, EmptyKnown, ChainKnown, Excused, Over, SelfSigned, Top
  <1>2. ASSUME NEW p \in Procs, Create(p) \/ Issue(p) \/ Step(p) \/ Crash(p)
        PROVE  ChainInv'
    <2>1. CASE LoadKey(p) /\ Raise(p)
      BY <2>1, RaiseChain DEF LoadKey, At
    <2> QED BY <1>2, <2>1, EarlyChain, SignChain, ReadGidChain, ReadKeyChain, OpenGidChain, SaveGidChain, CrashChain
         DEF Step
  <1> QED BY <1>1, <1>2 DEF Next

-----------------------------------------------------------------------------
(* Theorems *)

LEMMA Invariance == ASSUME Exclusive PROVE Spec => []IInv
  <1>1. IInv /\ [Next]_vars => IInv'
    BY NextInv
  <1> QED BY InitInv, <1>1, PTL DEF Spec

\* The variables keep their types: files hold keys and complete gids or
\* nothing, processes create authorities and sign with authorities.
THEOREM TypeCorrect == ASSUME Exclusive PROVE Spec => []TypeOK
  <1>1. IInv => TypeOK
    BY DEF IInv
  <1> QED BY <1>1, Invariance, PTL

\* The gid that create_gid saves certifies the key in the key file and is
\* signed with the parent's, whichever of the four writes were cut short.
THEOREM GidsMatchKeys == ASSUME Exclusive PROVE Spec => []GidMatchesKeys
  <1>1. IInv => GidMatchesKeys
    BY DEF IInv
  <1> QED BY <1>1, Invariance, PTL

\* Gids for users, slices and nodes come with the chain that verifies them, even
\* when their authority is made again between the reading of its gid and the
\* reading of its key, or with one cut where a gid file was empty (create_gid).
THEOREM IssuedOnesVerify == ASSUME Exclusive PROVE Spec => []IssuedVerifies
  <1>1. Init => ChainInv
    <2>1. ASSUME Init PROVE EmptyKnown /\ \A a \in Auths : gid[a] \notin Gid
      BY <2>1 DEF Init, EmptyKnown
    <2> QED BY <2>1 DEF Init, ChainInv, ChainKnown
  <1>2. IInv /\ IInv' /\ ChainInv /\ [Next]_vars => ChainInv'
    BY NextChain
  <1>3. IInv /\ ChainInv => IssuedVerifies
    BY DEF IInv, IssuedLinked, ChainInv, IssuedVerifies
  <1> QED BY <1>1, <1>2, <1>3, Invariance, PTL DEF Spec

\* No step of any process, a reset or a crash among them, replaces a key.
THEOREM KeysStayForEver == ASSUME Exclusive PROVE Spec => KeysAreKept
  <1>1. IInv /\ [Next]_vars => [\A a \in Auths : pkey[a] \in Key => pkey'[a] = pkey[a]]_vars
    BY NextInv DEF KeysStay
  <1> QED BY <1>1, Invariance, PTL DEF Spec, KeysAreKept

-----------------------------------------------------------------------------
(* Resolve with details *)

\* Whom a request that is under way has enrolled at the testbed alone, and what
\* it has erased there alone.
Coming == IF Pending("enrol") THEN pending.to ELSE {}
Going == IF Pending("erase") THEN pending.to ELSE {}

StoresTyped ==
  /\ bed \in {"planetlab", "dummy"}
  /\ enrolled \subseteq Hrns
  /\ researchers \subseteq enrolled \cap Users /\ pis \subseteq enrolled \cap Users
  /\ accounts \subseteq Users /\ members \subseteq Users
  /\ pending \in PendingRequest \cup {Nothing}

ObjectsThere ==
  /\ objects \subseteq {SliceHrn, SiteHrn}
  /\ bed = "dummy" => SiteHrn \notin objects
  /\ bed = "planetlab" /\ SliceHrn \in objects => SiteHrn \in objects

PendingMatches ==
  /\ Pending("link") => pending.to = researchers
  /\ Pending("lead") => pending.to = pis
  /\ Pending("enrol") => pending.to \subseteq Users
  /\ Pending("erase") => pending.to \cap objects = {}

\* Records and testbed agree but for what the request under way has still to do,
\* and but for what went away with the site.
AccountsMatch ==
  (bed = "dummy" \/ SiteHrn \in objects) => accounts = ((enrolled \cap Users) \cup Coming) \ Going
MembersMatch ==
  (SliceHrn \in objects /\ ~Pending("link")) => members = researchers \ Going
LeadsMatch ==
  (SiteHrn \in objects /\ ~Pending("lead")) => pis \ Going \subseteq leads

Stores ==
  /\ StoresTyped /\ ObjectsThere /\ PendingMatches
  /\ AccountsMatch /\ MembersMatch /\ LeadsMatch

ViewTyped == view \in View \cup {Nothing} /\ (view = Nothing <=> stage = "idle")

\* What was so all the time is in what has been read.
SteadyRead ==
  view # Nothing =>
    /\ view.steady \subseteq researchers \cap members
    /\ view.ofSlice # Nothing => view.steady \subseteq view.ofSlice
    /\ stage = "roles" => view.steady \subseteq view.records

\* What Resolve has read alone is still so.
AloneRead ==
  view # Nothing /\ view.alone =>
    /\ pending = Nothing
    /\ view.found \subseteq enrolled
    /\ stage # "builtins" /\ SliceHrn \in view.found => view.links = researchers
    /\ stage # "builtins" /\ SiteHrn \in view.found => view.heads = pis
    /\ view.ofSlice # Nothing => SliceHrn \in view.found \cap objects /\ view.ofSlice = members
    /\ view.ofSite # Nothing => SiteHrn \in view.found \cap objects /\ view.ofSite = accounts
    /\ stage = "roles" => view.records = enrolled

Reading == ViewTyped /\ SteadyRead /\ AloneRead

DetailsInv == Stores /\ Reading /\ DetailsAgree

LEMMA NoneUnderWay ==
  ASSUME pending = Nothing
  PROVE  Going = {} /\ Coming = {} /\ \A op : ~Pending(op)
  BY DEF Going, Coming, Pending

LEMMA DetailsInitially == DetailsInit => DetailsInv
  <1> SUFFICES ASSUME DetailsInit PROVE DetailsInv
    OBVIOUS
  <1>1. pending = Nothing /\ view = Nothing /\ stage = "idle" /\ told = Nothing
    BY DEF DetailsInit
  <1>2. Reading /\ DetailsAgree
    BY <1>1 DEF Reading, ViewTyped, SteadyRead, AloneRead, DetailsAgree
  <1>3. Going = {} /\ Coming = {} /\ \A op : ~Pending(op)
    BY <1>1, NoneUnderWay
  <1>4. used \subseteq Users /\ enrolled = used \cup {SliceHrn, SiteHrn} /\ accounts = used
    BY DEF DetailsInit
  <1>5. researchers \subseteq used /\ pis \subseteq used /\ members = researchers /\ leads = pis
    BY DEF DetailsInit
  <1>6. StoresTyped
    BY <1>1, <1>4, <1>5 DEF StoresTyped, Hrns, DetailsInit
  <1>7. ObjectsThere
    BY HrnsAssumption DEF ObjectsThere, DetailsInit
  <1>8. PendingMatches
    BY <1>3 DEF PendingMatches
  <1>9. AccountsMatch /\ MembersMatch /\ LeadsMatch
    BY <1>3, <1>4, <1>5, HrnsAssumption DEF AccountsMatch, MembersMatch, LeadsMatch
  <1> QED
    BY <1>2, <1>6, <1>7, <1>8, <1>9 DEF DetailsInv, Stores

-----------------------------------------------------------------------------
(* Steps of Resolve *)

LEMMA StillStores ==
  ASSUME Stores, Still
  PROVE  Stores'
  BY DEF Stores, Still, registry, plc, StoresTyped, ObjectsThere, PendingMatches, AccountsMatch,
         MembersMatch, LeadsMatch, Going, Coming, Pending

LEMMA ReadGoesOn ==
  ASSUME NEW next, NEW seen, Read(next, seen), seen \in View, next # "idle"
  PROVE  /\ stage' = next /\ view' = seen /\ view' # Nothing
         /\ ViewTyped' /\ DetailsAgree'
  BY NothingAssumption DEF Read, ViewTyped, DetailsAgree

LEMMA ResolveRecordsReads ==
  ASSUME DetailsInv, ResolveRecords
  PROVE  Reading' /\ DetailsAgree'
  <1>1. Still
    BY DEF ResolveRecords
  <1>2. PICK names \in AskedFor :
          Read("builtins",
               [found |-> names \cap enrolled, links |-> {}, heads |-> {}, ofSlice |-> Nothing,
                ofSite |-> Nothing, pis |-> {}, records |-> {},
                alone |-> pending = Nothing, steady |-> researchers \cap members])
    BY DEF ResolveRecords
  <1>3. PICK seen : seen =
               [found |-> names \cap enrolled, links |-> {}, heads |-> {}, ofSlice |-> Nothing,
                ofSite |-> Nothing, pis |-> {}, records |-> {},
                alone |-> pending = Nothing, steady |-> researchers \cap members]
    OBVIOUS
  <1>4. seen \in View
    <2>1. PICK calm \in BOOLEAN : calm = (pending = Nothing)
      OBVIOUS
    <2>2. names \cap enrolled \in SUBSET Hrns /\ researchers \cap members \in SUBSET Users
      BY DEF DetailsInv, Stores, StoresTyped
    <2>3. seen = [found |-> names \cap enrolled, links |-> {}, heads |-> {}, ofSlice |-> Nothing,
                  ofSite |-> Nothing, pis |-> {}, records |-> {},
                  alone |-> calm, steady |-> researchers \cap members]
      BY <1>3, <2>1, Zenon
    <2>4. /\ {} \in SUBSET Users /\ {} \in SUBSET Hrns
          /\ Nothing \in (SUBSET Users) \cup {Nothing}
      BY Zenon
    <2> QED
      BY <2>1, <2>2, <2>3, <2>4, Zenon DEF View
  <1>5. /\ stage' = "builtins" /\ view' = seen /\ view' # Nothing
        /\ ViewTyped' /\ DetailsAgree'
    BY <1>2, <1>3, <1>4, ReadGoesOn
  <1>6. SteadyRead'
    BY <1>1, <1>3, <1>5 DEF SteadyRead, Still, registry, plc
  <1>7. AloneRead'
    <2>1. seen.alone = (pending = Nothing)
      BY <1>3, Zenon
    <2>2. seen.found \subseteq enrolled /\ seen.ofSlice = Nothing /\ seen.ofSite = Nothing
      BY <1>3
    <2>3. pending' = pending /\ enrolled' = enrolled
      BY <1>1 DEF Still, registry
    <2>4. seen.alone => pending' = Nothing
      BY <2>1, <2>3, Zenon
    <2> QED
      BY <1>5, <2>2, <2>3, <2>4 DEF AloneRead
  <1> QED
    BY <1>5, <1>6, <1>7 DEF Reading

LEMMA AugmentReads ==
  ASSUME DetailsInv, Augment
  PROVE  Reading' /\ DetailsAgree'
  <1>1. Still /\ stage = "builtins"
    BY DEF Augment
  <1>2. view \in View /\ view # Nothing
    BY <1>1 DEF DetailsInv, Reading, ViewTyped
  <1>3. PICK seen : seen =
          [view EXCEPT !.links = IF SliceHrn \in view.found THEN researchers ELSE {},
                       !.heads = IF SiteHrn \in view.found THEN pis ELSE {}]
    OBVIOUS
  <1>4. PICK next : next = IF bed = "dummy" THEN "slices" ELSE "sites"
    OBVIOUS
  <1>5. researchers \in SUBSET Users /\ pis \in SUBSET Users
    BY DEF DetailsInv, Stores, StoresTyped
  <1>6. seen \in View
    BY <1>2, <1>3, <1>5 DEF View
  <1>7. Read(next, seen)
    BY <1>3, <1>4 DEF Augment
  <1>8. stage' = next /\ view' = seen /\ ViewTyped' /\ DetailsAgree'
    BY <1>4, <1>6, <1>7, ReadGoesOn
  <1>9. /\ seen.steady = view.steady /\ seen.found = view.found /\ seen.alone = view.alone
        /\ seen.ofSlice = view.ofSlice /\ seen.ofSite = view.ofSite
        /\ SliceHrn \in view.found => seen.links = researchers
        /\ SiteHrn \in view.found => seen.heads = pis
    BY <1>2, <1>3 DEF View
  <1>10. SteadyRead'
    BY <1>1, <1>2, <1>4, <1>8, <1>9 DEF SteadyRead, Still, registry, plc, DetailsInv, Reading
  <1>11. AloneRead'
    BY <1>1, <1>2, <1>4, <1>8, <1>9 DEF AloneRead, Still, registry, plc, DetailsInv, Reading
  <1> QED
    BY <1>8, <1>10, <1>11 DEF Reading

LEMMA GetSiteRecordsReads ==
  ASSUME DetailsInv, GetSiteRecords
  PROVE  Reading' /\ DetailsAgree'
  <1>1. Still /\ stage = "sites"
    BY DEF GetSiteRecords
  <1>2. view \in View /\ view # Nothing
    BY <1>1 DEF DetailsInv, Reading, ViewTyped
  <1>3. PICK seen : seen = IF SiteHrn \in view.found \cap objects
                           THEN [view EXCEPT !.ofSite = accounts] ELSE view
    OBVIOUS
  <1>4. accounts \in SUBSET Users
    BY DEF DetailsInv, Stores, StoresTyped
  <1>5. seen \in View
    BY <1>2, <1>3, <1>4 DEF View
  <1>6. Read("slices", seen)
    BY <1>3 DEF GetSiteRecords
  <1>7. stage' = "slices" /\ view' = seen /\ ViewTyped' /\ DetailsAgree'
    BY <1>5, <1>6, ReadGoesOn
  <1>8. /\ seen.steady = view.steady /\ seen.found = view.found /\ seen.alone = view.alone
        /\ seen.ofSlice = view.ofSlice /\ seen.links = view.links /\ seen.heads = view.heads
        /\ seen.ofSite = view.ofSite \/ (SiteHrn \in view.found \cap objects /\ seen.ofSite = accounts)
    BY <1>2, <1>3 DEF View
  <1>9. SteadyRead'
    BY <1>1, <1>2, <1>7, <1>8 DEF SteadyRead, Still, registry, plc, DetailsInv, Reading
  <1>10. AloneRead'
    BY <1>1, <1>2, <1>7, <1>8 DEF AloneRead, Still, registry, plc, DetailsInv, Reading
  <1> QED
    BY <1>7, <1>9, <1>10 DEF Reading

LEMMA GetSliceRecordsReads ==
  ASSUME DetailsInv, GetSliceRecords
  PROVE  Reading' /\ DetailsAgree'
  <1>1. Still /\ stage = "slices"
    BY DEF GetSliceRecords
  <1>2. view \in View /\ view # Nothing
    BY <1>1 DEF DetailsInv, Reading, ViewTyped
  <1>3. PICK seen : seen = IF SliceHrn \in view.found \cap objects
                           THEN [view EXCEPT !.ofSlice = members] ELSE view
    OBVIOUS
  <1>4. members \in SUBSET Users
    BY DEF DetailsInv, Stores, StoresTyped
  <1>5. seen \in View
    BY <1>2, <1>3, <1>4 DEF View
  <1>6. Read("persons", seen)
    BY <1>3 DEF GetSliceRecords
  <1>7. stage' = "persons" /\ view' = seen /\ ViewTyped' /\ DetailsAgree'
    BY <1>5, <1>6, ReadGoesOn
  <1>8. /\ seen.steady = view.steady /\ seen.found = view.found /\ seen.alone = view.alone
        /\ seen.ofSite = view.ofSite /\ seen.links = view.links /\ seen.heads = view.heads
        /\ seen.ofSlice = view.ofSlice \/ (SliceHrn \in view.found \cap objects /\ seen.ofSlice = members)
    BY <1>2, <1>3 DEF View
  <1>9. SteadyRead'
    BY <1>1, <1>2, <1>7, <1>8 DEF SteadyRead, Still, registry, plc, DetailsInv, Reading
  <1>10. AloneRead'
    BY <1>1, <1>2, <1>7, <1>8 DEF AloneRead, Still, registry, plc, DetailsInv, Reading
  <1> QED
    BY <1>7, <1>9, <1>10 DEF Reading

\* A step that reads nothing of what is compared.
LEMMA SameView ==
  ASSUME DetailsInv, Still, NEW next, next \notin {"idle", "builtins", "roles"},
         stage \notin {"idle", "builtins"}, NEW seen, seen \in View, Read(next, seen),
         \A field \in {"steady", "found", "alone", "ofSlice", "ofSite", "links", "heads"} :
           seen[field] = view[field]
  PROVE  Reading' /\ DetailsAgree'
  <1>1. view \in View /\ view # Nothing
    BY DEF DetailsInv, Reading, ViewTyped
  <1>2. stage' = next /\ view' = seen /\ ViewTyped' /\ DetailsAgree'
    BY ReadGoesOn
  <1>3. /\ seen.steady = view.steady /\ seen.found = view.found /\ seen.alone = view.alone
        /\ seen.ofSlice = view.ofSlice /\ seen.ofSite = view.ofSite
        /\ seen.links = view.links /\ seen.heads = view.heads
    OBVIOUS
  <1>4. SteadyRead'
    BY <1>1, <1>2, <1>3 DEF SteadyRead, Still, registry, plc, DetailsInv, Reading
  <1>5. AloneRead'
    BY <1>1, <1>2, <1>3 DEF AloneRead, Still, registry, plc, DetailsInv, Reading
  <1> QED
    BY <1>2, <1>4, <1>5 DEF Reading

LEMMA ToldReads ==
  ASSUME NEW fault, NEW named, Tell(fault, named)
  PROVE  Reading' /\ told' = [fault |-> fault, named |-> named, view |-> view]
  BY DEF Tell, Reading, ViewTyped, SteadyRead, AloneRead

\* A fault of an undisturbed request.
LEMMA FaultAgrees ==
  ASSUME DetailsInv, Still, Tell(TRUE, Nothing),
         view.alone => bed = "dummy" /\ SliceHrn \in view.found /\ onNodes
  PROVE  Reading' /\ DetailsAgree'
  <1>1. Reading' /\ told' = [fault |-> TRUE, named |-> Nothing, view |-> view]
    BY ToldReads
  <1>2. told'.fault /\ told'.view = view
    BY <1>1
  <1>3. bed' = bed /\ onNodes' = onNodes
    BY DEF Still, plc
  <1> QED
    BY <1>1, <1>2, <1>3 DEF DetailsAgree

LEMMA GetUserRecordsReads ==
  ASSUME DetailsInv, GetUserRecords
  PROVE  Reading' /\ DetailsAgree'
  <1>1. Still /\ stage = "persons"
    BY DEF GetUserRecords
  <1>2. view \in View /\ view # Nothing
    BY <1>1 DEF DetailsInv, Reading, ViewTyped
  <1>3. CASE Read("hrns", view)
    BY <1>1, <1>2, <1>3, SameView
  <1>4. CASE bed = "dummy" /\ ~(view.found \cap Users \subseteq accounts) /\ Tell(TRUE, Nothing)
    <2>1. ASSUME view.alone PROVE FALSE
      <3>1. pending = Nothing /\ view.found \subseteq enrolled
        BY <1>2, <2>1 DEF DetailsInv, Reading, AloneRead
      <3>2. accounts = enrolled \cap Users
        BY <1>4, <3>1, NoneUnderWay DEF DetailsInv, Stores, AccountsMatch
      <3> QED
        BY <1>4, <3>1, <3>2
    <2> QED
      BY <1>1, <1>4, <2>1, FaultAgrees
  <1> QED
    BY <1>3, <1>4 DEF GetUserRecords

LEMMA FillHrnsReads ==
  ASSUME DetailsInv, FillHrns
  PROVE  Reading' /\ DetailsAgree'
  <1>1. Still /\ stage = "hrns"
    BY DEF FillHrns
  <1>2. view \in View /\ view # Nothing
    BY <1>1 DEF DetailsInv, Reading, ViewTyped
  <1>3. CASE Read(IF bed = "dummy" THEN "records" ELSE "pis", view)
    <2>1. PICK next : next = IF bed = "dummy" THEN "records" ELSE "pis"
      OBVIOUS
    <2> QED
      BY <1>1, <1>2, <1>3, <2>1, SameView
  <1>4. CASE Unnamed /\ Tell(TRUE, Nothing)
    <2>1. ASSUME view.alone PROVE bed = "dummy" /\ SliceHrn \in view.found /\ onNodes
      <3>1. /\ view.ofSlice # Nothing => SliceHrn \in view.found \cap objects
            /\ view.ofSite # Nothing => SiteHrn \in view.found \cap objects
        BY <1>2, <2>1 DEF DetailsInv, Reading, AloneRead
      <3>2. bed \in {"planetlab", "dummy"} /\ (bed = "planetlab" /\ SliceHrn \in objects => SiteHrn \in objects)
        BY DEF DetailsInv, Stores, StoresTyped, ObjectsThere
      <3> QED
        BY <1>4, <3>1, <3>2 DEF Unnamed, HasSite
    <2> QED
      BY <1>1, <1>4, <2>1, FaultAgrees
  <1> QED
    BY <1>3, <1>4 DEF FillHrns

LEMMA GetPIsReads ==
  ASSUME DetailsInv, GetPIs
  PROVE  Reading' /\ DetailsAgree'
  <1>1. Still /\ stage = "pis"
    BY DEF GetPIs
  <1>2. view \in View /\ view # Nothing
    BY <1>1 DEF DetailsInv, Reading, ViewTyped
  <1>3. PICK seen : seen = IF HasSite THEN [view EXCEPT !.pis = leads \cap accounts] ELSE view
    OBVIOUS
  <1>4. leads \cap accounts \in SUBSET Users
    BY DEF DetailsInv, Stores, StoresTyped
  <1>5. seen \in View
    BY <1>2, <1>3, <1>4 DEF View
  <1>6. Read("records", seen)
    BY <1>3 DEF GetPIs
  <1>7. \A field \in {"steady", "found", "alone", "ofSlice", "ofSite", "links", "heads"} :
           seen[field] = view[field]
    BY <1>2, <1>3 DEF View
  <1> QED
    BY <1>1, <1>5, <1>6, <1>7, SameView

LEMMA GetRecordsReads ==
  ASSUME DetailsInv, GetRecords
  PROVE  Reading' /\ DetailsAgree'
  <1>1. Still /\ stage = "records"
    BY DEF GetRecords
  <1>2. view \in View /\ view # Nothing
    BY <1>1 DEF DetailsInv, Reading, ViewTyped
  <1>3. PICK seen : seen = [view EXCEPT !.records = enrolled]
    OBVIOUS
  <1>4. enrolled \in SUBSET Hrns
    BY DEF DetailsInv, Stores, StoresTyped
  <1>5. seen \in View
    BY <1>2, <1>3, <1>4 DEF View
  <1>6. Read("roles", seen)
    BY <1>3 DEF GetRecords
  <1>7. stage' = "roles" /\ view' = seen /\ ViewTyped' /\ DetailsAgree'
    BY <1>5, <1>6, ReadGoesOn
  <1>8. /\ seen.steady = view.steady /\ seen.found = view.found /\ seen.alone = view.alone
        /\ seen.ofSlice = view.ofSlice /\ seen.ofSite = view.ofSite
        /\ seen.links = view.links /\ seen.heads = view.heads /\ seen.records = enrolled
    BY <1>2, <1>3 DEF View
  <1>9. researchers \subseteq enrolled
    BY DEF DetailsInv, Stores, StoresTyped
  <1>10. SteadyRead'
    BY <1>1, <1>2, <1>7, <1>8, <1>9 DEF SteadyRead, Still, registry, plc, DetailsInv, Reading
  <1>11. AloneRead'
    BY <1>1, <1>2, <1>7, <1>8 DEF AloneRead, Still, registry, plc, DetailsInv, Reading
  <1> QED
    BY <1>7, <1>10, <1>11 DEF Reading

LEMMA FillSfaInfoReads ==
  ASSUME DetailsInv, FillSfaInfo
  PROVE  Reading' /\ DetailsAgree'
  <1>1. Still /\ stage = "roles"
    BY DEF FillSfaInfo
  <1>2. view \in View /\ view # Nothing
    BY <1>1 DEF DetailsInv, Reading, ViewTyped
  <1>3. PICK named : named = [researcher |-> WithPointer(IdsOf(view.ofSlice)),
                              PI |-> WithPointer(view.pis),
                              sitePI |-> WithPointer(IdsOf(view.ofSite) \cap accounts \cap leads)]
    OBVIOUS
  <1>4. Tell(FALSE, named)
    BY <1>3 DEF FillSfaInfo
  <1>5. Reading' /\ told' = [fault |-> FALSE, named |-> named, view |-> view]
    BY <1>4, ToldReads
  <1>6. told'.fault = FALSE /\ told'.named = named /\ told'.view = view
    BY <1>5
  <1>7. ASSUME view.ofSlice # Nothing
        PROVE  view.steady \subseteq named.researcher
    <2>1. view.steady \subseteq view.records /\ view.steady \subseteq view.ofSlice
      BY <1>1, <1>2, <1>7 DEF DetailsInv, Reading, SteadyRead
    <2> QED
      BY <1>3, <1>7, <2>1 DEF WithPointer, IdsOf
  <1>8. ASSUME view.alone, view.ofSlice # Nothing
        PROVE  /\ named.researcher \cap Users = view.links
               /\ \A h \in named.researcher \ Users : \E u \in view.links : Pointer[h] = Pointer[u]
    <2>1. /\ pending = Nothing /\ view.records = enrolled
          /\ SliceHrn \in view.found \cap objects /\ view.ofSlice = members
          /\ view.links = researchers
      BY <1>1, <1>2, <1>8 DEF DetailsInv, Reading, AloneRead
    <2>2. members = researchers
      BY <2>1, NoneUnderWay DEF DetailsInv, Stores, MembersMatch
    <2>3. named.researcher = {h \in enrolled : \E p \in members : Pointer[h] = Pointer[p]}
      BY <1>3, <1>8, <2>1 DEF WithPointer, IdsOf
    <2>4. researchers \subseteq enrolled \cap Users
      BY DEF DetailsInv, Stores, StoresTyped
    <2> QED
      BY <2>1, <2>2, <2>3, <2>4, PointerAssumption
  <1>9. ASSUME view.alone, view.ofSite # Nothing
        PROVE  view.heads \subseteq named.sitePI
    <2>1. /\ pending = Nothing /\ view.records = enrolled
          /\ SiteHrn \in view.found \cap objects /\ view.ofSite = accounts
          /\ view.heads = pis
      BY <1>1, <1>2, <1>9 DEF DetailsInv, Reading, AloneRead
    <2>2. pis \subseteq leads /\ accounts = enrolled \cap Users
      BY <2>1, NoneUnderWay DEF DetailsInv, Stores, LeadsMatch, AccountsMatch
    <2>3. pis \subseteq enrolled \cap Users
      BY DEF DetailsInv, Stores, StoresTyped
    <2>4. named.sitePI = {h \in enrolled : \E p \in accounts \cap leads : Pointer[h] = Pointer[p]}
      BY <1>3, <1>9, <2>1 DEF WithPointer, IdsOf
    <2> QED
      BY <2>1, <2>2, <2>3, <2>4
  <1> QED
    BY <1>5, <1>6, <1>7, <1>8, <1>9 DEF DetailsAgree

LEMMA ReaderKeeps ==
  ASSUME DetailsInv, ReaderNext
  PROVE  DetailsInv'
  <1>1. Still
    BY DEF ReaderNext, ResolveRecords, Augment, GetSiteRecords, GetSliceRecords, GetUserRecords,
           FillHrns, GetPIs, GetRecords, FillSfaInfo
  <1>2. Stores'
    BY <1>1, StillStores DEF DetailsInv
  <1>3. Reading' /\ DetailsAgree'
    BY ResolveRecordsReads, AugmentReads, GetSiteRecordsReads, GetSliceRecordsReads,
       GetUserRecordsReads, FillHrnsReads, GetPIsReads, GetRecordsReads, FillSfaInfoReads DEF ReaderNext
  <1> QED
    BY <1>2, <1>3 DEF DetailsInv

-----------------------------------------------------------------------------
(* Steps of the other requests *)

LEMMA DisturbedReads ==
  ASSUME DetailsInv, Disturb, researchers' \subseteq Hrns
  PROVE  Reading' /\ DetailsAgree'
  <1>1. DetailsAgree'
    BY DEF Disturb, DetailsAgree
  <1>2. CASE view = Nothing
    <2>1. stage = "idle"
      BY <1>2 DEF DetailsInv, Reading, ViewTyped
    <2>2. view' = Nothing /\ stage' = "idle"
      BY <1>2, <2>1 DEF Disturb
    <2> QED
      BY <1>1, <2>2 DEF Reading, ViewTyped, SteadyRead, AloneRead
  <1>3. CASE view # Nothing
    <2>1. view \in View /\ stage # "idle"
      BY <1>3 DEF DetailsInv, Reading, ViewTyped
    <2>2. view' = [view EXCEPT !.alone = FALSE, !.steady = @ \cap researchers' \cap members']
      BY <1>3 DEF Disturb
    <2>3. PICK kept : kept = view.steady \cap researchers' \cap members'
      OBVIOUS
    <2>4. kept \in SUBSET Users
      BY <2>1, <2>3 DEF View
    <2>5. view' = [view EXCEPT !.alone = FALSE, !.steady = kept]
      BY <2>2, <2>3
    <2>6. view' \in View
      BY <2>1, <2>4, <2>5 DEF View
    <2>7. /\ view'.steady = kept /\ view'.alone = FALSE /\ view'.ofSlice = view.ofSlice
          /\ view'.records = view.records
      BY <2>1, <2>5 DEF View
    <2>8. stage' = stage
      BY DEF Disturb
    <2>9. ViewTyped'
      BY <2>1, <2>6, <2>8, NothingAssumption DEF ViewTyped
    <2>10. SteadyRead'
      BY <1>3, <2>3, <2>7, <2>8 DEF SteadyRead, DetailsInv, Reading
    <2>11. AloneRead'
      BY <2>7 DEF AloneRead
    <2> QED
      BY <1>1, <2>9, <2>10, <2>11 DEF Reading
  <1> QED
    BY <1>2, <1>3

\* A request that begins.
LEMMA Begun ==
  ASSUME NEW request, request \in PendingRequest, Begin(request)
  PROVE  /\ pending = Nothing /\ pending' = request /\ Disturb /\ bed' = bed
         /\ Going = {} /\ Coming = {} /\ \A op : ~Pending(op)
         /\ \A op : Pending(op)' = (request.op = op)
         /\ Going' = IF request.op = "erase" THEN request.to ELSE {}
         /\ Coming' = IF request.op = "enrol" THEN request.to ELSE {}
  <1>1. pending = Nothing /\ pending' = request /\ Disturb
    BY DEF Begin
  <1>2. pending' # Nothing
    BY <1>1, NothingAssumption
  <1>3. \A op : Pending(op)' = (request.op = op)
    BY <1>1, <1>2, Zenon DEF Pending
  <1>4. /\ Going' = IF request.op = "erase" THEN request.to ELSE {}
        /\ Coming' = IF request.op = "enrol" THEN request.to ELSE {}
    BY <1>1, <1>3 DEF Going, Coming
  <1> QED
    BY <1>1, <1>3, <1>4, NoneUnderWay DEF Disturb

LEMMA Ended ==
  ASSUME pending' = Nothing
  PROVE  Going' = {} /\ Coming' = {} /\ \A op : ~Pending(op)'
  BY DEF Going, Coming, Pending

LEMMA UpdateResearchersKeeps ==
  ASSUME Stores, UpdateResearchers
  PROVE  Stores' /\ Disturb
  <1>1. PICK to \in SUBSET (enrolled \cap Users) :
          /\ researchers' = to /\ UNCHANGED <<enrolled, pis, plc, used>>
          /\ Begin([op |-> "link", to |-> to])
    BY DEF UpdateResearchers
  <1>2. PICK r : r = [op |-> "link", to |-> to]
    OBVIOUS
  <1>3. r \in PendingRequest /\ r.op = "link" /\ r.to = to
    BY <1>2 DEF PendingRequest, Stores, StoresTyped
  <1>4. /\ pending = Nothing /\ pending' = r /\ Disturb /\ bed' = bed
        /\ Going = {} /\ Coming = {} /\ \A op : ~Pending(op)
        /\ \A op : Pending(op)' = (r.op = op)
        /\ Going' = {} /\ Coming' = {}
    BY <1>1, <1>2, <1>3, Begun
  <1>5. Pending("link")' /\ ~Pending("lead")' /\ ~Pending("enrol")' /\ ~Pending("erase")'
    BY <1>3, <1>4
  <1>6. StoresTyped'
    BY <1>1, <1>3, <1>4 DEF StoresTyped, Stores, plc
  <1>7. ObjectsThere'
    BY <1>1, <1>4 DEF ObjectsThere, Stores, plc
  <1>8. PendingMatches'
    BY <1>1, <1>3, <1>4, <1>5 DEF PendingMatches
  <1>9. AccountsMatch' /\ MembersMatch' /\ LeadsMatch'
    BY <1>1, <1>4, <1>5 DEF AccountsMatch, MembersMatch, LeadsMatch, Stores, plc
  <1> QED
    BY <1>4, <1>6, <1>7, <1>8, <1>9 DEF Stores

LEMMA UpdatePIsKeeps ==
  ASSUME Stores, UpdatePIs
  PROVE  Stores' /\ Disturb
  <1>1. PICK to \in SUBSET (enrolled \cap Users) :
          /\ pis' = to /\ UNCHANGED <<enrolled, researchers, plc, used>>
          /\ Begin([op |-> "lead", to |-> to])
    BY DEF UpdatePIs
  <1>2. PICK r : r = [op |-> "lead", to |-> to]
    OBVIOUS
  <1>3. r \in PendingRequest /\ r.op = "lead" /\ r.to = to
    BY <1>2 DEF PendingRequest, Stores, StoresTyped
  <1>4. /\ pending = Nothing /\ pending' = r /\ Disturb /\ bed' = bed
        /\ Going = {} /\ Coming = {} /\ \A op : ~Pending(op)
        /\ \A op : Pending(op)' = (r.op = op)
        /\ Going' = {} /\ Coming' = {}
    BY <1>1, <1>2, <1>3, Begun
  <1>5. Pending("lead")' /\ ~Pending("link")' /\ ~Pending("enrol")' /\ ~Pending("erase")'
    BY <1>3, <1>4
  <1>6. StoresTyped'
    BY <1>1, <1>3, <1>4 DEF StoresTyped, Stores, plc
  <1>7. ObjectsThere'
    BY <1>1, <1>4 DEF ObjectsThere, Stores, plc
  <1>8. PendingMatches'
    BY <1>1, <1>3, <1>4, <1>5 DEF PendingMatches
  <1>9. AccountsMatch' /\ MembersMatch' /\ LeadsMatch'
    BY <1>1, <1>4, <1>5 DEF AccountsMatch, MembersMatch, LeadsMatch, Stores, plc
  <1> QED
    BY <1>4, <1>6, <1>7, <1>8, <1>9 DEF Stores

\* A step in the middle of an update leaves the request as it is.
LEMMA SamePending ==
  ASSUME pending' = pending
  PROVE  Going' = Going /\ Coming' = Coming /\ \A op : Pending(op)' = Pending(op)
  BY DEF Going, Coming, Pending

LEMMA RelateResearchersKeeps ==
  ASSUME Stores, RelateResearchers
  PROVE  Stores' /\ Disturb
  <1>1. /\ Pending("link") /\ Disturb /\ bed' = bed
        /\ UNCHANGED <<registry, objects, accounts, leads, pending>>
    BY DEF RelateResearchers, Disturb
  <1>2. /\ Going' = Going /\ Coming' = Coming
        /\ \A op : Pending(op)' = Pending(op)
    BY <1>1, SamePending
  <1>3. members' \subseteq Users
    BY DEF RelateResearchers, Goal, Stores, StoresTyped
  <1>4. StoresTyped' /\ ObjectsThere'
    BY <1>1, <1>3 DEF StoresTyped, ObjectsThere, Stores, registry
  <1>5. PendingMatches'
    BY <1>1, <1>2 DEF PendingMatches, Stores, registry
  <1>6. AccountsMatch' /\ LeadsMatch'
    BY <1>1, <1>2 DEF AccountsMatch, LeadsMatch, Stores, registry
  <1>7. MembersMatch'
    BY <1>1, <1>2 DEF MembersMatch
  <1> QED
    BY <1>1, <1>4, <1>5, <1>6, <1>7 DEF Stores

LEMMA RelatePIsKeeps ==
  ASSUME Stores, RelatePIs
  PROVE  Stores' /\ Disturb
  <1>1. /\ Pending("lead") /\ Disturb /\ bed' = bed
        /\ UNCHANGED <<registry, objects, accounts, members, pending>>
    BY DEF RelatePIs, Disturb
  <1>2. /\ Going' = Going /\ Coming' = Coming
        /\ \A op : Pending(op)' = Pending(op)
    BY <1>1, SamePending
  <1>3. StoresTyped' /\ ObjectsThere'
    BY <1>1 DEF StoresTyped, ObjectsThere, Stores, registry
  <1>4. PendingMatches'
    BY <1>1, <1>2 DEF PendingMatches, Stores, registry
  <1>5. AccountsMatch' /\ MembersMatch'
    BY <1>1, <1>2 DEF AccountsMatch, MembersMatch, Stores, registry
  <1>6. LeadsMatch'
    BY <1>1, <1>2 DEF LeadsMatch
  <1> QED
    BY <1>1, <1>3, <1>4, <1>5, <1>6 DEF Stores

LEMMA RelatedKeeps ==
  ASSUME Stores, Related
  PROVE  Stores' /\ Disturb
  <1>1. /\ pending' = Nothing /\ UNCHANGED <<registry, plc>> /\ Disturb /\ bed' = bed
    BY DEF Related, Disturb
  <1>2. Going' = {} /\ Coming' = {} /\ \A op : ~Pending(op)'
    BY <1>1, Ended
  <1>3. (Pending("link") \/ Pending("lead")) => Going = {} /\ Coming = {}
    BY DEF Going, Coming, Pending
  <1>4. Going = {} /\ Coming = {}
    BY <1>3 DEF Related
  <1>5. StoresTyped' /\ ObjectsThere'
    BY <1>1 DEF StoresTyped, ObjectsThere, Stores, registry, plc
  <1>6. PendingMatches'
    BY <1>2 DEF PendingMatches
  <1>7. AccountsMatch'
    BY <1>1, <1>2, <1>4 DEF AccountsMatch, Stores, registry, plc
  <1>8. MembersMatch'
    <2>1. CASE ~Pending("link") \/ SliceHrn \notin objects
      BY <1>1, <1>2, <1>4, <2>1 DEF MembersMatch, Stores, registry, plc
    <2>2. CASE Pending("link") /\ SliceHrn \in objects
      <3>1. ~Pending("lead") /\ members = Goal
        BY <2>2 DEF Related, Pending
      <3>2. pending.to = researchers /\ researchers \subseteq enrolled \cap Users
        BY <2>2 DEF Stores, StoresTyped, PendingMatches
      <3>3. bed = "dummy" \/ SiteHrn \in objects
        BY <2>2 DEF Stores, StoresTyped, ObjectsThere
      <3>4. accounts = enrolled \cap Users
        BY <1>4, <3>3 DEF Stores, AccountsMatch
      <3>5. members = researchers
        BY <3>1, <3>2, <3>4 DEF Goal
      <3> QED
        BY <1>1, <1>2, <3>5 DEF MembersMatch, registry, plc
    <2> QED
      BY <2>1, <2>2
  <1>9. LeadsMatch'
    <2>1. CASE ~Pending("lead") \/ SiteHrn \notin objects
      BY <1>1, <1>2, <1>4, <2>1 DEF LeadsMatch, Stores, registry, plc
    <2>2. CASE Pending("lead") /\ SiteHrn \in objects
      <3>1. ~Pending("link") /\ bed # "dummy" /\ Goal \subseteq leads
        BY <2>2 DEF Related, Pending, Stores, ObjectsThere
      <3>2. pending.to = pis /\ pis \subseteq enrolled \cap Users
        BY <2>2 DEF Stores, StoresTyped, PendingMatches
      <3>3. accounts = enrolled \cap Users
        BY <1>4, <2>2 DEF Stores, AccountsMatch
      <3>4. pis \subseteq leads
        BY <3>1, <3>2, <3>3 DEF Goal
      <3> QED
        BY <1>1, <1>2, <3>4 DEF LeadsMatch, registry, plc
    <2> QED
      BY <2>1, <2>2
  <1> QED
    BY <1>1, <1>5, <1>6, <1>7, <1>8, <1>9 DEF Stores

LEMMA RegisterUserKeeps ==
  ASSUME Stores, RegisterUser
  PROVE  Stores' /\ Disturb
  <1>1. PICK u \in Users \ used :
          /\ accounts' = accounts \cup {u} /\ used' = used \cup {u}
          /\ UNCHANGED <<registry, objects, members, leads, onNodes>>
          /\ Begin([op |-> "enrol", to |-> {u}])
    BY DEF RegisterUser
  <1>2. PICK r : r = [op |-> "enrol", to |-> {u}]
    OBVIOUS
  <1>3. r \in PendingRequest /\ r.op = "enrol" /\ r.to = {u}
    BY <1>2 DEF PendingRequest, Hrns
  <1>4. /\ pending = Nothing /\ pending' = r /\ Disturb /\ bed' = bed
        /\ Going = {} /\ Coming = {} /\ \A op : ~Pending(op)
        /\ \A op : Pending(op)' = (r.op = op)
        /\ Going' = {} /\ Coming' = {u}
    BY <1>1, <1>2, <1>3, Begun
  <1>5. ~Pending("link")' /\ ~Pending("lead")' /\ ~Pending("erase")'
    BY <1>3, <1>4
  <1>6. StoresTyped' /\ ObjectsThere'
    BY <1>1, <1>3, <1>4 DEF StoresTyped, ObjectsThere, Stores, registry
  <1>7. PendingMatches'
    BY <1>1, <1>3, <1>4, <1>5 DEF PendingMatches
  <1>8. AccountsMatch'
    BY <1>1, <1>4 DEF AccountsMatch, Stores, registry
  <1>9. MembersMatch' /\ LeadsMatch'
    BY <1>1, <1>4, <1>5 DEF MembersMatch, LeadsMatch, Stores, registry
  <1> QED
    BY <1>4, <1>6, <1>7, <1>8, <1>9 DEF Stores

LEMMA InsertRecordKeeps ==
  ASSUME Stores, InsertRecord
  PROVE  Stores' /\ Disturb
  <1>1. /\ Pending("enrol") /\ enrolled' = enrolled \cup pending.to /\ pending' = Nothing
        /\ UNCHANGED <<researchers, pis, plc>> /\ Disturb /\ bed' = bed
    BY DEF InsertRecord, Disturb
  <1>2. Going' = {} /\ Coming' = {} /\ \A op : ~Pending(op)'
    BY <1>1, Ended
  <1>3. Going = {} /\ Coming = pending.to /\ ~Pending("link") /\ ~Pending("lead")
    BY <1>1 DEF Going, Coming, Pending
  <1>4. pending.to \subseteq Users
    BY <1>1 DEF Stores, PendingMatches
  <1>5. StoresTyped' /\ ObjectsThere'
    BY <1>1, <1>4 DEF StoresTyped, ObjectsThere, Stores, plc, Hrns
  <1>6. PendingMatches'
    BY <1>2 DEF PendingMatches
  <1>7. AccountsMatch'
    BY <1>1, <1>2, <1>3, <1>4 DEF AccountsMatch, Stores, plc
  <1>8. MembersMatch' /\ LeadsMatch'
    BY <1>1, <1>2, <1>3 DEF MembersMatch, LeadsMatch, Stores, plc
  <1> QED
    BY <1>1, <1>5, <1>6, <1>7, <1>8 DEF Stores

LEMMA RemoveObjectKeeps ==
  ASSUME Stores, RemoveObject
  PROVE  Stores' /\ Disturb
  <1>1. PICK h \in enrolled :
          LET gone == IF h = SiteHrn /\ bed = "planetlab" THEN Users ELSE {h}
          IN  /\ h = SiteHrn => bed = "planetlab"
              /\ accounts' = accounts \ gone /\ leads' = leads \ gone
              /\ objects' = objects \ (IF h = SiteHrn THEN {SiteHrn, SliceHrn} ELSE {h})
              /\ members' = IF h \in {SiteHrn, SliceHrn} THEN {} ELSE members \ {h}
              /\ UNCHANGED <<registry, onNodes, used>>
              /\ Begin([op |-> "erase", to |-> {h}])
    BY DEF RemoveObject
  <1>2. PICK r : r = [op |-> "erase", to |-> {h}]
    OBVIOUS
  <1>3. r \in PendingRequest /\ r.op = "erase" /\ r.to = {h}
    BY <1>2 DEF PendingRequest, Stores, StoresTyped
  <1>4. /\ pending = Nothing /\ pending' = r /\ Disturb /\ bed' = bed
        /\ Going = {} /\ Coming = {} /\ \A op : ~Pending(op)
        /\ \A op : Pending(op)' = (r.op = op)
        /\ Going' = {h} /\ Coming' = {}
    BY <1>1, <1>2, <1>3, Begun
  <1>5. ~Pending("link")' /\ ~Pending("lead")' /\ ~Pending("enrol")'
    BY <1>3, <1>4
  <1>6. UNCHANGED <<enrolled, researchers, pis>>
    BY <1>1 DEF registry
  <1>7. accounts' \subseteq accounts /\ members' \subseteq members /\ h \notin objects' /\ objects' \subseteq objects
    BY <1>1
  <1>8. StoresTyped'
    BY <1>3, <1>4, <1>6, <1>7 DEF StoresTyped, Stores
  <1>9. ObjectsThere'
    BY <1>1, <1>4, HrnsAssumption DEF ObjectsThere, Stores
  <1>10. PendingMatches'
    BY <1>3, <1>4, <1>5, <1>7 DEF PendingMatches
  <1>11. CASE h = SiteHrn
    <2>1. bed' = "planetlab" /\ SiteHrn \notin objects' /\ SliceHrn \notin objects'
      BY <1>1, <1>4, <1>11
    <2>2. AccountsMatch' /\ MembersMatch' /\ LeadsMatch'
      BY <2>1 DEF AccountsMatch, MembersMatch, LeadsMatch
    <2> QED
      BY <1>4, <1>8, <1>9, <1>10, <2>2 DEF Stores
  <1>12. CASE h # SiteHrn
    <2>1. accounts' = accounts \ {h} /\ leads' = leads \ {h} /\ objects' = objects \ {h}
      BY <1>1, <1>12
    <2>2. AccountsMatch' /\ LeadsMatch'
      BY <1>4, <1>6, <1>7, <2>1 DEF AccountsMatch, LeadsMatch, Stores
    <2>3. ASSUME h = SliceHrn PROVE MembersMatch'
      BY <1>7, <2>3 DEF MembersMatch
    <2>4. ASSUME h # SliceHrn PROVE MembersMatch'
      <3>1. members' = members \ {h}
        BY <1>1, <1>12, <2>4
      <3> QED
        BY <1>4, <1>6, <1>7, <3>1 DEF MembersMatch, Stores
    <2> QED
      BY <1>4, <1>8, <1>9, <1>10, <2>2, <2>3, <2>4 DEF Stores
  <1> QED
    BY <1>11, <1>12

LEMMA DeleteRecordKeeps ==
  ASSUME Stores, DeleteRecord
  PROVE  Stores' /\ Disturb
  <1>1. /\ Pending("erase") /\ pending' = Nothing
        /\ enrolled' = enrolled \ pending.to
        /\ researchers' = IF SliceHrn \in pending.to THEN {} ELSE researchers \ pending.to
        /\ pis' = IF SiteHrn \in pending.to THEN {} ELSE pis \ pending.to
        /\ UNCHANGED plc /\ Disturb /\ bed' = bed
    BY DEF DeleteRecord, Disturb
  <1>2. Going' = {} /\ Coming' = {} /\ \A op : ~Pending(op)'
    BY <1>1, Ended
  <1>3. Going = pending.to /\ Coming = {} /\ ~Pending("link") /\ ~Pending("lead")
    BY <1>1 DEF Going, Coming, Pending
  <1>4. pending.to \cap objects = {}
    BY <1>1 DEF Stores, PendingMatches
  <1>5. researchers' \subseteq researchers \ pending.to /\ pis' \subseteq pis \ pending.to
    BY <1>1
  <1>6. StoresTyped' /\ ObjectsThere'
    BY <1>1, <1>5 DEF StoresTyped, ObjectsThere, Stores, plc
  <1>7. PendingMatches'
    BY <1>2 DEF PendingMatches
  <1>8. AccountsMatch'
    BY <1>1, <1>2, <1>3 DEF AccountsMatch, Stores, plc
  <1>9. MembersMatch'
    <2>1. SliceHrn \in objects => researchers' = researchers \ pending.to
      BY <1>1, <1>4
    <2> QED
      BY <1>1, <1>2, <1>3, <2>1 DEF MembersMatch, Stores, plc
  <1>10. LeadsMatch'
    BY <1>1, <1>2, <1>3, <1>5 DEF LeadsMatch, Stores, plc
  <1> QED
    BY <1>1, <1>6, <1>7, <1>8, <1>9, <1>10 DEF Stores

LEMMA DetailsStep == DetailsInv /\ [DetailsNext]_detailVars => DetailsInv'
  <1> SUFFICES ASSUME DetailsInv, [DetailsNext]_detailVars PROVE DetailsInv'
    OBVIOUS
  <1>1. CASE ReaderNext
    BY <1>1, ReaderKeeps
  <1>2. CASE UNCHANGED detailVars
    <2>1. Stores'
      BY <1>2, StillStores DEF detailVars, Still, DetailsInv
    <2>2. Reading' /\ DetailsAgree'
      BY <1>2 DEF DetailsInv, detailVars, reader, registry, plc, Reading, ViewTyped, SteadyRead,
                  AloneRead, DetailsAgree
    <2> QED
      BY <2>1, <2>2 DEF DetailsInv
  <1>3. CASE Stores' /\ Disturb
    <2>1. researchers' \subseteq Hrns
      BY <1>3 DEF Stores, StoresTyped
    <2> QED
      BY <1>3, <2>1, DisturbedReads DEF DetailsInv
  <1> QED
    BY <1>1, <1>2, <1>3, UpdateResearchersKeeps, UpdatePIsKeeps, RelateResearchersKeeps,
       RelatePIsKeeps, RelatedKeeps, RegisterUserKeeps, InsertRecordKeeps, RemoveObjectKeeps,
       DeleteRecordKeeps DEF DetailsNext, DetailsInv

\* Resolve with details, undisturbed, names whom records and testbed name both, and
\* names at any rate every researcher who was one to both all the time; it fails only
\* when it is disturbed, or on a dummy slice that has nodes (fill_record_info).
THEOREM DetailsHold == DetailsSpec => []DetailsAgree
  <1>1. DetailsInit => DetailsInv
    BY DetailsInitially
  <1>2. DetailsInv /\ [DetailsNext]_detailVars => DetailsInv'
    BY DetailsStep
  <1>3. DetailsInv => DetailsAgree
    BY DEF DetailsInv
  <1> QED
    BY <1>1, <1>2, <1>3, PTL DEF DetailsSpec
=============================================================================
