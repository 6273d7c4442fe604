------------------------------- MODULE Trust -------------------------------
(* Gids across interfaces: the directory of trusted roots of one interface,  *)
(* which the start of its servers and of the tool that asks its peers writes *)
(* file by file, and the chain of gids that a request is verified along,     *)
(* while registries make all their gids anew and time goes by.  Each         *)
(* interface has one site with one user.                                     *)
EXTENDS Naturals, Sequences

CONSTANTS
  Home,          \* SFA_INTERFACE_HRN of the interface whose directory it is
  Servers,       \* the servers that run there: registry, aggregate or both
  Peers,         \* ... and those of the interfaces in registries.xml and aggregates.xml
  NoFile, NoText, NoVerdict, \* no such file; a file opened and not yet written; no answer
  Life,          \* how long a gid is valid
  MaxClock, MaxResets, MaxKills     \* bounds on time, on sfaresetgids, on processes killed

Interfaces == Peers \cup {Home}
Processes == Servers \cup {"tool"}   \* sfa-start -r or -a, and -t

\* No interface has the name of the site of another one, or of a user.
ASSUME InterfacesAssumption ==
  /\ Servers \subseteq {"registry", "aggregate"}
  /\ {"site", "user"} \subseteq STRING
  /\ Interfaces \subseteq Seq(STRING) \ {<< >>} /\ Home \notin Peers
  /\ \A i, j \in Interfaces : i # Append(j, "site") /\ i[Len(i)] # "user"
  /\ Life \in Nat /\ MaxClock \in Nat /\ MaxResets \in Nat /\ MaxKills \in Nat

\* A key is the name it was generated for and how many that name had before.
Gid == [name : Seq(STRING), key : Seq(STRING) \X Nat, issuer : Seq(STRING) \X Nat, expires : Nat]
ASSUME FilesAssumption == NoFile # NoText /\ NoFile \notin Gid /\ NoText \notin Gid

VARIABLES
  clock,
  rootGid, siteGid,          \* the gid files in the hierarchy of each interface
  held,                      \* the gid that the user of an interface has
  rootFile,                  \* Home's file of trusted roots for each interface
  peerRecords,               \* the peers that Home's registry has a record of
  startup,                   \* how far each process is
  toAsk, received, answer,  \* of the tool: peers to ask, peers that answered, what the last one did
  resets, kills,
  interrupted,               \* history: was the tool killed after a peer's answer
  verdict                    \* history: what the last step answered, if it was a request

hierarchies == <<rootGid, siteGid>>
starts == <<startup, toAsk, received, answer>>
trustVars == <<clock, hierarchies, held, rootFile, peerRecords, starts, resets, kills, interrupted, verdict>>

SiteOf(i) == Append(i, "site")
UserOf(i) == Append(SiteOf(i), "user")

\* create_gid.  A chain is a gid and those above it, as one text.
Cert(name, n, signer) ==
  [name |-> name, key |-> <<name, n>>, issuer |-> signer, expires |-> clock + Life]
RootAnew(i, n) == Cert(i, n, <<i, n>>)
SiteAnew(i, n, above) == <<Cert(SiteOf(i), n, above.key), above>>
UserAnew(i, above) == <<Cert(UserOf(i), 0, above[1].key), above[1], above[2]>>

TrustInit ==
  /\ clock = 0 /\ resets = 0 /\ kills = 0 /\ interrupted = FALSE /\ verdict = NoVerdict
  /\ rootGid = [i \in Interfaces |-> RootAnew(i, 0)]
  /\ siteGid = [i \in Interfaces |-> SiteAnew(i, 0, rootGid[i])]
  /\ held = [i \in Interfaces |-> UserAnew(i, siteGid[i])]
  /\ rootFile = [i \in Interfaces |-> NoFile] /\ peerRecords = {}
  /\ startup = [p \in Processes |-> "down"]
  /\ toAsk = {} /\ received = {} /\ answer = NoFile

Gids == {rootFile[i] : i \in Interfaces} \ {NoFile, NoText}
\* load_from_string: of a file without text there is no certificate to ask.
AllHaveText == \A i \in Interfaces : rootFile[i] # NoText
Move(p, step) == startup' = [startup EXCEPT ![p] = step]
Quiet == verdict' = NoVerdict /\ UNCHANGED interrupted
Outside == <<clock, hierarchies, held, resets, kills>>

-----------------------------------------------------------------------------
(* sfa-start                                                                  *)

\* main: add_gid opens the file of the interface itself, and then writes it.
OpenOwnRoot(p) ==
  /\ startup[p] = "down" /\ Move(p, "own")
  /\ rootFile' = [rootFile EXCEPT ![Home] = NoText]
  /\ UNCHANGED <<Outside, peerRecords, toAsk, received, answer>> /\ Quiet

WriteOwnRoot(p) ==
  /\ startup[p] = "own" /\ Move(p, IF p = "tool" THEN "missing" ELSE "serving")
  /\ rootFile' = [rootFile EXCEPT ![Home] = rootGid[Home]]
  /\ UNCHANGED <<Outside, peerRecords, toAsk, received, answer>> /\ Quiet

\* install_peer_certs: the names that no gid in the directory has; none, and it returns.
FindMissing ==
  /\ startup["tool"] = "missing"
  /\ LET missing == {i \in Interfaces : \A g \in Gids : g.name # i}
     IN /\ toAsk' = missing \ {Home}
        /\ Move("tool", IF missing = {} THEN "down" ELSE "asking")
  /\ received' = {}
  /\ UNCHANGED <<Outside, rootFile, peerRecords, answer>> /\ Quiet

\* get_trusted_certs without a credential answers the peer's own gid.
AskPeer ==
  /\ startup["tool"] = "asking"
  /\ \E i \in toAsk :
       /\ toAsk' = toAsk \ {i} /\ received' = received \cup {i}
       /\ answer' = rootGid[i] /\ rootFile' = [rootFile EXCEPT ![i] = NoText]
  /\ Move("tool", "installing")
  /\ UNCHANGED <<Outside, peerRecords>> /\ Quiet

\* A peer that does not answer is passed over.
PassOver ==
  /\ startup["tool"] = "asking"
  /\ \E i \in toAsk : toAsk' = toAsk \ {i}
  /\ UNCHANGED <<Outside, rootFile, peerRecords, startup, received, answer>> /\ Quiet

InstallPeer ==
  /\ startup["tool"] = "installing" /\ Move("tool", "asking")
  /\ rootFile' = [rootFile EXCEPT ![answer.name] = answer]
  /\ answer' = NoFile
  /\ UNCHANGED <<Outside, peerRecords, toAsk, received>> /\ Quiet

\* update_cert_records: one for each peer that answered; it deletes none.
UpdateCertRecords ==
  /\ startup["tool"] = "asking" /\ toAsk = {} /\ Move("tool", "down")
  /\ peerRecords' = peerRecords \cup received
  /\ UNCHANGED <<Outside, rootFile, toAsk, received, answer>> /\ Quiet

\* A process ends, at any moment.
Kill ==
  /\ kills < MaxKills /\ kills' = kills + 1
  /\ \E p \in Processes :
       /\ startup[p] # "down" /\ Move(p, "down")
       /\ interrupted' = (interrupted \/ (p = "tool" /\ received # {}))
       /\ IF p = "tool" THEN toAsk' = {} /\ received' = {} /\ answer' = NoFile
                        ELSE UNCHANGED <<toAsk, received, answer>>
  /\ UNCHANGED <<clock, hierarchies, held, resets, rootFile, peerRecords>>
  /\ verdict' = NoVerdict

-----------------------------------------------------------------------------
(* What happens elsewhere                                                     *)

\* sfaresetgids, while no server runs: the gids of an interface's authorities are
\* made anew, with "safe" all but its own; when the directory was removed, with
\* new keys.  Its last step, the commit of the records, fails: gids of authorities
\* are no text.
ResetGids ==
  /\ resets < MaxResets /\ resets' = resets + 1
  /\ \E i \in Interfaces, safe, removed \in BOOLEAN :
       /\ i = Home => \A p \in Processes : startup[p] = "down"
       /\ ~(safe /\ removed)      \* otherwise MissingAuthority
       /\ LET n    == rootGid[i].key[2] + (IF removed THEN 1 ELSE 0)
              root == IF safe THEN rootGid[i] ELSE RootAnew(i, n)
          IN /\ rootGid' = [rootGid EXCEPT ![i] = root]
             /\ siteGid' = [siteGid EXCEPT ![i] = SiteAnew(i, n, root)]
  /\ UNCHANGED <<clock, held, rootFile, peerRecords, starts, kills>> /\ Quiet

\* CreateGid, or Update and GetGids: the user gets a gid from the files.
CreateGid ==
  /\ \E i \in Interfaces : held' = [held EXCEPT ![i] = UserAnew(i, siteGid[i])]
  /\ UNCHANGED <<clock, hierarchies, resets, kills, rootFile, peerRecords, starts>> /\ Quiet

Tick ==
  /\ clock < MaxClock /\ clock' = clock + 1
  /\ UNCHANGED <<hierarchies, held, resets, kills, rootFile, peerRecords, starts>> /\ Quiet

-----------------------------------------------------------------------------
(* Verification                                                               *)

HasExpired(gid) == gid.expires < clock
IsAuthority(gid) == gid.name[Len(gid.name)] # "user"
HrnAuthFor(above, name) == \E n \in 1 .. Len(name) : above = SubSeq(name, 1, n)

\* The trusted gids whose keys signed a gid.
Signers(gid) == {g \in Gids : g.key = gid.issuer}

\* Certificate.verify_chain, up to its parent: a file without text among the
\* trusted roots raises, unless one listed before it signed.
SignedByTrusted(gid, textlessLast) ==
  /\ \E g \in Signers(gid) : ~HasExpired(g)
  /\ textlessLast \/ AllHaveText

SignedByNone(gid) == Signers(gid) = {} /\ AllHaveText

\* Mutation: the chain of the parent is not looked at again.
VerifyChainOnce(chain, textlessLast) ==
  LET gid == chain[1]
  IN ~HasExpired(gid) /\ (SignedByTrusted(gid, textlessLast) \/ Len(chain) > 1)

\* GID.verify_chain, for each gid of a chain up to the last; the chain of a
\* parent is verified once more for the names, with the same outcome.
VerifyChain(chain, textlessLast) ==
  \A k \in DOMAIN chain :
     LET gid == chain[k]
         last == k = Len(chain)
     IN /\ ~HasExpired(gid)
        /\ \/ SignedByTrusted(gid, textlessLast)
           \/ /\ SignedByNone(gid) /\ ~last
              /\ gid.issuer = chain[k + 1].key /\ IsAuthority(chain[k + 1])   \* and is a CA
        /\ IF last THEN \E g \in Signers(gid) : HrnAuthFor(g.name, gid.name) /\ IsAuthority(g)
                   ELSE HrnAuthFor(chain[k + 1].name, gid.name) /\ IsAuthority(chain[k + 1])

\* Auth.check, as far as the gids of the caller go: the user of an interface
\* or that interface itself sends a request to a server of Home.
SendRequest ==
  /\ \E p \in Servers : startup[p] = "serving"
  /\ \E i \in Interfaces, textlessLast \in BOOLEAN :
       \E chain \in {held[i], <<rootGid[i]>>} :
          verdict' = [chain |-> chain, accepted |-> VerifyChain(chain, textlessLast)]
  /\ UNCHANGED <<Outside, rootFile, peerRecords, starts, interrupted>>

TrustNext ==
  \/ \E p \in Processes : OpenOwnRoot(p) \/ WriteOwnRoot(p)
  \/ FindMissing \/ AskPeer \/ PassOver \/ InstallPeer \/ UpdateCertRecords \/ Kill
  \/ ResetGids \/ CreateGid \/ Tick \/ SendRequest

-----------------------------------------------------------------------------
(* Properties                                                                 *)

\* A request is accepted when nothing in the chain that the caller's gid was
\* saved with has expired and Home has, not expired, a gid of the interface with
\* the key that this chain ends in, whatever was made anew since on either side;
\* and, while each file has its text, only then and always then
\* (Certificate.verify_chain and GID.verify_chain, certificate.py and gid.py).
AnswersFollowChains ==
  verdict # NoVerdict =>
    LET chain == verdict.chain
        good == /\ \A k \in DOMAIN chain : ~HasExpired(chain[k])
                /\ \E g \in Gids : /\ g.name = chain[Len(chain)].name
                                   /\ g.key = chain[Len(chain)].key /\ ~HasExpired(g)
    IN /\ verdict.accepted => good
       /\ good /\ AllHaveText => verdict.accepted

\* While a server of Home runs, its own trusted root is the one that it issues
\* under, or is being written (sfa-start.py: add_gid at each start).
OwnRootCurrent ==
  (\E p \in Servers : startup[p] = "serving") => rootFile[Home] \in {NoText, rootGid[Home]}

\* Unless a run of the tool was cut short, each peer it installed a gid of has a
\* record (sfa-start.py: update_cert_records, last of all).
InstalledOnRecord ==
  startup["tool"] = "down" /\ ~interrupted => \A i \in Peers : rootFile[i] # NoFile => i \in peerRecords

TrustHolds == AnswersFollowChains /\ OwnRootCurrent /\ InstalledOnRecord
=============================================================================
