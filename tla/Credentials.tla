---------------------------- MODULE Credentials ----------------------------
(* Credentials and how a server checks them (src/sfa/trust/credential.py and  *)
(* auth.py).  A credential is a sequence of links: the last was issued by the *)
(* registry, each of the others was signed by the caller of the next one, to  *)
(* delegate it.  A gid is known by its owner, its key and how many were made  *)
(* before it for that owner: two gids of one key are two different texts.     *)
EXTENDS Rights, Integers, Sequences

CONSTANTS
  Users, Slices, Auths,  \* who and what has an hrn
  AuthorityOf,           \* the authority of each user and slice
  Keys,                  \* the key pairs that each user may have, his own
  MaxTime,               \* bound on the clock, in units of a credential's life
  Lifetime,              \* SFA_MAX_CREDENTIAL_LIFETIME, in these units
  MaxMade,               \* bound on the gids made anew for one user
  None,                  \* a file that does not exist
  Registry,              \* the signer of what the registry issues
  TextOutput             \* what subprocess.check_output returns is text, as in
                         \* Python 2; the bytes of Python 3 make verify fail

ASSUME CredentialsAssumption ==
  /\ AuthorityOf \in [Users \cup Slices -> Auths]
  /\ MaxTime \in Nat /\ Lifetime \in Nat /\ MaxMade \in Nat
  /\ Users \cap Slices = {} /\ Users \cap Auths = {} /\ Slices \cap Auths = {}
  /\ TextOutput \in BOOLEAN
  /\ None \notin [owner : Users, key : Keys, made : 0..MaxMade] \cup Keys \cup Users

Objects == Users \cup Slices \cup Auths

Gid == [owner : Users, key : Keys, made : 0..MaxMade]

Times == 0..(MaxTime + Lifetime)

\* Its rights are the privileges, each with the one delegate bit: nothing sets a
\* part of them.  "sealed" says that the private key that signed is the one of the signer's gid.
Link == [caller : Gid, object : Objects, privileges : SUBSET DOMAIN Privileges, delegate : BOOLEAN,
         expires : Times, signer : Gid \cup {Registry}, sealed : BOOLEAN]

\* A file that does not exist is none that does.
ASSUME NoFileAssumption == None \notin Seq(Link)

RightsOf(link) == {[kind |-> k, delegate |-> link.delegate] : k \in link.privileges}

\* What sfi ever holds: issued by the registry, or delegated once.
Issued == {<<link>> : link \in Link}
Credential == Issued \cup {<<link, parent>> : link \in Link, parent \in Link}

Top(cred) == cred[1]
Root(cred) == cred[Len(cred)]

KindOf(object) == IF object \in Users THEN "user" ELSE IF object \in Slices THEN "slice" ELSE "authority"

\* What the registry answers to GetCredential and GetSelfCredential once the
\* caller is known to have rights to the object.
Issue(caller, object, now) ==
  <<[caller |-> caller, object |-> object,
     privileges |-> KindRights(KindOf(object)), delegate |-> TRUE,
     expires |-> now + Lifetime, signer |-> Registry, sealed |-> TRUE]>>

DelegatedExpiryDefault(cred) == Top(cred).expires + Lifetime
DelegatedExpiry(cred) == Top(cred).expires

\* Credential.delegate, signed with the key of file pkey next to the gid file.
Delegate(cred, to, mygid, pkey) ==
  <<[caller |-> to, object |-> Top(cred).object,
     privileges |-> Top(cred).privileges, delegate |-> TRUE, expires |-> DelegatedExpiry(cred),
     signer |-> mygid, sealed |-> mygid.key = pkey]>> \o cred

Expired(cred, now) == Top(cred).expires < now

\* Credential.verify_parent, for one link and its parent.
VerifyParent(link, parent) ==
  /\ Covers(RightsOf(parent), RightsOf(link))
  /\ parent.object = link.object
  /\ parent.expires >= link.expires
  /\ parent.caller = link.signer

\* Credential.verify.  It looks for a text in what xmlsec1 said of each signature,
\* which is a TypeError when that is bytes: nothing is verified then.
Verify(cred, now) ==
  /\ TextOutput
  /\ ~Expired(cred, now)
  /\ \A i \in DOMAIN cred : cred[i].sealed
  /\ \A i \in 1..(Len(cred) - 1) : VerifyParent(cred[i], cred[i + 1])
  /\ Root(cred).signer = Registry

\* A name is under an object when that is itself or its authority.
Under(name, object) == name = object \/ (name \in DOMAIN AuthorityOf /\ AuthorityOf[name] = object)

\* Auth.check and verify_object_permission: what a method wants of a credential.
TargetOK(cred, method, target) ==
  /\ method.target = "exact" => Top(cred).object = target
  /\ method.target = "under" => Under(target, Top(cred).object)

Check(cred, method, target, owner, key, now) ==
  /\ Top(cred).caller.owner = owner /\ Top(cred).caller.key = key
  /\ CanPerform(RightsOf(Top(cred)), method.op)
  /\ Verify(cred, now)
  /\ TargetOK(cred, method, target)
=============================================================================
