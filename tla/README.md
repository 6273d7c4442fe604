# A TLA+ verification of SFAWrap

SFAWrap (`sfa/`) puts the Slice-based Federation Architecture in front of a
testbed: a **registry** of authorities, users, slices and nodes, and an
**aggregate manager** that allocates slivers, both served over XML-RPC by a pool
of threads, on top of a **driver** for the testbed (PlanetLab, IoT-LAB, a dummy).
This directory models its stateful core in TLA+, checks it with TLC on small
instances and proves what matters most with TLAPS.

Contents: 1 the system, 2 the modules, 3 the runs, 4 fairness, 5 the proofs,
6 disagreements found, 7 what is left out, 8 what could come next.

## 1. The system

| component | state | operations | interacts with |
|---|---|---|---|
| registry writes (`managers/registry_manager.py`, `storage/model.py`) | rows of a PostgreSQL database: records, keys, the `researcher` and `pi` relations, and in each row a `pointer` to the testbed's object | `Register`, `Update`, `Remove`; each uses a session of its own and commits one to three times | calls the driver between its queries and its commits; creates gids and authorities in the hierarchy; notified peers ignore errors |
| PlanetLab driver, registry side (`planetlab/pldriver.py`) | none; the testbed's own database | `register`, `update`, `remove`, `update_relation`, `fill_record_info`, each several calls of the PlanetLab API | called by the registry; a failure is an exception in the request |
| registry reads (`registry_manager.py`, `methods/Resolve.py`, `methods/List.py`) | none | `Resolve`, `List`, `GetCredential`; what is not its own a registry asks of the peer whose name is the longest prefix | other registries; the driver for details |
| authority hierarchy (`trust/hierarchy.py`, `trust/gid.py`, `trust/certificate.py`) | a key file and a gid file per authority, on disk | `create_auth`, `create_top_level_auth`, `create_gid`, `get_auth_info`, `auth_exists` | called by the registry's threads, the importer and `sfaadmin`, which are different processes |
| trusted roots (`trust/trustedroots.py`, `server/sfa-start.py`, `client/sfaresetgids.py`) | a directory with a gid file per interface, and a record per peer | a server's start adds its own root, the tool fetches those of peers; each request's chain of gids is verified against them | everything that checks a caller |
| call ids (`util/callids.py`) | a dict from call id to time, created on first use, and its lock | `already_handled`, `_purge` | every method of the aggregate that takes a call id |
| aggregate, slivers (`pldriver.py`, `plslices.py`, `plaggregate.py`, `dummy/`, `storage/model.py: SliverAllocation`) | the testbed's slices, nodes, persons, tags and leases, and a row per sliver with its allocation state | `allocate`, `provision`, `delete`, `renew`, `status`, `perform_operational_action`, `shutdown`, `describe` | the testbed and the registry's database; after the call id test |
| IoT-LAB driver (`iotlab/`) | jobs of the testbed's scheduler, and a table of leases in the database | `allocate` submits a job and stores its lease; `describe` reads both | a REST API; the scheduler ends jobs by itself |
| importers (`importer/`) | none of their own; a snapshot of the registry and one of the testbed | `run`: top-level authorities, interface records, then sites, nodes, users and slices, then stale records are deleted | writes the database and the hierarchy the server is using |
| credentials and rights (`trust/credential.py`, `trust/rights.py`, `trust/auth.py`) | none | delegation along a chain of parents, rights for a method, checks of a caller | every call |
| clients (`client/sfi.py`, `client/sfaclientlib.py`) | a key, a certificate, a gid and credentials, in files | the commands of `sfi`, each making the files that it lacks | registry and aggregates |
| names (`util/xrn.py`, `util/prefixTree.py`) | none | hrn and urn conversion, longest prefix for the registry to ask | registry reads, importers |
| server (`server/threadedserver.py`, `server/sfa-start.py`) | a queue of requests, 25 threads | queue, take, answer; one database session per request | runs everything above |
| advertisement cache (`util/cache.py`) | a dict with expiry times | `get`, `add`, `pop` | `ListResources` |

What is hard in it, and what correctness means, by component (each item has its
line in the `hazards` of PROJECT.json):

- **Registry writes.** A request is a sequence of queries, testbed calls and
  commits, and 25 threads run them without any lock. Nothing undoes a testbed
  call when a later step fails. Correct means: one record per name; a record
  and its testbed object exist together and point to each other; a slice's
  researchers are the same people in both stores and are registered; a key in
  the registry opens the account it was sent to; a reader sees only whole entries; row locks
  never block the threads for good.
- **Registry reads.** Records, testbed and pointers are read one after the other, and
  requests change them meanwhile; a registry that forwards waits without limit.
  Correct means: a name is found where it is registered, every lookup ends, and a record names the people
  it is related to.
- **Hierarchy.** Four writes in two files, no lock, several processes, and a
  process may stop anywhere. Correct means: the gid next to a key certifies that
  key and is signed with the parent's key; what is issued verifies, and comes with the chain up to the root
  unless a gid file was empty; a key that signed something is never replaced.
- **Trusted roots.** Files written in two steps by processes that may be killed, roots and gids that are made anew or
  expire. Correct means: whoever has a chain up to a trusted root gets in and nobody else; a server trusts its own root.
- **Call ids.** A check-then-act behind a lock that is tried ten times, in a
  table that is itself created on a check-then-act. Correct means: one
  run per id and table in five minutes, a late duplicate is known, the lock comes back.
- **Slivers.** Testbed, leases and allocation rows change one after the other;
  some failures are logged and forgotten. Correct means: the testbed, the rows and the
  leases are what the last answers said; no sliver has the
  default expiration of a new slice; a deletion frees everything; a slice has the persons, keys and tags
  its last request named; two slices never share an EGRE key.
- **Answers.** An advertisement comes from a cache that no change empties, a description from six reads.
  Correct means: nothing in an answer is older than a cache entry may get, or never was so at all.
- **IoT-LAB.** A job is submitted, then stored; `describe` deletes the rows whose job it does not see. Correct
  means: a running job of a slice keeps its row.
- **Importers.** A batch with a snapshot against live requests. Correct means:
  no second record for a name, no deletion of what was registered meanwhile.
- **Credentials and rights.** Recursion over a chain. Correct means: delegation
  never enlarges rights nor outlives its parent.
- **Clients.** Files made at different times, under keys and rights that change. Correct means: nothing
  outlives the rights it came from by more than one credential's life.
- **Server.** An unbounded queue in front of threads that wait for the
  testbed; calls sent twice. Correct means: every call ends, and what one leaves half done the next repairs.

## 2. The modules

| modules | composed by | model-checked through | proved in |
|---|---|---|---|
| RegistryDirectory, Registry | RegistryServer (with Trust) | MCRegistry, MCRegistryServer | RegistryProofs |
| Trust | RegistryServer | MCRegistryServer | RegistryProofs |
| Hierarchy | Authorities | MCHierarchy, MCAuthorities | HierarchyProofs |
| PrefixTree, Federation | Authorities | MCAuthorities | |
| Details | Authorities | MCAuthorities | HierarchyProofs |
| Callids | Manager | MCManager, itself | AnswersProofs |
| Advertisements, Manifest | PlAggregate, then Manager | MCManager | AnswersProofs |
| Slivers, SliceUsers | PlSlices | MCSlivers, Slivers itself | PlSlicesProofs |
| Importer (on Registry), DummyImporter | Importers | MCImporter | ImporterProofs |
| Rights, Credentials, Methods, SfiCommands, Client | Client | MCClient | ClientProofs |
| DummyTestbed, Aggregate, DummyDriver, IotLabDriver | Testbeds | Testbeds itself | AggregateProofs |

A composing module whose parts share no state (Authorities, RegistryServer, PlAggregate, Manager, PlSlices, Importers)
lets a behaviour be about one of them: the product would only multiply states. Where parts do share state they are
really composed: Importer runs beside Registry on the same two stores, Client's commands meet the
checks of Credentials and Methods, and Aggregate hands a request to the driver of its flavour, step by step.

### RegistryDirectory: what the registry promises
`dir` maps a name to an entry (the researchers of a slice, the key of a user) or
to nothing. `Add`, `Relink`, `Rekey` and `Drop` are single steps. This is what
`Resolve`, `List` and `GetCredential` rely on.

### Registry: Register, Update, Remove as threads run them
Slices, users and the relation between them. One action per query, commit or
testbed call:

| code | actions |
|---|---|
| `Register`: query for an existing record | `Register` |
| `update_researchers` of a new record | `LinkResearchers` |
| `PlDriver.register` | `FindObject`, `MakeObject`, `SetAccount` |
| `session.add`, `commit` | `InsertRow` |
| `Update`: first query | `Update` |
| `update_researchers`, which autoflushes `last_updated` and so takes the row's lock | `FlushRow` |
| `PlDriver.update` under `except: pass` | `UpdateObject`, `SwallowFailure` |
| key, gid, researchers, `commit` | `WriteRow` |
| `update_driver_relations` | `LookupLinks`, `CompareLinks`, `ApplyLink` (one per `AddPersonToSlice`, `DeletePersonFromSlice`) |
| `Remove`: query, `PlDriver.remove`, delete and `commit` | `Remove`, `EraseObject`, `DeleteRow` |
| a testbed call raises; the server is stopped | `TestbedFault`, `Crash` |

Abstractions: a gid is the key it certifies; a row id and a testbed pointer
created by request *i* are both *i*; the start state is what an importer left
(any set of names present in both stores). History, only for
the properties: `torn`, the names whose last change was cut short by a fault or
a restart; `wanted`, the researchers last committed for a slice; and the field `lost` of a row: `driver.update` failed
when its key was sent.

The testbed knows a user by his e-mail and a slice by its PL name: `Called` is what it knows a name by, and `FindObject` adopts whatever object
is called so (`Namesakes`), whoever it was made for. Two users with one e-mail are then one person, who gets the keys of both and goes
when one of them is removed. `Distinct` says that no two names are one on the testbed; the properties that need it say so.
Of several `reg-keys` only the first is in the model: it is the one that `Register` and `Update` send to the testbed and certify; the others stay, as
keys of the record, in the registry, and nothing uses them. `PlDriver.remove` spares a person without a site, which the person of a record always has.
`Exclusive` is the assumption that clients do not have two requests on one name
under way. The code does not enforce it, so each property says whether it needs it.

### RegistryServer and Trust: trusted roots and chains of gids
`Trust` has the directory of trusted roots of one interface, the gids of its peers, sites and users, and the chain
along which a caller is verified. `RegistryServer` puts it beside Registry.

| code | actions |
|---|---|
| `sfa-start`: the server's own root is written when the hierarchy's gid is another one | `OpenOwnRoot`, `WriteOwnRoot` |
| `install_peer_certs`: which files are missing, the peers' `get_trusted_certs` one by one, `save_to_file` | `FindMissing`, `AskPeer`, `PassOver`, `InstallPeer` |
| `update_cert_records` | `UpdateCertRecords` |
| a server or the tool is stopped anywhere | `Kill` |
| `sfaresetgids`, and a new user's gid | `ResetGids`, `CreateGid` |
| a caller's chain is verified, gid by gid | `SendRequest` (`VerifyChain`) |
| time | `Tick` |

As the code has it: `install_peer_certs` never fetches again what it has a file of, though the option's help
speaks of refreshing; a trusted file without text, which a server stopped while it writes leaves, makes every
verification fail except along the roots read before it; `update_cert_records` removes no old record, whatever its docstring says, and
the line that would names a `self` that is not there; a tool stopped between the file and the record leaves a peer without a record for good;
`sfaresetgids` stores a gid object where a string belongs, so that its last commit fails; the policy `safe` skips the
top level even when its files are missing. Speaks-for credentials are left out: `speaksfor_util.py` uses `Xrn` without importing it.

### Hierarchy: key and gid files
`create_auth` with its recursion over parents as a stack, `create_gid`, with the
opening (which empties a file) and the writing of each file as separate steps;
any process may stop between two of them. A key is a number; a gid is the key it
certifies, the key that signed it and the key its parent gid certifies. The
model separates `get_auth_info` (the gid file) from `get_pkey_object` (the key
file) because the code opens them one after the other. A gid file that is empty is not an error: `load_from_string` warns,
and what is signed with the authority's key then comes with no parent (`Loaded`, `WithParent`; `whole` is whether the chain that comes with a gid reaches
the root). History: `left`, the authorities whose gid file a process left empty when it stopped; `early`, that a gid file in the chain was read while it was being written; `issued`. `Exclusive` here means one
`create_auth` at a time; `Issue`, a gid for a user, slice or node, overlaps freely.

### Federation and PrefixTree: registries that ask each other
`PrefixTree` is `prefixTree.py` on names as sequences of characters: insertion and the best match, which is
the longest prefix *in characters* ("aa.x" goes to a registry "a"). `Federation` has several registries, each with a pool of threads,
their directories, and lookups that clients send and registries pass on.

| code | actions |
|---|---|
| a client's `Resolve` or `List`, through `SfaServerProxy` | `Ask` |
| `xmlrpcapi`: the request is taken, answered or refused | `Take`, `Serve`, `Reply`, `Refuse` |
| the credential a registry shows to its peers: `SfaApi.getCredential` reads the file, or opens and writes it | `UseCredential`, `OpenCredential`, `WriteCredential` |
| the request goes to the registry of the best prefix; its answer comes back | `Forward`, `Continue` |
| what is left is looked up in the own records | `Resolve`, `List` |
| a registry restarts; connections and answers are lost | `Restart`, `Lost`, `Gone` |

As the code has it: a prefix between two names that is no registry makes the lookup a `KeyError`; a fault of one peer
fails a whole `Resolve`, although the comment there says that remaining names are tried locally; the type that was asked for is
not passed on; the `List` of an authority that a peer has, and that is empty, ends in `MissingAuthority`; a credential file that a
restart left empty is used for ever after, and every lookup with it refused; the timeout of `interface.py:36-37` is passed as the parameter
`verbose`. With one thread per registry and two lookups two registries wait for each other for good;
the pool of the code has 25. `LookupsEnd` is about fewer open lookups than two registries have threads.

### Details: a record and what the driver says of it
`Resolve` with `details` at a PlanetLab or dummy registry, one action per query and per call of the testbed, while requests
change records and testbed in several steps each.

| code | actions |
|---|---|
| the records; `augment_with_sfa_builtins` | `ResolveRecords`, `Augment` |
| `fill_record_pl_info`: sites, slices, users | `GetSiteRecords`, `GetSliceRecords`, `GetUserRecords` |
| `fill_record_hrns` | `FillHrns` |
| `fill_record_sfa_info`: PIs of sites, the records of a pointer | `GetPIs`, `GetRecords`, `FillSfaInfo` |
| `Register`, `Update`, `Remove` beside it | `Begin`, `UpdateResearchers`, `UpdatePIs`, `RelateResearchers`, `RelatePIs`, `RegisterUser`, `InsertRecord`, `RemoveObject`, `DeleteRecord` |

The query by pointers names no type: the testbed's numbers for users, slices and sites overlap, and the code keeps
what has the last type it looks for. `KeyError`s, when a site goes between two reads, are faults of the
answer. The dummy driver asks a slice on nodes for a `login_base` that none has.

### Callids: the call ids of an aggregate
Each thread runs `Callids()`, that is test, create and fetch of `_instance`, and then
`already_handled`: acquire with a number of retries, check, store or refuse with
a purge. `Missing` is Python's `not _instance`: true of `None` *and of an empty
dict*, since the class derives from `dict`. `runs` is a history of the calls
that went on to the driver.

### Advertisements, Manifest, PlAggregate, Manager: what an aggregate answers
`Advertisements` is `ListResources` and `util/cache.py` (a dictionary that all instances share, with a lock that only `add` takes).

| code | actions |
|---|---|
| the method; `cache.get` with its three looks at the entry; `pop` of an expired one | `ListResources`, `GetEntry`, `CheckAge`, `TakeData`, `FindKey`, `Pop` |
| `get_nodes`, `get_sites`, `get_leases` of `plaggregate.py` | `GetNodes`, `GetSites`, `GetLeases` |
| `cache.add`: a new entry, or the old one's data and then its time | `AddEntry`, `SetData`, `Renew`, `Finish` |
| the testbed changes; time | `Change`, `ClockTick` |

`Manifest` is `Describe`, `Status`, `Renew`, `PerformOperationalAction` and `Shutdown`:

| code | actions |
|---|---|
| the method and its credentials | `AskManifest`, `CheckSliverCredentials` |
| `get_slivers`: slices, keys, tags, nodes | `GetSlices`, `GetKeys`, `GetSliceTags`, `GetSliceNodes` |
| the rows; the nodes' sites | `QueryAllocations`, `GetNodeSites` |
| `renew`, the operational action, `shutdown` | `UpdateSlice`, `Start`, `Shutdown` |
| requests, operators and the testbed meanwhile | `OthersMove` |

As the code has it: `get` and `pop` of two threads give `KeyError`s, which fault the call; an advertisement that was read
slowly replaces one that was read later, and gets a new time; a site that goes between two reads is a `KeyError`. All nodes of a manifest share
one list of tags. The urns of slivers of two slices give all the nodes they name on the first slice, and the persons of
both; `Renew` of slivers renews the slice; `Shutdown` is a `NameError` for every slice, since `pldriver.py` does not
import `urn_to_hrn` (line 878), and nothing that follows in it is ever run; a duplicate
`Describe`, whose call id was seen, answers a string which the method then indexes.

### Slivers: the slivers of one slice
`Allocate`, `Provision`, `Renew` and `Delete` of the PlanetLab aggregate. The
testbed has the slice's expiration (`expires`), its nodes (`on`) and `leases`;
the aggregate's database has a `row` per sliver. One action per testbed call and
per database query and commit:

| code | actions |
|---|---|
| a method is called with a slice or sliver urns | `Request` |
| `verify_slice`: `GetSlices`, `AddSlice`, `UpdateSlice`, `GetSlices` | `FindSlice`, `AddSlice`, `SetExpires`, `ReadSlice` |
| `verify_slice_nodes`: `AddSliceToNodes`, `DeleteSliceFromNodes`, `GetSlices` | `AddNodes`, `DropNodes`, `ReadNodes` |
| `SliverAllocation.sync` for each node: query, commit | `FindRow`, `WriteRow` |
| `verify_slice_leases`, and the leases in `delete`: `GetLeases`, `DeleteLeases`, `AddLeases` | `FindLeases`, `DeleteLeases`, `AddLease` |
| `get_slivers` | `GetSlivers` |
| `set_allocations` in `provision`: query, commit | `QueryRows`, `CommitRows` |
| `delete`: `DeleteSliceFromNodes`, then `delete_allocations` | `TakeOff`, `QueryRows`, `DropRows` |
| `UpdateSlice` in `renew` | `SetExpires` |
| the describe at the end, the answer | `Answer` |
| a testbed call raises; the server is stopped | `TestbedFault`, `Crash` |

`TestbedFault` goes where the code goes: failures of the node changes and of
the lease changes are logged and forgotten (`Forget`), all others
fault the request. The database session is modelled as SQLAlchemy works: `seen` is what
the session read, and a commit inserts what was missing and updates only
columns that differ from what was read, so that a row that appeared or vanished
meanwhile makes it fail (`Refused`) and one that changed to the same value does not.

Abstractions: one slice; a sliver is named by its node, a lease (of one time
slot) by the node it reserves; `SetSliceHrn` after `AddSlice` (plslices.py 424) writes the hrn that `AddSlice` was given and is no step of its own; persons, tags and links are in SliceUsers, and here
calls that may fail. History variables, for the properties only: `promised`, `booked` and
`freed` are what the last answers mean; `torn` are the slivers whose last
request faulted, forgot a failure or overlapped another on the same sliver (`unsure`
follows that while a request runs). Nothing is assumed of the clients: requests overlap freely.

### SliceUsers and PlSlices: persons, keys, tags and links
The other half of `Allocate` and `Provision`, on several slices with several users; `PlSlices` lets a behaviour be
about one half.

| code | actions |
|---|---|
| a request | `Demand`, `VerifySlice` |
| `verify_site` | `FindSite`, `AddSite`, `NameSite` |
| `verify_persons`, `create_person_from_user` | `ReadMembers`, `ReadPersons`, `AddPerson`, `NamePerson`, `DropPerson`, `AddMember` |
| `verify_keys` | `ReadKeys`, `AddPersonKey`, `PersonsDone` |
| `verify_slice_tags` | `ReadTags`, `DeleteSliceTag`, `AddSliceTag`, `TagsDone` |
| `verify_slice_links` with `free_egre_key`; its tags, in mode `append` | `FindEgreKey`, `ReadLinkTags`, `AddEgreKey`, `AddLinkTag` |
| the answer; a call fails; the aggregate restarts | `Respond`, `Mishap`, `Reboot` |

As the code has it: `Allocate` or `Provision` without `geni_users` takes every person off the slice; a person whose
creation was cut short stays without role, site or the enabled flag; two creations that overlap make two persons of one hrn,
and an hrn or a site name that was cut short blocks every later attempt, since the e-mail or the site is there; each `Allocate` with links takes one more EGRE
key, and adds the tags `netns`, `capabilities`, `topo_rspec` and `vini_topo` of its links, but for those the slice has; without an entry in the
file of links nothing is done (`topology`: missing, empty or listed), and without the file the request fails, as it does when an end of a link is on none of its nodes; the mode `sync` removes tags that others set, the EGRE key
and those of links among them. `EgreKeysApart` therefore speaks of two slices, not of one. The values of the tags of links are left out.

### Importer: sfa-import beside the registry
EXTENDS Registry: its requests, its faults and its restarts go on while
`PlImporter.run` reads and writes the same database from another process, and
while the testbed's own users change it through its web site (`TestbedChange`).

| code | actions |
|---|---|
| `all_records` and the three dicts over it | `ReadRecords` |
| `GetSites`, `GetPersons` and `GetKeys`, `GetSlices` | `ReadSites`, `ReadPersons`, `ReadSlices` |
| a person: new record, or new keys; an exception is logged | `ImportPerson`, `MissPerson` |
| a slice: new record; researchers | `AddSliceRecord`, `ImportSlice` |
| the loop that clears the stale mark of special records | `CheckRecords` |
| deletion of what is still stale | `DeleteStale`, `EndImport` |

A query has no order, so a dict over it keeps *any* of several rows of one key
(`Dicts`). An object is imported in one transaction, hence in one step. Where the
import ends with an exception because a row has gone, it is `End(FALSE)`. One site;
authority and node records, PIs, disabled persons and keys that cannot be
converted are left out. History: `quiet`, `gone`, `missed`.

### DummyImporter and Importers
The same for the dummy flavour, with the registry side of its driver (one call at a time; overlapping calls
are in Registry). `Importers` chooses one of the two.

| code | actions |
|---|---|
| `Register`, `Update`, `Remove` with `DummyDriver` | `Ask`, `Enrol`, `AddKey`, `CommitRow`, `Change`, `TouchObject`, `CommitChange`, `ApplyChange`, `Withdraw`, `TakeObject`, `Erase`, `DropRow` |
| a call fails; an administrator's `nuke` | `ServerFails`, `Nuke` |
| `DummyImporter.run` | `QueryRows`, `ListAccounts`, `ListProjects`, `ImportSite`, `ImportAccount`, `NextProject`, `AddProjectRow`, `ImportProject`, `LoadAgain`, `DeleteUnmet`, `EndRun` |

As the code has it: `Register` of a node always faults; the pointer of a node that is there is read from a name of the user branch, which is not set;
an update answers `True`, which its caller cannot unpack; a user's new keys never give him a new gid; a slice
that was registered without researchers has no user list, and every later import is a `KeyError`; a user without a list of keys loses his record; when a
site fails to import, all below it are deleted as stale; the researchers of each slice are compared with those of the first
slice, so that two undisturbed imports are needed until they are right (and `ImportsRepair` says two for this flavour).

### Rights, Credentials, Methods, SfiCommands: what a server checks
Operators only. `Rights` has the privilege table of `rights.py`, what a right lets
one do and when it covers another. `Credentials` has the credential as the list
of its links, each with caller, object, rights, expiration and signer: `Issue`
(`GetCredential`), `Delegate`, `Verify` along the parents and `Check`, which is
`Auth.checkCredentials` with the target that a method asks for. `Methods` is the table
of the methods, by operation and kind of target; `SfiCommands` the table of the commands of `sfi`, by the
credentials each needs and the calls it ends with. X.509, XML and signatures are reduced to
who signed what with which key.

### Client: files, commands and the registry they are about
Each user has files: a private key, the certificate he signed himself, his gid, credentials,
gids of others, and credentials that were delegated. A command makes what it lacks, one request at a
time, and only an expired credential is ever fetched again.

| code | actions |
|---|---|
| the command line | `Start` |
| `self_signed_cert`, `my_credential` | `BootCredential` |
| `my_gid`, then the credential is read | `BootGid` |
| `get_or_produce` of an expired credential | `Refetch` |
| `slice_credential`, `authority_credential` | `Fetch` |
| the `Resolve` of `allocate`, `provision`, `myslice` | `Lookup` |
| the call of the command, at the registry or an aggregate | `Call` |
| `delegate_cred`: the gid of the other one, then the signature | `Sign` |
| the other one uses it | `DelegateeCall` |
| the user's own changes of his files | `ReplaceKey`, `RemoveFiles` |
| changes of the registry by others; time | `Elsewhere`, `Tick` |

`last` is history: when a user last had rights to an object. Abstractions: authorities are one level deep and
a user asks only his own; the one delegated to uses his registered key;
trusted peers, speaks-for and ABAC are left out. As the code has it, and worth knowing: the
`delegate` option of `resources`, `describe` and `action` uses a name that is not defined, and is left out;
the fallback
of `sfi update` is never reached (`get_or_produce` turns a server's fault into another exception).

`Verify` and what Python 3 makes of it: `credential.py:966` looks for the text "OK" in what `check_output` returned, and
line 972 does so for a failure; in Python 3 that is bytes, and the test a `TypeError`, which only `CalledProcessError` is caught for and which `checkCredentials` (auth.py 124-140) turns
into a refusal. As the code stands no credential is accepted by a server that has `xmlsec1`. The constant `TextOutput` says which it is: with
FALSE, `Verify` refuses everything. The run takes TRUE, what the code accepts when the output is text: the most that any build accepts. All properties of the client are
therefore bounds on what is accepted, kept and granted; that a command or a delegation *succeeds* is claimed nowhere.

### Aggregate, DummyTestbed, DummyDriver, IotLabDriver, Testbeds: from the socket to the testbed
`Aggregate` is the front end: clients, connections that break, the queue and the pool, the test of the call id, and what
becomes of answers and exceptions. `DummyTestbed` is the in-memory testbed of `dummy_testbed_api.py`, as functions on the
slices of one name: nothing keeps names unique, and a node may be on a slice's list twice. `DummyDriver` and `IotLabDriver` are the steps
a thread runs behind it; `Testbeds` is an aggregate with one of the two.

| code | actions |
|---|---|
| a client calls; its connection breaks; `xmlrpc.client` sends once more, or gives up | `Send`, `Break`, `LineIsDown` |
| `process_request_thread` takes the next request; `already_handled` | `Take` |
| an exception and where it is caught, `XmlrpcApi.handle` | `Raise`, `Handle` |
| the aggregate restarts | `Restart` |
| dummy `allocate`: `verify_slice`, `verify_slice_nodes`, `sync` per node | `FindSlice`, `NewSlice`, `AddNodes`, `RemoveNodes`, `LookAgain`, `SyncQuery`, `SyncWrite` |
| dummy `provision`: `get_slivers`, `set_allocations` | `Provision`, `QueryRows`, `SetRows` |
| dummy `delete`: `get_slivers`, `DeleteSliceFromNodes`, `delete_allocations` | `Delete`, `DeleteNodes`, `DeleteRows` |
| dummy `renew`, `perform_operational_action`, `shutdown`, `list_resources`, and the `describe` with which most requests end | `Renew`, `Action`, `Shutdown`, `ListResources`, `Describe` |
| the dummy testbed fails, before or after it did what it was asked; it restarts with the aggregate | `TestbedFails`, `DummyRestart` |
| IoT-LAB `allocate`: the user's login and account, `get_slivers`, the job, its lease | `GetLogin`, `AddUser`, `AskAgain`, `Experiment`, `ReserveNodes`, `SaveLease` |
| IoT-LAB `describe`: nodes, jobs, leases, `_delete_db_lease` of each that has no job | `GetReservedNodes`, `AskJobs`, `ReadLeases`, `CleanLeases` |
| what IoT-LAB answers without doing anything | `NotImplemented` |
| a job ends; the REST API answers an error, fails or submits without an answer; restart | `JobEnds`, `HttpError`, `CallFails`, `Unrecorded`, `IotRestart` |

A transmission carries the call id, so that a call sent again meets its own id in the table, or gets through all the same, as the
races of Callids let it: `Take` allows both, and every property holds for both. The
connection on which it came decides whether an answer arrives. Abstractions: slices of one name, their
ids are their positions; of several nodes the rows are written in one fixed order; the reads of the dummy `describe`
change nothing and are one step; dates, users and tags are left out, but for users without keys, at whom `get_slivers` fails like a call of the testbed (`dummyaggregate.py:114`); the lock
and the purge of the call ids are in Callids. `IotRequest` has a representative per path:
`Status` for `provision` and `describe`, `Delete` for what is not implemented, `Allocate` with and without leases and users (`Complete`). As the code has it: `shutdown` asks for a name that the
dummy driver's urns do not have, and a `Provision` of nothing takes the first element of an empty list; both are
exceptions from within the driver before anything was changed (`Balk`), as is the `min` of no leases in an IoT-LAB `Allocate` (`NoExperiment`), or its look at the first of no users. A commit
that updates a row which has gone fails only if a column is changed (`Gone`, `SyncWrite`): SQLAlchemy emits no UPDATE otherwise. `renew` passes its date under a misspelt argument, and extends nothing. An IoT-LAB
`Allocate` whose reservation failed answers as if it had not; `get_slivers` changes the dictionaries of nodes it was given.
History: `alone` and `crossed` say whether a request was disturbed; `asked` is what the undisturbed ones asked for.

### MC modules
MCRegistry, MCRegistryServer, MCHierarchy, MCAuthorities, MCManager, MCSlivers, MCImporter and MCClient instantiate
them for TLC: symmetry sets, views, trees and directories, the requests' targets. The runs `aggregate`, `callids_once` and
`slivers_delete` need nothing of the kind and use Testbeds, Callids and Slivers themselves.

### Proof modules
RegistryProofs, HierarchyProofs, ImporterProofs, RepairProofs, AnswersProofs, PlSlicesProofs, AggregateProofs and ClientProofs hold
the theorems of section 5, each with the inductive invariant it rests on.

## 3. The runs

| run | question | bounds |
|---|---|---|
| `registry` | with one request per name at a time, do both stores agree on every name that is settled, and does the database implement the directory? | 1 slice, 2 users, 1 key, 2 workers, 3 requests, 1 failure or restart |
| `registry_overlap` | with overlapping requests on one name, and users with one e-mail, do keys open the accounts, do researchers exist, and is every request answered? And who gets in with which chain, while roots are written and made anew? | same names, the users one person of the testbed, 2 keys, 2 workers, 2 requests, 1 failure; 1 peer named below the interface, 1 server and the tool, gids live for 1 tick of 2, 1 reset, 1 process stopped |
| `registry_relation` | (violated) do overlapping updates of a slice leave both stores with the same researchers? | 2 `Update`s of names that are all registered (`Updates`), no failure |
| `hierarchy` | with one `create_auth` at a time and a process stopped anywhere, do gids match keys, does what is issued verify and come with its chain, are keys kept? Are names found where they are registered, and does every lookup end? Does a record name the people it is related to? | root, interface and a site below it, 2 processes, 4 asks, 1 crash; 3 registries with 2 threads each, 2 lookups, 1 restart; 1 slice, 1 site, 2 users whose testbed ids are those of slice and site, 2 updates |
| `hierarchy_race` | (violated) does the gid match the key when two creations of one authority overlap? | 2 asks, no crash |
| `callids` | does a table let an id through once in the purge time, is it remembered that long, is the lock given back? Are answers as fresh as the cache allows, and descriptions made of what was so? | 2 threads, 2 ids, 4 calls, 2 tables, 2 attempts, purge after 2 ticks; 2 readers, 2 requests, an empty cache or one entry, 1 change, entries live for 1 tick, a request takes at most 1, 4 ticks; 2 slices, 2 nodes, 1 person, 12 kinds of request, 1 move of others |
| `callids_once` | (violated) does an id go through once, whatever table was used? | 2 threads, 1 id, 2 calls, 10 attempts |
| `slivers` | are slivers, rows and leases what the last answers said, and does every slice with slivers have its expiration? Has a slice the persons, keys and tags it was last asked to have, and do slices keep EGRE keys apart? | 2 nodes, one of them reservable, 1 expiration besides the default, 2 workers, 3 requests, 1 failure or restart; 2 slices, 2 users, 1 key, 3 tags, 2 EGRE keys, a file of links that is missing, empty or lists them, 2 threads, 3 requests of 4 kinds, 1 failure or restart |
| `slivers_delete` | (violated) does an answered deletion free what it names? | 2 nodes, 1 worker, 3 requests, no failure |
| `importer` | does an undisturbed import repair whatever came before, and does no import lose a record that is alive? | PlanetLab: 1 slice, 1 user, 2 keys, 1 worker, 2 requests, 1 failure or restart, 1 change of the testbed, 2 imports; dummy: 1 user on 2 slices, 1 name registered in another authority, 2 calls, 1 failure, 2 imports |
| `client` | do credentials, delegated or not, and grants follow rights? | 1 client, 1 user delegated to, 1 slice, 1 authority, 2 keys, 2 commands, 1 new gid per user, 1 key file replaced, 1 change at the registry, times 0 to 2, credentials live for 1 |
| `aggregate` | does every call end, are exceptions only those of requests that the driver has no answer to, are the slivers what was asked for, does a running job keep its lease? | dummy or IoT-LAB; 2 nodes, 2 threads, 2 calls on a slice that is or is not there, 1 failure of the testbed, a connection or the aggregate |

Why these bounds are enough to be interesting:

- *registry*: a slice with two users is the least with which an update adds one
  person and removes another; three requests let one create, one change and one
  remove while two of them overlap on different names (the update of a slice
  with the removal of its researcher); one failure may strike any of them. Keys
  are not compared with each other here, only with "none", so that one is enough. The case the properties are about does happen: each of
  them is broken by the mutant listed in PROJECT.json, under this configuration.
- *registry_overlap*: two users with one e-mail and two keys are the least with which one account gets the keys of two records. A peer whose name begins with the interface's is the case in which a chain could be
  taken for the other's. One reset and one tick make a chain old, in any phase of the tool and the server.
- *hierarchy*: the interface is not the root, so that both reasons to sign for
  oneself occur; the site below it is signed by another authority. Four asks
  create the chain, make one again and issue a gid, or create again after the
  crash. Of the registries one is below another and one has a name of its own, so that a lookup goes up, down and across; the ids that a
  user shares with the slice and another with the site are what a query without type confuses.
- *callids*: four calls on two ids give duplicates of both and calls whose
  purge may drop them; the clock passes the purge time once. Two attempts stand for
  ten: the count matters only in that it may run out. Two tables are as many as two
  threads can create before one of them has stored an id. Two readers are the least with which one renews, replaces or removes the entry
  that the other is taking; four ticks let an entry be made, expire and be renewed by a slow reader. The readers
  may be swapped: neither the fairness nor the temporal property names one.
- *slivers*: two nodes are the least with which a request changes one sliver and leaves
  another, and only one of them can have a lease; three requests let one allocate, one
  provision and one reallocate or delete, with two of them overlapping at any step
  and a failure or restart at any step. The expirations are compared only with the
  default, so that one other value is enough. The four kinds of request about users have every mode of tags, links or not, and
  two users of which each request names one; two slices that ask for links at once are the least that can take one EGRE key.
  VIEW keeps the half that a behaviour is about, in which workers or threads may be swapped, and drops what was answered on
  torn slivers, which no step reads and AsAnswered does not speak of until they are answered anew.
- *importer*: two imports, since what the first one leaves is what the second repairs; one request
  and one change of the testbed may fall anywhere in them, and a failure may leave a request half done before. Two keys
  are the least with which a record may have the wrong one. VIEW drops what no step and no property reads. A user of two slices is
  the least for which the dummy importer's comparison with the first slice goes wrong.
- *client*: two commands let the second use the files of the first; a credential lives for one tick of two, so
  that it expires before, in or after a command; each of key file, gid and rights may change once.
- *aggregate*: the slice may be there from the start, as an earlier `Allocate` left it, so that two calls are as good as
  three: one call that is cut short, or overlaps another, and one that has to cope with it. Two nodes let a request change one and leave another.
  With two failures instead of one the invariants were checked too.

Properties of runs with `Exclusive = TRUE` hold for requests on different names
that overlap, which is the ordinary use; the runs with `FALSE` show what happens otherwise.

Deadlock checking is off in all runs: the bounds on requests, calls and time stop
the model, and an idle server is not a deadlock. That no request blocks for good is
`Answered`, `LookupsEnd`, `EveryCallEnds` and `LockGivenBack` instead.

### The properties

- `OneRecordPerName`: no unique constraint on `hrn` exists, only `Register`'s query.
- `RecordsMatchTestbed`: when no e-mail is shared, for a settled name, a row exactly when there is a testbed
  object, and the row points to it. A name is settled when no request on it is
  under way and its last request was not cut short. That a request cut short *does* leave
  the stores apart is the code's behaviour (nothing is undone); `Settled` says so openly.
- `LinkedFromNowOn`: the testbed links a settled slice to its researchers and
  to nobody but the users of the last update.
- `KeysOnTestbed`: the key that a user's gid certifies opens the account that the record leads to, as long as that exists: at every moment, with overlapping
  requests, restarts, and an account that two users share. `Update` ignores failures of the driver and records the key even so; the property names that one case (`lost`), which is
  the code's behaviour: what it shows is that there is no other way to a record whose key is not on its account.
- `ResearchersExist`: foreign keys, seen through the sessions' stale reads.
- `ImplementsDirectory`: refinement of RegistryDirectory: every commit of the
  database is one directory step, with failures and restarts.
- `Answered`: row locks and failures never keep a worker for good.
- `TrustHolds`: three parts. `AnswersFollowChains`: a caller is let in exactly when his chain is whole, in time, and ends at a root that is
  trusted then; `OwnRootCurrent`: a server that runs trusts the root its own authority has; `InstalledOnRecord`: a peer whose root was
  installed by a tool that was not interrupted has a record.
- `AsAnswered`: a sliver whose last requests neither failed nor overlapped is on the
  testbed exactly if the last answers said so, with a row that says `allocated` or
  `provisioned` as they did, and its lease is there exactly if it was answered. It is what makes it matter that `Allocate` rewrites the row
  of every node it ends up with: rows of nodes that an earlier `Allocate` dropped
  are never deleted, and the next `Allocate` of the node must not revive their state.
- `SliversExpire`: `AddSlice` cannot set an expiration; whatever is cut short, and
  whoever overlaps, no node is on the slice before some request has set one.
- `UsersAsAsked`: after a request that nothing disturbed, the slice has the persons, and they the keys, that it named, the tags of its mode and those of its links.
- `EgreKeysApart`: two slices never have the same EGRE key unless two requests looked for a free one at the same time.
- `DeleteFrees`: violated, see section 6.
- `GidMatchesKeys`, `KeysAreKept`: see section 1.
- `IssuedVerifies`: whatever overlaps and stops, a gid that comes with its parent is signed with the key that the parent certifies, and one that comes without any, or with a part
  of the chain, was signed below an authority whose gid file was empty when it was read, because a process was writing it or had stopped at that. That such gids are issued is the code's behaviour.
- `FoundAtHome`: what a lookup finds is what the registries that own the names had, however often it was passed on.
- `LookupsEnd`: no chain of registries that ask one another goes round for ever, and no thread waits for good.
- `DetailsAgree`: a record that was read while nothing changed names the people that it is related to, in records and testbed.
- `AnswersFollowTestbed`: two parts. `AdsFollowTestbed`: an advertisement is what the testbed was at most an entry's life and the
  time of two requests before; `DescribedAsItWas`: each sliver in a description is one that was asked for, with what it had while the request ran, a fault has
  its cause, and a `Shutdown` is never answered by anything else.
- `ImportsRepair`: failed and half-done requests, duplicate records and changes of the testbed are all repaired by
  an import during which nothing else changed a store: one record per name of the testbed, one of the user's keys,
  the members that have a record.
- `RecordsKept`: an import deletes a record only when the name was off the testbed at some time since it
  began, when another record has the name, or when that person could not be imported.
- `CredentialsFollowRights`, `GrantsFollowRights`: losing rights is final within one credential's life, through any
  chain of fetching, keeping on file, delegating, allocating and renewing.
- `AsAsked`: whatever failures and restarts left, and whatever was sent twice, after a request that nothing disturbed
  the slice has the slivers that were asked for, in the state that was asked for. Two `Allocate`s of a new
  slice that overlap make two slices of one name, of which `allocate` uses the first and `describe` and `delete` the
  last: from then on (`crossed`) the property says nothing.
- `NeverStuck`: no request meets an exception because of what an earlier one left. Those that the driver has no answer to do, whatever came before, and the property names them: a
  `Shutdown` or a `Provision` of a slice without slivers on the dummy testbed (`Unservable`), an `Allocate` without leases or users on IoT-LAB.
- `JobsKept`: a job of the slice that the scheduler still has keeps its lease, although every description deletes the leases whose jobs it does not see.
  A description that asked for the jobs before a reservation and reads the leases after it does delete the new one, against the docstring (a lease goes
  "if OAR job id doesn't exist"); such a lease (`stray`) is excepted, and so is a job whose lease was never stored.
- `EveryCallEnds`: threads outlive exceptions, and no call waits for good.
- `OncePerTable`, `RememberedInTime`, `LockGivenBack`, `AtMostOnce`: see section 1.

## 4. Fairness

- RegistryServer: `WF_serverVars(ThreadWorks(w))` for each worker. A pool thread that has a request
  runs until it has answered (`process_request_thread` loops for ever and catches
  what a request raises); the database answers, and calls of the testbed return or raise. No fairness
  for `Request`, `TestbedFault` and `Crash`: nobody must send a request, nothing must fail.
- Authorities: `WF_allVars(Work)`, where `Work` is any step of a registry's thread on a lookup, for the same reason. None for `Ask`, `Restart` and lost answers.
- Manager: `WF_managerVars(Serve(w))` for each thread; none for `Call` and time. Weak
  fairness of an acquisition is enough since a thread that does not get the lock
  in its attempts goes on without it.
- Testbeds: `WF_vars(Work(w))` for each thread, as in Registry (`Handle`, which catches an exception, is one
  of the steps), and `WF_vars(LinesAreWatched)`: the library notices a closed connection, and sends again or gives up. None for `Send`
  and the failures.
- Slivers, SliceUsers, the importers, Client, Details, Advertisements, Manifest, Hierarchy and Trust have no liveness property.

## 5. The proofs

All theorems hold for every value of the constants that satisfies the assumptions named below, which TLC
evaluates in the runs. None of them assumes that a request, a failure or a restart does not happen, except
where `Exclusive` is named.

**RegistryProofs** (for any slices, users, keys, workers and bounds):

- `TypeCorrect`: `Spec => []TypeOK`. TypeOK is not inductive: that `InsertRow` stores
  a testbed pointer and not `None` depends on the path the worker took. `IInv` adds
  `Holds(w)`: at which labels a worker has a request and a pointer, and that
  a request with researchers has no key (it is on a slice, not on a user), which is what keeps
  the pointer through `SwallowFailure`, where the code forgets the driver's failure.
- `NamesUnique`: `Exclusive` implies `Spec => []OneRecordPerName`. OneRecordPerName
  is not inductive: between the query of `Register` and the insertion there are up to
  four steps. `Unique` adds `Alone`, two workers never serve the same name, and
  `Free`, while a Register is under way there is no row of its name. `Alone` is where
  `Exclusive` is used; without it the theorem is false (two Registers of one name).
- `ResearchersStay`: `Spec => []ResearchersExist`, with no hypothesis on the clients: overlapping requests on one name
  cannot leave a researcher that is no row. What must be carried along is what a session has read and not yet committed: a worker at its commit
  holds ids that are rows, or that a deletion has made it fail on, and ids are never used twice.

- `KeysMatch`: `Spec => []KeysOnTestbed`, with no hypothesis on the clients, nor on who shares an e-mail. The invariant `Keyed` says that the key a request is about to record opens the account that
  its row leads to, or that the driver failed to send it (`Keying`), that no object gets a pointer which a row or a worker has, and that keys are added to accounts and never taken away.

Under `Exclusive` (one request per name at a time) and `Distinct` (no two names are one on the testbed) it relates the two stores:

- `RecordsMatch`, `LinksMatch`: `[]RecordsMatchTestbed`, `[]LinkedFromNowOn`. The
  invariant behind them (`Agreement`) says: ids that were not given out are in neither store, nor in any worker's hands (`FreshObjects`);
  there is at most one object per name, and the pointer of a row leads to the object of its name, or to nothing (`Pointers`); an object without a row
  has no members (`Members`); what a worker owns at each label (`Owns`), and what it has still to link or unlink. `Matched` and `LinksThere`
  are the two properties weakened to names that no request is serving at the labels in between. That `LinkedFromNowOn` needs `Exclusive` is what `registry_relation` shows.
- `ImplementsTheDirectory`: the refinement `ImplementsDirectory`: the initial directory is a directory, each commit (`InsertRow`, `WriteRow`, `DeleteRow`) maps
  to one of `Add`, `Relink`, `Rekey`, `Drop` or to a stutter, everything else to a stutter. It needs OneRecordPerName, as an entry is that of the one row of its name.

Assumptions: `NamesAssumption` and `IdsAssumption` (names of slices and users differ,
names are not numbers, `None` is none of them), `BoundsAssumption`,
`ExclusiveAssumption`, `CalledAssumption` (no slice is called as a user is), `NoneAssumption` (`None` is not a record), `EntryAssumption` (nor an entry of the directory).

**HierarchyProofs** (for any tree of authorities, any processes, requests and crashes; one `create_auth` at a time, while gids are issued at any moment):

- `TypeCorrect`: `[]TypeOK`; `GidsMatchKeys`: `[]GidMatchesKeys`; `IssuedOnesVerify`: `[]IssuedVerifies`; `KeysStayForEver`: the action property `KeysAreKept`.
  The invariant says which file holds what at each label of the one process that creates (`KeyInMaking`, `GidInMaking`), and that whoever signs
  has read a key that no longer changes (`SignerKnown`). For IssuedVerifies, `ChainInv` adds that an empty gid file is one that a process is writing or left so (`EmptyKnown`), and that the chain of each gid
  on file or in the making is whole or excused by such a file. The hypothesis is necessary: `hierarchy_race` refutes GidMatchesKeys without it.

Assumptions: `ParentAssumption`, `InterfaceAssumption`, `BoundsAssumption`, `ExclusiveAssumption`, `FilesAssumption` (an absent file, an empty file and a key differ).

**HierarchyProofs**, details (for any users, pointers, requests and reads; a theorem of `DetailsSpec`, of which the behaviours of Authorities about details are behaviours):

- `DetailsHold`: `[]DetailsAgree`. The invariant `DetailsInv` has two halves. `Stores`: records and testbed agree but for what the request under way has still to do
  (`AccountsMatch`, `MembersMatch`, `LeadsMatch`), and but for what went away with the site, along with which PLC drops its slice and its persons. `Reading`: what a Resolve has read at each of its steps,
  if nobody disturbed it, is still so (`AloneRead`), and whoever was related all the time is among what it has read (`SteadyRead`). From
  the two, what `FillSfaInfo` names follows: it finds people by testbed id alone, which tells users apart from one another and not from slices and sites, hence the strangers that DetailsAgree admits.

Assumptions: `PointerAssumption` (users have different ids), `HrnsAssumption`, `AskedForAssumption`, `NothingAssumption` (`Nothing` is neither a request nor what was read).

**RegistryProofs**, trusted roots (for any interface, peers, gid lifetime, resets and stopped processes; theorems of `ServerSpec`):

- `TrustKept`: `[]TrustHolds`, its three parts together. `ChainsStayWhole`: every chain that is verified has its links signed by one
  another up to a root. The invariant adds whose chain each gid is in whatever was made anew (`ChainsWhole`), that the answer about to be installed is
  the peer's own root (`AnswerOfPeer`), that the root of a running process does not change behind it (`RootStays`), and which peers the tool has still to record (`Accounted`).

Assumptions: `InterfacesAssumption` (interfaces have nonempty names, and none is in another's place in a name), `FilesAssumption`.

**AnswersProofs**, answers (for any readers, requests, testbeds and times; theorems of `ManagerSpec`):

- `AnswersFollow`: `[]AnswersFollowTestbed`. For advertisements: entries are renewed no later than `Patience` after what they hold was to be seen
  (`EntriesFresh`), which survives that two readers write, renew and remove one entry since each writes what it has read itself; for descriptions: each thread has
  seen, at each of its steps, a state of the testbed that was one of those since its request began; each fault has its cause, and a Shutdown has no answer.

Assumptions: `AdsAssumption`, `AskedAssumption`, `NilAssumption`, `QuestionsAssumption`, `NowhereAssumption` (the values that stand for nothing differ from the others).

**AnswersProofs**, call ids (for any threads, ids, retries, purge timeout and bounds):

- `TypeCorrect`: `Spec => []TypeOK`.
- `IdOncePerTable`: `Spec => []OncePerTable`.
- `IdRemembered`: `Spec => []RememberedInTime`.

They share one inductive invariant, `IInv`. To TypeOK and the two properties, which are not
inductive, it adds: `Holds`, what each label says of a thread's call, table and lock (a thread
that checks, stores or refuses has the lock of its table, so that two of them are on different
tables: lemma `LocksDiffer`); `Unknown`, at `store` the id has no entry, which stays true
between check and store since only the thread with the lock writes the table; and `Past`,
no run is later than the clock. The argument is then short: an id is stored only where it has
no entry (`Unknown`), a young entry of a run that went through survives every purge
(`EntriesKept`), hence a second run of the id in the table is late. Assumptions:
`RetriesAssumption`, `TimesAssumption`, `CallsAssumption`, `NoneAssumption`, evaluated in the callids runs.

**ImporterProofs** (for any names, keys, workers, accounts, calls, failures and runs, either flavour; theorems of `ImportersSpec`):

- `ImportersTyped`: `[]ImportersTypeOK`. `RecordsAreKept`: `RecordsKept`, its two action properties together.
  Both rest on `ImportersInv`, an invariant for each flavour; a step of one leaves the variables of the other alone.
  RecordsKept is about the last step of a run, and what makes it true is what the run read at its start, so the invariant follows a name from
  there: `Underway` and `Reached` say, for each name that was never off the testbed, that it is on the list that was read, then that it is
  still to import, then that its row is no longer stale (or it was missed), until nothing is left to import.
- PlanetLab (`ImportInv`, on top of the invariant of RegistryProofs): objects are seen one list after another, so a pointer on the first list has to name
  the same thing when the second is read. That is `NewIds` and `Sighted`: ids of requests that are still to make their object are on no list, and an object
  that is there keeps its name. Steps of Registry are taken together (`Onward`): what a request may do to the two stores while the importer runs.
- Dummy testbed (`DummyInv`): `CallOK`, `PeopleOK` and `RowsOK` are the types of the call, the testbed and the database; `RunOK`: a row that the importer has read
  is known under the name that it still has, since ids are never given twice while it runs (`HrnsStay`; `nuke` starts them anew, when no import runs). What a call means
  to the importer is one lemma, `DisturbInv`. Removing a user from a list by his place needs that a set of numbers has a least one (`LeastIs`, by well-founded induction).
  TLC checked DummyInv in the run before it was proved.

Assumptions: those of Registry, `DistinctAssumption` (persons and slices have one hrn tag each), `ImportBoundsAssumption`, `FirstAssumption` (what a dummy testbed starts with: no two accounts of one user, no two slices of one name, no empty list of keys),
`LeavesAssumption` (a name ends in a user or a slice, and not in both), `VoidAssumption` (`Void` is neither a call nor an empty list).

**RepairProofs** (for any names, keys, workers, accounts, calls, failures and runs, either flavour; a theorem of `ImportersSpec`):

- `ImportsRepaired`: `[]ImportsRepair`. The property is about the end of an import, and what it finds there was decided at every step before, so the invariant says of
  each phase how far an undisturbed import has come; and since such an import may follow anything at all, also what no failed or overlapping request can have spoiled.
- PlanetLab: `Orderly` holds always. `OneName`: a pointer is of one name wherever it is kept (testbed, row, worker, what the importer has seen), and so is the id of a row,
  though rows, jobs and objects come and go and requests overlap; ids still to be given have none. `UserMembers`: members of a slice are users. `OneObject`: the testbed has a name once.
  `Undisturbed` is about imports during which nobody else changed a store. `SeenAll`: what has been seen is what is on the testbed. `InDicts`: the two dictionaries follow the
  rows, through insertions, deletions and duplicates, of which each keeps only the last one. `NotStale`: a row that will not be deleted is the known one of a name that is there.
  `AllFine`: what has been imported has a row with the right key, or the right researchers, the latter since users come before slices. At the end nothing is stale: each name that is there has the row
  known for it, and no other. Requests do not matter to `Undisturbed` (`MeanwhileUndisturbed`), nor does the importer to most of `Orderly` (`ImportOrderly`); the rest is a lemma for each action.
- Dummy testbed, in ImporterProofs: `Apart`, no two accounts of one user and no two slices of one name; `Tables`, `Brought` and `OneEach`, the same argument with the importer's tables.
  The first import leaves one row for each leaf (`OneEach`), but may give a slice the wrong users; from then on the dictionaries lead to the right rows (`DictsFit`),
  and each slice that the second import has been at has the users its project lists (`Linked`).
- TLC checked both invariants in the run before they were proved.

**PlSlicesProofs**, slivers (for any nodes, leases, times, workers and bounds, and no hypothesis on the clients; theorems of `PlSlicesSpec`):

- `TypeCorrect`: `[]TypeOK` of Slivers. `AnswersHold`: `[]AsAnswered`. `SliversAlwaysExpire`: `[]SliversExpire`.
  AsAnswered speaks only of slivers that are settled, so the invariant has to follow each undisturbed request with each of its slivers: `Progress(w, n)`, by
  method `Provisioned`, `Deleted` and `Allocated`, says what testbed, row and lease are at each label. That another request does not disturb it is
  one lemma, `OthersGoOn`, from two facts: a step touches only slivers that its request claims (`Confined`), and two requests that claim one sliver know it
  (`Overlaps`), so that neither is taken for undisturbed. `Within`: a request on named slivers works on no others. `Expires`: from the moment a node may be added, the slice has an
  expiration. TLC checked the invariant in the run before it was proved.

Assumptions: `NodesAssumption`, `TimesAssumption`, `BoundsAssumption`, `JobAssumption` (names of what is missing differ from what is there).

**PlSlicesProofs**, users (for any users, keys, tags, slices, threads and bounds, and no hypothesis on the clients; theorems of `PlSlicesSpec`):

- `AllTypesCorrect`: `[]PlSlicesTypeOK`. `UsersStayAsAsked`: `[]UsersAsAsked`. `EgreKeysStayApart`: `[]EgreKeysApart`.
  Both properties bind a state to a request that may be long over, so the invariant `UsersIInv` says what holds from its beginning to its end: `Ready`, what
  a thread knows at each call is of its own request and of accounts that exist; `Stage`, how far an undisturbed request has come (`Listing` the
  members, `Accounting` for every user by an account found, made or still missing, `Naming` the new one, `Dropping` and adding, then `Tagging`, the tags of links included), each written as what the slice will have once the
  work that is noted down is done; `Quiet`, an undisturbed thread is the only one that runs, no thread works on a slice that is as it was asked to be, and
  none renames one of its persons; `Agreements`, what such a slice has; `Apart`, until two threads look at once, one thread at most has an EGRE key it has found and not added, and no slice has it.
  The steps that keep it share one lemma: what a thread may not touch (`Frame`) leaves the agreements as they are (`AgreementsStay`); other requests
  add keys to persons of the slice and never take one away, which is what UsersAsAsked needs. TLC checked the invariant before it was proved.

Assumptions: `EgreKeysAssumption` (keys are numbers), `TagsAssumption` (`Tags` are those other than egre_key), `DemandsAssumption`.

**AggregateProofs** (for any nodes, calls, threads and failures, with either driver; theorems of `Spec` of Testbeds):

- `LeasesAreKept`: `[]JobsKept`. JobsKept is not inductive: whether a Describe deletes the row of a job was settled when it asked for the jobs, two calls earlier. `InHand` says, at each
  of its steps, that whatever it would delete (`Doomed`) has ended or is stray, and that a thread has no rows left over from an earlier step, which is why a Describe without an answer may
  go on to the cleaning. `Asked` follows requests from the client through the queue to the places of the driver, since a thread begins at the place named for its request.

- `TestbedsTyped`: `[]TestbedsTypeOK`; `NothingSticks`: `[]NeverStuck`; `SlicesAsAsked`: `[]AsAsked`. They share `TestbedsIInv`, which for IoT-LAB is the types of the manager
  and that an exception follows a failure of a call or an incomplete request, and for the dummy testbed `DummyIInv`. NeverStuck and AsAsked speak of requests that run undisturbed on what disturbed ones left behind, which
  may be of any shape. So the invariant has few claims on the slivers as such: `OneSlice`, until two Allocates cross there is at most one slice and each node is on it once (the testbed itself adds a second slice of the name, and a
  node a second time); and much about the request: `Histories`, nobody else changes slivers while one is alone, and two Allocates run at once only after `crossed` is noted; `KindAt` and
  `LocalsAt`, what is asked for and found at each place; `Stage`, how far an undisturbed request has come, for Allocate from the nodes found over those added and removed to the rows synchronised one by one, each
  step with what is then on the slice; and `Clear`, the slice is as asked, or a thread is past the point where it begins to change it. That others do not disturb a stage is one lemma (`OthersGoOn`), as is the frame of a step
  (`MoveKeeps`), and each action adds only what it does itself. TLC checked the invariant in the run before it was proved.

Assumptions: `AggregateAssumption`, `TestbedAssumption`, `RequestAssumption`, `IotRequestAssumption` (`None`, for no slice, no request and no transmission, is none of those).

**ClientProofs** (for any users, clients, objects, commands, renewals of gids, replaced keys, lifetimes and clocks; theorems of `Spec` of Client, with no hypothesis on what users do):

- `ClientTyped`: `[]ClientTypeOK`. `RightsFollowed`: `[]CredentialsFollowRights`. `GrantsBounded`: `[]GrantsFollowRights`.
  They share `Base`: `Shape`, the types of registry, files, commands in progress and history; `SecuredThere`, a command that has
  passed the check of a step has on file what the next one reads; `LastSeen`, the history of rights is at the clock as long as one has them. That a credential
  follows rights is then a matter of where it can come from: only the registry issues, only to one who has the rights at that moment, and
  whoever checks, files or delegates a credential never lets it last longer.

Assumptions: `CredentialsAssumption` and `NoFileAssumption` (`None`, for a missing file, is neither a credential nor a gid), `CommandsAssumption` (nor a command; commands name objects there are), `ClientAssumption`.

Model-checked only:

- the liveness properties `Answered`, `LookupsEnd`, `EveryCallEnds` and `LockGivenBack`: out of TLAPS's reach;
- `FoundAtHome`: the longest prefix is found by recursion over a tree of characters (`PrefixTree`, RECURSIVE), and
  with it `AuthoritiesTypeOK`, whose module reaches it.

## 6. Disagreements found

1. `registry_relation`: `registry_manager.py:378` calls the list "hrns that should be linked to
   the subject from now on". The commit (line 576) and the testbed update (577) of two overlapping
   `Update`s of one registered slice may happen in opposite orders, and the stores then differ for good.
2. `hierarchy_race`: `hierarchy.py:147-148` promises a key and "the associated GID". Two
   creations of one authority may leave the key of one and the gid of the other.
3. `callids_once`: `callids.py:10-11` promises a thread-safe singleton. `Callids()` replaces
   a table that is still empty, so two calls with one id can both go through.
4. `slivers_delete`: `methods/Delete.py:12` promises to "Remove the slice or slivers and free
   the allocated resources". `delete` looks for leases only on nodes the slice is still on, while
   `Allocate` takes leases on nodes without a sliver: these stay after the slice is deleted.

Smaller ones, met while modelling and not the subject of a run, are told with each module in section 2.

## 7. What is left out

- Nodes and authorities in Registry: they follow the path of slices and users
  (the files of authorities are in Hierarchy). The `pi` relation is the same
  mechanism as `researcher` (Details has both). Peers that are told of a removal: errors are ignored.
- In Slivers: between the nodes being added and the rows being
  rewritten, an `Allocate` shows a node that was dropped and taken again with its old
  row, for good if it is cut short there; `AsAnswered` leaves out requests that were cut short.
- Speaks-for credentials and ABAC: `speaksfor_util.py` cannot run as it is (section 2).
- XML-RPC, TLS, X.509, signatures, RSpec documents, command lines, migrations:
  libraries, formatting or code without shared state.
- Anything listed as `not_modelled` in PROJECT.json, with its reason there.

## 8. What could come next

The plan's models are all built, and every property that TLAPS can reach is proved. To prove `FoundAtHome` the prefix tree would have to be stated
without recursion (as the longest registered prefix), and that statement compared with `PrefixTree` by TLC.
