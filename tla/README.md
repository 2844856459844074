# KnowledgeCore: a TLA+ verification project

KnowledgeCore is a local-first knowledge vault: files are ingested into a
content-addressed object store with a SQLite database beside it, events are
recorded in a hash-linked chain, documents are superseded or tombstoned, and
vaults are synchronised through an S3 bucket or a shared directory. Around this
core stand device trust and signed heads, lineage edits under leases and
policies, encryption at rest, recovery escrow, and federation queries. This
directory models the parts of it where several processes, replicas and failures
meet, checks them with TLC on small instances and proves the central facts with
TLAPS for every value of the constants.

Paths below are relative to the repository; `kc_core/...` stands for
`crates/kc_core/src/...`.

## 1. Inventory

| Component | State it keeps | Operations | What is hard | What makes it correct |
|---|---|---|---|---|
| S3 sync (`sync.rs`, `sync_s3.rs`) | bucket: `head.json`, `snapshots/*.zip`, `locks/write.lock`, `conflicts/*.json`; vault: `sync_state` rows, db file, store | `sync_push_s3_target`, `sync_pull_s3_target`, merge preview, status | interleaved replicas, expiring lock, crashes, failed or unacknowledged puts, decisions made before the lock | the lock excludes; a head is not overwritten unseen; heads and remembered ids never dangle; snapshots do not change |
| Filesystem sync (`sync.rs`, `sync_transport.rs`) | the same, as a directory; no lock | `sync_push`, `sync_pull` | free interleaving, retries with the same `now_ms`, half copied trees | what a head names is complete; a pull installs the head it read |
| Merge policies (`sync_merge.rs`) | none (pure) | four previews, four `ensure_*` functions | precedence and agreement of four reason lists | a safe verdict means disjoint change sets; later policies are stricter |
| Event chain (`events.rs`) | `events` table | `append_event`, `read_verified_event_chain` | read-then-insert outside a transaction | decisions are only made on a verified chain |
| Ingest and object store (`ingest.rs`, `object_store.rs`, `canonical.rs`) | `objects`, `docs`, `canonical_text`, object files | `ingest_bytes`, `put_bytes`, `persist_canonical_text` | several statements without a transaction, non-atomic file writes, two processes with the same bytes | rows have their bytes |
| Garbage collection (`kc_cli/commands/gc.rs`) | - | `run_gc` | works from a list read earlier | removes orphans only |
| Document lifecycle (`document_lifecycle.rs`) | lifecycle events in the chain | `append_document_lifecycle_event`, `resolve_document_lifecycle` | long sequences, depth bound, pinned hashes, forks underneath | one transition per document, no cycles, tombstones are final |
| Lineage overlays, edit locks (`lineage.rs`) | overlays, lease rows | add, remove, acquire, release, take over | lease expiry between check and write; calls that overlap | a write had a live lease, a role and a policy during its call; answers match rows |
| Lineage roles and policies (`lineage_governance.rs`, `lineage_policy.rs`) | bindings, policies, audit | grant, revoke, add, bind, evaluate | rights changing between check and write | default deny, deny first, what was written was audited |
| Sync auth, key custody, trust (`sync_auth.rs`, `sync_key_custody.rs`, `trust*.rs`) | providers, sessions, devices, certificates, keys | sign in, enroll, verify, rotate, delete, revoke, sign, verify a head | enrolment as six writes, rotation races, expiry boundaries, two classifications of one head | keys have certificates; one replacement per rotation; what verified stays verified; report and pull agree |
| Recovery and escrow (`recovery*.rs`) | bundles, providers' blobs, configuration tables | enable, add, generate, rotate, rotate all, restore | one of several providers failing, interrupted calls | a descriptor means a readable blob; a phrase handed out stays good |
| Encryption (`vault.rs`, `db.rs`, `object_store.rs`) | vault.json, db file and its side files, objects | enable, migrate | crash or failure half way, retries, ingests beside | no partial file is sealed, no row lost by a failure, repeated migration completes |
| Federation (`federation.rs`, `kc_cli/commands/federation.rs`) | none | query v1, v2, delegated | rights and documents withdrawn while a query runs, bounds of the scan | what is disclosed was active and allowed; not_found means none |
| Export and verifier (`export.rs`, `kc_cli/verifier.rs`) | bundle | export, verify | export beside writers | a fresh export verifies |
| Retrieval (`retrieval.rs`, `kc_index`), ask (`kc_ask`) | indexes, traces | query, merge rankings, answer | tie order, stale indexes | deterministic order, citations resolve |
| Chunking, locators (`chunking.rs`, `locator.rs`) | none (pure) | chunk, resolve | boundaries | chunks cover the text, locators round-trip |
| Extractors, CLI, desktop app, UI | none of their own | delegate | - | - |

Interactions: sync replaces the database and store that ingest, lifecycle and
lineage write; the sync state lives in the same database file that the sync
manifest hashes; lifecycle decisions read the chain that ingest appends to;
gc reads the table that `put_bytes` fills last; a federation query reads the
chain, the tables and the files that all of these change; the encryption
migrations rewrite the files that ingest writes; a head's signature is made
from the devices, certificates and keys that enrolment and rotation write.

`PROJECT.json` lists the hazards at their lines with the properties for them.

## 2. Modules

* `SyncVault` - the vault as sync sees it: per replica a database (object rows,
  overlay rows, the `sync_state` values `seen` and `applied`, and a revision)
  and the set of object files. The manifest hash covers the whole database
  file, so every write draws a fresh revision; two databases hash alike only if
  one is a copy of the other. Local edits (ingest, overlay add and remove), the
  two `sync_state` writes, the three stages of `apply_snapshot_to_vault`,
  `should_conflict` and the change sets are here. Extended by both transports.
* `SyncS3` - push and pull against a bucket. `pc[d]` is the next bucket access
  or local write of replica `d`, `ctx[d]` the values its Rust frame holds
  (`seen_remote`, `last_applied_manifest`, `local_manifest_hash`, `now_ms`,
  the head read, the exported or fetched database). `PushStart` and `PullStart`
  stand for everything before the lock (one read of the head; the rest is local);
  `LockRead`, `LockDelete`, `LockPut` for `acquire_s3_lock`; `Recheck` for the
  second head read and decision under the lock; `PutSnapshot`, `PutHead`,
  `Fetch`, `Apply`, `RecordState` for the closure; `ReleaseRead`,
  `ReleaseDelete` for `release_s3_lock`, which `with_s3_lock` also runs after an
  error. `TransportError` fails a bucket access (or loses the answer of the head
  put), `LocalError` a local write, `Crash` ends the process anywhere; a failing
  access of the release, or a lock put whose answer is lost, also ends the call
  with the lock left behind, so these count as crashes. `Tick`
  lets time pass while operations are at most `OpBudget` old; `now_ms` and the
  lock's expiry are fixed when an operation starts, as in the code.
* `HeadRegister` - the abstract specification: one published value, each
  replica's basis, and for a publication not yet answered the basis before it.
  `Publish(d)` is replica `d`'s own: it goes over the value that `d`'s basis is,
  or `d` has none yet, and makes the new value `d`'s basis; `Lose(d)` falls back
  to the old basis when the answer does not arrive. `SyncS3!Register` is the
  refinement mapping: the basis is the `last_seen` row, and between the put of
  the head and that row it is what the push published.
* `SyncFs` - push and pull against a directory: no lock; the snapshot directory
  is removed, created and filled in steps; pulls copy straight out of it.
* `SyncMerge` - the four policies as operators over change sets; one behaviour
  is one preview followed by its `ensure_*` call. Reasons are a set: each is
  pushed at most once and `ensure_*` only asks which there are.
* `VaultLog` - events, object rows and files, documents, canonical text and
  lifecycle events of one vault, worked on by several processes. Every SQL
  statement and file operation of `ingest_bytes`, `put_bytes`,
  `persist_canonical_text` and `run_gc` is a step. A lifecycle mutation is one
  step: it runs in one transaction whose first statement writes (the policy
  audit row), so SQLite lets no other writer commit before it ends.
* `Federation` - composes `VaultLog` with queries of version 1, version 2 and
  version 2 on behalf of a delegated session. `query` is the frame of the one
  query that `run_serve` handles at a time: the two authorization checks, the
  read transaction, then one object file per step. Version 2 keeps its read
  transaction until the scan is over, and the database has no write-ahead log,
  so no other process commits meanwhile (`ReadLocked`); file operations, and
  everything during a scan of version 1, do interleave. The candidates are the
  documents with fewer than `MAX_SCAN_CANDIDATES` newer ones; the scan takes the
  newest of those left, which is the order of the query's `ORDER BY`, as no two
  documents have the same `ingested_event_id`. `answer` is what the
  last step sent. The rights of the session are any, and change during the
  query.
* `Trust` - identity providers and their policies, sessions, devices, their
  audit events and certificates, custody of signing keys, and the head that
  this vault publishes. Every SQL statement is a step except in
  `rotate_sync_signing_key`, which is one transaction. A device and its key
  pair are one value; a signature is who signed which of the two payloads.
  There is no clock: the `now_ms` of each call is its caller's (`--now-ms`), so
  every step that uses one takes any time of `Times`, also an earlier one than
  the calls before it. The
  chain verification, the legacy comparison, the readiness classes and the
  strict check are operators on heads, applied to every head a target may hold
  (`HeadInputs`).
* `Lineage` - edit and scope locks as leases, role bindings, policies, audit
  rows and overlays. `lineage_overlay_add` and `_remove` take one step per
  statement: lock status, token, permission, policy decision, audit row, write.
  `met[q]` is a history variable: which of lease, role and policy have held at
  some moment of the call.
* `AtRest` - vault.json's two flags, object files (plain or under a passphrase;
  whole, part or broken), and the database as paths that name files: a
  connection stays with its file when the path is renamed. `MigrateDb` to
  `Finish` and `Rollback` are the steps of `migrate_db_to_sqlcipher`,
  `MigrateObject` and `Rewrite` those of the object migration. A crash inside a
  write leaves a part; a rename or removal may fail.
* `Escrow` - bundles (blob and manifest), what each provider holds, the two
  configuration tables, the event table and the last-path file. The path of a
  bundle is its directory and the time in its name. That time is the caller's
  `now_ms`, any for each call, so calls may share one and then write into one
  bundle, over what is there. Providers are numbered in the
  order of their priority, which is the order of `rotate_all`; `IdOrder` is the
  order of their ids, by which `read_recovery_escrow_config` breaks ties. A phrase
  stands for the blob it opens and its hashes. History variables: `told`, the
  phrases that a rotation returned to its caller, each with its bundle's path;
  `latest`, the phrase drawn last for each path; `mixed`, the phrases whose bundle
  two calls were writing at once.
* `MCSyncS3`, `MCSyncFs`, `MCVaultLog`, `MCFederation`, `MCTrust`, `MCLineage`,
  `MCAtRest`, `MCEscrow` - instances for TLC.
* `SyncVaultProofs` (lemmas on what both transports do to a vault, and the
  theorems on `SyncMerge`, which it extends beside `SyncVault`),
  `SyncS3Proofs`, `SyncFsProofs`, `VaultLogProofs` (also on `Federation`, which
  extends `VaultLog`), `TrustProofs`, `LineageProofs`, `AtRestProofs`,
  `EscrowProofs` - theorems.

Operators commented "Faulty variant" are not part of any specification: each is
the neighbouring definition with a plausible mistake, kept to show that the
property it belongs to (`mutants` in `PROJECT.json`) would notice it.

### Abstractions

Hashes are injective: a value stands for its hash. Payloads, wording,
timestamps of rows and error messages are left out; error codes appear where
callers branch on them (`SyncMerge`). Snapshot size limits, zip path checks and
ingest limits only refuse input before any effect and are left out. In `SyncS3`
all replicas read one clock: clocks that differ, and a `now_ms` that the caller
makes up, are left out; the lock compares the observer's time with the owner's
(`sync.rs:1413`), so either could expire a lock that is in use, which is the
expiry that `s3_faulty` has and `s3_timely` excludes. In `SyncFs` the head is
written in one step although `fs::write` (`sync_transport.rs:159`) truncates
first: a reader inside it, which fails to parse an empty head.json, and a crash
inside it, after which every push and pull fails so, are left out; neither
installs or publishes anything. In `SyncS3`
signing enters as which of three signers a head has (custody key, environment
key, legacy digest) and trust as the passphrase fingerprint; what verification
makes of a head is modelled in `Trust`. In `Lineage` every process has a user of
its own: the token hashes document, owner and time, so two calls of one owner at
one `now_ms` have the same token, a case left out. A condition of a policy is
the set of documents it matches. The six escrow adapters do the same with
different error texts and are one here.
Auto-merge has one mode: with the default context that pulls pass, all four
policies accept exactly the disjoint change sets, which
`DefaultContextMeansDisjoint` checks and `DisjointDeltasIsSafe` proves. A merge preview is one step although it
reads several bucket objects: snapshots do not change and the head is read once.
An export is atomic, as part of the first step of an operation. While a pull
replaces the db directory, an editor's writes go to an unlinked file, so edits
are not interleaved with that one step.
`Resolve` works on the recorded events; that `load_document_lifecycle_events`
refuses a forked chain or a changed pin is the guard of `LifecycleMutate`.

## 3. Runs

`tlc -config <cfg> <module>`; the runs are listed in `PROJECT.json`.

| Run | Instance | Result |
|---|---|---|
| `s3_timely` | 3 replicas, one with another passphrase; 4 operations, plain strict and auto compat pulls; one transport error; operations within the TTL, no crash | `TypeOK`, `MutualExclusion`, `NoUnseenOverwrite`, `ImplementsRegister`, `HeadTrustStable` hold |
| `s3_faulty` | 2 replicas; 3 operations; a crash and a local error; lock TTL as short as an operation; an edit at any time | `HeadHasSnapshot`, `SeenHasSnapshot`, `SnapshotsImmutable` hold |
| `fs_retry` | 2 replicas; 3 operations with one `now_ms`; 2 edits; a crash | `TypeOK`, `HeadIsComplete`, `SnapshotMatchesId`, `PullInstallsHead`, `PublishedIsComplete` hold |
| `merge_policies` | all pairs of change sets over 2 hashes, 1 overlay id, a malformed hash and an empty id; all contexts | `DefaultContextMeansDisjoint`, `PoliciesGetStricter` hold |
| `vault_federation` | 2 processes, 3 documents (2 present at the start), 4 operations, a crash, depth bound 1; queries of every kind beside up to 2 operations, one change of rights during a query, scan and result bounds of 2 | `TypeOK`, `LifecycleOnVerifiedPrefix`, `ResolutionSettles`, `RowsHaveBytes`, `TombstoneFinal`, `DisclosureIsJustified`, `AnswerIsComplete` hold |
| `trust` | 2 processes, 2 providers, 3 devices, 2 sessions, 5 operations with up to 2 rotations and 2 sign-ins, a `now_ms` of 0 to 2 for each call, sessions of one tick, a crash | `TypeOK`, `CustodyHasCertificate`, `OneReplacementPerRotation`, `SelectionAgreesWithAdmission`, `ReadinessAgreesWithPull`, `VerificationIsStable` hold |
| `lineage` | 2 users with a process each, 1 document, 3 overlay calls, 2 acquisitions, a release, one change of rights, a lease of one tick | `TypeOK`, `WriteHasGrounds`, `OverlayIsAudited`, `AnswersMatchRows` hold |
| `at_rest` | 2 processes, 2 objects, 2 object passphrases, 2 ingests, both enabling calls, any number of migrations, one crash or failure; under `FairSpec` | `TypeOK`, `SealedIsWhole`, `FaultKeepsRows`, `ObjectsConverge`, `DbConverges` hold |
| `escrow` | 2 processes, 2 providers whose ids are in the reverse order, 4 calls with a `now_ms` of 1 or 2, 2 phrases, one fault | `TypeOK`, `DescriptorHasBlob`, `ToldPhraseRecovers` hold |
| `trust_declared` | one device enrols and pushes | violated: `DeclaredHeadVerifies` |
| `db_migrate_retry` | a crash between the two renames, then the migration again | violated: `InterruptedKeepsRows` |
| `gc_race` | gc beside an ingest | violated: `GcRemovesOnlyOrphans` |

The violations compare a sentence of the documents with the code; `findings` in
`PROJECT.json` quotes each sentence.

Bounds. Three operations of two replicas already include: push, pull by the
other, push of either; a crash or error in one of them and its repetition; and
two operations overlapping at every pair of steps, which is what the lock and
head protocol is about. The third replica is there for a foreign passphrase and
for a publisher behind the back of two others. `MaxClock`, `TTL` and `OpBudget`
give both orders of expiry and access. One object and one overlay suffice to
tell equal, disjoint and overlapping change sets apart. In `vault_federation`
the depth bound is 1 instead of 100, so chains below, at and above it occur with
two transitions; the scan bound is 2 of 3 documents, so it is reached and
exceeded. Two operations beside a query are enough to fork the chain under it,
to tombstone and supersede what it reads, and to remove a file before it is
read. Three devices allow two rotations in a row and two that race for one key; two
sessions and three times give sessions that begin before, at and after the time
of a question and expire in either order. In `escrow` two times for four calls
make calls meet in one bundle, overlapping and one after the other, or keep
apart; two phrases are the bundle and what is drawn over it or beside it.
One crash or failure in `AtRest`, with migrations unbounded, gives every state
that a single interruption leaves and every retry from it; six database files are
one more than the paths and connections of two processes can hold. In `Lineage` the
checked instance has no scope locks: no overlay call consults them. Replicas and
clock values enter proofs unbounded.

Deadlock is not checked: operations are bounded and the system may be idle for
good, so the end of a behaviour means nothing here. Symmetry is used in the
runs of `VaultLog`, `Federation`, `Trust`, `Lineage` and `Escrow`, which check no
liveness property: processes (in `Trust` also devices; in `Lineage` a user
together with its process) are interchangeable there. Replicas of `SyncS3` are
not interchangeable (passphrase, signer), so no symmetry is used there, nor in
`AtRest`, whose run checks liveness.

Fairness and liveness. A command runs to its end or dies, nothing retries in the
background and no operation waits for another (a held lock is an error, not a
wait), so progress is that of a call that is running: weak fairness of `Run(q)`
in `AtRest`. A migration is completed by an operator who calls it again until it
reports success; that is strong fairness of the two migration calls, and
`ObjectsConverge` and `DbConverges` say what such an operator can expect. Strong
and not weak, because a call is possible only while its process is idle.
`ObjectsConverge` names what the migrations cannot get past (`Obstructed`): a
vault.json or an object that a crash left in part, objects under two
passphrases, and an encrypted database whose flag was lost.

### Seen while modelling, without a run

Sync:

* A push that outlives its lock still writes the head, over one it has never
  seen (`sync.rs:1413`: the lock is deleted without a fencing token), against
  docs/07 "no silent overwrite behavior"; `s3_timely` and the proof of
  `MutualExclusion` therefore assume operations shorter than the TTL.
* The first push of a replica that never met the target replaces the head of
  another one without a conflict (`should_conflict` needs a remembered head),
  against spec/31's "Any transport path performs silent overwrite during
  divergence".
* An auto-merge pull whose preview is safe installs the remote snapshot alone
  and drops the local additions, against spec/37's non-goal "Automatic
  destructive overwrite".
* The manifest hashes the database that records the applied manifest, so a
  replica without edits gets `KC_SYNC_CONFLICT` on its second pull, against
  spec/29 "for detected divergence".
* A filesystem push repeated with the same `now_ms` removes the directory that
  the head names, against spec/29 "immutable snapshot folders".
* `conservative_plus_v3` and `_v4` leave their reasons in the order of the
  checks; `spec/37` lists sorted reasons. The list of `decision_trace` of v4
  counts one entry more than it has reasons.
* The filesystem transport has no lock, so two replicas that push at once
  overwrite each other's head; `spec/31`'s stop condition is about any path.
* A plain pull while `head = seen` replaces local edits: no conflict is raised
  when the remote side is unchanged.
* A crash inside `fs::write` leaves a partial file under an object's hash and
  `put_bytes` keeps it on the next ingest of the same bytes.
* A lifecycle mutation that the policy allows and a later check refuses rolls
  its audit row back.

Trust:

* After a rotation or deletion of the key, the next push signs with the
  environment key or the legacy digest, undeclared, without a notice: the author
  is the oldest verified certificate, whose custody row is gone.
* A sign-in writes its session row before the provider's policy is checked; the
  tenant template requires a claim that no session has; discovering a provider
  again enables one that was disabled; a certificate's expiry is never checked.
* Enrolment may select a session that has not begun: `latest_session_subject`
  (`trust_identity.rs:594-603`) asks for the expiry only, while
  `authenticate_identity_session` also refuses `now_ms` before `issued_at_ms`
  (`:575`). Being the latest, such a session is taken before one that is
  admitted. `SelectionAgreesWithAdmission` says that this is the only difference.

Lineage:

* Two acquirers of an expired lease may both be told they hold it, and a release
  may delete the lock of whoever took over. `WriteHasGrounds` is what is left:
  at some moment of the call each ground held, not all at the write.
* Scope locks are never consulted; `created_by` is not compared with the lock's
  owner; roles and policies are granted without a check; the caller gives
  `now_ms`.

Encryption:

* `kc_cli ingest` writes plain objects into a vault with object encryption,
  where the service refuses. The two enabling calls read, change and save
  vault.json whole, so one may lose the other's flag; saving is not atomic.
* A row that an ingest commits between the export and the rename of a database
  migration is lost, and two migrations at once remove each other's backup.
  `FaultKeepsRows` speaks of rows that a migration found.
* A crash after the promotion leaves the plaintext backup for good.

Escrow:

* When `rotate_all` fails at a later provider, the phrases of the earlier ones
  are not returned although their rotation stands. Its timestamps run ahead of
  the clock, so a later `enable` may not become the current provider.
* `generate_recovery_bundle` does not ask whether `recovery_<vault>_<now_ms>` is
  there (`recovery.rs:209-227`, `create_dir_all` and `fs::write`). A rotation
  repeated with one `now_ms` draws a new phrase over the bundle of the one already
  returned, which then opens nothing: without `latest[b] = ph`, TLC refutes
  `ToldPhraseRecovers` with two rotations in sequence.
* Two rotations with one `now_ms` that overlap may leave a manifest of one and a
  blob of the other, and the provider is then given a blob that is not the one
  its descriptor names: without the condition on `mixed`, TLC refutes both
  `DescriptorHasBlob` and `ToldPhraseRecovers`, without any fault.

Federation:

* The chain of a vault that forked is `corrupt` to every later query of version 2.
* A match older than the newest 200 documents is answered `not_found`.
* A right withdrawn after its check does not stop the query that is running.

## 4. Proofs

`tlapm <module>.tla`. All constants are arbitrary (the sets of processes,
replicas, devices and documents may be infinite unless a module says otherwise),
under the named assumptions of the modules: functions are into their sets, bounds
and times are naturals, and `None` is no other value. Four are more than typing:
in `Lineage` every process has a user of its own (`OwnersAssumption`, see
Abstractions), in `Escrow` the providers are finitely many, in `AtRest` there are
more database files than paths and connections can hold (`FilesAssumption`: the file
system does not run out of inodes) and no passphrase is one of the two names
that stand for files without a key (`KeysAssumption`). Hypotheses that only
one theorem needs are part of that theorem. Every inductive invariant below was
first checked with TLC on the instance of its run.

`SyncVaultProofs`, on `SyncMerge` (`MergeInv`)

* `DefaultAcceptsDisjoint`, `StricterPolicies`: `MergeInv` says that a report has
  the reasons of its inputs and a verdict is that of `EnsureCode` on them. The rest
  is about operators: `ChecksCover` says which kinds of objection each policy
  knows and that no two have the same name, `ReasonsTell` that the reasons of a
  report therefore tell which of them were met.
* `DisjointDeltasIsSafe`: on the change sets of two databases, whichever they
  are, each policy with the default context gives "ok" exactly if
  `SyncVault!DisjointDeltas` holds. The theorems on `SyncS3` and `SyncFs`, where a
  pull has one auto-merge mode, so hold for all four.

`SyncS3Proofs`

* `TypeCorrect`: `TypeOK` is inductive by itself because `FrameTypeOK` ties each
  step to what its frame must hold (a pull past its start has a head, a step of
  `apply` has a bundle, a replica is idle exactly without a frame). One lemma
  per action, the four parts of the state typed separately.
* `LockExclusive`: if nobody crashes (and so no call ends with its lock left
  behind, see `Crash` above) and `OpBudget < TTL`, then `MutualExclusion`.
  It says nothing about the lock object, so it is not inductive; `LockInv` adds
  that a replica inside owns the lock object with its own `now_ms`, that a lock
  object has a replica inside, and that every operation in flight is younger
  than its budget. Then an observer, whose own `now_ms` is no later than the
  clock, never sees the lock expired, so `lockDelete` is unreachable. Transport
  errors of the other accesses and local errors are covered; section 3 tells
  what happens without the time assumption.
* `HeadIsHeld`, `MergeBaseIsHeld`: no assumption on faults or time. Databases
  travel through snapshots and carry the `seen` id of the replica that pushed
  them, so `SnapshotInv` speaks of uploaded databases and of databases held in
  frames as well; it survives because the set of uploaded ids only grows and an
  id is uploaded before any frame step that publishes or records it.
* `UploadedForGood`: no assumption either. `RevisionInv` says that of all
  databases around (`Held`: in vaults, frames and the bucket) two with the same
  revision are equal, and that the manifest a database names as applied is that of an
  earlier revision. An id contains the revision, so a second upload under it
  has the same bytes. For this and the next theorems a step is first
  summarised by its effect on databases, snapshots and head (`Effects`).
* `TargetKeepsItsPassphrase`: hypotheses of `LockExclusive`. `ViewInv` says that a
  replica's view of the head, taken under the lock, is the head for as long as
  it holds the lock.
* `HeadReplacedWhenSeen`, `TargetIsARegister`: moreover no local error. One between
  the two writes of `RecordState` leaves a seen head without its applied
  manifest; `should_conflict` is then blind and the next push of that replica
  overwrites a head it has not seen, so the hypothesis cannot be dropped. `PairInv`
  says that the two rows otherwise come together, also in databases that travel;
  with `RevisionInv`, a push that passes `should_conflict` has seen the head
  (`NoConflictSeen`). `BasisInv` follows the seen row through an operation,
  `FirstInv` says that nobody remembers a head before there is one. From them
  `RegisterStep` shows that each step is one of `HeadRegister` or a stutter:
  a step of one replica leaves the bases of the others alone (`BaseStep`,
  `BaseStays`), and the put of a head is `Publish` of the very replica that puts
  it, over its own basis (`PublishStep`).

`SyncFsProofs`

* `TypeCorrect`, and `DirectoriesMatchIds` for any replicas, also ones that share
  a `vault_id`. The argument is that a revision names one database:
  `RevisionsName(Held)` says that of all databases around (in vaults, in frames
  of pushes, in directories) two with the same revision are equal, which every
  write keeps by drawing a new revision. An id
  contains the revision, so whoever fills a directory again fills it with the
  same objects (`DirsFit`).
* `HeadStaysComplete`, `PushPublishesWhole`, `PullsInstallHead`: under
  `DistinctVaults`, no two replicas have the same `vault_id`. `vault_init` draws
  it with `Uuid::new_v4` and a pull does not replace `vault.json`, so only a vault
  directory copied by hand has the id of another; then its push may remove a
  directory of the same id under the eyes of a reader. With it, `Filled` says
  that nobody but the push itself touches the directory it fills. While nothing
  has crashed, `Kept` says that a published directory is complete and that the
  replica which published it has moved on to a later revision, so it never
  derives that id again; and `Installed` how much of the head a pull has
  installed at each of its steps.

`VaultLogProofs`, on `VaultLog` (`IInv`)

* `TypeCorrect`: includes that each document has its object row and ingest event,
  each canonical text its document, each link an earlier event; the frames of
  several processes stay good because tables only grow (`Grows`).
* `DecisionsOnVerifiedChain`: the prefix before a lifecycle event does not change
  when events are appended behind it, however forked.
* `EveryResolutionSettles`, `TombstonesAreFinal`: `TransitionsOrdered` says that
  no document has two transitions and that a replacement has its own transition
  later than the supersession that names it. So event numbers rise along a walk
  (`WalkUp`), a walk does not meet a document twice, and ends in an active or
  tombstoned document or at the depth bound; a walk that has ended is not
  changed by later events, because a tombstoned document has its one transition.
* `RowsKeepBytes`: `Follow` says that every row has its file and that a file which
  is not whole is being written by somebody. It is needed because `put_bytes`
  inserts a row for a file that it finds, be it filled or not. Only the removal
  of a file and a crash can break it (`FollowStep`); `FilesFollow` claims it while
  there was no crash and no gc.
* `ExclusiveGcRemovesOrphans`, `ExclusiveGcKeepsBytes`: hypothesis `[]GcExclusive`,
  while one process sweeps the others are between operations, which no code
  enforces. `SweepInv` says that the hashes a sweep works from are then those of
  the table, and that `Follow` holds until the first crash. So the race of `gc_race` is
  the only way in which gc departs from spec/20, and a lock around `run_gc`
  would be enough. `OneProcessGcIsSafe`: a vault with one process meets the
  hypothesis.
* `Walk` and `SeedChain` are recursive functions. That they are what their
  definitions say, and the facts along them, are shown by `StepByStep`: a
  least counterexample in `0..n`, from the well-foundedness of the naturals.

`VaultLogProofs`, on `Federation` (`FedInv`)

* `QueriesOnlyRead`: `FedSpec => Spec` of `VaultLog`, so that all theorems above
  hold of a vault that is queried.
* `DisclosuresAreJustified`: the frame of a query of version 2 has the lifecycle
  of the current moment throughout its scan (`Bound`, from `ReadLocked`), and
  the checks that are behind it were met (`Admitted`).
* `AnswersAreComplete`: what matches is found or still ahead, unless the limit is
  reached, and then nothing is ahead (`Complete`); a document missing among the
  candidates means that there are more than `MAX_SCAN_CANDIDATES`
  (`NewerSmaller`).

`TrustProofs` (`IInv`)

* `TypeCorrect`, `KeysAreCertified`: `Enrolling` says that an enrolment works on a
  device of its own which has no key yet, and what it has written so far.
* `RotationsPair`: retired keys and replacements are counted together; a rotation
  whose status read is stale changes nothing.
* `SelectedSessionIsAdmitted`, for every `now_ms`: an admitted session is one that
  the query looks at, so the query has a latest one, which is as new
  (`SessionChosen`, `SessionFound`). That there is a latest one needs that
  sessions are finitely many (`SessionsIssued`, inductive).
* `ReportAgreesWithPull`: holds of the operators for any tables; `VerificationStays`:
  certificates and verified devices are never taken back (`Kept`).
* `PublishedAuthorStands`, `OnlyDigestsAreAccepted`: `PushInv` says of a push that is
  about to sign, and of the head published last, that their author is a verified
  device with a verified certificate; it is found so (`AuthorFound`) and stays so
  (`KeptNext`). Of a published head therefore everything verifies but the
  signed payload, and `ensure_remote_trust_matches` accepts it exactly if it
  carries the legacy digest: this is the extent of what the run `trust_declared`
  shows on one head.

`LineageProofs` (`IInv`)

* `TypeCorrect`, `EveryOverlayAudited`, `AnswersAgree`, `GroundsForEveryWrite`. The
  last needs `TokenLive`: tokens contain the owner, so nobody else can write the
  token of a call; a row that still has the token at the second look is the row
  that was live at the first. `ChecksMet` is what the call has passed so far.

`AtRestProofs` (`TypeInv`, `StageInv`)

* `TypeCorrect`: `TypeOK` needs `ControlOK`, what the frame of a process has at each
  step of an ingest, an enabling call and a migration, and that a new file is one
  that no path names (`NewFileFresh`, by counting).
* `SealedStaysWhole`: a step changes at most one object file (`StoreStep`), and writes
  one with a key only as a whole or in a way that does not authenticate. It holds for
  any number of migrations at once, with different passphrases, and crashes.
* `FailedMigrationKeepsRows`: `FaultKeepsRows` only says that some file has the rows.
  `StageInv` says which: the database, except between the two renames and their
  rollback, when it is the backup; before the renames the temporary file has them
  too, and a rollback has had its one failure. Hypothesis: one process migrates the
  database. It cannot be dropped: between the renames of one migration a second
  one opens a new, empty database and removes the temporary file and the backup,
  which are then the only files with the rows (TLC shows it in 14 states, without
  any failure). No lock file or transaction of the code excludes that.

`EscrowProofs` (`IInv`)

* `TypeCorrect`: needs `Timely`, that `rotate_all`, which counts its time up from
  provider to provider, has a time for each that it has still to go to.
* `EscrowIsThere`, `ReturnedPhraseRecovers`. Calls may share a path, so the
  argument is who is writing at a path: as long as a call's phrase is not in
  `mixed`, it is the only one that writes its bundle, whose blob is its own or
  lost (`OwnBundle`); so the provider is given the right blob before the
  descriptor is written (`Achieved`). From then on the manifest is the one with
  the descriptor and nobody is about to write another, until a call draws over
  the path (`Settled`, `Answered`); a step that changes a manifest has a writer
  or a new phrase at that path (`StepKeeps`, `AnsweredStays`), and providers
  keep each blob whose phrase is not in `mixed` (`ProvidersKeep`).

Out of the prover's reach and left to TLC: liveness under fairness
(`ObjectsConverge`, `DbConverges`) and `ENABLED`. All other properties of the
passing runs are theorems.

## 5. Plan

1. `ExportVerify`, `Retrieval`, `Chunking`, `Locator`: pure algorithms against
   reference definitions.

## 6. Not modelled

* Extractors and OCR: conversions by external tools.
* Command-line parsing, the desktop bridge and the user interface: they delegate
  to the services that are modelled.
* Cryptographic primitives, key derivation and encodings: a ciphertext is known
  by its key.
* Lineage queries, status and listing calls: they change no state.
* The federation socket: creation, permissions, signals, and its removal, which
  compares the inode and removes the path in two steps.
* Unlock sessions in memory and schema migrations of the database.
* Export's verifier, retrieval, chunking and ask: in the plan.
