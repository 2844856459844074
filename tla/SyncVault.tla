----------------------------- MODULE SyncVault -----------------------------
(***************************************************************************)
(* The part of a KnowledgeCore vault that synchronisation reads and        *)
(* replaces: the SQLite database (object rows, lineage overlay rows and    *)
(* the sync_state rows kept in the SAME file) and the object store         *)
(* directory.  Shared by the S3 transport (SyncS3) and the filesystem      *)
(* transport (SyncFs).                                                     *)
(*                                                                         *)
(* The manifest hash covers the bytes of the whole database file           *)
(* (export.rs, field db.hash), so the model tags a database with a         *)
(* revision that every write renews: two databases hash alike only when    *)
(* one is a byte copy of the other.                                        *)
(***************************************************************************)
EXTENDS Naturals, FiniteSets

CONSTANTS
  Devices,      \* the replicas that sync through one target
  VaultIds,     \* values of vault.json's vault_id
  VaultIdOf,    \* the vault_id of each replica
  Objects,      \* object hashes that ingest may add
  Overlays,     \* lineage overlay ids that may be added and removed
  None,         \* an absent Option<...>
  MaxEdits      \* bound: local edits in one behaviour

ASSUME VaultIdAssumption == VaultIdOf \in [Devices -> VaultIds]
ASSUME MaxEditsAssumption == MaxEdits \in Nat

VARIABLES
  db,           \* db[d]: the database file of replica d
  store,        \* store[d]: object files under store/objects
  rev,          \* the last revision given to a written database
  edits         \* local edits so far (bounded by MaxEdits)

vaultVars == <<db, store, rev, edits>>

-----------------------------------------------------------------------------
(* manifest.json, as far as its hash can tell two bundles apart.           *)
Manifests == [vault: VaultIds, fmt: {"zip", "folder"}, rev: Nat]

(* Faulty variant: an id that forgets which content it names.              *)
SnapshotIdByTime(m, now) == [manifest |-> [m EXCEPT !.rev = 0], now |-> now]

(* blake3("kc.sync.snapshot.v2\n<manifest_hash>\n<now_ms>") is injective.  *)
SnapshotIds == [manifest: Manifests, now: Nat]

SnapshotIdForManifest(m, now) == [manifest |-> m, now |-> now]

(* The database file: rows that merge decisions look at, and sync_state.   *)
Dbs == [objects:  SUBSET Objects,
        overlays: SUBSET Overlays,
        seen:     SnapshotIds \cup {None},   \* sync_remote_head_seen
        applied:  Manifests \cup {None},     \* sync_last_applied_manifest_hash
        rev:      Nat]

(* None is not a value of any of these.                                    *)
ASSUME NoneAssumption == None \notin SnapshotIds /\ None \notin Manifests /\ None \notin Dbs

(* What open_db creates when the file is missing: migrated and empty.      *)
EmptyDb(r) == [objects |-> {}, overlays |-> {}, seen |-> None,
               applied |-> None, rev |-> r]

(* build_local_snapshot / build_local_snapshot_zip: export_bundle copies   *)
(* the database and then every object the rows name, so it fails           *)
(* (KC_EXPORT_FAILED) when an object file is missing.                      *)
CanExport(d) == db[d].objects \subseteq store[d]

LocalManifest(d, fmt) == [vault |-> VaultIdOf[d], fmt |-> fmt, rev |-> db[d].rev]

(* A change set: the object hashes and overlay ids of a snapshot.          *)
ChangeSet(b) == [objects |-> b.objects, overlays |-> b.overlays]

EmptyChangeSet == [objects |-> {}, overlays |-> {}]

DeltaChangeSet(current, base) ==
  [objects  |-> current.objects \ base.objects,
   overlays |-> current.overlays \ base.overlays]

(* merge_preview_*: with the default context every policy is safe exactly  *)
(* on disjoint change sets (SyncVaultProofs shows it for each policy).     *)
DisjointDeltas(l, r) ==
  /\ l.objects \cap r.objects = {}
  /\ l.overlays \cap r.overlays = {}

ShouldConflict(head, seen, applied, manifest) ==
  /\ head # None /\ seen # None /\ head.id # seen
  /\ applied # None /\ applied # manifest

-----------------------------------------------------------------------------
VaultInit ==
  /\ db = [d \in Devices |-> EmptyDb(0)]
  /\ store = [d \in Devices |-> {}]
  /\ rev = 0
  /\ edits = 0

(* Every statement that writes the database changes the file's bytes.      *)
PutDb(d, b) == db' = [db EXCEPT ![d] = [b EXCEPT !.rev = rev + 1]] /\ rev' = rev + 1

(* ingest_bytes: the object file is stored, then its row is inserted.      *)
AddObject(d) ==
  /\ edits < MaxEdits
  /\ \E o \in Objects \ db[d].objects :
       /\ store' = [store EXCEPT ![d] = @ \cup {o}]
       /\ PutDb(d, [db[d] EXCEPT !.objects = @ \cup {o}])
  /\ edits' = edits + 1

AddOverlay(d) ==
  /\ edits < MaxEdits
  /\ \E v \in Overlays \ db[d].overlays :
       PutDb(d, [db[d] EXCEPT !.overlays = @ \cup {v}])
  /\ edits' = edits + 1
  /\ UNCHANGED store

RemoveOverlay(d) ==
  /\ edits < MaxEdits
  /\ \E v \in db[d].overlays :
       PutDb(d, [db[d] EXCEPT !.overlays = @ \ {v}])
  /\ edits' = edits + 1
  /\ UNCHANGED store

(* write_state: one autocommitted upsert per key.                          *)
WriteSeen(d, id) ==
  PutDb(d, [db[d] EXCEPT !.seen = id]) /\ UNCHANGED <<store, edits>>

(* The upserts of the applied manifest and snapshot id and the log row;    *)
(* sync never reads the last two back.                                     *)
WriteApplied(d, m) ==
  PutDb(d, [db[d] EXCEPT !.applied = m]) /\ UNCHANGED <<store, edits>>

(* apply_snapshot_to_vault, in its order: the db directory is removed and  *)
(* recreated, the snapshot's file copied into it, then store replaced.     *)
ApplyRemoveDb(d) ==
  /\ db' = [db EXCEPT ![d] = EmptyDb(rev + 1)]
  /\ rev' = rev + 1
  /\ UNCHANGED <<store, edits>>

ApplyCopyDb(d, b) ==
  /\ db' = [db EXCEPT ![d] = b]
  /\ UNCHANGED <<store, rev, edits>>

(* Faulty variant: only the database is replaced.                          *)
ApplyStoreSkipped(d, b) == UNCHANGED <<db, store, rev, edits>>

(* A bundle without objects has no store directory: that one is skipped.   *)
ApplyStore(d, b) ==
  /\ store' = [store EXCEPT ![d] = IF b.objects = {} THEN @ ELSE b.objects]
  /\ UNCHANGED <<db, rev, edits>>

VaultTypeOK ==
  /\ db \in [Devices -> Dbs]
  /\ store \in [Devices -> SUBSET Objects]
  /\ rev \in Nat
  /\ edits \in Nat
=============================================================================
