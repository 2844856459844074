------------------------------- MODULE SyncS3 -------------------------------
(***************************************************************************)
(* Push and pull against an s3:// target.  Every access to the bucket is a *)
(* step of its own, so the operations of different replicas interleave at  *)
(* each object read, write and delete.  The advisory lock locks/write.lock *)
(* expires; now_ms is fixed when an operation starts, however long the     *)
(* operation then takes.  Processes crash, bucket accesses fail before or  *)
(* after taking effect, and local writes fail.                             *)
(***************************************************************************)
EXTENDS SyncVault

CONSTANTS
  Fingerprints,     \* passphrase trust fingerprints
  FingerprintOf,    \* the fingerprint each replica derives
  SignerOf,         \* how each replica signs its heads: see Signers
  TTL,              \* S3_LOCK_TTL_MS
  OpBudget,         \* bound: how long an operation may stay in flight
  PullModes,        \* the (auto-merge, auth) modes in which pulls are issued
  EditsInFlight,    \* whether another process edits a vault while it syncs
  MaxClock,         \* bound: ticks of the clock
  MaxOps,           \* bound: operations started
  MaxFaults         \* bound: faults of each kind

FaultKinds == {"transport", "local", "crash"}

(* sign_sync_payload: a custody key, declaring Ed25519; the key in the     *)
(* environment, undeclared; or the legacy digest.                          *)
Signers == {"custody", "env", "digest"}

ASSUME TrustAssumption ==
  /\ FingerprintOf \in [Devices -> Fingerprints]
  /\ SignerOf \in [Devices -> Signers]
ASSUME TimeAssumption == TTL \in Nat /\ OpBudget \in Nat /\ MaxClock \in Nat
ASSUME BoundAssumption == MaxOps \in Nat /\ MaxFaults \in [FaultKinds -> Nat]
ASSUME ModeAssumption == PullModes \subseteq {"none", "auto"} \X {"strict", "compat"}
ASSUME EditsAssumption == EditsInFlight \in BOOLEAN

VARIABLES
  clock,        \* milliseconds, as every caller reads them
  head,         \* head.json, or None
  snaps,        \* snapshots/<id>.zip: the objects in the bucket
  lock,         \* locks/write.lock, or None
  conflicts,    \* conflicts/*.json
  pc,           \* pc[d]: the next step of replica d's operation
  ctx,          \* ctx[d]: the values that operation holds in its frame
  ops,          \* operations started
  faults        \* faults so far, of each kind

remoteVars == <<head, snaps, lock, conflicts>>
vars == <<vaultVars, clock, remoteVars, pc, ctx, ops, faults>>

-----------------------------------------------------------------------------
(* SyncHeadV1 and SyncS3WriteLockV1.                                       *)
Heads == [id: SnapshotIds, manifest: Manifests, trust: Fingerprints,
          signer: Signers]
Locks == [holder: VaultIds \X Nat, expires: Nat]
Artifacts == [vault: VaultIds, now: Nat, manifest: Manifests,
              head: SnapshotIds, seen: SnapshotIds]

(* Steps between acquiring the lock and releasing it.                      *)
PushPcs == {"putSnapshot", "putHead"}
PullPcs == {"preview", "fetch", "applyRemoveDb", "applyCopyDb", "applyStore"}
CriticalPcs == PushPcs \cup PullPcs \cup {"recheck", "writeSeen", "writeApplied"}
ReleasePcs == {"releaseRead", "releaseDelete"}
AcquirePcs == {"prePreview", "lockRead", "lockDelete", "lockPut"}
Pcs == {"idle"} \cup AcquirePcs \cup CriticalPcs \cup ReleasePcs

Frames == [kind: {"push", "pull"}, merge: {"none", "auto"},
           auth: {"strict", "compat"}, now: Nat,
           seen: SnapshotIds \cup {None}, applied: Manifests \cup {None},
           manifest: Manifests, head: Heads \cup {None},
           bundle: Dbs \cup {None}]

ASSUME NoneS3Assumption == None \notin Heads /\ None \notin Locks /\ None \notin Frames

InFlight(d) == pc[d] # "idle"
InLock(d) == pc[d] \in CriticalPcs \cup ReleasePcs

(* The snapshot an operation publishes (push) or installs (pull).          *)
Target(c) == IF c.kind = "push" THEN SnapshotIdForManifest(c.manifest, c.now)
             ELSE c.head.id
TargetManifest(c) == IF c.kind = "push" THEN c.manifest ELSE c.head.manifest

(* Faulty variant: no fingerprint is compared.                             *)
TrustAny(d, h) == TRUE

(* ensure_remote_trust_matches: the passphrase fingerprint and the         *)
(* signature of the head.  The Ed25519 check is made over another payload  *)
(* than push signs and fails (Trust!DeclaredHeadVerifies), which leaves    *)
(* the heads with the digest.                                              *)
TrustMatches(d, h) == h # None => h.trust = FingerprintOf[d] /\ h.signer = "digest"

(* ensure_strict_sync_auth_ready: only a head that declares Ed25519.       *)
AuthReady(auth, h) == auth = "strict" => h.signer = "custody"

Artifact(d, c, h) == [vault |-> VaultIdOf[d], now |-> c.now,
                      manifest |-> c.manifest, head |-> h.id, seen |-> c.seen]

Init ==
  /\ VaultInit
  /\ clock = 0
  /\ head = None /\ snaps = [i \in {} |-> None] /\ lock = None /\ conflicts = {}
  /\ pc = [d \in Devices |-> "idle"]
  /\ ctx = [d \in Devices |-> None]
  /\ ops = 0
  /\ faults = [k \in FaultKinds |-> 0]

-----------------------------------------------------------------------------
(* Control: moving on, and returning from the operation.                   *)
Goto(d, p) == pc' = [pc EXCEPT ![d] = p] /\ UNCHANGED <<ctx, ops, faults, clock>>
GotoWith(d, p, c) ==
  /\ pc' = [pc EXCEPT ![d] = p] /\ ctx' = [ctx EXCEPT ![d] = c]
  /\ UNCHANGED <<ops, faults, clock>>
(* Faulty variant: the frame outlives the call.                            *)
ReturnKeepingFrame(d) == Goto(d, "idle")
Return(d) == GotoWith(d, "idle", None)

Start(d) == pc[d] = "idle" /\ ops < MaxOps /\ ops' = ops + 1

(* sync_push_s3_target up to with_s3_lock: sync state read, zip exported,  *)
(* then the head checked.                                                  *)
PushFrame(d) ==
  [kind |-> "push", merge |-> "none", auth |-> "compat", now |-> clock,
   seen |-> db[d].seen, applied |-> db[d].applied,
   manifest |-> LocalManifest(d, "zip"), head |-> None, bundle |-> db[d]]

PushStart(d) ==
  LET c == PushFrame(d)
  IN /\ Start(d)
     /\ CanExport(d)
     /\ TrustMatches(d, head)
     /\ \/ /\ ShouldConflict(head, c.seen, c.applied, c.manifest)
           /\ conflicts' = conflicts \cup {Artifact(d, c, head)}
           /\ UNCHANGED <<pc, ctx>>
        \/ /\ ~ShouldConflict(head, c.seen, c.applied, c.manifest)
           /\ pc' = [pc EXCEPT ![d] = "lockRead"]
           /\ ctx' = [ctx EXCEPT ![d] = c]
           /\ UNCHANGED conflicts
     /\ UNCHANGED <<vaultVars, clock, head, snaps, lock, faults>>

(* sync_pull_s3_target up to with_s3_lock.                                 *)
PullFrame(d, merge, auth) ==
  [kind |-> "pull", merge |-> merge, auth |-> auth, now |-> clock,
   seen |-> db[d].seen, applied |-> db[d].applied,
   manifest |-> LocalManifest(d, "folder"), head |-> head, bundle |-> None]

PullStart(d, merge, auth) ==
  LET c == PullFrame(d, merge, auth)
      conflict == ShouldConflict(head, c.seen, c.applied, c.manifest)
  IN /\ Start(d)
     /\ head # None
     /\ TrustMatches(d, head) /\ AuthReady(auth, head)
     /\ CanExport(d)
     /\ \/ /\ conflict /\ merge = "none"
           /\ conflicts' = conflicts \cup {Artifact(d, c, head)}
           /\ UNCHANGED <<pc, ctx>>
        \/ /\ ~(conflict /\ merge = "none")
           /\ pc' = [pc EXCEPT ![d] = IF conflict THEN "prePreview" ELSE "lockRead"]
           /\ ctx' = [ctx EXCEPT ![d] = c]
           /\ UNCHANGED conflicts
     /\ UNCHANGED <<vaultVars, clock, head, snaps, lock, faults>>

(* sync_merge_preview_s3_target: head, seen id and local content are read  *)
(* afresh; the base is the snapshot last seen.                             *)
PreviewSafe(d) ==
  LET base == IF db[d].seen = None THEN EmptyChangeSet
              ELSE ChangeSet(snaps[db[d].seen])
  IN /\ head # None /\ TrustMatches(d, head) /\ CanExport(d)
     /\ head.id \in DOMAIN snaps
     /\ db[d].seen \in DOMAIN snaps \cup {None}
     /\ DisjointDeltas(DeltaChangeSet(ChangeSet(db[d]), base),
                       DeltaChangeSet(ChangeSet(snaps[head.id]), base))

PullPreview(d) ==
  /\ pc[d] \in {"prePreview", "preview"}
  /\ \/ PreviewSafe(d) /\ Goto(d, IF pc[d] = "preview" THEN "fetch" ELSE "lockRead")
     \/ ~PreviewSafe(d) /\ pc[d] = "preview" /\ Goto(d, "releaseRead")
     \/ ~PreviewSafe(d) /\ pc[d] = "prePreview" /\ Return(d)
  /\ UNCHANGED <<vaultVars, remoteVars>>

-----------------------------------------------------------------------------
(* Faulty variant: the expiry is compared the wrong way round.             *)
LockReadWrongWay(d) ==
  /\ pc[d] = "lockRead"
  /\ \/ lock = None /\ Goto(d, "lockPut")
     \/ lock # None /\ lock.expires <= ctx[d].now /\ Return(d)
     \/ lock # None /\ lock.expires > ctx[d].now /\ Goto(d, "lockDelete")
  /\ UNCHANGED <<vaultVars, remoteVars>>

(* acquire_s3_lock: an expired lock is deleted unconditionally before the  *)
(* conditional put, whoever owns the object by then.                       *)
LockRead(d) ==
  /\ pc[d] = "lockRead"
  /\ \/ lock = None /\ Goto(d, "lockPut")
     \/ lock # None /\ lock.expires > ctx[d].now /\ Return(d)
     \/ lock # None /\ lock.expires <= ctx[d].now /\ Goto(d, "lockDelete")
  /\ UNCHANGED <<vaultVars, remoteVars>>

LockDelete(d) ==
  /\ pc[d] = "lockDelete"
  /\ lock' = None
  /\ Goto(d, "lockPut")
  /\ UNCHANGED <<vaultVars, head, snaps, conflicts>>

LockFor(d, now) == [holder |-> <<VaultIdOf[d], now>>, expires |-> now + TTL]

(* Faulty variant: write_bytes in the place of write_bytes_if_absent.      *)
LockPutAnyway(d) ==
  /\ pc[d] = "lockPut"
  /\ lock' = LockFor(d, ctx[d].now) /\ Goto(d, "recheck")
  /\ UNCHANGED <<vaultVars, head, snaps, conflicts>>

LockPut(d) ==
  /\ pc[d] = "lockPut"
  /\ \/ lock = None /\ lock' = LockFor(d, ctx[d].now) /\ Goto(d, "recheck")
     \/ lock # None /\ UNCHANGED lock /\ Return(d)
  /\ UNCHANGED <<vaultVars, head, snaps, conflicts>>

(* release_s3_lock: read, compare the holder, delete.                      *)
ReleaseRead(d) ==
  /\ pc[d] = "releaseRead"
  /\ \/ lock # None /\ lock.holder = <<VaultIdOf[d], ctx[d].now>> /\ Goto(d, "releaseDelete")
     \/ (lock # None => lock.holder # <<VaultIdOf[d], ctx[d].now>>) /\ Return(d)
  /\ UNCHANGED <<vaultVars, remoteVars>>

ReleaseDelete(d) ==
  /\ pc[d] = "releaseDelete"
  /\ lock' = None
  /\ Return(d)
  /\ UNCHANGED <<vaultVars, head, snaps, conflicts>>

-----------------------------------------------------------------------------
(* Faulty variant: the decision made before the lock is trusted.           *)
RecheckTrustOnly(d) ==
  LET c == ctx[d]
  IN /\ pc[d] = "recheck"
     /\ TrustMatches(d, head)
     /\ IF c.kind = "push" THEN Goto(d, "putSnapshot")
        ELSE GotoWith(d, "fetch", [c EXCEPT !.head = head])
     /\ UNCHANGED <<vaultVars, remoteVars>>

(* Under the lock: the head is read again and checked against the sync     *)
(* state and manifest captured before the lock was taken.                  *)
Recheck(d) ==
  LET c == ctx[d]
      ready == /\ TrustMatches(d, head)
               /\ c.kind = "pull" => head # None /\ AuthReady(c.auth, head)
      conflict == ShouldConflict(head, c.seen, c.applied, c.manifest)
      c2 == IF c.kind = "pull" THEN [c EXCEPT !.head = head] ELSE c
  IN /\ pc[d] = "recheck"
     /\ \/ ~ready /\ Goto(d, "releaseRead") /\ UNCHANGED conflicts
        \/ /\ ready /\ conflict /\ c.merge = "none"
           /\ conflicts' = conflicts \cup {Artifact(d, c, head)}
           /\ Goto(d, "releaseRead")
        \/ /\ ready /\ conflict /\ c.merge = "auto"
           /\ GotoWith(d, "preview", c2)
           /\ UNCHANGED conflicts
        \/ /\ ready /\ ~conflict
           /\ GotoWith(d, IF c.kind = "push" THEN "putSnapshot" ELSE "fetch", c2)
           /\ UNCHANGED conflicts
     /\ UNCHANGED <<vaultVars, head, snaps, lock>>

(* Faulty variant: a failed upload is taken for a success.                 *)
PutSnapshotUnchecked(d) ==
  /\ pc[d] = "putSnapshot"
  /\ Goto(d, "putHead")
  /\ UNCHANGED <<vaultVars, remoteVars>>

PutSnapshot(d) ==
  /\ pc[d] = "putSnapshot"
  /\ snaps' = [i \in DOMAIN snaps \cup {Target(ctx[d])} |->
                 IF i = Target(ctx[d]) THEN ctx[d].bundle ELSE snaps[i]]
  /\ Goto(d, "putHead")
  /\ UNCHANGED <<vaultVars, head, lock, conflicts>>

PutHead(d) ==
  /\ pc[d] = "putHead"
  /\ head' = [id |-> Target(ctx[d]), manifest |-> ctx[d].manifest,
              trust |-> FingerprintOf[d], signer |-> SignerOf[d]]
  /\ Goto(d, "writeSeen")
  /\ UNCHANGED <<vaultVars, snaps, lock, conflicts>>

(* Pull: fetch and unpack the snapshot of the head read under the lock,    *)
(* then replace db and store.                                              *)
Fetch(d) ==
  /\ pc[d] = "fetch"
  /\ \/ /\ Target(ctx[d]) \in DOMAIN snaps
        /\ GotoWith(d, "applyRemoveDb", [ctx[d] EXCEPT !.bundle = snaps[Target(ctx[d])]])
     \/ Target(ctx[d]) \notin DOMAIN snaps /\ Goto(d, "releaseRead")
  /\ UNCHANGED <<vaultVars, remoteVars>>

Apply(d) ==
  /\ \/ pc[d] = "applyRemoveDb" /\ ApplyRemoveDb(d) /\ Goto(d, "applyCopyDb")
     \/ pc[d] = "applyCopyDb" /\ ApplyCopyDb(d, ctx[d].bundle) /\ Goto(d, "applyStore")
     \/ pc[d] = "applyStore" /\ ApplyStore(d, ctx[d].bundle) /\ Goto(d, "writeSeen")
  /\ UNCHANGED remoteVars

(* Faulty variant: the id is derived again from the vault as it is now.    *)
RecordStateRederived(d) ==
  /\ \/ /\ pc[d] = "writeSeen"
        /\ WriteSeen(d, SnapshotIdForManifest(LocalManifest(d, "zip"), ctx[d].now))
        /\ Goto(d, "writeApplied")
     \/ /\ pc[d] = "writeApplied"
        /\ WriteApplied(d, TargetManifest(ctx[d]))
        /\ Goto(d, "releaseRead")
  /\ UNCHANGED remoteVars

RecordState(d) ==
  /\ \/ pc[d] = "writeSeen" /\ WriteSeen(d, Target(ctx[d])) /\ Goto(d, "writeApplied")
     \/ /\ pc[d] = "writeApplied"
        /\ WriteApplied(d, TargetManifest(ctx[d]))
        /\ Goto(d, "releaseRead")
  /\ UNCHANGED remoteVars

-----------------------------------------------------------------------------
(* Faults.  with_s3_lock releases the lock when its closure returns an     *)
(* error; an error while acquiring or releasing, and a crash, do not.      *)
Fault(k) == faults[k] < MaxFaults[k] /\ faults' = [faults EXCEPT ![k] = @ + 1]

(* A bucket access fails before it takes effect; at "writeSeen" the head   *)
(* was stored but its acknowledgement was lost.  An access of the release  *)
(* that fails, or a lost acknowledgement of the lock itself, leaves the    *)
(* lock behind and ends the call: that is the effect of a Crash there.     *)
TransportError(d) ==
  /\ Fault("transport")
  /\ \/ /\ pc[d] \in AcquirePcs
        /\ pc' = [pc EXCEPT ![d] = "idle"] /\ ctx' = [ctx EXCEPT ![d] = None]
     \/ /\ \/ pc[d] \in {"recheck", "preview", "fetch", "putSnapshot", "putHead"}
           \/ pc[d] = "writeSeen" /\ ctx[d].kind = "push"
        /\ pc' = [pc EXCEPT ![d] = "releaseRead"] /\ UNCHANGED ctx
  /\ UNCHANGED <<vaultVars, clock, remoteVars, ops>>

(* A directory cannot be replaced or a sync_state row not be written.      *)
LocalError(d) ==
  /\ Fault("local")
  /\ pc[d] \in {"applyRemoveDb", "applyCopyDb", "applyStore", "writeSeen", "writeApplied"}
  /\ pc' = [pc EXCEPT ![d] = "releaseRead"]
  /\ UNCHANGED <<vaultVars, clock, remoteVars, ctx, ops>>

Crash(d) ==
  /\ Fault("crash")
  /\ InFlight(d)
  /\ pc' = [pc EXCEPT ![d] = "idle"]
  /\ ctx' = [ctx EXCEPT ![d] = None]
  /\ UNCHANGED <<vaultVars, clock, remoteVars, ops>>

(* While the db directory is being replaced an editor can only write to    *)
(* the file already unlinked, which is an edit before the removal.         *)
Edit(d) ==
  /\ ~InFlight(d) \/ (EditsInFlight /\ pc[d] # "applyCopyDb")
  /\ AddObject(d) \/ AddOverlay(d) \/ RemoveOverlay(d)
  /\ UNCHANGED <<clock, remoteVars, pc, ctx, ops, faults>>

(* Time passes, within the time operations are allowed to take.            *)
Tick ==
  /\ clock < MaxClock
  /\ \A d \in Devices : InFlight(d) => clock < ctx[d].now + OpBudget
  /\ clock' = clock + 1
  /\ UNCHANGED <<vaultVars, remoteVars, pc, ctx, ops, faults>>

Step(d) ==
  \/ PushStart(d)
  \/ \E m \in PullModes : PullStart(d, m[1], m[2])
  \/ PullPreview(d)
  \/ LockRead(d) \/ LockDelete(d) \/ LockPut(d)
  \/ ReleaseRead(d) \/ ReleaseDelete(d)
  \/ Recheck(d) \/ PutSnapshot(d) \/ PutHead(d)
  \/ Fetch(d) \/ Apply(d) \/ RecordState(d)

Next ==
  \/ \E d \in Devices :
       Step(d) \/ TransportError(d) \/ LocalError(d) \/ Crash(d) \/ Edit(d)
  \/ Tick

Spec == Init /\ [][Next]_vars

-----------------------------------------------------------------------------
RemoteTypeOK ==
  /\ head \in Heads \cup {None}
  /\ DOMAIN snaps \subseteq SnapshotIds
  /\ snaps \in [DOMAIN snaps -> Dbs]
  /\ lock \in Locks \cup {None}
  /\ conflicts \subseteq Artifacts

(* The frame of an operation matches the step it is at.                    *)
FrameTypeOK(p, c) ==
  /\ p = "idle" <=> c = None
  /\ p # "idle" => c \in Frames
  /\ p \in PushPcs => c.kind = "push"
  /\ p \in PullPcs \cup {"prePreview"} => c.kind = "pull"
  /\ p \in {"applyRemoveDb", "applyCopyDb", "applyStore"} => c.bundle \in Dbs
  /\ p # "idle" /\ c.kind = "push" => c.bundle \in Dbs /\ c.merge = "none"
  /\ p # "idle" /\ c.kind = "pull" => c.head \in Heads

ControlTypeOK ==
  /\ pc \in [Devices -> Pcs]
  /\ ctx \in [Devices -> Frames \cup {None}]
  /\ \A d \in Devices : FrameTypeOK(pc[d], ctx[d])

CounterTypeOK ==
  /\ clock \in Nat /\ ops \in Nat
  /\ faults \in [FaultKinds -> Nat]

TypeOK == VaultTypeOK /\ RemoteTypeOK /\ ControlTypeOK /\ CounterTypeOK

-----------------------------------------------------------------------------
(* Safety.                                                                 *)

(* HeadHasSnapshot: whatever crashes, whoever steals the lock, head.json   *)
(* never names a snapshot that is not in the bucket, and its manifest hash *)
(* is that snapshot's: sync_push_s3_target uploads the zip before the head *)
(* and nothing deletes snapshots.  Without it every later pull and merge   *)
(* preview fails with KC_SYNC_TARGET_INVALID.                              *)
HeadHasSnapshot ==
  head # None => /\ head.id \in DOMAIN snaps
                 /\ head.manifest = head.id.manifest
                 /\ head.manifest.rev = snaps[head.id].rev

(* SeenHasSnapshot: the snapshot a replica remembers as last seen, which   *)
(* sync_merge_preview_s3_target takes as the merge base, is in the bucket, *)
(* also when the sync_state row arrived inside a pulled database or an     *)
(* operation died between two of its steps.                                *)
SeenHasSnapshot ==
  \A d \in Devices : db[d].seen \in DOMAIN snaps \cup {None}

(* SnapshotInv: the inductive form of the two.  What operations hold in    *)
(* their frames and what travels inside uploaded databases is covered too. *)
SeenIn(ids, b) == b.seen = None \/ b.seen \in ids

FrameInv(ids, p, c) ==
  /\ c.kind = "push" => SeenIn(ids, c.bundle) /\ c.bundle.rev = c.manifest.rev
  /\ c.kind = "push" /\ p \in {"putHead", "writeSeen", "writeApplied"} => Target(c) \in ids
  /\ c.kind = "pull" => c.head.id \in ids /\ c.head.manifest = c.head.id.manifest
  /\ p \in {"applyRemoveDb", "applyCopyDb", "applyStore"} => SeenIn(ids, c.bundle)

SnapshotInv ==
  /\ head # None => head.id \in DOMAIN snaps /\ head.manifest = head.id.manifest
  /\ \A d \in Devices : SeenIn(DOMAIN snaps, db[d])
  /\ \A i \in DOMAIN snaps : SeenIn(DOMAIN snaps, snaps[i]) /\ snaps[i].rev = i.manifest.rev
  /\ \A d \in Devices : InFlight(d) => FrameInv(DOMAIN snaps, pc[d], ctx[d])

(* SnapshotsImmutable: no step deletes an uploaded snapshot or changes its *)
(* content, although write_bytes is an unconditional put and two pushes    *)
(* may share now_ms.                                                       *)
SnapshotsImmutable ==
  [][\A i \in DOMAIN snaps : i \in DOMAIN snaps' /\ snaps'[i] = snaps[i]]_vars

(* MutualExclusion: acquire_s3_lock lets one replica at a time run the     *)
(* closure of with_s3_lock.                                                *)
MutualExclusion ==
  \A d, e \in Devices :
    pc[d] \in CriticalPcs /\ pc[e] \in CriticalPcs => d = e

(* LockInv: the inductive form of MutualExclusion.  Without crashes and    *)
(* with operations shorter than the TTL, the lock object exists exactly    *)
(* while one replica is between acquiring and releasing it, is that        *)
(* replica's own, and is never seen expired; so the unconditional delete   *)
(* of acquire_s3_lock is never reached.                                    *)
LockInv ==
  /\ faults["crash"] = 0
  /\ \A d \in Devices : InFlight(d) => ctx[d].now <= clock /\ clock <= ctx[d].now + OpBudget
  /\ \A d \in Devices : InLock(d) => lock = LockFor(d, ctx[d].now)
  /\ \A d, e \in Devices : InLock(d) /\ InLock(e) => d = e
  /\ lock # None => \E d \in Devices : InLock(d)
  /\ \A d \in Devices : pc[d] # "lockDelete"

(* NoUnseenOverwrite: a replica that has synced before replaces the head   *)
(* only when the head is the snapshot it has seen; the check of            *)
(* should_conflict under the lock is still true when the head is written.  *)
NoUnseenOverwrite ==
  [][\A d \in Devices :
       pc[d] = "putHead" /\ pc'[d] = "writeSeen" /\ head # None
         => ctx[d].seen \in {None, head.id}]_vars

(* HeadTrustStable: once a head exists every later head carries the same   *)
(* passphrase fingerprint (ensure_remote_trust_matches under the lock), so *)
(* a vault with another passphrase cannot take a target over.              *)
HeadTrustStable ==
  [][head # None => head'.trust = head.trust]_vars

(* The register that the target implements.  Between the put of the head   *)
(* and the sync_state row, a push is published and not yet acknowledged;   *)
(* while a pull replaces the database, the basis is the one it began with. *)
Answerless(d) == pc[d] = "writeSeen" /\ ctx[d].kind = "push"

Register == INSTANCE HeadRegister WITH
  Values  <- SnapshotIds,
  value   <- IF head = None THEN None ELSE head.id,
  base    <- [d \in Devices |->
                IF Answerless(d) THEN Target(ctx[d])
                ELSE IF pc[d] \in {"applyCopyDb", "applyStore", "writeSeen"}
                THEN ctx[d].seen ELSE db[d].seen],
  unacked <- [d \in Devices |-> IF Answerless(d) THEN {ctx[d].seen} ELSE {}]

(* ImplementsRegister: without crashes and with operations shorter than    *)
(* the lock's TTL, push and pull act on the head like a compare-and-swap   *)
(* register: the replica that puts a head does so over the head that its   *)
(* own last_seen row names (or has no such row), whatever others push and  *)
(* pull meanwhile, and the row it then has is the head it put, or, when    *)
(* the answer is lost, the row it had.                                     *)
ImplementsRegister == Register!Spec

=============================================================================
