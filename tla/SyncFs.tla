------------------------------- MODULE SyncFs -------------------------------
(***************************************************************************)
(* Push and pull against a directory (file:// or a plain path).  Nothing   *)
(* locks the directory: the steps of several replicas interleave freely.   *)
(* now_ms is an argument of the command, so a command run again may carry  *)
(* the same one.  Heads written here have schema 2 and no signature, which *)
(* strict authentication refuses: the pulls of this module are the ones    *)
(* with strict_auth = false, a strict one returns without any effect.      *)
(***************************************************************************)
EXTENDS SyncVault

CONSTANTS
  Times,        \* the now_ms values commands are given
  MergeModes,   \* auto-merge modes of the pulls: {"none"}, {"none", "auto"}
  MaxOps,       \* bound: operations started
  MaxCrashes    \* bound: crashes

ASSUME FsAssumption ==
  /\ Times \subseteq Nat /\ MergeModes \subseteq {"none", "auto"}
  /\ MaxOps \in Nat /\ MaxCrashes \in Nat

VARIABLES
  head,         \* head.json, or None
  snaps,        \* snapshots/<id>: what has been copied into the directory
  conflicts,    \* conflicts/*.json
  pc, ctx,      \* next step and frame of each replica's operation
  ops, crashes  \* bounded counters

targetVars == <<head, snaps, conflicts>>
vars == <<vaultVars, targetVars, pc, ctx, ops, crashes>>

-----------------------------------------------------------------------------
Heads == [id: SnapshotIds, manifest: Manifests]
Artifacts == [vault: VaultIds, now: Nat, manifest: Manifests,
              head: SnapshotIds, seen: SnapshotIds]

(* A snapshot directory while it is filled: the database (with the         *)
(* manifest) is copied first, the store after it.                          *)
SnapshotDirs == [db: Dbs \cup {None}, store: SUBSET Objects]
EmptyDir == [db |-> None, store |-> {}]
Complete(s) == s.db # None /\ s.store = s.db.objects

Pcs == {"idle", "removeDir", "createDir", "copyDb", "copyStore", "writeHead",
        "preview", "checkDir", "applyRemoveDb", "applyCopyDb", "applyStore",
        "writeSeen", "writeApplied"}

Frames == [kind: {"push", "pull"}, now: Nat,
           seen: SnapshotIds \cup {None}, applied: Manifests \cup {None},
           manifest: Manifests, head: Heads \cup {None}, bundle: Dbs \cup {None}]

ASSUME NoneFsAssumption == None \notin Frames

Target(c) == IF c.kind = "push" THEN SnapshotIdForManifest(c.manifest, c.now)
             ELSE c.head.id
TargetManifest(c) == IF c.kind = "push" THEN c.manifest ELSE c.head.manifest

Artifact(d, c) == [vault |-> VaultIdOf[d], now |-> c.now, manifest |-> c.manifest,
                   head |-> head.id, seen |-> c.seen]

Init ==
  /\ VaultInit
  /\ head = None /\ snaps = [i \in {} |-> EmptyDir] /\ conflicts = {}
  /\ pc = [d \in Devices |-> "idle"] /\ ctx = [d \in Devices |-> None]
  /\ ops = 0 /\ crashes = 0

Goto(d, p) == pc' = [pc EXCEPT ![d] = p] /\ UNCHANGED <<ctx, ops, crashes>>
(* Faulty variant: the frame outlives the call.                            *)
ReturnKeepingFrame(d) == Goto(d, "idle")
Return(d) == /\ pc' = [pc EXCEPT ![d] = "idle"] /\ ctx' = [ctx EXCEPT ![d] = None]
             /\ UNCHANGED <<ops, crashes>>

Frame(d, kind, now, bundle) ==
  [kind |-> kind, now |-> now, seen |-> db[d].seen, applied |-> db[d].applied,
   manifest |-> LocalManifest(d, "folder"), head |-> head, bundle |-> bundle]

(* The common start: read the head and the sync state, export, decide.     *)
Begin(d, c, merge, ifConflict, ifClean) ==
  LET conflict == ShouldConflict(head, c.seen, c.applied, c.manifest)
  IN /\ pc[d] = "idle" /\ ops < MaxOps /\ ops' = ops + 1
     /\ CanExport(d)
     /\ \/ /\ conflict /\ merge = "none"
           /\ conflicts' = conflicts \cup {Artifact(d, c)}
           /\ UNCHANGED <<pc, ctx>>
        \/ /\ ~(conflict /\ merge = "none")
           /\ pc' = [pc EXCEPT ![d] = IF conflict THEN ifConflict ELSE ifClean]
           /\ ctx' = [ctx EXCEPT ![d] = c]
           /\ UNCHANGED conflicts
     /\ UNCHANGED <<vaultVars, head, snaps, crashes>>

PushStart(d, now) == Begin(d, Frame(d, "push", now, db[d]), "none", "idle", "removeDir")

PullStart(d, now, merge) ==
  /\ head # None
  /\ Begin(d, Frame(d, "pull", now, None), merge, "preview", "checkDir")

-----------------------------------------------------------------------------
(* A snapshot directory of that id is removed, recreated and filled.  What *)
(* is no longer there reads as an empty directory.                         *)
Dir(i) == IF i \in DOMAIN snaps THEN snaps[i] ELSE EmptyDir
SetDir(i, s) == snaps' = [j \in DOMAIN snaps \cup {i} |-> IF j = i THEN s ELSE snaps[j]]

(* Faulty variant: a directory of that id is taken to be complete.         *)
RemoveDirOrReuse(d) ==
  /\ pc[d] = "removeDir"
  /\ Goto(d, IF Target(ctx[d]) \in DOMAIN snaps THEN "writeHead" ELSE "createDir")
  /\ UNCHANGED <<vaultVars, targetVars>>

RemoveDir(d) ==
  /\ pc[d] = "removeDir"
  /\ snaps' = [j \in DOMAIN snaps \ {Target(ctx[d])} |-> snaps[j]]
  /\ Goto(d, "createDir")
  /\ UNCHANGED <<vaultVars, head, conflicts>>

CreateDir(d) ==
  /\ pc[d] = "createDir"
  /\ SetDir(Target(ctx[d]), Dir(Target(ctx[d])))
  /\ Goto(d, "copyDb")
  /\ UNCHANGED <<vaultVars, head, conflicts>>

(* Faulty variant: the head is written before the store is copied.         *)
CopyTreeDbOnly(d) ==
  /\ pc[d] = "copyDb"
  /\ SetDir(Target(ctx[d]), [Dir(Target(ctx[d])) EXCEPT !.db = ctx[d].bundle])
  /\ Goto(d, "writeHead")
  /\ UNCHANGED <<vaultVars, head, conflicts>>

CopyTree(d) ==
  LET i == Target(ctx[d])
  IN /\ \/ /\ pc[d] = "copyDb"
           /\ SetDir(i, [Dir(i) EXCEPT !.db = ctx[d].bundle])
           /\ Goto(d, "copyStore")
        \/ /\ pc[d] = "copyStore"
           /\ SetDir(i, [Dir(i) EXCEPT !.store = ctx[d].bundle.objects])
           /\ Goto(d, "writeHead")
     /\ UNCHANGED <<vaultVars, head, conflicts>>

WriteHead(d) ==
  /\ pc[d] = "writeHead"
  /\ head' = [id |-> Target(ctx[d]), manifest |-> ctx[d].manifest]
  /\ Goto(d, "writeSeen")
  /\ UNCHANGED <<vaultVars, snaps, conflicts>>

(* sync_merge_preview_file_target, from what is on disk at that moment.    *)
PreviewSafe(d) ==
  LET known(i) == i \in DOMAIN snaps /\ snaps[i].db # None
      base == IF db[d].seen = None THEN EmptyChangeSet
              ELSE ChangeSet(snaps[db[d].seen].db)
  IN /\ CanExport(d) /\ known(head.id)
     /\ db[d].seen # None => known(db[d].seen)
     /\ DisjointDeltas(DeltaChangeSet(ChangeSet(db[d]), base),
                       DeltaChangeSet(ChangeSet(snaps[head.id].db), base))

PullPreview(d) ==
  /\ pc[d] = "preview"
  /\ \/ PreviewSafe(d) /\ Goto(d, "checkDir")
     \/ ~PreviewSafe(d) /\ Return(d)
  /\ UNCHANGED <<vaultVars, targetVars>>

CheckDir(d) ==
  /\ pc[d] = "checkDir"
  /\ \/ Target(ctx[d]) \in DOMAIN snaps /\ Goto(d, "applyRemoveDb")
     \/ Target(ctx[d]) \notin DOMAIN snaps /\ Return(d)
  /\ UNCHANGED <<vaultVars, targetVars>>

(* apply_snapshot_to_vault copies straight out of the shared directory; a  *)
(* tree missing there is skipped.                                          *)
Apply(d) ==
  LET s == Dir(Target(ctx[d]))
  IN /\ \/ /\ pc[d] = "applyRemoveDb"
           /\ IF s.db = None THEN UNCHANGED vaultVars /\ Goto(d, "applyStore")
              ELSE ApplyRemoveDb(d) /\ Goto(d, "applyCopyDb")
        \/ /\ pc[d] = "applyCopyDb"
           /\ IF s.db = None THEN UNCHANGED vaultVars ELSE ApplyCopyDb(d, s.db)
           /\ Goto(d, "applyStore")
        \/ /\ pc[d] = "applyStore"
           /\ ApplyStore(d, [objects |-> s.store])
           /\ Goto(d, "writeSeen")
     /\ UNCHANGED targetVars

RecordState(d) ==
  /\ \/ pc[d] = "writeSeen" /\ WriteSeen(d, Target(ctx[d])) /\ Goto(d, "writeApplied")
     \/ pc[d] = "writeApplied" /\ WriteApplied(d, TargetManifest(ctx[d])) /\ Return(d)
  /\ UNCHANGED targetVars

Crash(d) ==
  /\ pc[d] # "idle" /\ crashes < MaxCrashes
  /\ crashes' = crashes + 1
  /\ pc' = [pc EXCEPT ![d] = "idle"] /\ ctx' = [ctx EXCEPT ![d] = None]
  /\ UNCHANGED <<vaultVars, targetVars, ops>>

Edit(d) ==
  /\ pc[d] = "idle"
  /\ AddObject(d) \/ AddOverlay(d) \/ RemoveOverlay(d)
  /\ UNCHANGED <<targetVars, pc, ctx, ops, crashes>>

Next ==
  \E d \in Devices :
    \/ \E now \in Times : \/ PushStart(d, now)
                          \/ \E m \in MergeModes : PullStart(d, now, m)
    \/ RemoveDir(d) \/ CreateDir(d) \/ CopyTree(d) \/ WriteHead(d)
    \/ PullPreview(d) \/ CheckDir(d) \/ Apply(d) \/ RecordState(d)
    \/ Crash(d) \/ Edit(d)

Spec == Init /\ [][Next]_vars

-----------------------------------------------------------------------------
TypeOK ==
  /\ VaultTypeOK
  /\ head \in Heads \cup {None}
  /\ DOMAIN snaps \subseteq SnapshotIds /\ snaps \in [DOMAIN snaps -> SnapshotDirs]
  /\ conflicts \subseteq Artifacts
  /\ pc \in [Devices -> Pcs] /\ ctx \in [Devices -> Frames \cup {None}]
  /\ \A d \in Devices : pc[d] = "idle" <=> ctx[d] = None
  /\ ops \in Nat /\ crashes \in Nat

(* HeadIsComplete: as long as no command died, head.json names a directory *)
(* whose database and store are fully copied, so a pull that starts now    *)
(* installs a whole vault: sync_push copies the tree before it writes the  *)
(* head, and pushes of other replicas do not touch that directory.         *)
HeadIsComplete ==
  crashes = 0 /\ head # None => head.id \in DOMAIN snaps /\ Complete(snaps[head.id])

(* PullInstallsHead: as long as no command died, a pull that ends leaves   *)
(* the vault with the content of the head it read, recorded as seen and    *)
(* with a file for every object row, even when other replicas pushed in    *)
(* the meantime.                                                           *)
PullInstallsHead ==
  [][\A d \in Devices :
       pc[d] = "writeApplied" /\ pc'[d] = "idle" /\ ctx[d].kind = "pull"
       /\ crashes' = 0
       => LET s == snaps[ctx[d].head.id]
          IN /\ ChangeSet(db'[d]) = ChangeSet(s.db)
             /\ db'[d].seen = ctx[d].head.id
             /\ db'[d].objects \subseteq store'[d]]_vars

(* SnapshotMatchesId: whatever crashes while a directory is filled, or is  *)
(* emptied and filled again by a retry, and whoever reads it meanwhile,    *)
(* what lies under snapshots/<id> is part of the one bundle that id was    *)
(* derived from: a directory is never a mix of two exports.                *)
SnapshotMatchesId ==
  \A i \in DOMAIN snaps :
    snaps[i].db # None => /\ snaps[i].db.rev = i.manifest.rev
                          /\ snaps[i].store \subseteq snaps[i].db.objects

(* PublishedIsComplete: the directory a push names in head.json is fully   *)
(* copied at that moment, also when the push repeats one that died with    *)
(* the directory removed or half filled, or after the head was written.    *)
PublishedIsComplete ==
  [][\A d \in Devices :
       pc[d] = "writeHead" /\ pc'[d] = "writeSeen"
         => head'.id \in DOMAIN snaps /\ Complete(snaps[head'.id])]_vars

=============================================================================
