---------------------------- MODULE SyncFsProofs ----------------------------
(***************************************************************************)
(* Theorems about SyncFs, for every set of replicas, every now_ms and      *)
(* every number of operations.  Those about complete directories need that *)
(* no two replicas have the same vault_id: then nobody else fills or       *)
(* removes the directory of a push.                                        *)
(***************************************************************************)
EXTENDS SyncFs, SyncVaultProofs

-----------------------------------------------------------------------------
(* The inductive invariant.                                                *)

DistinctVaults == \A d, e \in Devices : VaultIdOf[d] = VaultIdOf[e] => d = e

DirPcs == {"removeDir", "createDir", "copyDb", "copyStore", "writeHead"}
ApplyPcs == {"preview", "checkDir", "applyRemoveDb", "applyCopyDb", "applyStore"}
RecordPcs == {"writeSeen", "writeApplied"}

Pushing(d) == pc[d] # "idle" /\ ctx[d].kind = "push"
Pulling(d) == pc[d] # "idle" /\ ctx[d].kind = "pull"

(* A push holds the database that its manifest names, a pull a head.       *)
FramesFit ==
  \A d \in Devices :
    /\ Pushing(d) => /\ pc[d] \in DirPcs \cup RecordPcs /\ ctx[d].bundle \in Dbs
                     /\ ctx[d].bundle.rev = ctx[d].manifest.rev
                     /\ ctx[d].manifest.vault = VaultIdOf[d]
    /\ Pulling(d) => pc[d] \in ApplyPcs \cup RecordPcs /\ ctx[d].head \in Heads

(* The databases that are around.                                          *)
Held ==
  {db[d] : d \in Devices} \cup {ctx[d].bundle : d \in {e \in Devices : Pushing(e)}}
  \cup {snaps[i].db : i \in {j \in DOMAIN snaps : snaps[j].db # None}}

(* A directory holds what its id names.                                    *)
DirsFit ==
  \A i \in DOMAIN snaps :
    /\ i.manifest.rev <= rev
    /\ snaps[i].db # None => snaps[i].db.rev = i.manifest.rev
    /\ \A b \in Held : b.rev = i.manifest.rev => snaps[i].store \subseteq b.objects

(* A push fills its directory.                                             *)
Filled ==
  \A d \in Devices :
    LET i == Target(ctx[d])
    IN /\ pc[d] \in {"copyStore", "writeHead"} => i \in DOMAIN snaps /\ snaps[i].db = ctx[d].bundle
       /\ pc[d] = "writeHead" => Complete(snaps[i])

(* The ids that were read from or written to head.json.                    *)
Published ==
  {h.id : h \in {x \in {head} : x # None}} \cup
  {ctx[d].head.id : d \in {e \in Devices : Pulling(e)}}

(* A published directory is complete, and the replica that pushed it has   *)
(* moved on: it does not derive that id again.                             *)
Kept ==
  \A i \in Published :
    /\ i \in DOMAIN snaps /\ Complete(snaps[i])
    /\ \A d \in Devices :
         VaultIdOf[d] = i.manifest.vault =>
           /\ pc[d] \in DirPcs => ctx[d].manifest.rev > i.manifest.rev
           /\ pc[d] \in {"applyStore", "writeSeen"} \/ db[d].rev > i.manifest.rev

(* A pull has installed this much of the head it read.                     *)
Installed ==
  \A d \in Devices :
    LET s == snaps[ctx[d].head.id]
    IN Pulling(d) =>
         /\ pc[d] \in {"applyStore", "writeSeen"} => db[d] = s.db
         /\ pc[d] \in RecordPcs => db[d].objects \subseteq store[d]
         /\ pc[d] = "writeApplied" =>
              ChangeSet(db[d]) = ChangeSet(s.db) /\ db[d].seen = ctx[d].head.id

FsInv == TypeOK /\ FramesFit /\ RevisionsName(Held) /\ DirsFit
PathInv ==
  /\ Filled
  /\ crashes = 0 => Kept /\ Installed
FsAllInv == FsInv /\ (DistinctVaults => PathInv)

-----------------------------------------------------------------------------
(* Types and frames.                                                       *)

(* The frame c fits the step p of replica d.                               *)
FitsAt(d, p, c) ==
  IF p = "idle" THEN c = None
  ELSE /\ c \in Frames
       /\ c.kind = "push" => /\ p \in DirPcs \cup RecordPcs /\ c.bundle \in Dbs
                             /\ c.bundle.rev = c.manifest.rev /\ c.manifest.vault = VaultIdOf[d]
       /\ c.kind = "pull" => p \in ApplyPcs \cup RecordPcs /\ c.head \in Heads

Control ==
  /\ pc \in [Devices -> Pcs] /\ ctx \in [Devices -> Frames \cup {None}]
  /\ \A d \in Devices : FitsAt(d, pc[d], ctx[d])

Directory ==
  /\ head \in Heads \cup {None}
  /\ DOMAIN snaps \subseteq SnapshotIds /\ snaps \in [DOMAIN snaps -> SnapshotDirs]
  /\ conflicts \subseteq Artifacts

(* Typed: the parts of TypeOK and FramesFit that a step disturbs one by    *)
(* one.                                                                    *)
LEMMA Typed ==
  TypeOK /\ FramesFit <=> VaultTypeOK /\ Directory /\ Control /\ ops \in Nat /\ crashes \in Nat
BY NoneFsAssumption DEF TypeOK, FramesFit, Directory, Control, FitsAt, Pushing, Pulling

(* TypedNext: the same in the next state.                                  *)
LEMMA TypedNext ==
  ASSUME VaultTypeOK', Directory', Control', ops' \in Nat, crashes' \in Nat
  PROVE  TypeOK' /\ FramesFit'
BY NoneFsAssumption DEF TypeOK, FramesFit, Directory, Control, FitsAt, Pushing, Pulling

(* FrameAt: what a running operation works with.                           *)
LEMMA FrameAt ==
  ASSUME Control, NEW d \in Devices, pc[d] # "idle"
  PROVE  /\ ctx[d] \in Frames /\ FitsAt(d, pc[d], ctx[d])
         /\ ctx[d].kind \in {"push", "pull"} /\ ctx[d].manifest \in Manifests
         /\ Target(ctx[d]) \in SnapshotIds /\ TargetManifest(ctx[d]) \in Manifests
         /\ pc[d] \in DirPcs => ctx[d].kind = "push"
         /\ pc[d] \in ApplyPcs => ctx[d].kind = "pull"
         /\ ctx[d].kind = "push" => /\ ctx[d].bundle \in Dbs
                                    /\ Target(ctx[d]).manifest = ctx[d].manifest
         /\ ctx[d].kind = "pull" => ctx[d].head \in Heads /\ Target(ctx[d]) = ctx[d].head.id
<1>1. ctx[d] \in Frames /\ FitsAt(d, pc[d], ctx[d])  BY DEF Control, FitsAt
<1>2. /\ ctx[d].kind \in {"push", "pull"} /\ ctx[d].manifest \in Manifests /\ ctx[d].now \in Nat
  BY <1>1 DEF Frames
<1>3. CASE ctx[d].kind = "push"
  <2>1. ctx[d].bundle \in Dbs /\ pc[d] \in DirPcs \cup RecordPcs  BY <1>1, <1>3 DEF FitsAt
  <2>2. pc[d] \notin ApplyPcs  BY <2>1 DEF DirPcs, RecordPcs, ApplyPcs
  <2>3. /\ Target(ctx[d]) \in SnapshotIds /\ Target(ctx[d]).manifest = ctx[d].manifest
        /\ TargetManifest(ctx[d]) \in Manifests
    BY <1>2, <1>3 DEF Target, TargetManifest, SnapshotIdForManifest, SnapshotIds
  <2>4. QED  BY <1>1, <1>2, <1>3, <2>1, <2>2, <2>3
<1>4. CASE ctx[d].kind = "pull"
  <2>1. ctx[d].head \in Heads /\ pc[d] \in ApplyPcs \cup RecordPcs  BY <1>1, <1>4 DEF FitsAt
  <2>2. pc[d] \notin DirPcs  BY <2>1 DEF DirPcs, RecordPcs, ApplyPcs
  <2>3. ctx[d].head.id \in SnapshotIds /\ ctx[d].head.manifest \in Manifests  BY <2>1 DEF Heads
  <2>4. Target(ctx[d]) = ctx[d].head.id /\ TargetManifest(ctx[d]) = ctx[d].head.manifest
    BY <1>4 DEF Target, TargetManifest
  <2>5. QED  BY <1>1, <1>2, <1>4, <2>1, <2>2, <2>3, <2>4
<1>5. QED  BY <1>2, <1>3, <1>4

(* ControlStep: one replica moves to a step with a frame that fits it.     *)
LEMMA ControlStep ==
  ASSUME Control, NEW d \in Devices, NEW p \in Pcs, NEW c, FitsAt(d, p, c),
         pc' = [pc EXCEPT ![d] = p], ctx' = [ctx EXCEPT ![d] = c]
  PROVE  Control'
<1>1. c \in Frames \cup {None}  BY DEF FitsAt
<1>2. pc' \in [Devices -> Pcs] /\ ctx' \in [Devices -> Frames \cup {None}]  BY <1>1 DEF Control
<1>3. ASSUME NEW e \in Devices PROVE FitsAt(e, pc'[e], ctx'[e])
  <2>1. CASE e = d
    <3>1. pc'[e] = p /\ ctx'[e] = c  BY <2>1 DEF Control
    <3>2. QED  BY <2>1, <3>1
  <2>2. CASE e # d
    <3>1. pc'[e] = pc[e] /\ ctx'[e] = ctx[e]  BY <2>2 DEF Control
    <3>2. QED  BY <3>1 DEF Control
  <2>3. QED  BY <2>1, <2>2
<1>4. \A e \in Devices : FitsAt(e, pc[e], ctx[e])'  BY <1>3 DEF FitsAt
<1>5. QED  BY <1>2, <1>4 DEF Control

(* GotoStep: the next step of the same operation.                          *)
LEMMA GotoStep ==
  ASSUME Control, NEW d \in Devices, pc[d] # "idle", NEW p, Goto(d, p),
         \/ ctx[d].kind = "push" /\ p \in DirPcs
         \/ ctx[d].kind = "pull" /\ p \in ApplyPcs
         \/ p \in RecordPcs
  PROVE  Control' /\ UNCHANGED <<ctx, ops, crashes>>
<1>1. ctx[d] \in Frames /\ FitsAt(d, pc[d], ctx[d])  BY FrameAt
<1>2. p \in Pcs /\ p # "idle"  BY DEF Pcs, DirPcs, ApplyPcs, RecordPcs
<1>3. FitsAt(d, p, ctx[d])  BY <1>1, <1>2 DEF FitsAt
<1>4. pc' = [pc EXCEPT ![d] = p] /\ ctx' = [ctx EXCEPT ![d] = ctx[d]] /\ UNCHANGED <<ctx, ops, crashes>>
  BY DEF Goto, Control
<1>5. QED  BY <1>2, <1>3, <1>4, ControlStep

(* ReturnStep: an operation ends.                                          *)
LEMMA ReturnStep ==
  ASSUME Control, NEW d \in Devices, pc' = [pc EXCEPT ![d] = "idle"], ctx' = [ctx EXCEPT ![d] = None]
  PROVE  Control'
<1>1. "idle" \in Pcs /\ FitsAt(d, "idle", None)  BY DEF Pcs, FitsAt
<1>2. QED  BY <1>1, ControlStep

Parts == VaultTypeOK /\ Directory /\ Control /\ ops \in Nat /\ crashes \in Nat

(* SameVault: a vault that is not touched stays typed.                     *)
LEMMA SameVault == VaultTypeOK /\ UNCHANGED vaultVars => VaultTypeOK'
BY DEF VaultTypeOK, vaultVars
(* SameDirectory: so does the target directory.                            *)
LEMMA SameDirectory == Directory /\ UNCHANGED targetVars => Directory'
BY DEF Directory, targetVars

(* Enters: the effect of an operation's start that finds no conflict.      *)
Enters(d, c, p) == pc' = [pc EXCEPT ![d] = p] /\ ctx' = [ctx EXCEPT ![d] = c]

(* BeginStep: a start either writes an artifact or enters the operation.   *)
LEMMA BeginStep ==
  ASSUME Parts, NEW d \in Devices, NEW now \in Nat,
         NEW kind \in {"push", "pull"}, NEW bundle \in Dbs \cup {None}, NEW merge, NEW ifConflict, NEW ifClean,
         Begin(d, Frame(d, kind, now, bundle), merge, ifConflict, ifClean)
  PROVE  LET c == Frame(d, kind, now, bundle)
         IN /\ c \in Frames /\ c.kind = kind /\ c.bundle = bundle /\ c.head = head
            /\ c.manifest.vault = VaultIdOf[d] /\ c.manifest.rev = db[d].rev
            /\ pc[d] = "idle" /\ ops' \in Nat /\ Directory'
            /\ UNCHANGED <<vaultVars, head, snaps, crashes>>
            /\ \/ UNCHANGED <<pc, ctx>>
               \/ Enters(d, c, ifClean)
               \/ Enters(d, c, ifConflict) /\ merge # "none"
<1> DEFINE c == Frame(d, kind, now, bundle)
<1>1. /\ db[d] \in Dbs /\ db[d].seen \in SnapshotIds \cup {None}
      /\ db[d].applied \in Manifests \cup {None} /\ db[d].rev \in Nat
  BY DEF Parts, VaultTypeOK, Dbs
<1>2. LocalManifest(d, "folder") \in Manifests  BY <1>1, VaultIdAssumption DEF LocalManifest, Manifests
<1>3. head \in Heads \cup {None}  BY DEF Parts, Directory
<1>4. /\ c \in Frames /\ c.kind = kind /\ c.bundle = bundle /\ c.head = head /\ c.seen = db[d].seen
      /\ c.now = now /\ c.manifest = LocalManifest(d, "folder")
  BY <1>1, <1>2, <1>3 DEF Frame, Frames
<1>5. c.manifest.vault = VaultIdOf[d] /\ c.manifest.rev = db[d].rev  BY <1>4 DEF LocalManifest
<1> HIDE DEF c
<1>6. ASSUME ShouldConflict(head, c.seen, c.applied, c.manifest) PROVE Artifact(d, c) \in Artifacts
  <2>1. head \in Heads /\ c.seen \in SnapshotIds  BY <1>1, <1>3, <1>4, <1>6 DEF ShouldConflict
  <2>2. head.id \in SnapshotIds  BY <2>1 DEF Heads
  <2>3. QED  BY <1>2, <1>4, <2>1, <2>2, VaultIdAssumption DEF Artifact, Artifacts
<1>7. Directory'
  <2>1. UNCHANGED <<head, snaps>>  BY DEF Begin
  <2>2. conflicts' \subseteq Artifacts
    BY <1>6 DEF Begin, Parts, Directory, c
  <2>3. QED  BY <2>1, <2>2 DEF Parts, Directory
<1>8. /\ pc[d] = "idle" /\ ops' \in Nat /\ UNCHANGED <<vaultVars, head, snaps, crashes>>
  BY DEF Begin, Parts
<1>9. \/ UNCHANGED <<pc, ctx>>
      \/ Enters(d, c, ifClean)
      \/ Enters(d, c, ifConflict) /\ merge # "none"
  BY DEF Begin, Enters, c
<1>10. QED  BY <1>4, <1>5, <1>7, <1>8, <1>9 DEF c

(* PushStarts: how a push starts.                                          *)
LEMMA PushStarts ==
  ASSUME Parts, NEW d \in Devices, NEW now \in Times, PushStart(d, now)
  PROVE  LET c == Frame(d, "push", now, db[d])
         IN /\ Parts' /\ pc[d] = "idle" /\ UNCHANGED <<vaultVars, head, snaps, crashes>>
            /\ c.kind = "push" /\ c.bundle = db[d] /\ c.manifest.vault = VaultIdOf[d]
            /\ c.manifest.rev = db[d].rev
            /\ UNCHANGED <<pc, ctx>> \/ Enters(d, c, "removeDir")
<1> DEFINE c == Frame(d, "push", now, db[d])
<1>1. now \in Nat /\ db[d] \in Dbs  BY FsAssumption DEF Parts, VaultTypeOK
<1>2. Begin(d, c, "none", "idle", "removeDir")  BY DEF PushStart
<1>3. /\ c \in Frames /\ c.kind = "push" /\ c.bundle = db[d]
      /\ c.manifest.vault = VaultIdOf[d] /\ c.manifest.rev = db[d].rev
      /\ pc[d] = "idle" /\ ops' \in Nat /\ Directory' /\ UNCHANGED <<vaultVars, head, snaps, crashes>>
      /\ UNCHANGED <<pc, ctx>> \/ Enters(d, c, "removeDir")
  BY <1>1, <1>2, BeginStep
<1> HIDE DEF c
<1>4. FitsAt(d, "removeDir", c) /\ "removeDir" \in Pcs
  BY <1>1, <1>3 DEF FitsAt, DirPcs, Pcs
<1>5. Control'
  <2>1. CASE UNCHANGED <<pc, ctx>>  BY <2>1 DEF Parts, Control, FitsAt
  <2>2. CASE Enters(d, c, "removeDir")  BY <1>4, <2>2, ControlStep DEF Enters, Parts
  <2>3. QED  BY <1>3, <2>1, <2>2
<1>6. Parts'  BY <1>3, <1>5, SameVault DEF Parts
<1>7. QED  BY <1>3, <1>6 DEF c

(* PullStarts: how a pull starts.                                          *)
LEMMA PullStarts ==
  ASSUME Parts, NEW d \in Devices, NEW now \in Times, NEW merge \in MergeModes, PullStart(d, now, merge)
  PROVE  LET c == Frame(d, "pull", now, None)
         IN /\ Parts' /\ pc[d] = "idle" /\ UNCHANGED <<vaultVars, head, snaps, crashes>>
            /\ head # None /\ c.kind = "pull" /\ c.head = head
            /\ UNCHANGED <<pc, ctx>> \/ Enters(d, c, "checkDir") \/ Enters(d, c, "preview")
<1> DEFINE c == Frame(d, "pull", now, None)
<1>1. now \in Nat  BY FsAssumption
<1>2. head # None /\ Begin(d, c, merge, "preview", "checkDir")  BY DEF PullStart
<1>3. /\ c \in Frames /\ c.kind = "pull" /\ c.head = head
      /\ pc[d] = "idle" /\ ops' \in Nat /\ Directory' /\ UNCHANGED <<vaultVars, head, snaps, crashes>>
      /\ UNCHANGED <<pc, ctx>> \/ Enters(d, c, "checkDir") \/ Enters(d, c, "preview")
  BY <1>1, <1>2, BeginStep
<1> HIDE DEF c
<1>4. head \in Heads  BY <1>2 DEF Parts, Directory
<1>5. /\ FitsAt(d, "checkDir", c) /\ "checkDir" \in Pcs
      /\ FitsAt(d, "preview", c) /\ "preview" \in Pcs
  BY <1>3, <1>4 DEF FitsAt, ApplyPcs, Pcs
<1>6. Control'
  <2>1. CASE UNCHANGED <<pc, ctx>>  BY <2>1 DEF Parts, Control, FitsAt
  <2>2. CASE Enters(d, c, "checkDir")  BY <1>5, <2>2, ControlStep DEF Enters, Parts
  <2>3. CASE Enters(d, c, "preview")  BY <1>5, <2>3, ControlStep DEF Enters, Parts
  <2>4. QED  BY <1>3, <2>1, <2>2, <2>3
<1>7. Parts'  BY <1>3, <1>6, SameVault DEF Parts
<1>8. QED  BY <1>2, <1>3, <1>7 DEF c

(* What may change under the id i: nothing else does.                      *)
OnlyDir(i) ==
  /\ DOMAIN snaps \ {i} = DOMAIN snaps' \ {i}
  /\ \A j \in DOMAIN snaps : j # i => snaps'[j] = snaps[j]

(* SetDirStep: one directory is written.                                   *)
LEMMA SetDirStep ==
  ASSUME Directory, NEW i \in SnapshotIds, NEW s \in SnapshotDirs, SetDir(i, s),
         UNCHANGED <<head, conflicts>>
  PROVE  Directory' /\ OnlyDir(i) /\ i \in DOMAIN snaps' /\ snaps'[i] = s
BY DEF Directory, SetDir, OnlyDir

(* DirType: what a directory holds.                                        *)
LEMMA DirType ==
  ASSUME Directory, NEW i
  PROVE  Dir(i) \in SnapshotDirs
BY DEF Directory, Dir, EmptyDir, SnapshotDirs

(* DirStep: a push removes, creates and fills its directory.               *)
LEMMA DirStep ==
  ASSUME Parts, NEW d \in Devices, RemoveDir(d) \/ CreateDir(d) \/ CopyTree(d)
  PROVE  LET i == Target(ctx[d])
             c == ctx[d]
         IN /\ Parts' /\ OnlyDir(i) /\ UNCHANGED <<vaultVars, head, ctx, crashes>>
            /\ pc[d] \in DirPcs
            /\ \/ i \notin DOMAIN snaps' /\ pc' = [pc EXCEPT ![d] = "createDir"]
               \/ /\ i \in DOMAIN snaps' /\ snaps'[i] = Dir(i) /\ pc' = [pc EXCEPT ![d] = "copyDb"]
               \/ /\ i \in DOMAIN snaps' /\ snaps'[i].db = c.bundle /\ snaps'[i].store = Dir(i).store
                  /\ pc' = [pc EXCEPT ![d] = "copyStore"]
               \/ /\ i \in DOMAIN snaps' /\ snaps'[i].db = Dir(i).db /\ snaps'[i].store = c.bundle.objects
                  /\ pc[d] = "copyStore" /\ pc' = [pc EXCEPT ![d] = "writeHead"]
<1>1. pc[d] \in DirPcs /\ pc[d] # "idle"  BY DEF RemoveDir, CreateDir, CopyTree, DirPcs
<1>2. PICK i : i = Target(ctx[d])  OBVIOUS
<1>3. i \in SnapshotIds /\ ctx[d].kind = "push" /\ ctx[d].bundle \in Dbs
  BY <1>1, <1>2, FrameAt DEF Parts
<1>4. Directory /\ Dir(i) \in SnapshotDirs  BY DirType DEF Parts
<1>5. UNCHANGED <<vaultVars, head, conflicts>>  BY DEF RemoveDir, CreateDir, CopyTree
<1>6. ASSUME NEW p \in DirPcs, Goto(d, p), Directory'
      PROVE  Parts' /\ UNCHANGED <<ctx, crashes>> /\ pc' = [pc EXCEPT ![d] = p]
  <2>1. Control' /\ UNCHANGED <<ctx, ops, crashes>>  BY <1>1, <1>3, <1>6, GotoStep DEF Parts
  <2>2. pc' = [pc EXCEPT ![d] = p]  BY <1>6 DEF Goto
  <2>3. QED  BY <1>5, <1>6, <2>1, <2>2, SameVault DEF Parts
<1>7. CASE RemoveDir(d)
  <2>1. snaps' = [j \in DOMAIN snaps \ {i} |-> snaps[j]] /\ Goto(d, "createDir")
    BY <1>2, <1>7 DEF RemoveDir
  <2>2. Directory' /\ OnlyDir(i) /\ i \notin DOMAIN snaps'  BY <1>4, <1>5, <2>1 DEF Directory, OnlyDir
  <2>3. Parts' /\ UNCHANGED <<ctx, crashes>> /\ pc' = [pc EXCEPT ![d] = "createDir"]
    BY <1>6, <2>1, <2>2 DEF DirPcs
  <2>4. QED  BY <1>1, <1>2, <1>5, <2>2, <2>3
<1>8. CASE CreateDir(d)
  <2>1. SetDir(i, Dir(i)) /\ Goto(d, "copyDb")  BY <1>2, <1>8 DEF CreateDir
  <2>2. Directory' /\ OnlyDir(i) /\ i \in DOMAIN snaps' /\ snaps'[i] = Dir(i)
    BY <1>3, <1>4, <1>5, <2>1, SetDirStep
  <2>3. Parts' /\ UNCHANGED <<ctx, crashes>> /\ pc' = [pc EXCEPT ![d] = "copyDb"]
    BY <1>6, <2>1, <2>2 DEF DirPcs
  <2>4. QED  BY <1>1, <1>2, <1>5, <2>2, <2>3
<1>9. ASSUME SetDir(i, [Dir(i) EXCEPT !.db = ctx[d].bundle]), Goto(d, "copyStore")
      PROVE  /\ Parts' /\ OnlyDir(i) /\ UNCHANGED <<ctx, crashes>>
             /\ i \in DOMAIN snaps' /\ snaps'[i].db = ctx[d].bundle /\ snaps'[i].store = Dir(i).store
             /\ pc' = [pc EXCEPT ![d] = "copyStore"]
  <2>1. PICK s : s = [Dir(i) EXCEPT !.db = ctx[d].bundle]  OBVIOUS
  <2>2. s \in SnapshotDirs /\ s.db = ctx[d].bundle /\ s.store = Dir(i).store
    BY <1>3, <1>4, <2>1 DEF SnapshotDirs
  <2>3. Directory' /\ OnlyDir(i) /\ i \in DOMAIN snaps' /\ snaps'[i] = s
    BY <1>3, <1>4, <1>5, <1>9, <2>1, <2>2, SetDirStep
  <2>4. Parts' /\ UNCHANGED <<ctx, crashes>> /\ pc' = [pc EXCEPT ![d] = "copyStore"]
    BY <1>6, <1>9, <2>3 DEF DirPcs
  <2>5. QED  BY <2>2, <2>3, <2>4
<1>10. ASSUME SetDir(i, [Dir(i) EXCEPT !.store = ctx[d].bundle.objects]), Goto(d, "writeHead")
       PROVE  /\ Parts' /\ OnlyDir(i) /\ UNCHANGED <<ctx, crashes>>
              /\ i \in DOMAIN snaps' /\ snaps'[i].db = Dir(i).db /\ snaps'[i].store = ctx[d].bundle.objects
              /\ pc' = [pc EXCEPT ![d] = "writeHead"]
  <2>1. PICK s : s = [Dir(i) EXCEPT !.store = ctx[d].bundle.objects]  OBVIOUS
  <2>2. ctx[d].bundle.objects \in SUBSET Objects  BY <1>3 DEF Dbs
  <2>3. s \in SnapshotDirs /\ s.db = Dir(i).db /\ s.store = ctx[d].bundle.objects
    BY <1>4, <2>1, <2>2 DEF SnapshotDirs
  <2>4. Directory' /\ OnlyDir(i) /\ i \in DOMAIN snaps' /\ snaps'[i] = s
    BY <1>3, <1>4, <1>5, <1>10, <2>1, <2>3, SetDirStep
  <2>5. Parts' /\ UNCHANGED <<ctx, crashes>> /\ pc' = [pc EXCEPT ![d] = "writeHead"]
    BY <1>6, <1>10, <2>4 DEF DirPcs
  <2>6. QED  BY <2>3, <2>4, <2>5
<1>11. CASE CopyTree(d)
  <2>1. \/ SetDir(i, [Dir(i) EXCEPT !.db = ctx[d].bundle]) /\ Goto(d, "copyStore")
        \/ /\ pc[d] = "copyStore" /\ SetDir(i, [Dir(i) EXCEPT !.store = ctx[d].bundle.objects])
           /\ Goto(d, "writeHead")
    BY <1>2, <1>11 DEF CopyTree
  <2>2. QED  BY <1>1, <1>2, <1>5, <1>9, <1>10, <2>1
<1>12. QED  BY <1>7, <1>8, <1>11

(* HeadStep: the push names its directory in head.json.                    *)
LEMMA HeadStep ==
  ASSUME Parts, NEW d \in Devices, WriteHead(d)
  PROVE  /\ Parts' /\ UNCHANGED <<vaultVars, snaps, ctx, crashes>>
         /\ pc[d] = "writeHead" /\ pc' = [pc EXCEPT ![d] = "writeSeen"]
         /\ head' \in Heads /\ head'.id = Target(ctx[d]) /\ ctx[d].kind = "push"
<1>1. pc[d] = "writeHead" /\ UNCHANGED <<vaultVars, snaps, conflicts>>  BY DEF WriteHead
<1>2. Target(ctx[d]) \in SnapshotIds /\ ctx[d].manifest \in Manifests /\ ctx[d].kind = "push"
  BY <1>1, FrameAt DEF Parts, DirPcs
<1>3. head' \in Heads /\ head'.id = Target(ctx[d])  BY <1>2 DEF WriteHead, Heads
<1>4. Control' /\ UNCHANGED <<ctx, ops, crashes>> /\ pc' = [pc EXCEPT ![d] = "writeSeen"]
  <2>1. Goto(d, "writeSeen")  BY DEF WriteHead
  <2>2. Control' /\ UNCHANGED <<ctx, ops, crashes>>  BY <1>1, <2>1, GotoStep DEF Parts, RecordPcs
  <2>3. QED  BY <2>1, <2>2 DEF Goto
<1>5. Directory'  BY <1>1, <1>3 DEF Parts, Directory
<1>6. QED  BY <1>1, <1>2, <1>3, <1>4, <1>5, SameVault DEF Parts

(* ReadStep: a preview or a check only reads.                              *)
LEMMA ReadStep ==
  ASSUME Parts, NEW d \in Devices, PullPreview(d) \/ CheckDir(d)
  PROVE  /\ Parts' /\ UNCHANGED <<vaultVars, targetVars, crashes>> /\ ctx[d].kind = "pull"
         /\ pc[d] \in {"preview", "checkDir"}
         /\ \/ Enters(d, None, "idle")
            \/ /\ UNCHANGED ctx
               /\ \/ pc' = [pc EXCEPT ![d] = "checkDir"]
                  \/ pc' = [pc EXCEPT ![d] = "applyRemoveDb"]
<1>1. pc[d] \in {"preview", "checkDir"} /\ UNCHANGED <<vaultVars, targetVars>>
  BY DEF PullPreview, CheckDir
<1>2. pc[d] # "idle" /\ ctx[d].kind = "pull"  BY <1>1, FrameAt DEF Parts, ApplyPcs
<1>3. Goto(d, "checkDir") \/ Goto(d, "applyRemoveDb") \/ Return(d)  BY DEF PullPreview, CheckDir
<1>4. CASE Goto(d, "checkDir") \/ Goto(d, "applyRemoveDb")
  <2>1. Control' /\ UNCHANGED <<ctx, ops, crashes>>  BY <1>2, <1>4, GotoStep DEF Parts, ApplyPcs
  <2>2. QED  BY <1>1, <1>2, <1>4, <2>1, SameVault, SameDirectory DEF Parts, Goto
<1>5. CASE Return(d)
  <2>1. Enters(d, None, "idle") /\ UNCHANGED <<ops, crashes>>  BY <1>5 DEF Return, Enters
  <2>2. Control'  BY <2>1, ReturnStep DEF Parts, Enters
  <2>3. QED  BY <1>1, <1>2, <2>1, <2>2, SameVault, SameDirectory DEF Parts
<1>6. QED  BY <1>3, <1>4, <1>5

(* ApplyStep: a pull replaces the database and then the store.             *)
LEMMA ApplyStep ==
  ASSUME Parts, NEW d \in Devices, Apply(d)
  PROVE  LET s == Dir(Target(ctx[d]))
         IN /\ Parts' /\ UNCHANGED <<targetVars, ctx, crashes>> /\ ctx[d].kind = "pull"
            /\ \A e \in Devices : e # d => db'[e] = db[e] /\ store'[e] = store[e]
            /\ \/ /\ pc[d] = "applyRemoveDb" /\ s.db = None /\ UNCHANGED vaultVars
                  /\ pc' = [pc EXCEPT ![d] = "applyStore"]
               \/ /\ pc[d] = "applyRemoveDb" /\ s.db # None /\ Wrote(d)
                  /\ pc' = [pc EXCEPT ![d] = "applyCopyDb"]
               \/ /\ pc[d] = "applyCopyDb" /\ s.db = None /\ UNCHANGED vaultVars
                  /\ pc' = [pc EXCEPT ![d] = "applyStore"]
               \/ /\ pc[d] = "applyCopyDb" /\ s.db # None /\ db'[d] = s.db /\ UNCHANGED rev
                  /\ pc' = [pc EXCEPT ![d] = "applyStore"]
               \/ /\ pc[d] = "applyStore" /\ UNCHANGED <<db, rev>>
                  /\ s.store = {} \/ store'[d] = s.store
                  /\ pc' = [pc EXCEPT ![d] = "writeSeen"]
<1>1. pc[d] \in {"applyRemoveDb", "applyCopyDb", "applyStore"} /\ UNCHANGED targetVars  BY DEF Apply
<1>2. pc[d] # "idle" /\ ctx[d].kind = "pull"  BY <1>1, FrameAt DEF Parts, ApplyPcs
<1>3. PICK s : s = Dir(Target(ctx[d]))  OBVIOUS
<1>4. s \in SnapshotDirs  BY <1>3, DirType DEF Parts
<1>5. s.db \in Dbs \cup {None} /\ s.store \in SUBSET Objects  BY <1>4 DEF SnapshotDirs
<1>6. VaultTypeOK /\ rev \in Nat /\ db \in [Devices -> Dbs] /\ store \in [Devices -> SUBSET Objects]
  BY DEF Parts, VaultTypeOK
<1>7. ASSUME NEW p, Goto(d, p), p \in ApplyPcs \/ p \in RecordPcs, VaultTypeOK'
      PROVE  Parts' /\ UNCHANGED <<ctx, crashes>> /\ pc' = [pc EXCEPT ![d] = p]
  <2>1. Control' /\ UNCHANGED <<ctx, ops, crashes>>  BY <1>2, <1>7, GotoStep DEF Parts
  <2>2. QED  BY <1>1, <1>7, <2>1, SameDirectory DEF Parts, Goto
<1>8. CASE UNCHANGED vaultVars /\ Goto(d, "applyStore") /\ s.db = None /\ pc[d] \in {"applyRemoveDb", "applyCopyDb"}
  <2>1. Parts' /\ UNCHANGED <<ctx, crashes>> /\ pc' = [pc EXCEPT ![d] = "applyStore"]
    BY <1>6, <1>7, <1>8, SameVault DEF ApplyPcs
  <2>2. \A e \in Devices : e # d => db'[e] = db[e] /\ store'[e] = store[e]  BY <1>8 DEF vaultVars
  <2>3. QED  BY <1>1, <1>2, <1>3, <1>8, <2>1, <2>2
<1>9. CASE pc[d] = "applyRemoveDb" /\ s.db # None /\ ApplyRemoveDb(d) /\ Goto(d, "applyCopyDb")
  <2>1. VaultTypeOK'  BY <1>5, <1>6, <1>9, ApplyType
  <2>2. Parts' /\ UNCHANGED <<ctx, crashes>> /\ pc' = [pc EXCEPT ![d] = "applyCopyDb"]
    BY <1>7, <1>9, <2>1 DEF ApplyPcs
  <2>3. Wrote(d) /\ store' = store  BY <1>6, <1>9 DEF ApplyRemoveDb, EmptyDb, Wrote
  <2>4. QED  BY <1>1, <1>2, <1>3, <1>9, <2>2, <2>3 DEF Wrote
<1>10. CASE pc[d] = "applyCopyDb" /\ s.db # None /\ ApplyCopyDb(d, s.db) /\ Goto(d, "applyStore")
  <2>1. VaultTypeOK'  BY <1>5, <1>6, <1>10, ApplyType
  <2>2. Parts' /\ UNCHANGED <<ctx, crashes>> /\ pc' = [pc EXCEPT ![d] = "applyStore"]
    BY <1>7, <1>10, <2>1 DEF ApplyPcs
  <2>3. /\ db'[d] = s.db /\ UNCHANGED rev
        /\ \A e \in Devices : e # d => db'[e] = db[e] /\ store'[e] = store[e]
    BY <1>6, <1>10 DEF ApplyCopyDb
  <2>4. QED  BY <1>1, <1>2, <1>3, <1>10, <2>2, <2>3
<1>11. CASE pc[d] = "applyStore" /\ ApplyStore(d, [objects |-> s.store]) /\ Goto(d, "writeSeen")
  <2>1. store' = [store EXCEPT ![d] = IF s.store = {} THEN @ ELSE s.store] /\ UNCHANGED <<db, rev, edits>>
    BY <1>11 DEF ApplyStore
  <2>2. /\ store' \in [Devices -> SUBSET Objects] /\ (s.store = {} \/ store'[d] = s.store)
        /\ \A e \in Devices : e # d => db'[e] = db[e] /\ store'[e] = store[e]
    BY <1>5, <1>6, <2>1
  <2>3. VaultTypeOK'  BY <1>6, <2>1, <2>2 DEF VaultTypeOK
  <2>4. Parts' /\ UNCHANGED <<ctx, crashes>> /\ pc' = [pc EXCEPT ![d] = "writeSeen"]
    BY <1>7, <1>11, <2>3 DEF RecordPcs
  <2>5. QED  BY <1>1, <1>2, <1>3, <1>11, <2>1, <2>2, <2>4
<1>12. QED  BY <1>3, <1>8, <1>9, <1>10, <1>11 DEF Apply

(* RecordStep: the two upserts that end an operation.                      *)
LEMMA RecordStep ==
  ASSUME Parts, NEW d \in Devices, RecordState(d)
  PROVE  /\ Parts' /\ UNCHANGED <<targetVars, store, crashes>> /\ Wrote(d)
         /\ ChangeSet(db'[d]) = ChangeSet(db[d]) /\ db'[d].objects = db[d].objects
         /\ \/ /\ pc[d] = "writeSeen" /\ db'[d].seen = Target(ctx[d])
               /\ pc' = [pc EXCEPT ![d] = "writeApplied"] /\ UNCHANGED ctx
            \/ /\ pc[d] = "writeApplied" /\ db'[d].seen = db[d].seen /\ Enters(d, None, "idle")
<1>1. pc[d] \in RecordPcs /\ pc[d] # "idle" /\ UNCHANGED targetVars  BY DEF RecordState, RecordPcs
<1>2. /\ Target(ctx[d]) \in SnapshotIds /\ TargetManifest(ctx[d]) \in Manifests
  BY <1>1, FrameAt DEF Parts
<1>3. VaultTypeOK /\ db[d] \in Dbs  BY DEF Parts, VaultTypeOK
<1>4. CASE pc[d] = "writeSeen" /\ WriteSeen(d, Target(ctx[d])) /\ Goto(d, "writeApplied")
  <2>1. PICK b : b = [db[d] EXCEPT !.seen = Target(ctx[d])]  OBVIOUS
  <2>2. /\ b \in Dbs /\ b.seen = Target(ctx[d]) /\ b.objects = db[d].objects /\ b.overlays = db[d].overlays
    BY <1>2, <1>3, <2>1 DEF Dbs
  <2>3. PutDb(d, b) /\ UNCHANGED store  BY <1>4, <2>1 DEF WriteSeen
  <2>4. VaultTypeOK'  BY <1>2, <1>3, <1>4, WriteStateType
  <2>5. Control' /\ UNCHANGED <<ctx, ops, crashes>>  BY <1>1, <1>4, GotoStep DEF Parts, RecordPcs
  <2>6. Parts' /\ UNCHANGED <<ctx, crashes>>  BY <1>1, <2>4, <2>5, SameDirectory DEF Parts
  <2>7. Wrote(d) /\ db'[d].objects = b.objects /\ db'[d].overlays = b.overlays /\ db'[d].seen = b.seen
    BY <1>3, <2>2, <2>3, PutDbWrites
  <2>8. QED  BY <1>1, <1>4, <2>2, <2>3, <2>6, <2>7 DEF ChangeSet, Goto
<1>5. CASE pc[d] = "writeApplied" /\ WriteApplied(d, TargetManifest(ctx[d])) /\ Return(d)
  <2>1. PICK b : b = [db[d] EXCEPT !.applied = TargetManifest(ctx[d])]  OBVIOUS
  <2>2. /\ b \in Dbs /\ b.seen = db[d].seen /\ b.objects = db[d].objects /\ b.overlays = db[d].overlays
    BY <1>2, <1>3, <2>1 DEF Dbs
  <2>3. PutDb(d, b) /\ UNCHANGED store  BY <1>5, <2>1 DEF WriteApplied
  <2>4. VaultTypeOK'  BY <1>2, <1>3, <1>5, WriteStateType
  <2>5. Enters(d, None, "idle") /\ UNCHANGED <<ops, crashes>>  BY <1>5 DEF Return, Enters
  <2>6. Control'  BY <2>5, ReturnStep DEF Parts, Enters
  <2>7. Parts' /\ UNCHANGED crashes  BY <1>1, <2>4, <2>5, <2>6, SameDirectory DEF Parts
  <2>8. Wrote(d) /\ db'[d].objects = b.objects /\ db'[d].overlays = b.overlays /\ db'[d].seen = b.seen
    BY <1>3, <2>2, <2>3, PutDbWrites
  <2>9. QED  BY <1>1, <1>5, <2>2, <2>3, <2>5, <2>7, <2>8 DEF ChangeSet
<1>6. QED  BY <1>4, <1>5 DEF RecordState

(* FaultStep: a crash forgets the operation and nothing else.              *)
LEMMA FaultStep ==
  ASSUME Parts, NEW d \in Devices, Crash(d)
  PROVE  Parts' /\ UNCHANGED <<vaultVars, targetVars>> /\ Enters(d, None, "idle") /\ crashes' # 0
<1>1. UNCHANGED <<vaultVars, targetVars, ops>> /\ Enters(d, None, "idle") /\ crashes' = crashes + 1
  BY DEF Crash, Enters
<1>2. Control'  BY <1>1, ReturnStep DEF Parts, Enters
<1>3. crashes' \in Nat /\ crashes' # 0  BY <1>1 DEF Parts
<1>4. QED  BY <1>1, <1>2, <1>3, SameVault, SameDirectory DEF Parts

(* EditStep: an edit writes the vault of an idle replica.                  *)
LEMMA EditStep ==
  ASSUME Parts, NEW d \in Devices, Edit(d)
  PROVE  /\ Parts' /\ UNCHANGED <<targetVars, pc, ctx, crashes>> /\ Wrote(d) /\ pc[d] = "idle"
         /\ \A e \in Devices : e # d => store'[e] = store[e]
<1>1. UNCHANGED <<targetVars, pc, ctx, ops, crashes>> /\ pc[d] = "idle"  BY DEF Edit
<1>2. VaultTypeOK' /\ Wrote(d) /\ \A e \in Devices : e # d => store'[e] = store[e]
  BY EditType, EditWrites DEF Edit, Parts
<1>3. Control'  BY <1>1 DEF Parts, Control, FitsAt
<1>4. QED  BY <1>1, <1>2, <1>3, SameDirectory DEF Parts

-----------------------------------------------------------------------------
(* Revisions and directories.                                              *)

AnyStep(d) ==
  \/ \E now \in Times : PushStart(d, now) \/ \E m \in MergeModes : PullStart(d, now, m)
  \/ RemoveDir(d) \/ CreateDir(d) \/ CopyTree(d) \/ WriteHead(d)
  \/ PullPreview(d) \/ CheckDir(d) \/ Apply(d) \/ RecordState(d)
  \/ Crash(d) \/ Edit(d)

(* InHeld: where a database can be.                                        *)
LEMMA InHeld ==
  /\ \A x : x \in Held <=>
       \/ \E d \in Devices : x = db[d]
       \/ \E d \in Devices : Pushing(d) /\ x = ctx[d].bundle
       \/ \E i \in DOMAIN snaps : snaps[i].db # None /\ x = snaps[i].db
  /\ \A x : x \in Held' <=>
       \/ \E d \in Devices : x = db'[d]
       \/ \E d \in Devices : Pushing(d)' /\ x = ctx'[d].bundle
       \/ \E i \in DOMAIN snaps' : snaps'[i].db # None /\ x = snaps'[i].db
BY DEF Held

(* OnlyOne: no step of d touches the control state of another replica.     *)
LEMMA OnlyOne ==
  ASSUME Parts, NEW d \in Devices, NEW p, NEW c,
         \/ UNCHANGED <<pc, ctx>>
         \/ pc' = [pc EXCEPT ![d] = p] /\ UNCHANGED ctx
         \/ Enters(d, c, p)
  PROVE  /\ \A e \in Devices : e # d => pc'[e] = pc[e] /\ ctx'[e] = ctx[e]
         /\ \/ UNCHANGED <<pc, ctx>>
            \/ pc'[d] = p /\ (ctx'[d] = ctx[d] \/ ctx'[d] = c)
BY DEF Parts, Control, Enters

(* SameHeld: a step that writes no database leaves those that are around.  *)
LEMMA SameHeld ==
  ASSUME UNCHANGED db, NEW d \in Devices,
         \A e \in Devices : e # d => pc'[e] = pc[e] /\ ctx'[e] = ctx[e],
         Pushing(d)' => ctx'[d].bundle \in Held,
         \A i \in DOMAIN snaps' : snaps'[i].db # None => snaps'[i].db \in Held
  PROVE  Held' \subseteq Held
<1>1. SUFFICES ASSUME NEW x \in Held' PROVE x \in Held  OBVIOUS
<1>2. CASE \E e \in Devices : x = db'[e]  BY <1>2, InHeld
<1>3. ASSUME NEW e \in Devices, Pushing(e)', x = ctx'[e].bundle PROVE x \in Held
  <2>1. CASE e = d  BY <1>3, <2>1
  <2>2. CASE e # d
    <3>1. Pushing(e) /\ x = ctx[e].bundle  BY <1>3, <2>2 DEF Pushing
    <3>2. QED  BY <3>1, InHeld
  <2>3. QED  BY <2>1, <2>2
<1>4. CASE \E i \in DOMAIN snaps' : snaps'[i].db # None /\ x = snaps'[i].db  BY <1>4
<1>5. QED  BY <1>1, <1>2, <1>3, <1>4, InHeld

(* WroteHeld: a write adds one.                                            *)
LEMMA WroteHeld ==
  ASSUME NEW d \in Devices, \A e \in Devices : e # d => db'[e] = db[e], UNCHANGED snaps,
         \A e \in Devices : Pushing(e)' => Pushing(e) /\ ctx'[e] = ctx[e]
  PROVE  Held' \subseteq Held \cup {db'[d]}
<1>1. SUFFICES ASSUME NEW x \in Held' PROVE x \in Held \cup {db'[d]}  OBVIOUS
<1>2. ASSUME NEW e \in Devices, x = db'[e] PROVE x \in Held \cup {db'[d]}  BY <1>2, InHeld
<1>3. ASSUME NEW e \in Devices, Pushing(e)', x = ctx'[e].bundle PROVE x \in Held  BY <1>3, InHeld
<1>4. CASE \E i \in DOMAIN snaps' : snaps'[i].db # None /\ x = snaps'[i].db  BY <1>4, InHeld
<1>5. QED  BY <1>1, <1>2, <1>3, <1>4, InHeld

(* HeldStep: every step keeps the databases that are around, and may write *)
(* one with a new revision.                                                *)
LEMMA HeldStep ==
  ASSUME Parts, NEW d \in Devices, AnyStep(d)
  PROVE  /\ Parts'
         /\ \/ UNCHANGED rev /\ Held' \subseteq Held
            \/ Wrote(d) /\ UNCHANGED snaps /\ Held' \subseteq Held \cup {db'[d]}
<1> DEFINE Goal == /\ Parts'
                   /\ \/ UNCHANGED rev /\ Held' \subseteq Held
                      \/ Wrote(d) /\ UNCHANGED snaps /\ Held' \subseteq Held \cup {db'[d]}
<1>1. \A i \in DOMAIN snaps : snaps[i].db # None => snaps[i].db \in Held  BY InHeld
<1>2. ASSUME NEW now \in Times, PushStart(d, now) PROVE Goal
  <2>1. PICK c : /\ Parts' /\ UNCHANGED <<vaultVars, snaps>> /\ c.bundle = db[d] /\ pc[d] = "idle"
                 /\ UNCHANGED <<pc, ctx>> \/ Enters(d, c, "removeDir")
    BY <1>2, PushStarts
  <2>2. \A e \in Devices : e # d => pc'[e] = pc[e] /\ ctx'[e] = ctx[e]  BY <2>1, OnlyOne
  <2>3. Pushing(d)' => ctx'[d].bundle \in Held
    <3>1. CASE UNCHANGED <<pc, ctx>>  BY <2>1, <3>1 DEF Pushing
    <3>2. CASE Enters(d, c, "removeDir")
      <4>1. ctx'[d] = c  BY <3>2 DEF Enters, Parts, Control
      <4>2. QED  BY <2>1, <4>1, InHeld
    <3>3. QED  BY <2>1, <3>1, <3>2
  <2>4. QED  BY <1>1, <2>1, <2>2, <2>3, SameHeld DEF vaultVars
<1>3. ASSUME NEW now \in Times, NEW m \in MergeModes, PullStart(d, now, m) PROVE Goal
  <2>1. PICK c : /\ Parts' /\ UNCHANGED <<vaultVars, snaps>> /\ c.kind = "pull" /\ pc[d] = "idle"
                 /\ UNCHANGED <<pc, ctx>> \/ Enters(d, c, "checkDir") \/ Enters(d, c, "preview")
    BY <1>3, PullStarts
  <2>2. \A e \in Devices : e # d => pc'[e] = pc[e] /\ ctx'[e] = ctx[e]  BY <2>1, OnlyOne
  <2>3. ~ Pushing(d)'
    <3>1. CASE UNCHANGED <<pc, ctx>>  BY <2>1, <3>1 DEF Pushing
    <3>2. CASE Enters(d, c, "checkDir") \/ Enters(d, c, "preview")
      <4>1. ctx'[d] = c  BY <3>2 DEF Enters, Parts, Control
      <4>2. QED  BY <2>1, <4>1 DEF Pushing
    <3>3. QED  BY <2>1, <3>1, <3>2
  <2>4. QED  BY <1>1, <2>1, <2>2, <2>3, SameHeld DEF vaultVars
<1>4. CASE RemoveDir(d) \/ CreateDir(d) \/ CopyTree(d)
  <2>1. PICK i, b : /\ i = Target(ctx[d]) /\ b = ctx[d].bundle /\ Parts' /\ OnlyDir(i)
                    /\ UNCHANGED <<vaultVars, ctx>> /\ pc[d] \in DirPcs
                    /\ i \in DOMAIN snaps' => snaps'[i].db = b \/ snaps'[i].db = Dir(i).db
                    /\ \E p : pc' = [pc EXCEPT ![d] = p]
    BY <1>4, DirStep
  <2>2. pc[d] # "idle" /\ Pushing(d)  BY <2>1, FrameAt DEF DirPcs, Parts, Pushing
  <2>3. b \in Held  BY <2>1, <2>2, InHeld
  <2>4. Dir(i).db = None \/ Dir(i).db \in Held  BY <1>1 DEF Dir, EmptyDir
  <2>5. \A j \in DOMAIN snaps' : snaps'[j].db # None => snaps'[j].db \in Held
    BY <1>1, <2>1, <2>3, <2>4 DEF OnlyDir
  <2>6. \A e \in Devices : e # d => pc'[e] = pc[e] /\ ctx'[e] = ctx[e]  BY <2>1, OnlyOne
  <2>7. QED  BY <2>1, <2>3, <2>5, <2>6, SameHeld DEF vaultVars
<1>5. CASE WriteHead(d)
  <2>1. /\ Parts' /\ UNCHANGED <<vaultVars, snaps, ctx>> /\ pc[d] = "writeHead"
        /\ pc' = [pc EXCEPT ![d] = "writeSeen"]
    BY <1>5, HeadStep
  <2>2. \A e \in Devices : e # d => pc'[e] = pc[e] /\ ctx'[e] = ctx[e]  BY <2>1, OnlyOne
  <2>3. Pushing(d)' => ctx'[d].bundle \in Held  BY <2>1, InHeld DEF Pushing
  <2>4. QED  BY <1>1, <2>1, <2>2, <2>3, SameHeld DEF vaultVars
<1>6. ASSUME Enters(d, None, "idle"), UNCHANGED <<vaultVars, snaps>>, Parts' PROVE Goal
  <2>1. \A e \in Devices : e # d => pc'[e] = pc[e] /\ ctx'[e] = ctx[e]  BY <1>6, OnlyOne
  <2>2. ~ Pushing(d)'  BY <1>6 DEF Enters, Pushing, Parts, Control
  <2>3. QED  BY <1>1, <1>6, <2>1, <2>2, SameHeld DEF vaultVars
<1>7. CASE PullPreview(d) \/ CheckDir(d)
  <2>1. /\ Parts' /\ UNCHANGED <<vaultVars, targetVars>> /\ ctx[d].kind = "pull"
        /\ \/ Enters(d, None, "idle")
           \/ /\ UNCHANGED ctx /\ \E p : pc' = [pc EXCEPT ![d] = p]
    BY <1>7, ReadStep
  <2>2. CASE UNCHANGED ctx /\ \E p : pc' = [pc EXCEPT ![d] = p]
    <3>1. \A e \in Devices : e # d => pc'[e] = pc[e] /\ ctx'[e] = ctx[e]  BY <2>2, OnlyOne
    <3>2. ~ Pushing(d)'  BY <2>1, <2>2 DEF Pushing
    <3>3. QED  BY <1>1, <2>1, <3>1, <3>2, SameHeld DEF vaultVars, targetVars
  <2>3. QED  BY <1>6, <2>1, <2>2 DEF targetVars
<1>8. CASE Crash(d)  BY <1>6, <1>8, FaultStep DEF targetVars
<1>9. CASE Apply(d)
  <2>1. PICK s : /\ s = Dir(Target(ctx[d])) /\ Parts' /\ UNCHANGED <<targetVars, ctx>> /\ ctx[d].kind = "pull"
                 /\ \A e \in Devices : e # d => db'[e] = db[e]
                 /\ \E p : pc' = [pc EXCEPT ![d] = p]
                 /\ Wrote(d) \/ (UNCHANGED rev /\ (UNCHANGED db \/ (s.db # None /\ db'[d] = s.db)))
    BY <1>9, ApplyStep DEF vaultVars
  <2>2. \A e \in Devices : e # d => pc'[e] = pc[e] /\ ctx'[e] = ctx[e]  BY <2>1, OnlyOne
  <2>3. \A e \in Devices : Pushing(e)' => Pushing(e) /\ ctx'[e] = ctx[e]  BY <2>1, <2>2 DEF Pushing
  <2>4. Held' \subseteq Held \cup {db'[d]} /\ UNCHANGED snaps
    BY <2>1, <2>3, WroteHeld DEF targetVars
  <2>5. UNCHANGED db => db'[d] \in Held  BY InHeld
  <2>6. s.db # None => s.db \in Held  BY <1>1, <2>1 DEF Dir, EmptyDir
  <2>7. QED  BY <2>1, <2>4, <2>5, <2>6
<1>10. CASE RecordState(d)
  <2>1. /\ Parts' /\ UNCHANGED targetVars /\ Wrote(d)
        /\ Enters(d, None, "idle") \/ (UNCHANGED ctx /\ pc[d] = "writeSeen" /\ \E p : pc' = [pc EXCEPT ![d] = p])
    BY <1>10, RecordStep
  <2>2. \A e \in Devices : e # d => pc'[e] = pc[e] /\ ctx'[e] = ctx[e]  BY <2>1, OnlyOne
  <2>3. Pushing(d)' => Pushing(d) /\ ctx'[d] = ctx[d]
    <3>1. CASE Enters(d, None, "idle")  BY <3>1 DEF Enters, Pushing, Parts, Control
    <3>2. CASE UNCHANGED ctx /\ pc[d] = "writeSeen"  BY <3>2 DEF Pushing
    <3>3. QED  BY <2>1, <3>1, <3>2
  <2>4. \A e \in Devices : Pushing(e)' => Pushing(e) /\ ctx'[e] = ctx[e]  BY <2>2, <2>3 DEF Pushing
  <2>5. QED  BY <2>1, <2>4, WroteHeld DEF targetVars, Wrote
<1>11. CASE Edit(d)
  <2>1. Parts' /\ UNCHANGED <<targetVars, pc, ctx>> /\ Wrote(d)  BY <1>11, EditStep
  <2>2. \A e \in Devices : Pushing(e)' => Pushing(e) /\ ctx'[e] = ctx[e]  BY <2>1 DEF Pushing
  <2>3. QED  BY <2>1, <2>2, WroteHeld DEF targetVars, Wrote
<1>12. QED  BY <1>2, <1>3, <1>4, <1>5, <1>7, <1>8, <1>9, <1>10, <1>11 DEF AnyStep

(* OneDir: a step leaves every directory as it is but the one of its push. *)
LEMMA OneDir ==
  ASSUME Parts, NEW d \in Devices, AnyStep(d)
  PROVE  \/ UNCHANGED snaps
         \/ RemoveDir(d) \/ CreateDir(d) \/ CopyTree(d)
BY DEF AnyStep, PushStart, PullStart, Begin, WriteHead, PullPreview, CheckDir, Apply, RecordState,
   Crash, Edit, targetVars

(* DirsStep: revisions keep naming databases, and directories keep what    *)
(* their ids name.                                                         *)
LEMMA DirsStep ==
  ASSUME Parts, RevisionsName(Held), DirsFit, NEW d \in Devices, AnyStep(d)
  PROVE  RevisionsName(Held)' /\ DirsFit'
<1>1. rev \in Nat /\ Directory  BY DEF Parts, VaultTypeOK
<1>2. /\ \/ UNCHANGED rev /\ Held' \subseteq Held
         \/ Wrote(d) /\ UNCHANGED snaps /\ Held' \subseteq Held \cup {db'[d]}
  BY HeldStep
<1>3. RevisionsName(Held)'
  <2>1. CASE UNCHANGED rev /\ Held' \subseteq Held  BY <2>1 DEF RevisionsName
  <2>2. CASE Wrote(d) /\ Held' \subseteq Held \cup {db'[d]}
    <3>1. PICK held, after, b : held = Held /\ after = Held' /\ b = db'[d]  OBVIOUS
    <3>2. /\ \A x \in after : x.rev \in Nat /\ x.rev <= rev'
          /\ \A x, y \in after : x.rev = y.rev => x = y
      <4>1. RevisionsName(held) /\ after \subseteq held \cup {b} /\ b.rev = rev + 1 /\ rev' = rev + 1
        BY <2>2, <3>1 DEF Wrote
      <4>2. QED  BY <1>1, <4>1, NewRevision
    <3>3. QED  BY <3>1, <3>2 DEF RevisionsName
  <2>3. QED  BY <1>2, <2>1, <2>2
<1>4. \A i \in DOMAIN snaps : i.manifest.rev \in Nat
  BY <1>1 DEF Directory, SnapshotIds, Manifests
<1>5. CASE UNCHANGED snaps
  <2>1. SUFFICES ASSUME NEW i \in DOMAIN snaps
                 PROVE  /\ i.manifest.rev <= rev'
                        /\ snaps[i].db # None => snaps[i].db.rev = i.manifest.rev
                        /\ \A b \in Held' : b.rev = i.manifest.rev => snaps[i].store \subseteq b.objects
    BY <1>3, <1>5 DEF DirsFit
  <2>2. /\ i.manifest.rev <= rev /\ i.manifest.rev \in Nat
        /\ snaps[i].db # None => snaps[i].db.rev = i.manifest.rev
        /\ \A b \in Held : b.rev = i.manifest.rev => snaps[i].store \subseteq b.objects
    BY <1>4 DEF DirsFit
  <2>3. CASE UNCHANGED rev /\ Held' \subseteq Held  BY <2>2, <2>3
  <2>4. CASE Wrote(d) /\ Held' \subseteq Held \cup {db'[d]}
    <3>1. db'[d].rev = rev + 1 /\ rev' = rev + 1  BY <2>4 DEF Wrote
    <3>2. db'[d].rev # i.manifest.rev /\ i.manifest.rev <= rev'  BY <1>1, <2>2, <3>1
    <3>3. QED  BY <2>2, <2>4, <3>2
  <2>5. QED  BY <1>2, <2>3, <2>4
<1>6. CASE (RemoveDir(d) \/ CreateDir(d) \/ CopyTree(d)) /\ ~ UNCHANGED snaps
  <2>1. UNCHANGED rev /\ Held' \subseteq Held  BY <1>2, <1>6
  <2>2. PICK i, c : /\ i = Target(ctx[d]) /\ c = ctx[d] /\ OnlyDir(i) /\ pc[d] \in DirPcs
                    /\ i \in DOMAIN snaps' =>
                         \/ snaps'[i].db = Dir(i).db /\ snaps'[i].store = Dir(i).store
                         \/ snaps'[i].db = c.bundle /\ snaps'[i].store = Dir(i).store
                         \/ snaps'[i].db = Dir(i).db /\ snaps'[i].store = c.bundle.objects
    BY <1>6, DirStep
  <2>3. pc[d] # "idle"  BY <2>2 DEF DirPcs
  <2>4. c.kind = "push" /\ i.manifest = c.manifest /\ c.bundle.rev = c.manifest.rev /\ c.bundle \in Dbs
    BY <2>2, <2>3, FrameAt DEF Parts, FitsAt
  <2>5. c.bundle \in Held  BY <2>2, <2>3, <2>4, InHeld DEF Pushing
  <2>6. i.manifest.rev = c.bundle.rev /\ c.bundle.rev <= rev /\ \A b \in Held : b.rev = c.bundle.rev => b = c.bundle
    BY <2>4, <2>5 DEF RevisionsName
  <2>7. /\ Dir(i).db # None => Dir(i).db.rev = i.manifest.rev
        /\ \A b \in Held : b.rev = i.manifest.rev => Dir(i).store \subseteq b.objects
    BY DEF DirsFit, Dir, EmptyDir
  <2>8. SUFFICES ASSUME NEW j \in DOMAIN snaps'
                 PROVE  /\ j.manifest.rev <= rev
                        /\ snaps'[j].db # None => snaps'[j].db.rev = j.manifest.rev
                        /\ \A b \in Held : b.rev = j.manifest.rev => snaps'[j].store \subseteq b.objects
    BY <1>3, <2>1 DEF DirsFit
  <2>9. CASE j # i
    <3>1. j \in DOMAIN snaps /\ snaps'[j] = snaps[j]  BY <2>2, <2>9 DEF OnlyDir
    <3>2. QED  BY <3>1 DEF DirsFit
  <2>10. CASE j = i  BY <2>2, <2>6, <2>7, <2>10
  <2>11. QED  BY <2>9, <2>10
<1>7. QED  BY <1>3, <1>5, <1>6, OneDir

(* StutterKeeps: nothing happens in a stuttering step.                     *)
LEMMA StutterKeeps ==
  ASSUME FsInv, UNCHANGED vars
  PROVE  FsInv'
<1>1. UNCHANGED <<db, store, rev, edits, head, snaps, conflicts, pc, ctx, ops, crashes>>
  BY DEF vars, vaultVars, targetVars
<1>2. TypeOK'  BY <1>1 DEF FsInv, TypeOK, VaultTypeOK
<1>3. FramesFit'  BY <1>1 DEF FsInv, FramesFit, Pushing, Pulling
<1>4. Held' = Held  BY <1>1 DEF Held, Pushing
<1>5. RevisionsName(Held)' /\ DirsFit'  BY <1>1, <1>4 DEF FsInv, RevisionsName, DirsFit
<1>6. QED  BY <1>2, <1>3, <1>5 DEF FsInv

(* FsInitially: the invariant holds at first.                              *)
LEMMA FsInitially == Init => FsInv
<1> SUFFICES ASSUME Init PROVE FsInv  OBVIOUS
<1>1. TypeOK
  <2>1. \A r \in Nat : EmptyDb(r) \in Dbs  BY DEF EmptyDb, Dbs
  <2>2. VaultTypeOK  BY <2>1 DEF Init, VaultInit, VaultTypeOK
  <2>3. QED  BY <2>2 DEF Init, TypeOK, Pcs
<1>2. FramesFit  BY DEF Init, FramesFit, Pushing, Pulling
<1>3. \A b \in Held : b = EmptyDb(0)  BY InHeld DEF Init, VaultInit, Pushing
<1>4. EmptyDb(0).rev = 0 /\ rev = 0  BY DEF EmptyDb, Init, VaultInit
<1>5. RevisionsName(Held)  BY <1>3, <1>4 DEF RevisionsName
<1>6. DirsFit  BY DEF Init, DirsFit
<1>7. QED  BY <1>1, <1>2, <1>5, <1>6 DEF FsInv

(* FsInductive: every step keeps it.                                       *)
LEMMA FsInductive == FsInv /\ [Next]_vars => FsInv'
<1> SUFFICES ASSUME FsInv, [Next]_vars PROVE FsInv'  OBVIOUS
<1>1. CASE UNCHANGED vars  BY <1>1, StutterKeeps
<1>2. ASSUME NEW d \in Devices, AnyStep(d) PROVE FsInv'
  <2>1. Parts  BY Typed DEF FsInv, Parts
  <2>2. TypeOK' /\ FramesFit'
    <3>1. Parts'  BY <1>2, <2>1, HeldStep
    <3>2. QED  BY <3>1, TypedNext DEF Parts
  <2>3. RevisionsName(Held)' /\ DirsFit'  BY <1>2, <2>1, DirsStep DEF FsInv
  <2>4. QED  BY <2>2, <2>3 DEF FsInv
<1>3. QED  BY <1>1, <1>2 DEF Next, AnyStep

(* FsInvariance: so it holds in every reachable state.                     *)
LEMMA FsInvariance == Spec => []FsInv
BY FsInitially, FsInductive, PTL DEF Spec

-----------------------------------------------------------------------------
(* Complete directories, when no two replicas have the same vault_id.      *)

(* Apart: nobody else works on the directory of a push.                    *)
LEMMA Apart ==
  ASSUME DistinctVaults, Parts, NEW d \in Devices, NEW e \in Devices, d # e,
         pc[d] # "idle", ctx[d].kind = "push", pc[e] # "idle", ctx[e].kind = "push"
  PROVE  Target(ctx[d]) # Target(ctx[e])
<1>1. Target(ctx[d]).manifest.vault = VaultIdOf[d] /\ Target(ctx[e]).manifest.vault = VaultIdOf[e]
  BY FrameAt DEF Parts, FitsAt
<1>2. QED  BY <1>1 DEF DistinctVaults

(* MovesOne: a step moves one replica.                                     *)
LEMMA MovesOne ==
  ASSUME Parts, NEW d \in Devices, AnyStep(d)
  PROVE  /\ \A e \in Devices : e # d => /\ pc'[e] = pc[e] /\ ctx'[e] = ctx[e]
                                        /\ db'[e] = db[e] /\ store'[e] = store[e]
         /\ Parts'
<1> DEFINE Goal == \A e \in Devices : e # d => /\ pc'[e] = pc[e] /\ ctx'[e] = ctx[e]
                                              /\ db'[e] = db[e] /\ store'[e] = store[e]
<1>1. ASSUME UNCHANGED vaultVars, NEW p, NEW c,
             \/ UNCHANGED <<pc, ctx>> 
             \/ pc' = [pc EXCEPT ![d] = p] /\ UNCHANGED ctx
             \/ Enters(d, c, p)
      PROVE  Goal
  BY <1>1, OnlyOne DEF vaultVars
<1>2. ASSUME NEW now \in Times, PushStart(d, now) PROVE Goal
  <2>1. PICK c : UNCHANGED vaultVars /\ (UNCHANGED <<pc, ctx>> \/ Enters(d, c, "removeDir"))
    BY <1>2, PushStarts
  <2>2. QED  BY <1>1, <2>1
<1>3. ASSUME NEW now \in Times, NEW m \in MergeModes, PullStart(d, now, m) PROVE Goal
  <2>1. PICK c : UNCHANGED vaultVars /\ (UNCHANGED <<pc, ctx>> \/ Enters(d, c, "checkDir") \/ Enters(d, c, "preview"))
    BY <1>3, PullStarts
  <2>2. QED  BY <1>1, <2>1
<1>4. CASE RemoveDir(d) \/ CreateDir(d) \/ CopyTree(d)
  <2>1. UNCHANGED <<vaultVars, ctx>> /\ \E p : pc' = [pc EXCEPT ![d] = p]  BY <1>4, DirStep
  <2>2. Goal  BY <1>1, <2>1
  <2>3. QED  BY <2>2, HeldStep
<1>5. CASE WriteHead(d)
  <2>1. UNCHANGED <<vaultVars, ctx>> /\ \E p : pc' = [pc EXCEPT ![d] = p]  BY <1>5, HeadStep
  <2>2. Goal  BY <1>1, <2>1
  <2>3. QED  BY <2>2, HeldStep
<1>6. CASE PullPreview(d) \/ CheckDir(d)
  <2>1. UNCHANGED vaultVars /\ (Enters(d, None, "idle") \/ (UNCHANGED ctx /\ \E p : pc' = [pc EXCEPT ![d] = p]))
    BY <1>6, ReadStep
  <2>2. Goal  BY <1>1, <2>1
  <2>3. QED  BY <2>2, HeldStep
<1>7. CASE Crash(d)
  <2>1. UNCHANGED vaultVars /\ Enters(d, None, "idle")  BY <1>7, FaultStep
  <2>2. Goal  BY <1>1, <2>1
  <2>3. QED  BY <2>2, HeldStep
<1>8. CASE Apply(d)
  <2>1. /\ UNCHANGED ctx /\ \E p : pc' = [pc EXCEPT ![d] = p]
        /\ \A e \in Devices : e # d => db'[e] = db[e] /\ store'[e] = store[e]
    BY <1>8, ApplyStep
  <2>2. \A e \in Devices : e # d => pc'[e] = pc[e] /\ ctx'[e] = ctx[e]  BY <2>1, OnlyOne
  <2>3. QED  BY <2>1, <2>2, HeldStep
<1>9. CASE RecordState(d)
  <2>1. /\ UNCHANGED store /\ Wrote(d)
        /\ Enters(d, None, "idle") \/ (UNCHANGED ctx /\ \E p : pc' = [pc EXCEPT ![d] = p])
    BY <1>9, RecordStep
  <2>2. \A e \in Devices : e # d => pc'[e] = pc[e] /\ ctx'[e] = ctx[e]  BY <2>1, OnlyOne
  <2>3. QED  BY <2>1, <2>2, HeldStep DEF Wrote
<1>10. CASE Edit(d)
  <2>1. /\ UNCHANGED <<pc, ctx>> /\ Wrote(d) /\ \A e \in Devices : e # d => store'[e] = store[e]
    BY <1>10, EditStep
  <2>2. QED  BY <2>1, HeldStep DEF Wrote
<1>11. QED  BY <1>2, <1>3, <1>4, <1>5, <1>6, <1>7, <1>8, <1>9, <1>10, HeldStep DEF AnyStep

(* OthersKeep: a directory that is not the target of a push's step stays.  *)
LEMMA OthersKeep ==
  ASSUME Parts, NEW d \in Devices, AnyStep(d), NEW i \in DOMAIN snaps,
         pc[d] \in DirPcs => Target(ctx[d]) # i
  PROVE  i \in DOMAIN snaps' /\ snaps'[i] = snaps[i]
<1>1. CASE UNCHANGED snaps  BY <1>1
<1>2. CASE RemoveDir(d) \/ CreateDir(d) \/ CopyTree(d)
  <2>1. OnlyDir(Target(ctx[d])) /\ pc[d] \in DirPcs  BY <1>2, DirStep
  <2>2. QED  BY <2>1 DEF OnlyDir
<1>3. QED  BY <1>1, <1>2, OneDir

(* FilledStep: a push finds its directory as it left it.                   *)
LEMMA FilledStep ==
  ASSUME DistinctVaults, Parts, Filled, NEW d \in Devices, AnyStep(d)
  PROVE  Filled'
<1> SUFFICES ASSUME NEW e \in Devices, pc'[e] \in {"copyStore", "writeHead"}
             PROVE  LET i == Target(ctx'[e])
                    IN /\ i \in DOMAIN snaps' /\ snaps'[i].db = ctx'[e].bundle
                       /\ pc'[e] = "writeHead" => Complete(snaps'[i])
  BY DEF Filled, Target, Complete, SnapshotIdForManifest
<1>1. CASE e # d
  <2>1. pc'[e] = pc[e] /\ ctx'[e] = ctx[e]  BY <1>1, MovesOne
  <2>2. PICK i : i = Target(ctx[e])  OBVIOUS
  <2>3. /\ i \in DOMAIN snaps /\ snaps[i].db = ctx[e].bundle
        /\ pc[e] = "writeHead" => Complete(snaps[i])
    BY <2>1, <2>2 DEF Filled
  <2>4. pc[e] \in DirPcs /\ pc[e] # "idle"  BY <2>1 DEF DirPcs
  <2>5. pc[d] \in DirPcs => Target(ctx[d]) # i
    <3>1. SUFFICES ASSUME pc[d] \in DirPcs PROVE Target(ctx[d]) # i  OBVIOUS
    <3>2. pc[d] # "idle" /\ ctx[d].kind = "push" /\ ctx[e].kind = "push"
      BY <2>4, <3>1, FrameAt DEF DirPcs, Parts
    <3>3. QED  BY <1>1, <2>2, <2>4, <3>2, Apart
  <2>6. i \in DOMAIN snaps' /\ snaps'[i] = snaps[i]  BY <2>3, <2>5, OthersKeep
  <2>7. QED  BY <2>1, <2>2, <2>3, <2>6
<1>2. CASE e = d
  <2>1. CopyTree(d)
    BY <1>2 DEF AnyStep, PushStart, PullStart, Begin, RemoveDir, CreateDir, WriteHead, PullPreview,
       CheckDir, Apply, RecordState, Crash, Edit, Goto, Return, Parts, Control
  <2>2. PICK i, c : /\ i = Target(ctx[d]) /\ c = ctx[d] /\ UNCHANGED ctx /\ pc[d] \in DirPcs
                    /\ \/ i \notin DOMAIN snaps' /\ pc' = [pc EXCEPT ![d] = "createDir"]
                       \/ /\ i \in DOMAIN snaps' /\ snaps'[i] = Dir(i) /\ pc' = [pc EXCEPT ![d] = "copyDb"]
                       \/ /\ i \in DOMAIN snaps' /\ snaps'[i].db = c.bundle /\ snaps'[i].store = Dir(i).store
                          /\ pc' = [pc EXCEPT ![d] = "copyStore"]
                       \/ /\ i \in DOMAIN snaps' /\ snaps'[i].db = Dir(i).db /\ snaps'[i].store = c.bundle.objects
                          /\ pc[d] = "copyStore" /\ pc' = [pc EXCEPT ![d] = "writeHead"]
    BY <2>1, DirStep
  <2>3. pc[d] # "idle" /\ c.bundle \in Dbs  BY <2>2, FrameAt DEF DirPcs, Parts
  <2>4. pc \in [Devices -> Pcs]  BY DEF Parts, Control
  <2>5. CASE pc'[d] = "copyStore"
    BY <1>2, <2>2, <2>4, <2>5
  <2>6. CASE pc'[d] = "writeHead"
    <3>1. /\ i \in DOMAIN snaps' /\ snaps'[i].db = Dir(i).db /\ snaps'[i].store = c.bundle.objects
          /\ pc[d] = "copyStore"
      BY <2>2, <2>4, <2>6
    <3>2. i \in DOMAIN snaps /\ snaps[i].db = c.bundle  BY <2>2, <3>1 DEF Filled
    <3>3. snaps'[i].db = c.bundle /\ c.bundle # None  BY <2>3, <3>1, <3>2, NoneAssumption DEF Dir
    <3>4. QED  BY <1>2, <2>2, <3>1, <3>3 DEF Complete
  <2>7. QED  BY <1>2, <2>5, <2>6
<1>3. QED  BY <1>1, <1>2

(* PublishedStep: only the head that a push writes is new.                 *)
LEMMA PublishedStep ==
  ASSUME Parts, NEW d \in Devices, AnyStep(d), NEW i \in Published'
  PROVE  i \in Published \/ (WriteHead(d) /\ i = Target(ctx[d]))
<1>1. /\ \A x : x \in Published <=> (head # None /\ x = head.id)
                                    \/ \E e \in Devices : Pulling(e) /\ x = ctx[e].head.id
      /\ \A x : x \in Published' <=> (head' # None /\ x = head'.id)
                                     \/ \E e \in Devices : Pulling(e)' /\ x = ctx'[e].head.id
  BY DEF Published
<1>2. CASE head' # None /\ i = head'.id
  <2>1. CASE head' = head  BY <1>1, <1>2, <2>1
  <2>2. CASE head' # head
    <3>1. WriteHead(d)
      BY <2>2 DEF AnyStep, PushStart, PullStart, Begin, RemoveDir, CreateDir, CopyTree, PullPreview,
         CheckDir, Apply, RecordState, Crash, Edit, targetVars
    <3>2. QED  BY <1>2, <3>1, HeadStep
  <2>3. QED  BY <2>1, <2>2
<1>3. ASSUME NEW e \in Devices, Pulling(e)', i = ctx'[e].head.id PROVE i \in Published
  <2>1. CASE e # d
    <3>1. Pulling(e) /\ ctx'[e] = ctx[e]  BY <1>3, <2>1, MovesOne DEF Pulling
    <3>2. QED  BY <1>1, <1>3, <3>1
  <2>2. CASE e = d /\ Pulling(d) /\ ctx'[d] = ctx[d]  BY <1>1, <1>3, <2>2
  <2>3. CASE e = d /\ ~ (Pulling(d) /\ ctx'[d] = ctx[d])
    <3>1. ASSUME NEW now \in Times, PushStart(d, now) PROVE FALSE
      <4>1. PICK c : c.kind = "push" /\ pc[d] = "idle" /\ (UNCHANGED <<pc, ctx>> \/ Enters(d, c, "removeDir"))
        BY <3>1, PushStarts
      <4>2. QED  BY <1>3, <2>3, <4>1 DEF Pulling, Enters, Parts, Control
    <3>2. ASSUME NEW now \in Times, NEW m \in MergeModes, PullStart(d, now, m) PROVE i \in Published
      <4>1. PICK c : /\ c.head = head /\ head # None /\ pc[d] = "idle"
                     /\ UNCHANGED <<pc, ctx>> \/ Enters(d, c, "checkDir") \/ Enters(d, c, "preview")
        BY <3>2, PullStarts
      <4>2. ctx'[d] = c  BY <1>3, <2>3, <4>1 DEF Pulling, Enters, Parts, Control
      <4>3. QED  BY <1>1, <1>3, <2>3, <4>1, <4>2
    <3>3. ASSUME pc[d] # "idle", ctx' = ctx PROVE FALSE  BY <1>3, <2>3, <3>3 DEF Pulling
    <3>4. ASSUME pc'[d] = "idle" PROVE FALSE  BY <1>3, <2>3, <3>4 DEF Pulling
    <3>5. CASE RemoveDir(d) \/ CreateDir(d) \/ CopyTree(d) \/ WriteHead(d) \/ Apply(d)
      BY <3>3, <3>5 DEF RemoveDir, CreateDir, CopyTree, WriteHead, Apply, Goto
    <3>6. CASE PullPreview(d) \/ CheckDir(d) \/ RecordState(d) \/ Crash(d) \/ Edit(d)
      BY <3>3, <3>4, <3>6 DEF PullPreview, CheckDir, RecordState, Crash, Edit, Goto, Return, Parts, Control
    <3>7. QED  BY <3>1, <3>2, <3>5, <3>6 DEF AnyStep
  <2>4. QED  BY <2>1, <2>2, <2>3
<1>4. QED  BY <1>1, <1>2, <1>3

(* OwnStep: what a step does to its own replica's revision.                *)
LEMMA OwnStep ==
  ASSUME Parts, NEW d \in Devices, AnyStep(d)
  PROVE  /\ pc'[d] \in DirPcs => \/ pc[d] \in DirPcs /\ ctx'[d] = ctx[d]
                                 \/ pc[d] = "idle" /\ ctx'[d].manifest.rev = db[d].rev
         /\ \/ Wrote(d) \/ pc'[d] \in {"applyStore", "writeSeen"} \/ Crash(d)
            \/ db'[d] = db[d] /\ pc[d] \notin {"applyStore", "writeSeen"}
<1> DEFINE Dirs == pc'[d] \in DirPcs => \/ pc[d] \in DirPcs /\ ctx'[d] = ctx[d]
                                        \/ pc[d] = "idle" /\ ctx'[d].manifest.rev = db[d].rev
           Revs == \/ Wrote(d) \/ pc'[d] \in {"applyStore", "writeSeen"} \/ Crash(d)
                   \/ db'[d] = db[d] /\ pc[d] \notin {"applyStore", "writeSeen"}
<1>1. pc \in [Devices -> Pcs] /\ ctx \in [Devices -> Frames \cup {None}]  BY DEF Parts, Control
<1>2. ASSUME NEW p, NEW c, Enters(d, c, p) PROVE pc'[d] = p /\ ctx'[d] = c  BY <1>1, <1>2 DEF Enters
<1>3. ASSUME NEW p, pc' = [pc EXCEPT ![d] = p] PROVE pc'[d] = p  BY <1>1, <1>3
<1>4. ASSUME NEW now \in Times, PushStart(d, now) PROVE Dirs /\ Revs
  <2>1. PICK c : /\ UNCHANGED vaultVars /\ pc[d] = "idle" /\ c.manifest.rev = db[d].rev
                 /\ UNCHANGED <<pc, ctx>> \/ Enters(d, c, "removeDir")
    BY <1>4, PushStarts
  <2>2. CASE UNCHANGED <<pc, ctx>>  BY <2>1, <2>2 DEF vaultVars, DirPcs
  <2>3. CASE Enters(d, c, "removeDir")  BY <1>2, <2>1, <2>3 DEF vaultVars
  <2>4. QED  BY <2>1, <2>2, <2>3
<1>5. ASSUME NEW now \in Times, NEW m \in MergeModes, PullStart(d, now, m) PROVE Dirs /\ Revs
  <2>1. PICK c : /\ UNCHANGED vaultVars /\ pc[d] = "idle"
                 /\ UNCHANGED <<pc, ctx>> \/ Enters(d, c, "checkDir") \/ Enters(d, c, "preview")
    BY <1>5, PullStarts
  <2>2. pc'[d] \notin DirPcs  BY <1>2, <2>1 DEF DirPcs
  <2>3. QED  BY <2>1, <2>2 DEF vaultVars
<1>6. CASE RemoveDir(d) \/ CreateDir(d) \/ CopyTree(d)
  <2>1. UNCHANGED <<vaultVars, ctx>> /\ pc[d] \in DirPcs  BY <1>6, DirStep
  <2>2. QED  BY <2>1 DEF vaultVars, DirPcs
<1>7. CASE WriteHead(d)
  <2>1. pc' = [pc EXCEPT ![d] = "writeSeen"]  BY <1>7, HeadStep
  <2>2. QED  BY <1>3, <2>1 DEF DirPcs
<1>8. CASE PullPreview(d) \/ CheckDir(d)
  <2>1. /\ UNCHANGED vaultVars /\ pc[d] \in {"preview", "checkDir"}
        /\ Enters(d, None, "idle") \/ pc' = [pc EXCEPT ![d] = "checkDir"] \/ pc' = [pc EXCEPT ![d] = "applyRemoveDb"]
    BY <1>8, ReadStep
  <2>2. pc'[d] \in {"idle", "checkDir", "applyRemoveDb"}  BY <1>2, <1>3, <2>1
  <2>3. QED  BY <2>1, <2>2 DEF vaultVars, DirPcs
<1>9. CASE Apply(d)
  <2>1. \/ pc' = [pc EXCEPT ![d] = "applyStore"] \/ pc' = [pc EXCEPT ![d] = "writeSeen"]
        \/ Wrote(d) /\ pc' = [pc EXCEPT ![d] = "applyCopyDb"]
    BY <1>9, ApplyStep
  <2>2. QED  BY <1>3, <2>1 DEF DirPcs
<1>10. CASE RecordState(d)
  <2>1. Wrote(d) /\ (pc' = [pc EXCEPT ![d] = "writeApplied"] \/ Enters(d, None, "idle"))
    BY <1>10, RecordStep
  <2>2. pc'[d] \in {"writeApplied", "idle"}  BY <1>2, <1>3, <2>1
  <2>3. QED  BY <2>1, <2>2 DEF DirPcs
<1>11. CASE Crash(d)
  <2>1. Enters(d, None, "idle")  BY <1>11, FaultStep
  <2>2. QED  BY <1>2, <1>11, <2>1 DEF DirPcs
<1>12. CASE Edit(d)
  <2>1. Wrote(d) /\ UNCHANGED pc /\ pc[d] = "idle"  BY <1>12, EditStep
  <2>2. QED  BY <2>1 DEF DirPcs
<1>13. QED  BY <1>4, <1>5, <1>6, <1>7, <1>8, <1>9, <1>10, <1>11, <1>12 DEF AnyStep

(* Untouched: no push works on a published directory.                      *)
LEMMA Untouched ==
  ASSUME Parts, Kept, NEW d \in Devices, AnyStep(d), NEW i \in Published
  PROVE  i \in DOMAIN snaps /\ i \in DOMAIN snaps' /\ snaps'[i] = snaps[i]
<1>1. i \in DOMAIN snaps  BY DEF Kept
<1>2. pc[d] \in DirPcs => Target(ctx[d]) # i
  <2>1. SUFFICES ASSUME pc[d] \in DirPcs, Target(ctx[d]) = i PROVE FALSE  OBVIOUS
  <2>2. pc[d] # "idle"  BY <2>1 DEF DirPcs
  <2>3. i.manifest = ctx[d].manifest /\ ctx[d].manifest \in Manifests /\ ctx[d].manifest.vault = VaultIdOf[d]
    BY <2>1, <2>2, FrameAt DEF Parts, FitsAt
  <2>4. ctx[d].manifest.rev > i.manifest.rev /\ i.manifest.rev \in Nat  BY <2>1, <2>3 DEF Kept, Manifests
  <2>5. QED  BY <2>3, <2>4
<1>3. QED  BY <1>1, <1>2, OthersKeep

(* KeptStep: published directories stay complete while nobody crashes.     *)
LEMMA KeptStep ==
  ASSUME DistinctVaults, Parts, DirsFit, Filled, Kept, NEW d \in Devices, AnyStep(d), ~ Crash(d)
  PROVE  Kept'
<1>1. rev \in Nat /\ \A i \in DOMAIN snaps : i.manifest.rev \in Nat /\ i.manifest.rev <= rev
  BY DEF Parts, VaultTypeOK, Directory, SnapshotIds, Manifests, DirsFit
<1>2. SUFFICES ASSUME NEW i \in Published'
               PROVE  /\ i \in DOMAIN snaps' /\ Complete(snaps'[i])
                      /\ \A e \in Devices :
                           VaultIdOf[e] = i.manifest.vault =>
                             /\ pc'[e] \in DirPcs => ctx'[e].manifest.rev > i.manifest.rev
                             /\ pc'[e] \in {"applyStore", "writeSeen"} \/ db'[e].rev > i.manifest.rev
  BY DEF Kept, Complete
<1>3. CASE i \in Published
  <2>1. i \in DOMAIN snaps /\ i \in DOMAIN snaps' /\ snaps'[i] = snaps[i]  BY <1>3, Untouched
  <2>2. Complete(snaps'[i])  BY <1>3, <2>1 DEF Kept
  <2>3. ASSUME NEW e \in Devices, VaultIdOf[e] = i.manifest.vault
        PROVE  /\ pc'[e] \in DirPcs => ctx'[e].manifest.rev > i.manifest.rev
               /\ pc'[e] \in {"applyStore", "writeSeen"} \/ db'[e].rev > i.manifest.rev
    <3>1. /\ pc[e] \in DirPcs => ctx[e].manifest.rev > i.manifest.rev
          /\ pc[e] \in {"applyStore", "writeSeen"} \/ db[e].rev > i.manifest.rev
      BY <1>3, <2>3 DEF Kept
    <3>2. CASE e # d  BY <3>1, <3>2, MovesOne
    <3>3. CASE e = d
      <4>1. pc'[d] \in DirPcs => ctx'[d].manifest.rev > i.manifest.rev
        BY <3>1, <3>3, OwnStep
      <4>2. Wrote(d) => db'[d].rev > i.manifest.rev  BY <1>1, <2>1 DEF Wrote
      <4>3. QED  BY <3>1, <3>3, <4>1, <4>2, OwnStep
    <3>4. QED  BY <3>2, <3>3
  <2>4. QED  BY <2>1, <2>2, <2>3
<1>4. CASE WriteHead(d) /\ i = Target(ctx[d])
  <2>1. /\ UNCHANGED <<vaultVars, snaps, ctx>> /\ pc[d] = "writeHead"
        /\ pc' = [pc EXCEPT ![d] = "writeSeen"]
    BY <1>4, HeadStep
  <2>2. i \in DOMAIN snaps' /\ Complete(snaps'[i])  BY <1>4, <2>1 DEF Filled
  <2>3. i.manifest.vault = VaultIdOf[d]  BY <1>4, <2>1, FrameAt DEF Parts, FitsAt, DirPcs
  <2>4. pc'[d] = "writeSeen"  BY <2>1 DEF Parts, Control
  <2>5. \A e \in Devices : VaultIdOf[e] = i.manifest.vault => e = d  BY <2>3 DEF DistinctVaults
  <2>6. "writeSeen" \notin DirPcs  BY DEF DirPcs
  <2>7. QED  BY <2>2, <2>4, <2>5, <2>6
<1>5. QED  BY <1>3, <1>4, PublishedStep

(* InstalledStep: a pull installs what the head named when it was read.    *)
LEMMA InstalledStep ==
  ASSUME Parts, Kept, Installed, NEW d \in Devices, AnyStep(d), ~ Crash(d)
  PROVE  Installed'
<1>1. SUFFICES ASSUME NEW e \in Devices, Pulling(e)'
               PROVE  LET s == snaps'[ctx'[e].head.id]
                      IN /\ pc'[e] \in {"applyStore", "writeSeen"} => db'[e] = s.db
                         /\ pc'[e] \in RecordPcs => db'[e].objects \subseteq store'[e]
                         /\ pc'[e] = "writeApplied" =>
                              ChangeSet(db'[e]) = ChangeSet(s.db) /\ db'[e].seen = ctx'[e].head.id
  BY DEF Installed, ChangeSet
<1>2. pc \in [Devices -> Pcs] /\ ctx \in [Devices -> Frames \cup {None}]  BY DEF Parts, Control
<1>3. ASSUME NEW x \in Devices, Pulling(x)
      PROVE  /\ ctx[x].head.id \in DOMAIN snaps /\ snaps'[ctx[x].head.id] = snaps[ctx[x].head.id]
             /\ Complete(snaps[ctx[x].head.id])
  <2>1. ctx[x].head.id \in Published  BY <1>3 DEF Published
  <2>2. QED  BY <2>1, Untouched DEF Kept
<1>4. CASE e # d
  <2>1. /\ pc'[e] = pc[e] /\ ctx'[e] = ctx[e] /\ db'[e] = db[e] /\ store'[e] = store[e]
    BY <1>4, MovesOne
  <2>2. Pulling(e)  BY <1>1, <2>1 DEF Pulling
  <2>3. QED  BY <1>3, <2>1, <2>2 DEF Installed
<1>5. CASE e = d /\ Apply(d)
  <2>1. PICK i, s : /\ i = Target(ctx[d]) /\ s = Dir(i) /\ UNCHANGED ctx /\ ctx[d].kind = "pull"
            /\ \/ /\ pc[d] = "applyRemoveDb" /\ s.db = None
                  /\ pc' = [pc EXCEPT ![d] = "applyStore"]
               \/ /\ pc' = [pc EXCEPT ![d] = "applyCopyDb"]
               \/ /\ pc[d] = "applyCopyDb" /\ s.db = None
                  /\ pc' = [pc EXCEPT ![d] = "applyStore"]
               \/ /\ pc[d] = "applyCopyDb" /\ db'[d] = s.db
                  /\ pc' = [pc EXCEPT ![d] = "applyStore"]
               \/ /\ pc[d] = "applyStore" /\ UNCHANGED db
                  /\ s.store = {} \/ store'[d] = s.store
                  /\ pc' = [pc EXCEPT ![d] = "writeSeen"]
    BY <1>5, ApplyStep
  <2>2. Pulling(d)  BY <1>5, <2>1 DEF Pulling, Apply
  <2>3. i = ctx[d].head.id  BY <2>1 DEF Target
  <2>4. i \in DOMAIN snaps /\ snaps'[i] = snaps[i] /\ s = snaps[i] /\ s.db # None /\ s.store = s.db.objects
    BY <1>3, <2>1, <2>2, <2>3 DEF Complete, Dir
  <2>5. CASE pc'[d] = "applyStore"
    <3>1. db'[d] = s.db  BY <1>2, <2>1, <2>4, <2>5
    <3>2. QED  BY <1>5, <2>1, <2>3, <2>4, <2>5, <3>1 DEF RecordPcs
  <2>6. CASE pc'[d] = "applyCopyDb"  BY <1>5, <2>6 DEF RecordPcs
  <2>7. CASE pc'[d] = "writeSeen"
    <3>1. pc[d] = "applyStore" /\ UNCHANGED db /\ (s.store = {} \/ store'[d] = s.store)
      BY <1>2, <2>1, <2>7
    <3>2. db[d] = s.db  BY <2>2, <2>3, <2>4, <3>1 DEF Installed
    <3>3. QED  BY <1>5, <2>1, <2>3, <2>4, <2>7, <3>1, <3>2
  <2>8. pc'[d] \in {"applyStore", "applyCopyDb", "writeSeen"}  BY <1>2, <2>1
  <2>9. QED  BY <2>5, <2>6, <2>7, <2>8
<1>6. CASE e = d /\ RecordState(d)
  <2>1. pc'[d] # "idle"  BY <1>1, <1>6 DEF Pulling
  <2>2. /\ pc[d] = "writeSeen" /\ db'[d].seen = Target(ctx[d]) /\ UNCHANGED <<store, ctx>>
        /\ pc'[d] = "writeApplied" /\ ChangeSet(db'[d]) = ChangeSet(db[d]) /\ db'[d].objects = db[d].objects
    BY <1>2, <1>6, <2>1, RecordStep DEF Enters
  <2>3. Pulling(d) /\ Target(ctx[d]) = ctx[d].head.id  BY <1>1, <1>6, <2>2 DEF Pulling, Target
  <2>4. snaps'[ctx[d].head.id] = snaps[ctx[d].head.id]  BY <1>3, <2>3
  <2>5. db[d] = snaps[ctx[d].head.id].db /\ db[d].objects \subseteq store[d]
    BY <2>2, <2>3 DEF Installed, RecordPcs
  <2>6. QED  BY <1>6, <2>2, <2>3, <2>4, <2>5
<1>7. CASE e = d /\ ~ Apply(d) /\ ~ RecordState(d)
  <2>1. pc'[d] \notin {"applyStore", "writeSeen"} \cup RecordPcs
    <3>1. ASSUME NEW now \in Times, PushStart(d, now) PROVE pc'[d] \in {"idle", "removeDir"}
      BY <1>2, <3>1 DEF PushStart, Begin
    <3>2. ASSUME NEW now \in Times, NEW m \in MergeModes, PullStart(d, now, m)
          PROVE  pc'[d] \in {"idle", "preview", "checkDir"}
      BY <1>2, <3>2 DEF PullStart, Begin
    <3>3. ~ WriteHead(d)
      <4>1. ASSUME WriteHead(d) PROVE FALSE
        <5>1. ctx[d].kind = "push" /\ UNCHANGED ctx  BY <4>1, HeadStep
        <5>2. QED  BY <1>1, <1>7, <5>1 DEF Pulling
      <4>2. QED  BY <4>1
    <3>4. CASE RemoveDir(d) \/ CreateDir(d) \/ CopyTree(d)
      BY <1>2, <3>4 DEF RemoveDir, CreateDir, CopyTree, Goto, RecordPcs
    <3>5. CASE PullPreview(d) \/ CheckDir(d) \/ Edit(d)
      BY <1>2, <3>5 DEF PullPreview, CheckDir, Edit, Goto, Return, RecordPcs
    <3>6. QED  BY <1>7, <3>1, <3>2, <3>3, <3>4, <3>5 DEF AnyStep, RecordPcs
  <2>2. QED  BY <1>7, <2>1 DEF RecordPcs
<1>8. QED  BY <1>4, <1>5, <1>6, <1>7

(* PathsKept: the second half of the invariant is inductive.               *)
LEMMA PathsKept ==
  ASSUME DistinctVaults
  PROVE  FsInv /\ PathInv /\ [Next]_vars => PathInv'
<1> SUFFICES ASSUME FsInv, PathInv, [Next]_vars PROVE PathInv'  OBVIOUS
<1>1. Parts /\ DirsFit  BY Typed DEF FsInv, Parts
<1>2. CASE UNCHANGED vars
  <2>1. UNCHANGED <<db, store, rev, edits, head, snaps, conflicts, pc, ctx, ops, crashes>>
    BY <1>2 DEF vars, vaultVars, targetVars
  <2>2. Filled'  BY <2>1 DEF PathInv, Filled, Target, Complete, SnapshotIdForManifest
  <2>3. Published' = Published  BY <2>1 DEF Published, Pulling
  <2>4. crashes = 0 => Kept'  BY <2>1, <2>3 DEF PathInv, Kept, Complete
  <2>5. crashes = 0 => Installed'  BY <2>1 DEF PathInv, Installed, Pulling, ChangeSet
  <2>6. QED  BY <2>1, <2>2, <2>4, <2>5 DEF PathInv
<1>3. ASSUME NEW d \in Devices, AnyStep(d) PROVE PathInv'
  <2>1. Filled'  BY <1>1, <1>3, FilledStep DEF PathInv
  <2>2. ASSUME crashes' = 0 PROVE Kept' /\ Installed'
    <3>1. ~ Crash(d)  BY <1>1, <2>2, FaultStep
    <3>2. crashes = 0
      BY <1>3, <2>2, <3>1 DEF AnyStep, PushStart, PullStart, Begin, RemoveDir, CreateDir, CopyTree, WriteHead,
         PullPreview, CheckDir, Apply, RecordState, Edit, Goto, Return
    <3>3. Kept /\ Installed /\ Filled  BY <3>2 DEF PathInv
    <3>4. QED  BY <1>1, <1>3, <3>1, <3>3, KeptStep, InstalledStep
  <2>3. QED  BY <2>1, <2>2 DEF PathInv
<1>4. QED  BY <1>2, <1>3 DEF Next, AnyStep

(* PathInvariance: so it holds in every reachable state.                   *)
LEMMA PathInvariance ==
  ASSUME DistinctVaults
  PROVE  Spec => []PathInv
<1>1. Init => PathInv
  <2> SUFFICES ASSUME Init PROVE PathInv  OBVIOUS
  <2>1. Filled /\ Installed  BY DEF Init, Filled, Installed, Pulling
  <2>2. Published = {}  BY DEF Init, Published, Pulling
  <2>3. QED  BY <2>1, <2>2 DEF PathInv, Kept
<1>2. QED  BY <1>1, PathsKept, FsInvariance, PTL DEF Spec

-----------------------------------------------------------------------------
(* TypeCorrect: vaults, the target directory and the frames of pushes and  *)
(* pulls keep their types, for any number of replicas.                     *)
THEOREM TypeCorrect == Spec => []TypeOK
<1>1. FsInv => TypeOK  BY DEF FsInv
<1>2. QED  BY <1>1, FsInvariance, PTL

(* DirectoriesMatchIds: whatever crashes, retries and concurrent pushes do *)
(* to snapshots/<id>, it holds parts of the one export that the id was     *)
(* derived from, even when replicas share a vault_id.                      *)
THEOREM DirectoriesMatchIds == Spec => []SnapshotMatchesId
<1>1. FsInv => SnapshotMatchesId
  <2>1. SUFFICES ASSUME FsInv, NEW i \in DOMAIN snaps, snaps[i].db # None
                 PROVE  snaps[i].db.rev = i.manifest.rev /\ snaps[i].store \subseteq snaps[i].db.objects
    BY DEF SnapshotMatchesId
  <2>2. snaps[i].db \in Held  BY <2>1, InHeld
  <2>3. QED  BY <2>1, <2>2 DEF FsInv, DirsFit
<1>2. QED  BY <1>1, FsInvariance, PTL

(* HeadStaysComplete: while no command dies, head.json names a directory   *)
(* that is fully copied, for replicas with vault_ids of their own.         *)
THEOREM HeadStaysComplete ==
  ASSUME DistinctVaults
  PROVE  Spec => []HeadIsComplete
<1>1. PathInv => HeadIsComplete
  <2>1. SUFFICES ASSUME PathInv, crashes = 0, head # None
                 PROVE  head.id \in DOMAIN snaps /\ Complete(snaps[head.id])
    BY DEF HeadIsComplete
  <2>2. head.id \in Published  BY <2>1 DEF Published
  <2>3. QED  BY <2>1, <2>2 DEF PathInv, Kept
<1>2. QED  BY <1>1, PathInvariance, PTL

(* PushPublishesWhole: when a push writes head.json its directory is       *)
(* whole, also after crashes and when it repeats a push that died.         *)
THEOREM PushPublishesWhole ==
  ASSUME DistinctVaults
  PROVE  Spec => PublishedIsComplete
<1>1. ASSUME FsInv, PathInv, Next, NEW d \in Devices, pc[d] = "writeHead", pc'[d] = "writeSeen"
      PROVE  head'.id \in DOMAIN snaps /\ Complete(snaps[head'.id])
  <2>1. Parts  BY <1>1, Typed DEF FsInv, Parts
  <2>2. PICK e \in Devices : AnyStep(e)  BY <1>1 DEF Next, AnyStep
  <2>3. e = d  BY <1>1, <2>1, <2>2, MovesOne
  <2>4. WriteHead(d)
    <3>1. pc \in [Devices -> Pcs]  BY <2>1 DEF Parts, Control
    <3>2. ~ Crash(d)  BY <1>1, <3>1 DEF Crash
    <3>3. ~ \E now \in Times : \/ PushStart(d, now)
                              \/ \E m \in MergeModes : PullStart(d, now, m)
      BY <1>1 DEF PushStart, PullStart, Begin
    <3>4. ~ (RemoveDir(d) \/ CreateDir(d) \/ PullPreview(d) \/ CheckDir(d) \/ Edit(d))
      BY <1>1 DEF RemoveDir, CreateDir, PullPreview, CheckDir, Edit
    <3>5. ~ (CopyTree(d) \/ Apply(d) \/ RecordState(d))
      BY <1>1 DEF CopyTree, Apply, RecordState
    <3>6. QED  BY <2>2, <2>3, <3>2, <3>3, <3>4, <3>5 DEF AnyStep
  <2>5. head'.id = Target(ctx[d])  BY <2>1, <2>4, HeadStep
  <2>6. QED  BY <1>1, <2>5 DEF PathInv, Filled
<1>2. FsInv /\ PathInv /\ [Next]_vars =>
        [\A d \in Devices : pc[d] = "writeHead" /\ pc'[d] = "writeSeen"
           => head'.id \in DOMAIN snaps /\ Complete(snaps[head'.id])]_vars
  BY <1>1
<1>3. QED  BY <1>2, FsInvariance, PathInvariance, PTL DEF Spec, PublishedIsComplete

(* PullsInstallHead: a pull that ends while no command died has installed  *)
(* the content of the head it read, with a file for every object row,      *)
(* whatever other replicas pushed meanwhile.                               *)
THEOREM PullsInstallHead ==
  ASSUME DistinctVaults
  PROVE  Spec => PullInstallsHead
<1> DEFINE Ends(d) == pc[d] = "writeApplied" /\ pc'[d] = "idle" /\ ctx[d].kind = "pull" /\ crashes' = 0
           Whole(d) == LET s == snaps[ctx[d].head.id]
                       IN /\ ChangeSet(db'[d]) = ChangeSet(s.db)
                          /\ db'[d].seen = ctx[d].head.id
                          /\ db'[d].objects \subseteq store'[d]
<1>1. ASSUME FsInv, PathInv, Next, NEW d \in Devices, Ends(d) PROVE Whole(d)
  <2>1. Parts  BY <1>1, Typed DEF FsInv, Parts
  <2>2. PICK e \in Devices : AnyStep(e)  BY <1>1 DEF Next, AnyStep
  <2>3. e = d  BY <1>1, <2>1, <2>2, MovesOne
  <2>4. ~ Crash(d)  BY <1>1, <2>1, FaultStep
  <2>5. RecordState(d)
    BY <1>1, <2>2, <2>3, <2>4 DEF AnyStep, PushStart, PullStart, Begin, RemoveDir, CreateDir, CopyTree,
       WriteHead, PullPreview, CheckDir, Apply, Edit
  <2>6. /\ UNCHANGED <<store, crashes>> /\ ChangeSet(db'[d]) = ChangeSet(db[d])
        /\ db'[d].objects = db[d].objects /\ db'[d].seen = db[d].seen
    BY <1>1, <2>1, <2>5, RecordStep
  <2>7. Pulling(d) /\ crashes = 0  BY <1>1, <2>6 DEF Pulling
  <2>8. /\ ChangeSet(db[d]) = ChangeSet(snaps[ctx[d].head.id].db) /\ db[d].seen = ctx[d].head.id
        /\ db[d].objects \subseteq store[d]
    BY <1>1, <2>7 DEF PathInv, Installed, RecordPcs
  <2>9. QED  BY <2>6, <2>8
<1>2. FsInv /\ PathInv /\ [Next]_vars => [\A d \in Devices : Ends(d) => Whole(d)]_vars
  BY <1>1
<1>3. QED  BY <1>2, FsInvariance, PathInvariance, PTL DEF Spec, PullInstallsHead
=============================================================================
