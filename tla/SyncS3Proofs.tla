---------------------------- MODULE SyncS3Proofs ----------------------------
(***************************************************************************)
(* Theorems about SyncS3, for every set of replicas, every TTL and every   *)
(* bound.  Vault, remote, control and counter parts of the state are typed *)
(* separately; every action disturbs one or two of them.                   *)
(***************************************************************************)
EXTENDS SyncS3, SyncVaultProofs

-----------------------------------------------------------------------------
(* Frames, targets and artifacts.                                          *)

(* FrameFields: the fields of a frame that steps use.                      *)
LEMMA FrameFields ==
  ASSUME NEW c \in Frames
  PROVE  /\ c.kind \in {"push", "pull"} /\ c.merge \in {"none", "auto"}
         /\ c.now \in Nat /\ c.manifest \in Manifests
         /\ c.seen \in SnapshotIds \cup {None}
         /\ c.head \in Heads \cup {None}
         /\ c.bundle \in Dbs \cup {None}
BY DEF Frames

(* TargetType: push and pull name a snapshot id and a manifest.            *)
LEMMA TargetType ==
  ASSUME NEW c \in Frames, c.kind = "pull" => c.head \in Heads
  PROVE  Target(c) \in SnapshotIds /\ TargetManifest(c) \in Manifests
<1>1. CASE c.kind = "push"
  BY <1>1, FrameFields DEF Target, TargetManifest, SnapshotIdForManifest, SnapshotIds
<1>2. CASE c.kind = "pull"
  BY <1>2 DEF Target, TargetManifest, Heads
<1>3. QED  BY <1>1, <1>2, FrameFields

(* ArtifactType: a conflict always has a head and a seen snapshot to name. *)
LEMMA ArtifactType ==
  ASSUME NEW d \in Devices, NEW c \in Frames, NEW h \in Heads \cup {None},
         ShouldConflict(h, c.seen, c.applied, c.manifest)
  PROVE  Artifact(d, c, h) \in Artifacts
<1>1. h \in Heads /\ c.seen \in SnapshotIds
  BY FrameFields DEF ShouldConflict
<1>2. h.id \in SnapshotIds  BY <1>1 DEF Heads
<1>3. QED  BY <1>1, <1>2, FrameFields, VaultIdAssumption DEF Artifact, Artifacts

(* StartFrames: the frames push and pull start with.                       *)
LEMMA StartFrames ==
  ASSUME TypeOK, NEW d \in Devices
  PROVE  /\ PushFrame(d) \in Frames
         /\ \A merge \in {"none", "auto"}, auth \in {"strict", "compat"} :
              PullFrame(d, merge, auth) \in Frames
<1>1. db[d] \in Dbs  BY DEF TypeOK, VaultTypeOK
<1>2. db[d].seen \in SnapshotIds \cup {None} /\ db[d].applied \in Manifests \cup {None}
      /\ db[d].rev \in Nat
  BY <1>1 DEF Dbs
<1>3. LocalManifest(d, "zip") \in Manifests /\ LocalManifest(d, "folder") \in Manifests
  BY <1>2, VaultIdAssumption DEF LocalManifest, Manifests
<1>4. QED
  BY <1>1, <1>2, <1>3 DEF TypeOK, RemoteTypeOK, CounterTypeOK, PushFrame, PullFrame, Frames

-----------------------------------------------------------------------------
(* Control.                                                                *)

(* ControlStep: one replica moves to a step with a frame that fits it.     *)
LEMMA ControlStep ==
  ASSUME ControlTypeOK, NEW d \in Devices, NEW p \in Pcs, NEW c \in Frames \cup {None},
         FrameTypeOK(p, c),
         pc' = [pc EXCEPT ![d] = p], ctx' = [ctx EXCEPT ![d] = c]
  PROVE  ControlTypeOK'
<1>1. pc' \in [Devices -> Pcs] /\ ctx' \in [Devices -> Frames \cup {None}]
  BY DEF ControlTypeOK
<1>2. ASSUME NEW e \in Devices PROVE FrameTypeOK(pc'[e], ctx'[e])
  <2>1. CASE e = d
    BY <2>1 DEF ControlTypeOK
  <2>2. CASE e # d
    <3>1. pc'[e] = pc[e] /\ ctx'[e] = ctx[e]  BY <2>2 DEF ControlTypeOK
    <3>2. QED  BY <3>1 DEF ControlTypeOK
  <2>3. QED  BY <2>1, <2>2
<1>3. QED  BY <1>1, <1>2 DEF ControlTypeOK

(* ReturnFrame: a finished operation holds no frame.                       *)
LEMMA ReturnFrame == FrameTypeOK("idle", None)
BY DEF FrameTypeOK, PushPcs, PullPcs

(* ReturnType: returning keeps control well typed.                         *)
LEMMA ReturnType ==
  ASSUME ControlTypeOK, NEW d \in Devices,
         pc' = [pc EXCEPT ![d] = "idle"], ctx' = [ctx EXCEPT ![d] = None]
  PROVE  ControlTypeOK'
BY ReturnFrame, ControlStep DEF Pcs

(* GotoType: an operation moves on with the frame it has.                  *)
LEMMA GotoType ==
  ASSUME ControlTypeOK, NEW d \in Devices, NEW p \in Pcs, p # "idle", pc[d] # "idle",
         p \in PushPcs => ctx[d].kind = "push",
         p \in PullPcs \cup {"prePreview"} => ctx[d].kind = "pull",
         p \in {"applyRemoveDb", "applyCopyDb", "applyStore"} => ctx[d].bundle \in Dbs,
         pc' = [pc EXCEPT ![d] = p], ctx' = ctx
  PROVE  ControlTypeOK'
<1>1. ctx[d] \in Frames  BY DEF ControlTypeOK, FrameTypeOK
<1>2. ctx' = [ctx EXCEPT ![d] = ctx[d]]  BY DEF ControlTypeOK
<1>3. FrameTypeOK(p, ctx[d])
  BY <1>1, NoneS3Assumption DEF ControlTypeOK, FrameTypeOK
<1>4. QED  BY <1>1, <1>2, <1>3, ControlStep

-----------------------------------------------------------------------------
(* Every action keeps TypeOK.                                              *)

(* StartType: the two operations start well typed.                         *)
LEMMA StartType ==
  ASSUME TypeOK, NEW d \in Devices,
         PushStart(d) \/ \E m \in PullModes : PullStart(d, m[1], m[2])
  PROVE  TypeOK'
<1>1. CASE PushStart(d)
  <2> DEFINE c == PushFrame(d)
  <2>1. c \in Frames  BY StartFrames
  <2>2. FrameTypeOK("lockRead", c)
    <3>1. db[d] \in Dbs  BY DEF TypeOK, VaultTypeOK
    <3>2. QED
      BY <2>1, <3>1, NoneS3Assumption DEF FrameTypeOK, PushPcs, PullPcs, PushFrame
  <2>3. ControlTypeOK'
    <3>1. CASE UNCHANGED <<pc, ctx>>  BY <3>1 DEF TypeOK, ControlTypeOK
    <3>2. CASE pc' = [pc EXCEPT ![d] = "lockRead"] /\ ctx' = [ctx EXCEPT ![d] = c]
      BY <2>1, <2>2, <3>2, ControlStep DEF TypeOK, Pcs, AcquirePcs
    <3>3. QED  BY <1>1, <3>1, <3>2 DEF PushStart
  <2>4. conflicts' \subseteq Artifacts
    <3>1. CASE conflicts' = conflicts  BY <3>1 DEF TypeOK, RemoteTypeOK
    <3>2. CASE /\ ShouldConflict(head, c.seen, c.applied, c.manifest)
               /\ conflicts' = conflicts \cup {Artifact(d, c, head)}
      BY <2>1, <3>2, ArtifactType DEF TypeOK, RemoteTypeOK
    <3>3. QED  BY <1>1, <3>1, <3>2 DEF PushStart
  <2>5. QED
    BY <1>1, <2>3, <2>4 DEF PushStart, Start, TypeOK, VaultTypeOK, vaultVars, RemoteTypeOK, CounterTypeOK
<1>2. ASSUME NEW m \in PullModes, PullStart(d, m[1], m[2]) PROVE TypeOK'
  <2> DEFINE c == PullFrame(d, m[1], m[2])
             conflict == ShouldConflict(head, c.seen, c.applied, c.manifest)
             p == IF conflict THEN "prePreview" ELSE "lockRead"
  <2>1. c \in Frames  BY StartFrames, ModeAssumption
  <2>2. FrameTypeOK(p, c)
    <3>1. head \in Heads  BY <1>2 DEF TypeOK, RemoteTypeOK, PullStart
    <3>2. c.kind = "pull" /\ c.head = head  BY DEF PullFrame
    <3>3. QED
      BY <2>1, <3>1, <3>2, NoneS3Assumption DEF FrameTypeOK, PushPcs, PullPcs
  <2>3. ControlTypeOK'
    <3>1. CASE UNCHANGED <<pc, ctx>>  BY <3>1 DEF TypeOK, ControlTypeOK
    <3>2. CASE pc' = [pc EXCEPT ![d] = p] /\ ctx' = [ctx EXCEPT ![d] = c]
      <4>1. p \in Pcs  BY DEF Pcs, AcquirePcs
      <4> HIDE DEF p, c
      <4>2. QED  BY <2>1, <2>2, <3>2, <4>1, ControlStep DEF TypeOK
    <3>3. QED  BY <1>2, <3>1, <3>2 DEF PullStart
  <2>4. conflicts' \subseteq Artifacts
    <3>1. CASE conflicts' = conflicts  BY <3>1 DEF TypeOK, RemoteTypeOK
    <3>2. CASE conflict /\ conflicts' = conflicts \cup {Artifact(d, c, head)}
      BY <2>1, <3>2, ArtifactType DEF TypeOK, RemoteTypeOK
    <3>3. QED  BY <1>2, <3>1, <3>2 DEF PullStart
  <2>5. QED
    BY <1>2, <2>3, <2>4 DEF PullStart, Start, TypeOK, VaultTypeOK, vaultVars, RemoteTypeOK, CounterTypeOK
<1>3. QED  BY <1>1, <1>2

(* LockType: acquiring and releasing the lock, and the merge preview.      *)
LEMMA LockType ==
  ASSUME TypeOK, NEW d \in Devices,
         PullPreview(d) \/ LockRead(d) \/ LockDelete(d) \/ LockPut(d)
           \/ ReleaseRead(d) \/ ReleaseDelete(d)
  PROVE  TypeOK'
<1>1. pc[d] # "idle"
  BY DEF PullPreview, LockRead, LockDelete, LockPut, ReleaseRead, ReleaseDelete
<1>2. ctx[d] \in Frames  BY <1>1 DEF TypeOK, ControlTypeOK, FrameTypeOK
<1>3. ControlTypeOK'
  <2>1. CASE Return(d)  BY <2>1, ReturnType DEF Return, GotoWith, TypeOK
  <2>2. CASE \E p \in {"lockRead", "lockDelete", "lockPut", "recheck",
                       "releaseRead", "releaseDelete"} : Goto(d, p)
    BY <1>1, <2>2, GotoType
    DEF TypeOK, Goto, Pcs, AcquirePcs, CriticalPcs, ReleasePcs, PushPcs, PullPcs
  <2>3. CASE pc[d] = "preview" /\ Goto(d, "fetch")
    <3>1. ctx[d].kind = "pull"  BY <2>3 DEF TypeOK, ControlTypeOK, FrameTypeOK, PullPcs
    <3>2. QED
      BY <1>1, <2>3, <3>1, GotoType DEF TypeOK, Goto, Pcs, CriticalPcs, PushPcs, PullPcs
  <2>4. QED
    BY <2>1, <2>2, <2>3
    DEF PullPreview, LockRead, LockDelete, LockPut, ReleaseRead, ReleaseDelete
<1>4. RemoteTypeOK'
  <2>1. LockFor(d, ctx[d].now) \in Locks
    BY <1>2, FrameFields, VaultIdAssumption, TimeAssumption DEF LockFor, Locks
  <2>2. lock' \in Locks \cup {None} /\ UNCHANGED <<head, snaps, conflicts>>
    BY <2>1 DEF PullPreview, LockRead, LockDelete, LockPut, ReleaseRead, ReleaseDelete,
                TypeOK, RemoteTypeOK, remoteVars
  <2>3. QED  BY <2>2 DEF TypeOK, RemoteTypeOK
<1>5. UNCHANGED vaultVars /\ UNCHANGED <<ops, faults, clock>>
  BY DEF PullPreview, LockRead, LockDelete, LockPut, ReleaseRead, ReleaseDelete,
         Goto, Return, GotoWith
<1>6. QED
  BY <1>3, <1>4, <1>5 DEF TypeOK, VaultTypeOK, CounterTypeOK, vaultVars

(* RecheckType: the check of the head under the lock.                      *)
LEMMA RecheckType ==
  ASSUME TypeOK, NEW d \in Devices, Recheck(d)
  PROVE  TypeOK'
<1> DEFINE c == ctx[d]
           conflict == ShouldConflict(head, c.seen, c.applied, c.manifest)
           c2 == IF c.kind = "pull" THEN [c EXCEPT !.head = head] ELSE c
           p2 == IF c.kind = "push" THEN "putSnapshot" ELSE "fetch"
<1>1. pc[d] = "recheck" /\ c \in Frames
  BY DEF Recheck, TypeOK, ControlTypeOK, FrameTypeOK
<1>2. c.kind \in {"push", "pull"}  BY <1>1, FrameFields
<1>3. ControlTypeOK'
  <2>1. CASE Goto(d, "releaseRead")
    BY <1>1, <2>1, GotoType DEF TypeOK, Goto, Pcs, ReleasePcs, PushPcs, PullPcs
  <2>2. ASSUME NEW p \in {"preview", p2}, GotoWith(d, p, c2),
               c.kind = "pull" => head # None, p = "preview" => c.kind = "pull"
        PROVE  ControlTypeOK'
    <3>1. p \in Pcs /\ p \notin {"idle", "applyRemoveDb", "applyCopyDb", "applyStore"}
      BY <2>2 DEF Pcs, CriticalPcs, PushPcs, PullPcs
    <3>2. c.kind = "pull" => head \in Heads
      BY <2>2 DEF TypeOK, RemoteTypeOK
    <3>3. c2 \in Frames /\ c2.kind = c.kind /\ c2.bundle = c.bundle
          /\ c2.merge = c.merge /\ (c.kind = "pull" => c2.head = head)
      BY <1>1, <3>2 DEF Frames
    <3>4. p \in PushPcs => c.kind = "push"
      BY <2>2 DEF PushPcs
    <3>5. p \in PullPcs \cup {"prePreview"} => c.kind = "pull"
      BY <1>2, <2>2 DEF PullPcs
    <3>6. c.kind = "push" => c.bundle \in Dbs /\ c.merge = "none"
      BY <1>1 DEF TypeOK, ControlTypeOK, FrameTypeOK
    <3> HIDE DEF c, c2, p2
    <3>7. FrameTypeOK(p, c2)
      BY <3>1, <3>2, <3>3, <3>4, <3>5, <3>6, NoneS3Assumption DEF FrameTypeOK
    <3>8. QED  BY <2>2, <3>1, <3>3, <3>7, ControlStep DEF TypeOK, GotoWith
  <2>3. QED
    <3>1. c.merge = "auto" => c.kind = "pull"
      BY <1>1, <1>2 DEF TypeOK, ControlTypeOK, FrameTypeOK
    <3>2. QED  BY <2>1, <2>2, <3>1 DEF Recheck
<1>4. conflicts' \subseteq Artifacts
  <2>1. CASE conflicts' = conflicts  BY <2>1 DEF TypeOK, RemoteTypeOK
  <2>2. CASE conflict /\ conflicts' = conflicts \cup {Artifact(d, c, head)}
    BY <1>1, <2>2, ArtifactType DEF TypeOK, RemoteTypeOK
  <2>3. QED  BY <2>1, <2>2 DEF Recheck
<1>5. UNCHANGED <<head, snaps, lock>> /\ UNCHANGED vaultVars /\ UNCHANGED <<ops, faults, clock>>
  BY DEF Recheck, Goto, GotoWith
<1>6. QED
  BY <1>3, <1>4, <1>5 DEF TypeOK, VaultTypeOK, RemoteTypeOK, CounterTypeOK, vaultVars

(* PublishType: uploading the snapshot and the head.                       *)
LEMMA PublishType ==
  ASSUME TypeOK, NEW d \in Devices, PutSnapshot(d) \/ PutHead(d)
  PROVE  TypeOK'
<1>1. /\ pc[d] \in PushPcs /\ ctx[d] \in Frames /\ ctx[d].kind = "push"
      /\ ctx[d].bundle \in Dbs
  BY DEF PutSnapshot, PutHead, PushPcs, TypeOK, ControlTypeOK, FrameTypeOK
<1>2. Target(ctx[d]) \in SnapshotIds /\ ctx[d].manifest \in Manifests
  BY <1>1, TargetType, FrameFields
<1>3. ControlTypeOK'
  BY <1>1, GotoType
  DEF PutSnapshot, PutHead, TypeOK, Goto, Pcs, CriticalPcs, PushPcs, PullPcs
<1>4. RemoteTypeOK'
  <2>1. CASE PutSnapshot(d)
    <3>1. DOMAIN snaps' = DOMAIN snaps \cup {Target(ctx[d])}  BY <2>1 DEF PutSnapshot
    <3>2. \A i \in DOMAIN snaps' : snaps'[i] \in Dbs
      BY <1>1, <2>1 DEF PutSnapshot, TypeOK, RemoteTypeOK
    <3>3. snaps' \in [DOMAIN snaps' -> Dbs]
      BY <2>1, <3>1, <3>2 DEF PutSnapshot
    <3>4. QED  BY <1>2, <2>1, <3>1, <3>3 DEF PutSnapshot, TypeOK, RemoteTypeOK
  <2>2. CASE PutHead(d)
    BY <1>2, <2>2, TrustAssumption DEF PutHead, TypeOK, RemoteTypeOK, Heads
  <2>3. QED  BY <2>1, <2>2
<1>5. UNCHANGED vaultVars /\ UNCHANGED <<ops, faults, clock>>
  BY DEF PutSnapshot, PutHead, Goto
<1>6. QED
  BY <1>3, <1>4, <1>5 DEF TypeOK, VaultTypeOK, CounterTypeOK, vaultVars

(* InstallType: fetching a snapshot, applying it and recording the state.  *)
LEMMA InstallType ==
  ASSUME TypeOK, NEW d \in Devices, Fetch(d) \/ Apply(d) \/ RecordState(d)
  PROVE  TypeOK'
<1>1. pc[d] # "idle" /\ ctx[d] \in Frames /\ ctx[d].kind \in {"push", "pull"}
  BY FrameFields DEF Fetch, Apply, RecordState, TypeOK, ControlTypeOK, FrameTypeOK
<1>2. UNCHANGED remoteVars /\ UNCHANGED <<ops, faults, clock>>
  BY DEF Fetch, Apply, RecordState, Goto, GotoWith
<1>3. RemoteTypeOK' /\ CounterTypeOK'
  BY <1>2 DEF TypeOK, RemoteTypeOK, CounterTypeOK, remoteVars
<1>4. CASE Fetch(d)
  <2>1. ctx[d].kind = "pull" /\ ctx[d].head \in Heads
    BY <1>4 DEF Fetch, TypeOK, ControlTypeOK, FrameTypeOK, PullPcs
  <2>2. ControlTypeOK'
    <3>1. CASE Goto(d, "releaseRead")
      BY <1>1, <3>1, GotoType DEF TypeOK, Goto, Pcs, ReleasePcs, PushPcs, PullPcs
    <3>2. CASE /\ Target(ctx[d]) \in DOMAIN snaps
               /\ GotoWith(d, "applyRemoveDb", [ctx[d] EXCEPT !.bundle = snaps[Target(ctx[d])]])
      <4> DEFINE b == snaps[Target(ctx[d])]
                 c2 == [ctx[d] EXCEPT !.bundle = b]
      <4>1. b \in Dbs  BY <3>2 DEF TypeOK, RemoteTypeOK
      <4> HIDE DEF b
      <4>2. c2 \in Frames /\ c2.kind = "pull" /\ c2.head \in Heads /\ c2.bundle = b
        BY <1>1, <2>1, <4>1 DEF Frames
      <4> HIDE DEF c2
      <4>3. FrameTypeOK("applyRemoveDb", c2)
        BY <4>1, <4>2, NoneS3Assumption DEF FrameTypeOK, PushPcs, PullPcs
      <4>4. QED
        BY <3>2, <4>2, <4>3, ControlStep
        DEF b, c2, GotoWith, TypeOK, Pcs, CriticalPcs, PullPcs
    <3>3. QED  BY <1>4, <3>1, <3>2 DEF Fetch
  <2>3. VaultTypeOK'  BY <1>4 DEF Fetch, TypeOK, VaultTypeOK, vaultVars
  <2>4. QED  BY <1>3, <2>2, <2>3 DEF TypeOK
<1>5. CASE Apply(d)
  <2>1. ctx[d].kind = "pull" /\ ctx[d].bundle \in Dbs
    BY <1>5 DEF Apply, TypeOK, ControlTypeOK, FrameTypeOK, PullPcs
  <2>2. VaultTypeOK'  BY <1>5, <2>1, ApplyType DEF Apply, TypeOK
  <2>3. ControlTypeOK'
    BY <1>1, <1>5, <2>1, GotoType
    DEF Apply, TypeOK, Goto, Pcs, CriticalPcs, PushPcs, PullPcs
  <2>4. QED  BY <1>3, <2>2, <2>3 DEF TypeOK
<1>6. CASE RecordState(d)
  <2>1. ctx[d].kind = "pull" => ctx[d].head \in Heads
    BY <1>1 DEF TypeOK, ControlTypeOK, FrameTypeOK
  <2>2. Target(ctx[d]) \in SnapshotIds /\ TargetManifest(ctx[d]) \in Manifests
    BY <1>1, <2>1, TargetType
  <2>3. VaultTypeOK'  BY <1>6, <2>2, WriteStateType DEF RecordState, TypeOK
  <2>4. ControlTypeOK'
    BY <1>1, <1>6, GotoType
    DEF RecordState, TypeOK, Goto, Pcs, CriticalPcs, ReleasePcs, PushPcs, PullPcs
  <2>5. QED  BY <1>3, <2>3, <2>4 DEF TypeOK
<1>7. QED  BY <1>4, <1>5, <1>6

(* FaultType: faults, edits and the clock.                                 *)
LEMMA FaultType ==
  ASSUME TypeOK, NEW d \in Devices,
         TransportError(d) \/ LocalError(d) \/ Crash(d) \/ Edit(d)
  PROVE  TypeOK'
<1>1. CASE Edit(d)
  <2>1. VaultTypeOK'  BY <1>1, EditType DEF Edit, TypeOK
  <2>2. QED
    BY <1>1, <2>1 DEF Edit, TypeOK, RemoteTypeOK, ControlTypeOK, CounterTypeOK, remoteVars
<1>2. CASE TransportError(d) \/ LocalError(d) \/ Crash(d)
  <2>1. ControlTypeOK'
    <3>1. CASE pc' = [pc EXCEPT ![d] = "idle"] /\ ctx' = [ctx EXCEPT ![d] = None]
      BY <3>1, ReturnType DEF TypeOK
    <3>2. CASE pc[d] # "idle" /\ pc' = [pc EXCEPT ![d] = "releaseRead"] /\ ctx' = ctx
      BY <3>2, GotoType DEF TypeOK, Pcs, ReleasePcs, PushPcs, PullPcs
    <3>3. QED
      BY <1>2, <3>1, <3>2 DEF TransportError, LocalError, Crash, AcquirePcs
  <2>2. faults' \in [FaultKinds -> Nat]
    BY <1>2, BoundAssumption
    DEF TransportError, LocalError, Crash, Fault, TypeOK, CounterTypeOK, FaultKinds
  <2>3. UNCHANGED vaultVars /\ UNCHANGED remoteVars /\ UNCHANGED <<clock, ops>>
    BY <1>2 DEF TransportError, LocalError, Crash
  <2>4. QED
    BY <2>1, <2>2, <2>3
    DEF TypeOK, VaultTypeOK, RemoteTypeOK, CounterTypeOK, vaultVars, remoteVars
<1>3. QED  BY <1>1, <1>2

(* TypeCorrect: every reachable state is well typed; in particular an      *)
(* operation always has the frame its step reads (a push its bundle, a     *)
(* pull its head).                                                         *)
THEOREM TypeCorrect == Spec => []TypeOK
<1>1. Init => TypeOK
  BY ReturnFrame
  DEF Init, TypeOK, VaultInit, VaultTypeOK, RemoteTypeOK, ControlTypeOK, CounterTypeOK,
      EmptyDb, Dbs, Pcs
<1>2. TypeOK /\ [Next]_vars => TypeOK'
  <2> SUFFICES ASSUME TypeOK, [Next]_vars PROVE TypeOK'
    OBVIOUS
  <2>1. CASE Tick
    BY <2>1 DEF Tick, TypeOK, VaultTypeOK, RemoteTypeOK, ControlTypeOK, CounterTypeOK,
                vaultVars, remoteVars
  <2>2. ASSUME NEW d \in Devices,
               Step(d) \/ TransportError(d) \/ LocalError(d) \/ Crash(d) \/ Edit(d)
        PROVE  TypeOK'
    BY <2>2, StartType, LockType, RecheckType, PublishType, InstallType, FaultType DEF Step
  <2>3. CASE UNCHANGED vars
    BY <2>3 DEF vars, TypeOK, VaultTypeOK, RemoteTypeOK, ControlTypeOK, CounterTypeOK,
                vaultVars, remoteVars
  <2>4. QED  BY <2>1, <2>2, <2>3 DEF Next
<1>3. QED  BY <1>1, <1>2, PTL DEF Spec

-----------------------------------------------------------------------------
(* The advisory lock of the bucket excludes, provided that nobody crashes  *)
(* while holding it and that operations end before their lock expires.     *)

(* StartLock: starting an operation takes no lock.                         *)
LEMMA StartLock ==
  ASSUME TypeOK, LockInv, NEW d \in Devices,
         PushStart(d) \/ \E m \in PullModes : PullStart(d, m[1], m[2])
  PROVE  LockInv'
<1>1. pc[d] = "idle" /\ UNCHANGED <<clock, lock, faults>>
  BY DEF PushStart, PullStart, Start
<1>2. CASE UNCHANGED <<pc, ctx>>
  BY <1>1, <1>2 DEF LockInv, InFlight, InLock
<1>3. CASE \E p \in {"prePreview", "lockRead"} : \E c :
             /\ pc' = [pc EXCEPT ![d] = p] /\ ctx' = [ctx EXCEPT ![d] = c] /\ c.now = clock
  <2>0. PICK p \in {"prePreview", "lockRead"} : \E c :
             /\ pc' = [pc EXCEPT ![d] = p] /\ ctx' = [ctx EXCEPT ![d] = c] /\ c.now = clock
    BY <1>3
  <2>1. PICK c :
             /\ pc' = [pc EXCEPT ![d] = p] /\ ctx' = [ctx EXCEPT ![d] = c] /\ c.now = clock
    BY <2>0
  <2>2. \A e \in Devices : e # d => pc'[e] = pc[e] /\ ctx'[e] = ctx[e]
    BY <2>1 DEF TypeOK, ControlTypeOK
  <2>3. pc'[d] = p /\ ctx'[d].now = clock
    BY <2>1 DEF TypeOK, ControlTypeOK
  <2>4. \A e \in Devices : InLock(e)' <=> InLock(e)
    BY <1>1, <2>2, <2>3 DEF InLock, CriticalPcs, ReleasePcs, PushPcs, PullPcs
  <2>5. \A e \in Devices : InLock(e) => e # d
    BY <1>1 DEF InLock, CriticalPcs, ReleasePcs, PushPcs, PullPcs
  <2>6. clock \in Nat /\ OpBudget \in Nat  BY TimeAssumption DEF TypeOK, CounterTypeOK
  <2>7. \A e \in Devices : InFlight(e)' => ctx'[e].now <= clock' /\ clock' <= ctx'[e].now + OpBudget
    BY <1>1, <2>2, <2>3, <2>6 DEF LockInv, InFlight
  <2>8. QED  BY <1>1, <2>2, <2>3, <2>4, <2>5, <2>7 DEF LockInv, LockFor
<1>4. CASE PushStart(d)
  <2>1. PushFrame(d).now = clock  BY DEF PushFrame
  <2>2. QED  BY <1>2, <1>3, <1>4, <2>1 DEF PushStart
<1>5. ASSUME NEW m \in PullModes, PullStart(d, m[1], m[2]) PROVE LockInv'
  <2>1. PullFrame(d, m[1], m[2]).now = clock  BY DEF PullFrame
  <2>2. QED  BY <1>2, <1>3, <1>5, <2>1 DEF PullStart
<1>6. QED  BY <1>4, <1>5

(* LockStep: a step of d that keeps d's start time and the lock, and       *)
(* enters neither the critical section nor the deletion.                   *)
LEMMA LockStep ==
  ASSUME TypeOK, TypeOK', LockInv, NEW d \in Devices,
         pc[d] # "idle", UNCHANGED <<clock, lock>>, faults'["crash"] = 0,
         \A e \in Devices : e # d => pc'[e] = pc[e] /\ ctx'[e] = ctx[e],
         pc'[d] # "lockDelete",
         pc'[d] # "idle" => ctx'[d].now = ctx[d].now,
         InLock(d)' <=> InLock(d)
  PROVE  LockInv'
<1>1. \A e \in Devices : InLock(e)' <=> InLock(e)
  BY DEF InLock
<1>2. \A e \in Devices : InFlight(e)' => ctx'[e].now <= clock' /\ clock' <= ctx'[e].now + OpBudget
  BY DEF LockInv, InFlight
<1>3. \A e \in Devices : InLock(e) => ctx'[e].now = ctx[e].now
  BY <1>1 DEF InLock, CriticalPcs, ReleasePcs, PushPcs, PullPcs
<1>4. QED  BY <1>1, <1>2, <1>3 DEF LockInv, LockFor

(* Others: a step of d leaves the operations of other replicas alone.      *)
LEMMA Others ==
  ASSUME TypeOK, NEW d \in Devices, NEW p,
         pc' = [pc EXCEPT ![d] = p],
         ctx' = ctx \/ \E c : ctx' = [ctx EXCEPT ![d] = c]
  PROVE  /\ pc'[d] = p
         /\ \A e \in Devices : e # d => pc'[e] = pc[e] /\ ctx'[e] = ctx[e]
BY DEF TypeOK, ControlTypeOK

(* NeverExpired: whoever holds the lock holds it still, so every other     *)
(* operation finds it unexpired.                                           *)
LEMMA NeverExpired ==
  ASSUME TypeOK, LockInv, OpBudget < TTL, NEW d \in Devices, pc[d] # "idle", lock # None
  PROVE  lock.expires > ctx[d].now
<1>1. PICK e \in Devices : InLock(e)  BY DEF LockInv
<1>2. pc[e] # "idle"  BY <1>1 DEF InLock, CriticalPcs, ReleasePcs, PushPcs, PullPcs
<1>3. ctx[d] \in Frames /\ ctx[e] \in Frames
  BY <1>2 DEF TypeOK, ControlTypeOK, FrameTypeOK
<1>4. ctx[d].now \in Nat /\ ctx[e].now \in Nat /\ clock \in Nat
  BY <1>3, FrameFields DEF TypeOK, CounterTypeOK
<1>5. ctx[d].now <= clock /\ clock <= ctx[e].now + OpBudget
  BY <1>2 DEF LockInv, InFlight
<1>6. lock.expires = ctx[e].now + TTL
  BY <1>1 DEF LockInv, LockFor
<1>7. QED  BY <1>4, <1>5, <1>6, TimeAssumption

(* AcquireLock: the steps up to the conditional put.                       *)
LEMMA AcquireLock ==
  ASSUME TypeOK, TypeOK', LockInv, OpBudget < TTL, NEW d \in Devices,
         PullPreview(d) \/ LockRead(d) \/ LockDelete(d) \/ LockPut(d)
  PROVE  LockInv'
<1>1. pc[d] # "idle" /\ pc[d] # "lockDelete"
  BY DEF LockInv, PullPreview, LockRead, LockPut, LockDelete
<1>2. CASE LockPut(d) /\ lock = None
  <2>1. /\ lock' = LockFor(d, ctx[d].now) /\ pc' = [pc EXCEPT ![d] = "recheck"]
        /\ UNCHANGED <<ctx, clock, faults>>
    BY <1>2 DEF LockPut, Goto
  <2>2. pc'[d] = "recheck" /\ \A e \in Devices : e # d => pc'[e] = pc[e]
    BY <2>1, Others
  <2>3. LockFor(d, ctx[d].now) # None
    <3>1. ctx[d] \in Frames  BY <1>1 DEF TypeOK, ControlTypeOK, FrameTypeOK
    <3>2. LockFor(d, ctx[d].now) \in Locks
      BY <3>1, FrameFields, VaultIdAssumption, TimeAssumption DEF LockFor, Locks
    <3>3. QED  BY <3>2, NoneS3Assumption
  <2>4. \A e \in Devices : ~InLock(e)
    <3>1. \A e \in Devices : InLock(e) => LockFor(e, ctx[e].now) \in Locks
      <4>1. TAKE e \in Devices
      <4>2. HAVE InLock(e)
      <4>3. ctx[e] \in Frames
        BY <4>2 DEF InLock, CriticalPcs, ReleasePcs, PushPcs, PullPcs,
                    TypeOK, ControlTypeOK, FrameTypeOK
      <4>4. QED  BY <4>3, FrameFields, VaultIdAssumption, TimeAssumption DEF LockFor, Locks
    <3>2. QED  BY <1>2, <3>1, NoneS3Assumption DEF LockInv
  <2>5. \A e \in Devices : InLock(e)' => e = d
    BY <2>2, <2>4 DEF InLock
  <2>6. InLock(d)'  BY <2>2 DEF InLock, CriticalPcs
  <2>7. \A e \in Devices : InFlight(e)' => ctx'[e].now <= clock' /\ clock' <= ctx'[e].now + OpBudget
    BY <1>1, <2>1, <2>2 DEF LockInv, InFlight
  <2>8. QED  BY <2>1, <2>2, <2>5, <2>6, <2>7 DEF LockInv, LockFor
<1>3. CASE ~(LockPut(d) /\ lock = None)
  <2>1. UNCHANGED <<clock, lock, faults>>
    BY <1>1, <1>3 DEF PullPreview, LockRead, LockDelete, LockPut, Goto, Return, GotoWith, remoteVars
  <2>2. \/ Return(d) /\ ~InLock(d)
        \/ Goto(d, "lockRead") /\ ~InLock(d)
        \/ Goto(d, "lockPut") /\ ~InLock(d)
        \/ Goto(d, "fetch") /\ InLock(d)
        \/ Goto(d, "releaseRead") /\ InLock(d)
    <3>1. CASE PullPreview(d)
      BY <3>1 DEF PullPreview, InLock, CriticalPcs, ReleasePcs, PushPcs, PullPcs
    <3>2. CASE LockRead(d)
      <4>1. lock # None => ~(lock.expires <= ctx[d].now)
        <5> SUFFICES ASSUME lock # None PROVE ~(lock.expires <= ctx[d].now)
          OBVIOUS
        <5>1. ctx[d] \in Frames  BY <1>1 DEF TypeOK, ControlTypeOK, FrameTypeOK
        <5>2. ctx[d].now \in Nat  BY <5>1, FrameFields
        <5>3. lock.expires \in Nat  BY DEF TypeOK, RemoteTypeOK, Locks
        <5>4. QED  BY <1>1, <5>2, <5>3, NeverExpired
      <4>2. ~InLock(d)
        BY <3>2 DEF LockRead, InLock, CriticalPcs, ReleasePcs, PushPcs, PullPcs
      <4>3. QED  BY <3>2, <4>1, <4>2 DEF LockRead
    <3>3. CASE LockPut(d)
      BY <1>3, <3>3 DEF LockPut, InLock, CriticalPcs, ReleasePcs, PushPcs, PullPcs
    <3>4. QED  BY <1>1, <3>1, <3>2, <3>3 DEF LockDelete
  <2>3. PICK p \in {"idle", "lockRead", "lockPut", "fetch", "releaseRead"} :
          /\ pc' = [pc EXCEPT ![d] = p]
          /\ ctx' = ctx \/ (p = "idle" /\ \E c : ctx' = [ctx EXCEPT ![d] = c])
          /\ InLock(d) <=> p \in {"fetch", "releaseRead"}
    <3>1. CASE Return(d) /\ ~InLock(d)  BY <3>1 DEF Return, GotoWith
    <3>2. CASE Goto(d, "lockRead") /\ ~InLock(d)  BY <3>2 DEF Goto
    <3>3. CASE Goto(d, "lockPut") /\ ~InLock(d)  BY <3>3 DEF Goto
    <3>4. CASE Goto(d, "fetch") /\ InLock(d)  BY <3>4 DEF Goto
    <3>5. CASE Goto(d, "releaseRead") /\ InLock(d)  BY <3>5 DEF Goto
    <3>6. QED  BY <2>2, <3>1, <3>2, <3>3, <3>4, <3>5
  <2>4. pc'[d] = p /\ \A e \in Devices : e # d => pc'[e] = pc[e] /\ ctx'[e] = ctx[e]
    BY <2>3, Others
  <2>5. InLock(d)' <=> InLock(d)
    BY <2>3, <2>4 DEF InLock, CriticalPcs, ReleasePcs, PushPcs, PullPcs
  <2>6. QED  BY <1>1, <2>1, <2>3, <2>4, <2>5, LockStep DEF LockInv
<1>4. QED  BY <1>2, <1>3

(* CriticalLock: the steps under the lock, and its release.                *)
LEMMA CriticalLock ==
  ASSUME TypeOK, TypeOK', LockInv, NEW d \in Devices,
         Recheck(d) \/ PutSnapshot(d) \/ PutHead(d) \/ Fetch(d) \/ Apply(d) \/ RecordState(d)
  PROVE  LockInv'
<1> DEFINE Inside == CriticalPcs \cup ReleasePcs
<1>1. pc[d] # "idle" /\ InLock(d)
  BY DEF Recheck, PutSnapshot, PutHead, Fetch, Apply, RecordState,
         InLock, CriticalPcs, ReleasePcs, PushPcs, PullPcs
<1>2. UNCHANGED <<clock, lock, faults>>
  BY DEF Recheck, PutSnapshot, PutHead, Fetch, Apply, RecordState, Goto, GotoWith, remoteVars
<1>3. PICK p \in Inside :
        /\ pc' = [pc EXCEPT ![d] = p]
        /\ ctx' = ctx \/ \E c : ctx' = [ctx EXCEPT ![d] = c] /\ c.now = ctx[d].now
  <2>1. CASE \E p \in Inside : Goto(d, p)  BY <2>1 DEF Goto
  <2>2. CASE \E p \in Inside : \E c : GotoWith(d, p, c) /\ c.now = ctx[d].now
    BY <2>2 DEF GotoWith
  <2>3. CASE Recheck(d)
    <3>1. ctx[d] \in Frames  BY <1>1 DEF TypeOK, ControlTypeOK, FrameTypeOK
    <3>2. [ctx[d] EXCEPT !.head = head].now = ctx[d].now  BY <3>1 DEF Frames
    <3>3. QED
      BY <2>1, <2>2, <2>3, <3>2 DEF Recheck, CriticalPcs, ReleasePcs, PushPcs, PullPcs
  <2>4. CASE Fetch(d)
    <3>1. ctx[d] \in Frames  BY <1>1 DEF TypeOK, ControlTypeOK, FrameTypeOK
    <3>2. [ctx[d] EXCEPT !.bundle = snaps[Target(ctx[d])]].now = ctx[d].now
      BY <3>1 DEF Frames
    <3>3. QED
      BY <2>1, <2>2, <2>4, <3>2 DEF Fetch, CriticalPcs, ReleasePcs, PushPcs, PullPcs
  <2>5. CASE PutSnapshot(d) \/ PutHead(d) \/ Apply(d) \/ RecordState(d)
    BY <2>1, <2>5
    DEF PutSnapshot, PutHead, Apply, RecordState, CriticalPcs, ReleasePcs, PushPcs, PullPcs
  <2>6. QED  BY <2>3, <2>4, <2>5
<1>4. pc'[d] = p /\ \A e \in Devices : e # d => pc'[e] = pc[e] /\ ctx'[e] = ctx[e]
  BY <1>3, Others
<1>5. ctx'[d].now = ctx[d].now  BY <1>3 DEF TypeOK, ControlTypeOK
<1>6. InLock(d)' /\ pc'[d] # "lockDelete"
  BY <1>4 DEF InLock, CriticalPcs, ReleasePcs, PushPcs, PullPcs
<1>7. faults'["crash"] = 0  BY <1>2 DEF LockInv
<1>8. QED  BY <1>1, <1>2, <1>4, <1>5, <1>6, <1>7, LockStep

(* ReleaseLock: the holder finds its own lock and deletes it.              *)
LEMMA ReleaseLock ==
  ASSUME TypeOK, TypeOK', LockInv, NEW d \in Devices, ReleaseRead(d) \/ ReleaseDelete(d)
  PROVE  LockInv'
<1>1. pc[d] # "idle" /\ InLock(d)
  BY DEF ReleaseRead, ReleaseDelete, InLock, ReleasePcs
<1>2. lock = LockFor(d, ctx[d].now)  BY <1>1 DEF LockInv
<1>3. CASE ReleaseRead(d)
  <2>1. lock # None
    <3>1. ctx[d] \in Frames  BY <1>1 DEF TypeOK, ControlTypeOK, FrameTypeOK
    <3>2. LockFor(d, ctx[d].now) \in Locks
      BY <3>1, FrameFields, VaultIdAssumption, TimeAssumption DEF LockFor, Locks
    <3>3. QED  BY <1>2, <3>2, NoneS3Assumption
  <2>2. lock.holder = <<VaultIdOf[d], ctx[d].now>>  BY <1>2 DEF LockFor
  <2>3. pc' = [pc EXCEPT ![d] = "releaseDelete"] /\ UNCHANGED <<ctx, clock, lock, faults>>
    BY <1>3, <2>1, <2>2 DEF ReleaseRead, Goto, remoteVars
  <2>4. pc'[d] = "releaseDelete" /\ \A e \in Devices : e # d => pc'[e] = pc[e] /\ ctx'[e] = ctx[e]
    BY <2>3, Others
  <2>5. InLock(d)'  BY <2>4 DEF InLock, ReleasePcs
  <2>6. QED  BY <1>1, <2>3, <2>4, <2>5, LockStep DEF LockInv
<1>4. CASE ReleaseDelete(d)
  <2>1. /\ lock' = None /\ pc' = [pc EXCEPT ![d] = "idle"] /\ ctx' = [ctx EXCEPT ![d] = None]
        /\ UNCHANGED <<clock, faults>>
    BY <1>4 DEF ReleaseDelete, Return, GotoWith
  <2>2. pc'[d] = "idle" /\ \A e \in Devices : e # d => pc'[e] = pc[e] /\ ctx'[e] = ctx[e]
    BY <2>1, Others
  <2>3. \A e \in Devices : ~InLock(e)'
    BY <1>1, <2>2 DEF LockInv, InLock, CriticalPcs, ReleasePcs, PushPcs, PullPcs
  <2>4. \A e \in Devices : InFlight(e)' => ctx'[e].now <= clock' /\ clock' <= ctx'[e].now + OpBudget
    BY <2>1, <2>2 DEF LockInv, InFlight
  <2>5. QED  BY <2>1, <2>2, <2>3, <2>4 DEF LockInv
<1>5. QED  BY <1>3, <1>4

(* FaultLock: errors release the lock, edits and time do not touch it.     *)
LEMMA FaultLock ==
  ASSUME TypeOK, TypeOK', LockInv, MaxFaults["crash"] = 0, NEW d \in Devices,
         TransportError(d) \/ LocalError(d) \/ Crash(d) \/ Edit(d)
  PROVE  LockInv'
<1>1. ~Crash(d)
  BY BoundAssumption DEF Crash, Fault, LockInv
<1>2. CASE Edit(d)
  BY <1>2 DEF Edit, LockInv, InFlight, InLock, remoteVars
<1>3. CASE TransportError(d) \/ LocalError(d)
  <2>1. UNCHANGED <<clock, lock>> /\ faults'["crash"] = 0
    BY <1>3 DEF TransportError, LocalError, Fault, LockInv, remoteVars, TypeOK, CounterTypeOK, FaultKinds
  <2>2. CASE /\ pc[d] \in AcquirePcs /\ pc' = [pc EXCEPT ![d] = "idle"]
             /\ ctx' = [ctx EXCEPT ![d] = None]
    <3>1. pc'[d] = "idle" /\ \A e \in Devices : e # d => pc'[e] = pc[e] /\ ctx'[e] = ctx[e]
      BY <2>2, Others
    <3>2. pc[d] # "idle" /\ ~InLock(d) /\ ~InLock(d)'
      BY <2>2, <3>1 DEF InLock, AcquirePcs, CriticalPcs, ReleasePcs, PushPcs, PullPcs
    <3>3. QED  BY <2>1, <3>1, <3>2, LockStep
  <2>3. CASE pc[d] \in CriticalPcs /\ pc' = [pc EXCEPT ![d] = "releaseRead"] /\ ctx' = ctx
    <3>1. pc'[d] = "releaseRead" /\ \A e \in Devices : e # d => pc'[e] = pc[e] /\ ctx'[e] = ctx[e]
      BY <2>3, Others
    <3>2. pc[d] # "idle" /\ InLock(d) /\ InLock(d)'
      BY <2>3, <3>1 DEF InLock, CriticalPcs, ReleasePcs, PushPcs, PullPcs
    <3>3. QED  BY <2>1, <2>3, <3>1, <3>2, LockStep
  <2>4. QED
    BY <1>3, <2>2, <2>3 DEF TransportError, LocalError, CriticalPcs, PushPcs, PullPcs
<1>4. QED  BY <1>1, <1>2, <1>3

(* LockStays: LockInv is inductive.                                        *)
LEMMA LockStays ==
  ASSUME MaxFaults["crash"] = 0, OpBudget < TTL
  PROVE  Spec => []LockInv
<1>1. Init => LockInv
  BY DEF Init, LockInv, InFlight, InLock, CriticalPcs, ReleasePcs, PushPcs, PullPcs, FaultKinds
<1>2. TypeOK /\ TypeOK' /\ LockInv /\ [Next]_vars => LockInv'
  <2> SUFFICES ASSUME TypeOK, TypeOK', LockInv, [Next]_vars PROVE LockInv'
    OBVIOUS
  <2>1. CASE Tick
    <3>1. \A d \in Devices : InFlight(d) => ctx[d].now <= clock' /\ clock' <= ctx[d].now + OpBudget
      <4>1. TAKE d \in Devices
      <4>2. HAVE InFlight(d)
      <4>3. ctx[d] \in Frames  BY <4>2 DEF InFlight, TypeOK, ControlTypeOK, FrameTypeOK
      <4>4. ctx[d].now \in Nat /\ clock \in Nat  BY <4>3, FrameFields DEF TypeOK, CounterTypeOK
      <4>5. clock < ctx[d].now + OpBudget /\ clock' = clock + 1  BY <2>1, <4>2 DEF Tick
      <4>6. ctx[d].now <= clock  BY <4>2 DEF LockInv
      <4>7. QED  BY <4>4, <4>5, <4>6, TimeAssumption
    <3>2. QED  BY <2>1, <3>1 DEF Tick, LockInv, InFlight, InLock, remoteVars
  <2>2. ASSUME NEW d \in Devices,
               Step(d) \/ TransportError(d) \/ LocalError(d) \/ Crash(d) \/ Edit(d)
        PROVE  LockInv'
    BY <2>2, StartLock, AcquireLock, CriticalLock, ReleaseLock, FaultLock DEF Step
  <2>3. CASE UNCHANGED vars
    BY <2>3 DEF vars, LockInv, InFlight, InLock, remoteVars
  <2>4. QED  BY <2>1, <2>2, <2>3 DEF Next
<1>3. QED  BY <1>1, <1>2, TypeCorrect, PTL DEF Spec

(* LockExclusive: if no replica crashes and no operation outlives the TTL, *)
(* at most one replica at a time runs under with_s3_lock, whatever the     *)
(* number of replicas, the TTL and the bucket and local errors.            *)
THEOREM LockExclusive ==
  ASSUME MaxFaults["crash"] = 0, OpBudget < TTL
  PROVE  Spec => []MutualExclusion
<1>1. Spec => []LockInv  BY LockStays
<1>2. LockInv => MutualExclusion  BY DEF LockInv, MutualExclusion, InLock
<1>3. QED  BY <1>1, <1>2, PTL

-----------------------------------------------------------------------------
(* The head and every remembered snapshot are in the bucket, whatever      *)
(* crashes and errors happen, however long operations take and whether or  *)
(* not the lock excludes.                                                  *)

Ids == DOMAIN snaps

(* FrameMonotone: more snapshots in the bucket disturb no frame.           *)
LEMMA FrameMonotone ==
  ASSUME NEW I, NEW J, I \subseteq J, NEW p, NEW c, FrameInv(I, p, c)
  PROVE  FrameInv(J, p, c)
BY DEF FrameInv, SeenIn

(* FramesStep: one replica moves, and the frame it then has is in order.   *)
LEMMA FramesStep ==
  ASSUME TypeOK, SnapshotInv, NEW d \in Devices, NEW p, Ids \subseteq Ids',
         pc' = [pc EXCEPT ![d] = p],
         ctx' = ctx \/ \E c : ctx' = [ctx EXCEPT ![d] = c],
         p # "idle" => FrameInv(Ids', p, ctx'[d])
  PROVE  \A e \in Devices : InFlight(e)' => FrameInv(Ids', pc'[e], ctx'[e])
<1>1. TAKE e \in Devices
<1>2. HAVE InFlight(e)'
<1>3. CASE e = d
  BY <1>2, <1>3 DEF InFlight, TypeOK, ControlTypeOK
<1>4. CASE e # d
  <2>1. pc'[e] = pc[e] /\ ctx'[e] = ctx[e]  BY <1>4 DEF TypeOK, ControlTypeOK
  <2>2. FrameInv(Ids, pc[e], ctx[e])  BY <1>2, <2>1 DEF SnapshotInv, InFlight, Ids
  <2>3. QED  BY <2>1, <2>2, FrameMonotone
<1>5. QED  BY <1>3, <1>4

(* GotoFrame: moving on with the same frame to a step that asks for no     *)
(* more than the present one.                                              *)
LEMMA GotoFrame ==
  ASSUME SnapshotInv, NEW d \in Devices, NEW p, pc[d] # "idle",
         ctx[d].kind = "push" /\ p \in {"putHead", "writeSeen", "writeApplied"}
           => Target(ctx[d]) \in Ids,
         p \in {"applyRemoveDb", "applyCopyDb", "applyStore"} => SeenIn(Ids, ctx[d].bundle)
  PROVE  FrameInv(Ids, p, ctx[d])
BY DEF SnapshotInv, FrameInv, InFlight, Ids

(* StartSnapshots: a new frame holds what the vault and the head hold.     *)
LEMMA StartSnapshots ==
  ASSUME TypeOK, SnapshotInv, NEW d \in Devices,
         PushStart(d) \/ \E m \in PullModes : PullStart(d, m[1], m[2])
  PROVE  SnapshotInv'
<1>1. UNCHANGED <<head, snaps>> /\ db' = db
  BY DEF PushStart, PullStart, vaultVars
<1>2. Ids' = Ids  BY <1>1 DEF Ids
<1>3. \A e \in Devices : InFlight(e)' => FrameInv(Ids', pc'[e], ctx'[e])
  <2>1. CASE UNCHANGED <<pc, ctx>>
    BY <1>2, <2>1 DEF SnapshotInv, InFlight, Ids
  <2>2. ASSUME NEW p \in {"lockRead", "prePreview"}, NEW c,
               pc' = [pc EXCEPT ![d] = p], ctx' = [ctx EXCEPT ![d] = c],
               FrameInv(Ids, p, c)
        PROVE  \A e \in Devices : InFlight(e)' => FrameInv(Ids', pc'[e], ctx'[e])
    <3>1. ctx'[d] = c  BY <2>2 DEF TypeOK, ControlTypeOK
    <3>2. QED  BY <1>2, <2>2, <3>1, FramesStep
  <2>3. CASE PushStart(d)
    <3>1. FrameInv(Ids, "lockRead", PushFrame(d))
      BY DEF SnapshotInv, FrameInv, PushFrame, LocalManifest, Ids
    <3>2. QED  BY <2>1, <2>2, <2>3, <3>1 DEF PushStart
  <2>4. ASSUME NEW m \in PullModes, PullStart(d, m[1], m[2])
        PROVE  \A e \in Devices : InFlight(e)' => FrameInv(Ids', pc'[e], ctx'[e])
    <3>1. head # None  BY <2>4 DEF PullStart
    <3>2. \A p \in {"lockRead", "prePreview"} : FrameInv(Ids, p, PullFrame(d, m[1], m[2]))
      BY <3>1 DEF SnapshotInv, FrameInv, PullFrame, Ids
    <3>3. QED  BY <2>1, <2>2, <2>4, <3>2 DEF PullStart
  <2>5. QED  BY <2>3, <2>4
<1>4. QED  BY <1>1, <1>2, <1>3 DEF SnapshotInv, Ids

(* ControlSnapshots: steps that touch neither database, head nor snapshots.*)
LEMMA ControlSnapshots ==
  ASSUME TypeOK, SnapshotInv, NEW d \in Devices, NEW p, pc[d] # "idle",
         UNCHANGED <<head, snaps, db>>, pc' = [pc EXCEPT ![d] = p],
         \/ p = "idle" /\ ctx' = [ctx EXCEPT ![d] = None]
         \/ ctx' = ctx /\ p \notin {"putHead", "writeSeen", "writeApplied",
                                    "applyRemoveDb", "applyCopyDb", "applyStore"}
  PROVE  SnapshotInv'
<1>1. Ids' = Ids  BY DEF Ids
<1>2. p # "idle" => FrameInv(Ids', p, ctx'[d])
  BY <1>1, GotoFrame
<1>3. \A e \in Devices : InFlight(e)' => FrameInv(Ids', pc'[e], ctx'[e])
  BY <1>1, <1>2, FramesStep
<1>4. QED  BY <1>1, <1>3 DEF SnapshotInv, Ids

(* LockSnapshots: acquiring, releasing, previews and faults.               *)
LEMMA LockSnapshots ==
  ASSUME TypeOK, SnapshotInv, NEW d \in Devices,
         PullPreview(d) \/ LockRead(d) \/ LockDelete(d) \/ LockPut(d)
           \/ ReleaseRead(d) \/ ReleaseDelete(d)
           \/ TransportError(d) \/ LocalError(d) \/ Crash(d)
  PROVE  SnapshotInv'
<1>1. UNCHANGED <<head, snaps, db>> /\ pc[d] # "idle"
  BY DEF PullPreview, LockRead, LockDelete, LockPut, ReleaseRead, ReleaseDelete,
         TransportError, LocalError, Crash, InFlight, AcquirePcs, vaultVars, remoteVars
<1>2. CASE pc' = [pc EXCEPT ![d] = "idle"] /\ ctx' = [ctx EXCEPT ![d] = None]
  BY <1>1, <1>2, ControlSnapshots
<1>3. CASE \E p \in {"lockRead", "lockDelete", "lockPut", "recheck", "fetch",
                     "releaseRead", "releaseDelete"} :
             pc' = [pc EXCEPT ![d] = p] /\ ctx' = ctx
  BY <1>1, <1>3, ControlSnapshots
<1>4. QED
  <2>1. CASE PullPreview(d) \/ LockRead(d) \/ LockDelete(d) \/ LockPut(d)
               \/ ReleaseRead(d) \/ ReleaseDelete(d)
    BY <1>2, <1>3, <2>1
    DEF PullPreview, LockRead, LockDelete, LockPut, ReleaseRead, ReleaseDelete,
        Goto, Return, GotoWith
  <2>2. CASE TransportError(d) \/ LocalError(d) \/ Crash(d)
    BY <1>2, <1>3, <2>2 DEF TransportError, LocalError, Crash
  <2>3. QED  BY <2>1, <2>2

(* RecheckSnapshots: the head read under the lock is in the bucket.        *)
LEMMA RecheckSnapshots ==
  ASSUME TypeOK, SnapshotInv, NEW d \in Devices, Recheck(d)
  PROVE  SnapshotInv'
<1>1. UNCHANGED <<head, snaps>> /\ db' = db /\ pc[d] # "idle"
  BY DEF Recheck, vaultVars
<1>2. Ids' = Ids  BY <1>1 DEF Ids
<1>3. CASE Goto(d, "releaseRead")
  BY <1>1, <1>3, ControlSnapshots DEF Goto
<1>4. ASSUME NEW p \in {"preview", "fetch", "putSnapshot"}, NEW c,
             GotoWith(d, p, c), c = ctx[d] \/ (head # None /\ c = [ctx[d] EXCEPT !.head = head])
      PROVE  SnapshotInv'
  <2>1. ctx'[d] = c  BY <1>4 DEF GotoWith, TypeOK, ControlTypeOK
  <2>2. FrameInv(Ids, p, ctx[d])  BY <1>1, GotoFrame
  <2>3. ctx[d] \in Frames  BY <1>1 DEF TypeOK, ControlTypeOK, FrameTypeOK
  <2>4. FrameInv(Ids, p, c)
    <3>1. CASE c = ctx[d]  BY <2>2, <3>1
    <3>2. CASE head # None /\ c = [ctx[d] EXCEPT !.head = head]
      <4>1. c.kind = ctx[d].kind /\ c.bundle = ctx[d].bundle /\ c.manifest = ctx[d].manifest
            /\ c.head = head
        BY <2>3, <3>2 DEF Frames
      <4>2. head.id \in Ids /\ head.manifest = head.id.manifest
        BY <3>2 DEF SnapshotInv, Ids
      <4>3. QED  BY <2>2, <4>1, <4>2 DEF FrameInv
    <3>3. QED  BY <1>4, <3>1, <3>2
  <2>5. \A e \in Devices : InFlight(e)' => FrameInv(Ids', pc'[e], ctx'[e])
    BY <1>2, <1>4, <2>1, <2>4, FramesStep DEF GotoWith
  <2>6. QED  BY <1>1, <1>2, <2>5 DEF SnapshotInv, Ids
<1>5. QED
  <2> DEFINE c2 == IF ctx[d].kind = "pull" THEN [ctx[d] EXCEPT !.head = head] ELSE ctx[d]
  <2>1. CASE GotoWith(d, "preview", c2) /\ (ctx[d].kind = "pull" => head # None)
    BY <1>4, <2>1
  <2>2. CASE GotoWith(d, "fetch", c2) /\ (ctx[d].kind = "pull" => head # None)
    BY <1>4, <2>2
  <2>3. CASE GotoWith(d, "putSnapshot", c2) /\ (ctx[d].kind = "pull" => head # None)
    BY <1>4, <2>3
  <2>4. QED  BY <1>3, <2>1, <2>2, <2>3 DEF Recheck

(* PutSnapshots: the upload adds an id and keeps every other snapshot; it  *)
(* may only replace one whose revision is the same.                        *)
LEMMA PutSnapshots ==
  ASSUME TypeOK, SnapshotInv, NEW d \in Devices, PutSnapshot(d)
  PROVE  SnapshotInv'
<1>1. /\ UNCHANGED <<head, db, ctx>> /\ pc[d] = "putSnapshot"
      /\ pc' = [pc EXCEPT ![d] = "putHead"]
  BY DEF PutSnapshot, Goto, vaultVars
<1>2. FrameInv(Ids, pc[d], ctx[d]) /\ ctx[d].kind = "push"
  BY <1>1 DEF SnapshotInv, InFlight, Ids, TypeOK, ControlTypeOK, FrameTypeOK, PushPcs
<1>3. /\ Ids' = Ids \cup {Target(ctx[d])}
      /\ \A i \in Ids' : snaps'[i] = IF i = Target(ctx[d]) THEN ctx[d].bundle ELSE snaps[i]
  BY DEF PutSnapshot, Ids
<1>4. Target(ctx[d]).manifest = ctx[d].manifest
  BY <1>2 DEF Target, SnapshotIdForManifest
<1>5. \A i \in Ids' : SeenIn(Ids', snaps'[i]) /\ snaps'[i].rev = i.manifest.rev
  BY <1>2, <1>3, <1>4 DEF SnapshotInv, FrameInv, SeenIn, Ids
<1>6. FrameInv(Ids', "putHead", ctx'[d])
  BY <1>1, <1>2, <1>3 DEF FrameInv, SeenIn
<1>7. \A e \in Devices : InFlight(e)' => FrameInv(Ids', pc'[e], ctx'[e])
  BY <1>1, <1>3, <1>6, FramesStep
<1>8. QED  BY <1>1, <1>3, <1>5, <1>7 DEF SnapshotInv, SeenIn, Ids

(* PutHeadSnapshots: the head names the snapshot just uploaded.            *)
LEMMA PutHeadSnapshots ==
  ASSUME TypeOK, SnapshotInv, NEW d \in Devices, PutHead(d)
  PROVE  SnapshotInv'
<1>1. /\ UNCHANGED <<snaps, db, ctx>> /\ pc[d] = "putHead"
      /\ pc' = [pc EXCEPT ![d] = "writeSeen"]
      /\ head' = [id |-> Target(ctx[d]), manifest |-> ctx[d].manifest,
                  trust |-> FingerprintOf[d], signer |-> SignerOf[d]]
  BY DEF PutHead, Goto, vaultVars
<1>2. FrameInv(Ids, pc[d], ctx[d]) /\ ctx[d].kind = "push"
  BY <1>1 DEF SnapshotInv, InFlight, Ids, TypeOK, ControlTypeOK, FrameTypeOK, PushPcs
<1>3. Ids' = Ids /\ Target(ctx[d]) \in Ids /\ Target(ctx[d]).manifest = ctx[d].manifest
  BY <1>1, <1>2 DEF Ids, FrameInv, Target, SnapshotIdForManifest
<1>4. FrameInv(Ids, "writeSeen", ctx[d])
  BY <1>1, <1>3, GotoFrame
<1>5. \A e \in Devices : InFlight(e)' => FrameInv(Ids', pc'[e], ctx'[e])
  BY <1>1, <1>3, <1>4, FramesStep
<1>6. QED  BY <1>1, <1>3, <1>5 DEF SnapshotInv, Ids

(* FetchSnapshots: what is fetched is a snapshot of the bucket.            *)
LEMMA FetchSnapshots ==
  ASSUME TypeOK, SnapshotInv, NEW d \in Devices, Fetch(d)
  PROVE  SnapshotInv'
<1>1. UNCHANGED <<head, snaps, db>> /\ pc[d] = "fetch" /\ Ids' = Ids
  BY DEF Fetch, vaultVars, remoteVars, Ids
<1>2. CASE Goto(d, "releaseRead")
  BY <1>1, <1>2, ControlSnapshots DEF Goto
<1>3. ASSUME Target(ctx[d]) \in Ids,
             GotoWith(d, "applyRemoveDb", [ctx[d] EXCEPT !.bundle = snaps[Target(ctx[d])]])
      PROVE  SnapshotInv'
  <2> DEFINE b == snaps[Target(ctx[d])]
             c == [ctx[d] EXCEPT !.bundle = b]
  <2>1. ctx'[d] = c  BY <1>3 DEF GotoWith, TypeOK, ControlTypeOK
  <2>2. ctx[d] \in Frames /\ ctx[d].kind = "pull"
    BY <1>1 DEF TypeOK, ControlTypeOK, FrameTypeOK, PullPcs
  <2>3. c.kind = "pull" /\ c.head = ctx[d].head /\ c.bundle = b
    BY <2>2 DEF Frames
  <2>4. SeenIn(Ids, b)  BY <1>3 DEF SnapshotInv, Ids
  <2>5. FrameInv(Ids, pc[d], ctx[d])  BY <1>1 DEF SnapshotInv, InFlight, Ids
  <2>6. FrameInv(Ids, "applyRemoveDb", c)
    BY <2>2, <2>3, <2>4, <2>5 DEF FrameInv
  <2>7. \A e \in Devices : InFlight(e)' => FrameInv(Ids', pc'[e], ctx'[e])
    BY <1>1, <1>3, <2>1, <2>6, FramesStep DEF GotoWith
  <2>8. QED  BY <1>1, <2>7 DEF SnapshotInv, Ids
<1>4. QED  BY <1>2, <1>3 DEF Fetch, Ids

(* VaultSnapshots: steps that replace one database by one whose seen row   *)
(* is in order, and move on with the same frame.                           *)
LEMMA VaultSnapshots ==
  ASSUME TypeOK, SnapshotInv, NEW d \in Devices, NEW p, NEW b, pc[d] # "idle",
         UNCHANGED <<head, snaps, ctx>>, pc' = [pc EXCEPT ![d] = p],
         db' = [db EXCEPT ![d] = b], SeenIn(Ids, b), FrameInv(Ids, p, ctx[d])
  PROVE  SnapshotInv'
<1>1. Ids' = Ids  BY DEF Ids
<1>2. \A e \in Devices : SeenIn(Ids', db'[e])
  <2>1. TAKE e \in Devices
  <2>2. db'[e] = IF e = d THEN b ELSE db[e]  BY DEF TypeOK, VaultTypeOK
  <2>3. QED  BY <1>1, <2>2 DEF SnapshotInv, Ids
<1>3. \A e \in Devices : InFlight(e)' => FrameInv(Ids', pc'[e], ctx'[e])
  BY <1>1, FramesStep
<1>4. QED  BY <1>1, <1>2, <1>3 DEF SnapshotInv, Ids

(* ApplySnapshots: the pulled database brings the seen row of its pusher.  *)
LEMMA ApplySnapshots ==
  ASSUME TypeOK, SnapshotInv, NEW d \in Devices, Apply(d)
  PROVE  SnapshotInv'
<1>1. /\ UNCHANGED <<head, snaps, ctx>>
      /\ pc[d] \in {"applyRemoveDb", "applyCopyDb", "applyStore"}
  BY DEF Apply, Goto, remoteVars
<1>2. FrameInv(Ids, pc[d], ctx[d]) /\ ctx[d].kind = "pull" /\ SeenIn(Ids, ctx[d].bundle)
  BY <1>1 DEF SnapshotInv, FrameInv, InFlight, Ids, TypeOK, ControlTypeOK, FrameTypeOK, PullPcs
<1>3. \A p \in {"applyCopyDb", "applyStore", "writeSeen"} : FrameInv(Ids, p, ctx[d])
  BY <1>1, <1>2, GotoFrame
<1>4. CASE pc[d] = "applyRemoveDb"
  <2>1. db' = [db EXCEPT ![d] = EmptyDb(rev + 1)] /\ pc' = [pc EXCEPT ![d] = "applyCopyDb"]
    BY <1>4 DEF Apply, ApplyRemoveDb, Goto
  <2>2. SeenIn(Ids, EmptyDb(rev + 1))  BY DEF SeenIn, EmptyDb
  <2>3. QED  BY <1>1, <1>3, <2>1, <2>2, VaultSnapshots
<1>5. CASE pc[d] = "applyCopyDb"
  <2>1. db' = [db EXCEPT ![d] = ctx[d].bundle] /\ pc' = [pc EXCEPT ![d] = "applyStore"]
    BY <1>5 DEF Apply, ApplyCopyDb, Goto
  <2>2. QED  BY <1>1, <1>2, <1>3, <2>1, VaultSnapshots
<1>6. CASE pc[d] = "applyStore"
  <2>1. db' = [db EXCEPT ![d] = db[d]] /\ pc' = [pc EXCEPT ![d] = "writeSeen"]
    BY <1>6 DEF Apply, ApplyStore, Goto, TypeOK, VaultTypeOK
  <2>2. SeenIn(Ids, db[d])  BY DEF SnapshotInv, Ids
  <2>3. QED  BY <1>1, <1>3, <2>1, <2>2, VaultSnapshots
<1>7. QED  BY <1>1, <1>4, <1>5, <1>6

(* PutDbSeen: what PutDb writes, as far as the seen row goes.              *)
LEMMA PutDbSeen ==
  ASSUME NEW d \in Devices, NEW b \in Dbs, PutDb(d, b)
  PROVE  \E w : db' = [db EXCEPT ![d] = w] /\ w.seen = b.seen
<1> DEFINE w == [b EXCEPT !.rev = rev + 1]
<1>1. db' = [db EXCEPT ![d] = w]  BY DEF PutDb
<1>2. w.seen = b.seen  BY DEF Dbs
<1> HIDE DEF w
<1>3. QED  BY <1>1, <1>2

(* RecordSnapshots: the seen row is written after the snapshot is stored   *)
(* (push) or for the head read under the lock (pull).                      *)
LEMMA RecordSnapshots ==
  ASSUME TypeOK, SnapshotInv, NEW d \in Devices, RecordState(d)
  PROVE  SnapshotInv'
<1>1. UNCHANGED <<head, snaps, ctx>> /\ pc[d] \in {"writeSeen", "writeApplied"}
  BY DEF RecordState, Goto, remoteVars
<1>2. /\ FrameInv(Ids, pc[d], ctx[d]) /\ ctx[d] \in Frames
      /\ ctx[d].kind = "pull" => ctx[d].head \in Heads
  BY <1>1 DEF SnapshotInv, InFlight, Ids, TypeOK, ControlTypeOK, FrameTypeOK
<1>3. Target(ctx[d]) \in Ids
  BY <1>1, <1>2 DEF FrameInv, Target, Frames
<1>4. \A p \in {"writeApplied", "releaseRead"} : FrameInv(Ids, p, ctx[d])
  BY <1>1, <1>3, GotoFrame
<1>5. db[d] \in Dbs /\ SeenIn(Ids, db[d])
  BY DEF TypeOK, VaultTypeOK, SnapshotInv, Ids
<1>6. CASE pc[d] = "writeSeen"
  <2> DEFINE b == [db[d] EXCEPT !.seen = Target(ctx[d])]
  <2>1. PutDb(d, b) /\ pc' = [pc EXCEPT ![d] = "writeApplied"]
    BY <1>6 DEF RecordState, WriteSeen, Goto
  <2>2. b \in Dbs /\ b.seen = Target(ctx[d])
    BY <1>3, <1>5 DEF Dbs, Ids, TypeOK, RemoteTypeOK
  <2>3. PICK w : db' = [db EXCEPT ![d] = w] /\ w.seen = b.seen
    BY <2>1, <2>2, PutDbSeen
  <2>4. SeenIn(Ids, w)  BY <1>3, <2>2, <2>3 DEF SeenIn
  <2>5. QED  BY <1>1, <1>4, <2>1, <2>3, <2>4, VaultSnapshots
<1>7. CASE pc[d] = "writeApplied"
  <2> DEFINE b == [db[d] EXCEPT !.applied = TargetManifest(ctx[d])]
  <2>1. PutDb(d, b) /\ pc' = [pc EXCEPT ![d] = "releaseRead"]
    BY <1>7 DEF RecordState, WriteApplied, Goto
  <2>2. TargetManifest(ctx[d]) \in Manifests
    BY <1>2 DEF TargetManifest, Frames, Heads
  <2>3. b \in Dbs /\ b.seen = db[d].seen
    BY <1>5, <2>2 DEF Dbs
  <2>4. PICK w : db' = [db EXCEPT ![d] = w] /\ w.seen = b.seen
    BY <2>1, <2>3, PutDbSeen
  <2>5. SeenIn(Ids, w)  BY <1>5, <2>3, <2>4 DEF SeenIn
  <2>6. QED  BY <1>1, <1>4, <2>1, <2>4, <2>5, VaultSnapshots
<1>8. QED  BY <1>1, <1>6, <1>7

(* EditSnapshots: ingest and lineage edits leave the seen row alone.       *)
LEMMA EditSnapshots ==
  ASSUME TypeOK, SnapshotInv, NEW d \in Devices, Edit(d)
  PROVE  SnapshotInv'
<1>1. UNCHANGED <<head, snaps, pc, ctx>> /\ Ids' = Ids
  BY DEF Edit, remoteVars, Ids
<1>2. db[d] \in Dbs  BY DEF TypeOK, VaultTypeOK
<1>3. \E b \in Dbs : PutDb(d, b) /\ b.seen = db[d].seen
  <2>1. CASE AddObject(d)
    <3>1. PICK o \in Objects : PutDb(d, [db[d] EXCEPT !.objects = @ \cup {o}])
      BY <2>1 DEF AddObject
    <3>2. QED  BY <1>2, <3>1 DEF Dbs
  <2>2. CASE AddOverlay(d)
    <3>1. PICK v \in Overlays : PutDb(d, [db[d] EXCEPT !.overlays = @ \cup {v}])
      BY <2>2 DEF AddOverlay
    <3>2. QED  BY <1>2, <3>1 DEF Dbs
  <2>3. CASE RemoveOverlay(d)
    <3>1. PICK v : PutDb(d, [db[d] EXCEPT !.overlays = @ \ {v}])
      BY <2>3 DEF RemoveOverlay
    <3>2. QED  BY <1>2, <3>1 DEF Dbs
  <2>4. QED  BY <2>1, <2>2, <2>3 DEF Edit
<1>4. PICK w : db' = [db EXCEPT ![d] = w] /\ w.seen = db[d].seen
  BY <1>3, PutDbSeen
<1>5. \A e \in Devices : db'[e].seen = db[e].seen
  BY <1>4 DEF TypeOK, VaultTypeOK
<1>6. \A e \in Devices : SeenIn(Ids', db'[e])
  BY <1>1, <1>5 DEF SnapshotInv, SeenIn, Ids
<1>7. QED  BY <1>1, <1>6 DEF SnapshotInv, InFlight, Ids

(* SnapshotStep: SnapshotInv is inductive.                                 *)
LEMMA SnapshotStep ==
  ASSUME TypeOK, SnapshotInv, [Next]_vars
  PROVE  SnapshotInv'
<1>1. CASE UNCHANGED vars
  BY <1>1 DEF vars, vaultVars, remoteVars, SnapshotInv, InFlight
<1>2. CASE Tick
  BY <1>2 DEF Tick, vaultVars, remoteVars, SnapshotInv, InFlight
<1>3. ASSUME NEW d \in Devices, Step(d)
      PROVE  SnapshotInv'
  BY <1>3, StartSnapshots, LockSnapshots, RecheckSnapshots, PutSnapshots,
     PutHeadSnapshots, FetchSnapshots, ApplySnapshots, RecordSnapshots DEF Step
<1>4. ASSUME NEW d \in Devices, TransportError(d) \/ LocalError(d) \/ Crash(d) \/ Edit(d)
      PROVE  SnapshotInv'
  BY <1>4, LockSnapshots, EditSnapshots
<1>5. QED  BY <1>1, <1>2, <1>3, <1>4 DEF Next

(* SnapshotsStay: the invariant holds in every reachable state.            *)
LEMMA SnapshotsStay == Spec => []SnapshotInv
<1>1. Init => SnapshotInv
  BY DEF Init, VaultInit, EmptyDb, SnapshotInv, SeenIn, InFlight
<1>2. TypeOK /\ SnapshotInv /\ [Next]_vars => SnapshotInv'
  BY SnapshotStep
<1>3. QED  BY <1>1, <1>2, TypeCorrect, PTL DEF Spec

(* HeadIsHeld: for any number of replicas, any faults, any operation       *)
(* length and any lock TTL, head.json always names an uploaded snapshot    *)
(* whose manifest it repeats: the order in which sync_push_s3_target       *)
(* uploads, publishes and records needs no help from the lock.             *)
THEOREM HeadIsHeld == Spec => []HeadHasSnapshot
<1>1. SnapshotInv => HeadHasSnapshot  BY DEF SnapshotInv, HeadHasSnapshot
<1>2. QED  BY <1>1, SnapshotsStay, PTL

(* MergeBaseIsHeld: and the snapshot that a replica remembers, the base of *)
(* its next merge preview, is in the bucket.                               *)
THEOREM MergeBaseIsHeld == Spec => []SeenHasSnapshot
<1>1. SnapshotInv => SeenHasSnapshot  BY DEF SnapshotInv, SeenHasSnapshot, SeenIn
<1>2. QED  BY <1>1, SnapshotsStay, PTL

-----------------------------------------------------------------------------
(* What the steps of a replica do to databases, snapshots and the head.    *)

(* The databases that are around.  Equal revisions mean equal databases,   *)
(* and a manifest is recorded as applied by a later write.                 *)
Held ==
  {db[d] : d \in Devices}
  \cup {ctx[d].bundle : d \in {e \in Devices : InFlight(e) /\ ctx[e].bundle # None}}
  \cup {snaps[i] : i \in DOMAIN snaps}
AppliedBefore(b) == b.applied # None => b.applied.rev < b.rev
RevisionInv == RevisionsName(Held) /\ \A b \in Held : AppliedBefore(b)

(* What a replica has read of the head is the head for as long as it holds *)
(* the lock: the head it pulls or has pushed, and the one it compared its  *)
(* own fingerprint with.                                                   *)
ViewInv ==
  \A d \in Devices :
    /\ pc[d] \in PullPcs \cup {"writeSeen"} => head # None /\ head.id = Target(ctx[d])
    /\ pc[d] \in PushPcs /\ head # None => head.trust = FingerprintOf[d]

(* A database that remembers a head also says what was applied; between    *)
(* the two rows of an operation it may not.                                *)
Paired(b) == b.seen # None => b.applied # None
PairInv ==
  /\ faults["local"] = 0
  /\ \A i \in DOMAIN snaps : Paired(snaps[i])
  /\ \A d \in Devices : pc[d] # "writeApplied" => Paired(db[d])
  /\ \A d \in Devices : InFlight(d) =>
       /\ ctx[d].bundle # None => Paired(ctx[d].bundle)
       /\ ctx[d].kind = "push" => /\ ctx[d].seen = ctx[d].bundle.seen
                                  /\ ctx[d].applied = ctx[d].bundle.applied

(* The steps at which a replica's database has the seen row it had at the  *)
(* start of the operation; and the head a push replaces is the one seen.   *)
SeenPcs(kind) ==
  AcquirePcs \cup PushPcs \cup {"recheck", "preview", "fetch", "applyRemoveDb"}
  \cup (IF kind = "push" THEN {"writeSeen"} ELSE {})
BasisInv ==
  \A d \in Devices :
    /\ InFlight(d) /\ pc[d] \in SeenPcs(ctx[d].kind) => db[d].seen = ctx[d].seen
    /\ pc[d] \in PushPcs /\ head # None => ctx[d].seen \in {None, head.id}

(* Nobody remembers a head before there is one.                            *)
FirstInv == head = None => \A b \in Held : b.seen = None
S3AllInv == RevisionInv /\ ViewInv /\ PairInv /\ BasisInv /\ FirstInv

(* Only replica d moves.                                                   *)
Alone(d) ==
  \A e \in Devices : e # d => db'[e] = db[e] /\ pc'[e] = pc[e] /\ ctx'[e] = ctx[e]
Reads == UNCHANGED <<db, rev, head, snaps>>

Begins(d) ==
  /\ Reads /\ pc[d] = "idle" /\ pc'[d] \in {"prePreview", "lockRead"}
  /\ \/ ctx'[d] = PushFrame(d)
     \/ \E m \in PullModes : ctx'[d] = PullFrame(d, m[1], m[2])
Ends(d) ==
  /\ Reads /\ pc'[d] = "idle" /\ ctx'[d] = None
  /\ pc[d] \in AcquirePcs \cup ReleasePcs \/ faults'["crash"] # 0
Moves(d) ==
  /\ Reads /\ ctx'[d] = ctx[d]
  /\ \/ pc[d] = "idle" /\ pc'[d] = "idle"
     \/ pc[d] \in AcquirePcs /\ pc'[d] \in AcquirePcs \cup {"recheck"}
     \/ pc[d] = "preview" /\ pc'[d] = "fetch"
     \/ /\ pc[d] \in {"recheck", "preview", "fetch"} \cup PushPcs \cup ReleasePcs
        /\ pc'[d] \in ReleasePcs
     \/ pc[d] = "writeSeen" /\ ctx[d].kind = "push" /\ pc'[d] = "releaseRead"
     \/ pc[d] # "idle" /\ faults'["local"] # 0 /\ pc'[d] = "releaseRead"
Admits(d) ==
  /\ Reads /\ pc[d] = "recheck" /\ TrustMatches(d, head)
  /\ \/ /\ ctx[d].kind = "push" /\ pc'[d] = "putSnapshot" /\ ctx'[d] = ctx[d]
        /\ ~ShouldConflict(head, ctx[d].seen, ctx[d].applied, ctx[d].manifest)
     \/ /\ ctx[d].kind = "pull" /\ pc'[d] \in {"preview", "fetch"} /\ head # None
        /\ ctx'[d] = [ctx[d] EXCEPT !.head = head]
Uploads(d) ==
  /\ UNCHANGED <<db, rev, head>> /\ PutSnapshot(d) /\ pc'[d] = "putHead" /\ ctx'[d] = ctx[d]
Publishes(d) ==
  /\ UNCHANGED <<db, rev, snaps>> /\ PutHead(d) /\ pc'[d] = "writeSeen" /\ ctx'[d] = ctx[d]
Fetches(d) ==
  /\ Reads /\ pc[d] = "fetch" /\ pc'[d] = "applyRemoveDb"
  /\ Target(ctx[d]) \in DOMAIN snaps
  /\ ctx'[d] = [ctx[d] EXCEPT !.bundle = snaps[Target(ctx[d])]]
Installs(d) ==
  /\ UNCHANGED <<head, snaps>> /\ ctx'[d] = ctx[d]
  /\ \/ /\ pc[d] = "applyRemoveDb" /\ pc'[d] = "applyCopyDb"
        /\ rev' = rev + 1 /\ db'[d] = EmptyDb(rev + 1)
     \/ pc[d] = "applyCopyDb" /\ pc'[d] = "applyStore" /\ rev' = rev /\ db'[d] = ctx[d].bundle
     \/ pc[d] = "applyStore" /\ pc'[d] = "writeSeen" /\ rev' = rev /\ db'[d] = db[d]
Records(d) ==
  /\ UNCHANGED <<head, snaps>> /\ ctx'[d] = ctx[d] /\ Wrote(d)
  /\ \/ /\ pc[d] = "writeSeen" /\ pc'[d] = "writeApplied"
        /\ db'[d].seen = Target(ctx[d]) /\ db'[d].applied = db[d].applied
     \/ /\ pc[d] = "writeApplied" /\ pc'[d] = "releaseRead"
        /\ db'[d].seen = db[d].seen /\ db'[d].applied = TargetManifest(ctx[d])
Edits(d) ==
  /\ UNCHANGED <<head, snaps, faults>> /\ pc'[d] = pc[d] /\ ctx'[d] = ctx[d] /\ Wrote(d)
  /\ db'[d].seen = db[d].seen /\ db'[d].applied = db[d].applied
  /\ pc[d] # "applyCopyDb"

(* StartEffect: an operation begins with its frame, or a conflict is       *)
(* recorded.                                                               *)
LEMMA StartEffect ==
  ASSUME TypeOK, NEW d \in Devices,
         PushStart(d) \/ \E m \in PullModes : PullStart(d, m[1], m[2])
  PROVE  Alone(d) /\ (Begins(d) \/ Moves(d))
<1>1. Reads /\ pc[d] = "idle"  BY DEF PushStart, PullStart, Start, vaultVars, Reads
<1>2. CASE UNCHANGED <<pc, ctx>>  BY <1>1, <1>2 DEF Alone, Moves, Reads
<1>3. ASSUME NEW p \in {"prePreview", "lockRead"}, NEW c, pc' = [pc EXCEPT ![d] = p],
             ctx' = [ctx EXCEPT ![d] = c],
             c = PushFrame(d) \/ \E m \in PullModes : c = PullFrame(d, m[1], m[2])
      PROVE  Alone(d) /\ Begins(d)
  <2>1. pc'[d] = p /\ ctx'[d] = c  BY <1>3 DEF TypeOK, ControlTypeOK
  <2>2. Alone(d)  BY <1>1, <1>3, Others DEF Alone, Reads
  <2>3. QED  BY <1>1, <1>3, <2>1, <2>2 DEF Begins
<1>4. CASE PushStart(d)  BY <1>2, <1>3, <1>4 DEF PushStart
<1>5. ASSUME NEW m \in PullModes, PullStart(d, m[1], m[2]) PROVE Alone(d) /\ (Begins(d) \/ Moves(d))
  BY <1>2, <1>3, <1>5 DEF PullStart
<1>6. QED  BY <1>4, <1>5

(* StepTo: one replica moves to step p, and its frame is as said.          *)
LEMMA StepTo ==
  ASSUME TypeOK, NEW d \in Devices, NEW p, Goto(d, p), UNCHANGED db
  PROVE  Alone(d) /\ pc'[d] = p /\ ctx'[d] = ctx[d] /\ UNCHANGED faults
BY DEF Goto, Alone, TypeOK, ControlTypeOK

(* StepWith: the same with a new frame.                                    *)
LEMMA StepWith ==
  ASSUME TypeOK, NEW d \in Devices, NEW p, NEW c, GotoWith(d, p, c), UNCHANGED db
  PROVE  Alone(d) /\ pc'[d] = p /\ ctx'[d] = c /\ UNCHANGED faults
BY DEF GotoWith, Alone, TypeOK, ControlTypeOK

(* LockEffect: acquiring and releasing reads and changes nothing else.     *)
LEMMA LockEffect ==
  ASSUME TypeOK, NEW d \in Devices,
         PullPreview(d) \/ LockRead(d) \/ LockDelete(d) \/ LockPut(d)
         \/ ReleaseRead(d) \/ ReleaseDelete(d)
  PROVE  Alone(d) /\ (Moves(d) \/ Ends(d))
<1>1. Reads
  BY DEF PullPreview, LockRead, LockDelete, LockPut, ReleaseRead, ReleaseDelete, Reads, vaultVars, remoteVars
<1>2. UNCHANGED db  BY <1>1 DEF Reads
<1>3. ASSUME NEW p \in AcquirePcs \cup {"recheck"}, pc[d] \in AcquirePcs, Goto(d, p)
      PROVE  Alone(d) /\ Moves(d)
  BY <1>1, <1>2, <1>3, StepTo DEF Moves
<1>4. ASSUME pc[d] \in AcquirePcs \cup ReleasePcs, Return(d) PROVE Alone(d) /\ Ends(d)
  BY <1>1, <1>2, <1>4, StepWith DEF Ends, Return
<1>5. ASSUME pc[d] = "preview", Goto(d, "fetch") PROVE Alone(d) /\ Moves(d)
  BY <1>1, <1>2, <1>5, StepTo DEF Moves
<1>6. ASSUME NEW p \in ReleasePcs, pc[d] \in {"preview"} \cup ReleasePcs, Goto(d, p) PROVE Alone(d) /\ Moves(d)
  BY <1>1, <1>2, <1>6, StepTo DEF Moves
<1>7. CASE PullPreview(d)
  BY <1>3, <1>4, <1>5, <1>6, <1>7 DEF PullPreview, AcquirePcs, ReleasePcs
<1>8. CASE LockRead(d) \/ LockDelete(d) \/ LockPut(d)
  BY <1>3, <1>4, <1>8 DEF LockRead, LockDelete, LockPut, AcquirePcs
<1>9. CASE ReleaseRead(d) \/ ReleaseDelete(d)
  BY <1>4, <1>6, <1>9 DEF ReleaseRead, ReleaseDelete, ReleasePcs
<1>10. QED  BY <1>7, <1>8, <1>9

(* CheckEffect: the second look at the head.                               *)
LEMMA CheckEffect ==
  ASSUME TypeOK, NEW d \in Devices, Recheck(d)
  PROVE  Alone(d) /\ (Moves(d) \/ Admits(d))
<1>1. Reads /\ pc[d] = "recheck" /\ UNCHANGED db  BY DEF Recheck, Reads, vaultVars
<1>2. ctx[d] \in Frames /\ ctx[d].kind \in {"push", "pull"} /\ (ctx[d].kind = "push" => ctx[d].merge = "none")
  BY <1>1, FrameFields DEF TypeOK, ControlTypeOK, FrameTypeOK
<1>3. CASE Goto(d, "releaseRead")
  BY <1>1, <1>3, StepTo DEF Moves, ReleasePcs
<1>4. ASSUME TrustMatches(d, head), ctx[d].kind = "pull", head # None, NEW p \in {"preview", "fetch"},
             GotoWith(d, p, [ctx[d] EXCEPT !.head = head])
      PROVE  Alone(d) /\ Admits(d)
  BY <1>1, <1>4, StepWith DEF Admits
<1>5. ASSUME TrustMatches(d, head), ctx[d].kind = "push", GotoWith(d, "putSnapshot", ctx[d]),
             ~ShouldConflict(head, ctx[d].seen, ctx[d].applied, ctx[d].manifest)
      PROVE  Alone(d) /\ Admits(d)
  BY <1>1, <1>5, StepWith DEF Admits
<1>6. CASE ctx[d].kind = "push"
  BY <1>2, <1>3, <1>5, <1>6 DEF Recheck
<1>7. CASE ctx[d].kind = "pull"
  BY <1>2, <1>3, <1>4, <1>7 DEF Recheck
<1>8. QED  BY <1>2, <1>6, <1>7

(* RemoteEffect: uploading, publishing and fetching.                       *)
LEMMA RemoteEffect ==
  ASSUME TypeOK, NEW d \in Devices, PutSnapshot(d) \/ PutHead(d) \/ Fetch(d)
  PROVE  Alone(d) /\ (Uploads(d) \/ Publishes(d) \/ Fetches(d) \/ Moves(d))
<1>1. CASE PutSnapshot(d)
  <2>1. UNCHANGED <<db, rev, head>> /\ Goto(d, "putHead")  BY <1>1 DEF PutSnapshot, vaultVars
  <2>2. QED  BY <1>1, <2>1, StepTo DEF Uploads
<1>2. CASE PutHead(d)
  <2>1. UNCHANGED <<db, rev, snaps>> /\ Goto(d, "writeSeen")  BY <1>2 DEF PutHead, vaultVars
  <2>2. QED  BY <1>2, <2>1, StepTo DEF Publishes
<1>3. CASE Fetch(d)
  <2>1. Reads /\ UNCHANGED db /\ pc[d] = "fetch"  BY <1>3 DEF Fetch, Reads, vaultVars, remoteVars
  <2>2. CASE Goto(d, "releaseRead")  BY <2>1, <2>2, StepTo DEF Moves, ReleasePcs
  <2>3. CASE /\ Target(ctx[d]) \in DOMAIN snaps
             /\ GotoWith(d, "applyRemoveDb", [ctx[d] EXCEPT !.bundle = snaps[Target(ctx[d])]])
    BY <2>1, <2>3, StepWith DEF Fetches
  <2>4. QED  BY <1>3, <2>2, <2>3 DEF Fetch
<1>4. QED  BY <1>1, <1>2, <1>3

(* VaultEffect: what changes the database of the replica.                  *)
LEMMA VaultEffect ==
  ASSUME TypeOK, NEW d \in Devices, Apply(d) \/ RecordState(d) \/ Edit(d)
  PROVE  Alone(d) /\ (Installs(d) \/ Records(d) \/ Edits(d))
<1>1. db \in [Devices -> Dbs] /\ VaultTypeOK  BY DEF TypeOK, VaultTypeOK
<1>2. CASE Edit(d)
  <2>1. UNCHANGED <<head, snaps, pc, ctx, faults>> /\ pc[d] # "applyCopyDb"
    BY <1>2 DEF Edit, remoteVars, InFlight
  <2>2. Wrote(d) /\ db'[d].seen = db[d].seen /\ db'[d].applied = db[d].applied
    BY <1>1, <1>2, EditWrites DEF Edit
  <2>3. QED  BY <2>1, <2>2 DEF Alone, Wrote, Edits
<1>3. ASSUME NEW p, Goto(d, p)
      PROVE  /\ pc'[d] = p /\ ctx'[d] = ctx[d]
             /\ \A e \in Devices : e # d => pc'[e] = pc[e] /\ ctx'[e] = ctx[e]
  BY <1>3 DEF Goto, TypeOK, ControlTypeOK
<1>4. CASE Apply(d)
  <2>1. UNCHANGED <<head, snaps>>  BY <1>4 DEF Apply, remoteVars
  <2>2. CASE pc[d] = "applyRemoveDb"
    <3>1. Goto(d, "applyCopyDb") /\ ApplyRemoveDb(d)  BY <1>4, <2>2 DEF Apply
    <3>2. rev' = rev + 1 /\ db'[d] = EmptyDb(rev + 1) /\ \A e \in Devices : e # d => db'[e] = db[e]
      BY <1>1, <3>1 DEF ApplyRemoveDb
    <3>3. QED  BY <1>3, <2>1, <2>2, <3>1, <3>2 DEF Alone, Installs
  <2>3. CASE pc[d] = "applyCopyDb"
    <3>1. Goto(d, "applyStore") /\ ApplyCopyDb(d, ctx[d].bundle)  BY <1>4, <2>3 DEF Apply
    <3>2. rev' = rev /\ db'[d] = ctx[d].bundle /\ \A e \in Devices : e # d => db'[e] = db[e]
      BY <1>1, <3>1 DEF ApplyCopyDb
    <3>3. QED  BY <1>3, <2>1, <2>3, <3>1, <3>2 DEF Alone, Installs
  <2>4. CASE pc[d] = "applyStore"
    <3>1. Goto(d, "writeSeen") /\ UNCHANGED <<db, rev>>  BY <1>4, <2>4 DEF Apply, ApplyStore
    <3>2. QED  BY <1>3, <2>1, <2>4, <3>1 DEF Alone, Installs
  <2>5. QED  BY <1>4, <2>2, <2>3, <2>4 DEF Apply
<1>5. CASE RecordState(d)
  <2>1. UNCHANGED <<head, snaps>> /\ pc[d] \in {"writeSeen", "writeApplied"}
    BY <1>5 DEF RecordState, remoteVars
  <2>2. ctx[d] \in Frames /\ (ctx[d].kind = "pull" => ctx[d].head \in Heads)
    BY <2>1 DEF TypeOK, ControlTypeOK, FrameTypeOK
  <2>3. Target(ctx[d]) \in SnapshotIds /\ TargetManifest(ctx[d]) \in Manifests  BY <2>2, TargetType
  <2>4. CASE pc[d] = "writeSeen"
    <3>1. Goto(d, "writeApplied") /\ PutDb(d, [db[d] EXCEPT !.seen = Target(ctx[d])])
      BY <1>5, <2>4 DEF RecordState, WriteSeen
    <3>2. PICK b \in Dbs : PutDb(d, b) /\ b.seen = Target(ctx[d]) /\ b.applied = db[d].applied
      BY <1>1, <2>3, <3>1 DEF Dbs
    <3>3. Wrote(d) /\ db'[d].seen = Target(ctx[d]) /\ db'[d].applied = db[d].applied
      BY <1>1, <3>2, PutDbWrites
    <3>4. QED  BY <1>3, <2>1, <2>4, <3>1, <3>3 DEF Alone, Wrote, Records
  <2>5. CASE pc[d] = "writeApplied"
    <3>1. Goto(d, "releaseRead") /\ PutDb(d, [db[d] EXCEPT !.applied = TargetManifest(ctx[d])])
      BY <1>5, <2>5 DEF RecordState, WriteApplied
    <3>2. PICK b \in Dbs : PutDb(d, b) /\ b.seen = db[d].seen /\ b.applied = TargetManifest(ctx[d])
      BY <1>1, <2>3, <3>1 DEF Dbs
    <3>3. Wrote(d) /\ db'[d].seen = db[d].seen /\ db'[d].applied = TargetManifest(ctx[d])
      BY <1>1, <3>2, PutDbWrites
    <3>4. QED  BY <1>3, <2>1, <2>5, <3>1, <3>3 DEF Alone, Wrote, Records
  <2>6. QED  BY <2>1, <2>4, <2>5
<1>6. QED  BY <1>2, <1>4, <1>5

(* FaultEffect: errors and crashes leave databases and bucket as they are. *)
LEMMA FaultEffect ==
  ASSUME TypeOK, NEW d \in Devices, TransportError(d) \/ LocalError(d) \/ Crash(d)
  PROVE  Alone(d) /\ (Moves(d) \/ Ends(d))
<1>1. Reads /\ UNCHANGED db  BY DEF TransportError, LocalError, Crash, Reads, vaultVars, remoteVars
<1>2. ASSUME NEW k \in FaultKinds, Fault(k) PROVE faults'[k] # 0
  BY <1>2, BoundAssumption DEF Fault, TypeOK, CounterTypeOK
<1>3. CASE pc' = [pc EXCEPT ![d] = "idle"] /\ ctx' = [ctx EXCEPT ![d] = None]
  <2>1. pc'[d] = "idle" /\ ctx'[d] = None /\ Alone(d)
    BY <1>1, <1>3 DEF Alone, TypeOK, ControlTypeOK
  <2>2. CASE pc[d] \in AcquirePcs  BY <1>1, <2>1, <2>2 DEF Ends
  <2>3. CASE Crash(d)  BY <1>1, <1>2, <2>1, <2>3 DEF Ends, Crash, FaultKinds
  <2>4. CASE LocalError(d)
    <3>1. pc' = [pc EXCEPT ![d] = "releaseRead"]  BY <2>4 DEF LocalError
    <3>2. QED  BY <2>1, <3>1 DEF TypeOK, ControlTypeOK
  <2>5. CASE TransportError(d) /\ pc[d] \notin AcquirePcs
    <3>1. pc' = [pc EXCEPT ![d] = "releaseRead"]  BY <2>5 DEF TransportError
    <3>2. QED  BY <2>1, <3>1 DEF TypeOK, ControlTypeOK
  <2>6. QED  BY <2>2, <2>3, <2>4, <2>5
<1>4. CASE pc' = [pc EXCEPT ![d] = "releaseRead"] /\ ctx' = ctx
  <2>1. pc'[d] = "releaseRead" /\ ctx'[d] = ctx[d] /\ Alone(d)
    BY <1>1, <1>4 DEF Alone, TypeOK, ControlTypeOK
  <2>2. CASE LocalError(d)
    <3>1. faults'["local"] # 0 /\ pc[d] # "idle"  BY <1>2, <2>2 DEF LocalError, FaultKinds
    <3>2. QED  BY <1>1, <2>1, <3>1 DEF Moves
  <2>3. CASE TransportError(d)
    <3>1. \/ pc[d] \in {"recheck", "preview", "fetch", "putSnapshot", "putHead"}
          \/ pc[d] = "writeSeen" /\ ctx[d].kind = "push"
      <4>1. "releaseRead" # "idle"  OBVIOUS
      <4>2. ~(pc' = [pc EXCEPT ![d] = "idle"])  BY <2>1, <4>1 DEF TypeOK, ControlTypeOK
      <4>3. QED  BY <2>3, <4>2 DEF TransportError
    <3>2. QED  BY <1>1, <2>1, <3>1 DEF Moves, PushPcs, ReleasePcs
  <2>4. CASE Crash(d)
    <3>1. pc'[d] = "idle"  BY <2>4 DEF Crash, TypeOK, ControlTypeOK
    <3>2. QED  BY <2>1, <3>1
  <2>5. QED  BY <2>2, <2>3, <2>4
<1>5. QED  BY <1>3, <1>4 DEF TransportError, LocalError, Crash

AnyEffect(d) ==
  \/ Begins(d) \/ Ends(d) \/ Moves(d) \/ Admits(d) \/ Uploads(d) \/ Publishes(d)
  \/ Fetches(d) \/ Installs(d) \/ Records(d) \/ Edits(d)

(* Effects: every step is one of these, of one replica, or leaves          *)
(* databases, snapshots, head and operations alone.                        *)
LEMMA Effects ==
  ASSUME TypeOK, [Next]_vars
  PROVE  \/ UNCHANGED <<db, rev, head, snaps, pc, ctx, faults>>
         \/ \E d \in Devices : Alone(d) /\ AnyEffect(d)
<1>1. CASE UNCHANGED vars  BY <1>1 DEF vars, vaultVars, remoteVars
<1>2. CASE Tick  BY <1>2 DEF Tick, vaultVars, remoteVars
<1>3. ASSUME NEW d \in Devices, Step(d) \/ TransportError(d) \/ LocalError(d) \/ Crash(d) \/ Edit(d)
      PROVE  Alone(d) /\ AnyEffect(d)
  BY <1>3, StartEffect, LockEffect, CheckEffect, RemoteEffect, VaultEffect, FaultEffect DEF Step, AnyEffect
<1>4. QED  BY <1>1, <1>2, <1>3 DEF Next

-----------------------------------------------------------------------------
(* Snapshots are never changed.                                            *)

(* HeldWithin: what Held' consists of.                                     *)
LEMMA HeldWithin ==
  ASSUME NEW S, \A e \in Devices : db'[e] \in S,
         \A e \in Devices : InFlight(e)' /\ ctx'[e].bundle # None => ctx'[e].bundle \in S,
         \A i \in DOMAIN snaps' : snaps'[i] \in S
  PROVE  Held' \subseteq S
BY DEF Held

(* HeldParts: and what is in Held.                                         *)
LEMMA HeldParts ==
  /\ \A e \in Devices : db[e] \in Held
  /\ \A e \in Devices : InFlight(e) /\ ctx[e].bundle # None => ctx[e].bundle \in Held
  /\ \A i \in DOMAIN snaps : snaps[i] \in Held
BY DEF Held

(* FrameStep: only the bundle of the replica that moves is to be checked.  *)
LEMMA FrameStep ==
  ASSUME NEW d \in Devices, Alone(d), NEW S, Held \subseteq S,
         InFlight(d)' /\ ctx'[d].bundle # None => ctx'[d].bundle \in S
  PROVE  \A e \in Devices : InFlight(e)' /\ ctx'[e].bundle # None => ctx'[e].bundle \in S
BY HeldParts DEF Alone, InFlight

(* HeldStep: a step brings at most one new database, by a write with a     *)
(* revision of its own.                                                    *)
LEMMA HeldStep ==
  ASSUME TypeOK, NEW d \in Devices, Alone(d), AnyEffect(d)
  PROVE  \/ rev' = rev /\ Held' \subseteq Held
         \/ /\ Held' \subseteq Held \cup {db'[d]}
            /\ rev' = rev + 1 /\ db'[d].rev = rev + 1
            /\ db'[d].seen \in {None, db[d].seen} \/ pc[d] = "writeSeen"
            /\ \/ db'[d].applied \in {None, db[d].applied}
               \/ pc[d] = "writeApplied" /\ db'[d].applied = TargetManifest(ctx[d])
<1>1. ASSUME UNCHANGED <<db, rev>>, UNCHANGED snaps \/ Uploads(d),
             InFlight(d)' /\ ctx'[d].bundle # None => ctx'[d].bundle \in Held
      PROVE  rev' = rev /\ Held' \subseteq Held
  <2>1. \A i \in DOMAIN snaps' : snaps'[i] \in Held
    <3>1. CASE UNCHANGED snaps  BY <3>1, HeldParts
    <3>2. CASE Uploads(d)
      <4>1. PutSnapshot(d) /\ pc[d] = "putSnapshot"  BY <3>2 DEF Uploads, PutSnapshot
      <4>2. ctx[d].bundle \in Dbs /\ InFlight(d)
        BY <4>1 DEF TypeOK, ControlTypeOK, FrameTypeOK, PushPcs, InFlight
      <4>3. ctx[d].bundle \in Held  BY <4>2, HeldParts, NoneAssumption
      <4>4. QED  BY <4>1, <4>3, HeldParts DEF PutSnapshot
    <3>3. QED  BY <1>1, <3>1, <3>2
  <2>2. \A e \in Devices : db'[e] \in Held  BY <1>1, HeldParts
  <2>3. QED  BY <1>1, <2>1, <2>2, FrameStep, HeldWithin
<1>2. ASSUME UNCHANGED snaps, ctx'[d] = ctx[d], pc[d] # "idle" \/ pc'[d] = pc[d]
      PROVE  Held' \subseteq Held \cup {db'[d]}
  <2>1. InFlight(d)' /\ ctx'[d].bundle # None => ctx'[d].bundle \in Held  BY <1>2, HeldParts DEF InFlight
  <2>2. \A e \in Devices : db'[e] \in Held \cup {db'[d]}  BY HeldParts DEF Alone
  <2>3. PICK S : S = Held \cup {db'[d]}  OBVIOUS
  <2>4. QED  BY <1>2, <2>1, <2>2, <2>3, FrameStep, HeldWithin, HeldParts
<1>3. CASE Begins(d)
  <2>1. PushFrame(d).bundle = db[d] /\ \A m : PullFrame(d, m[1], m[2]).bundle = None
    BY DEF PushFrame, PullFrame
  <2>2. ctx'[d].bundle \in {None, db[d]}  BY <1>3, <2>1 DEF Begins
  <2>3. QED  BY <1>1, <1>3, <2>2, HeldParts DEF Begins, Reads
<1>4. CASE Ends(d)  BY <1>1, <1>4 DEF Ends, Reads, InFlight
<1>5. CASE Moves(d)
  <2>1. InFlight(d)' => InFlight(d)  BY <1>5 DEF Moves, InFlight, AcquirePcs, PushPcs, ReleasePcs
  <2>2. QED  BY <1>1, <1>5, <2>1, HeldParts DEF Moves, Reads
<1>6. CASE Admits(d)
  <2>1. pc[d] = "recheck" /\ ctx[d] \in Frames
    BY <1>6 DEF Admits, TypeOK, ControlTypeOK, FrameTypeOK
  <2>2. ctx'[d].bundle = ctx[d].bundle  BY <1>6, <2>1 DEF Admits, Frames
  <2>3. QED  BY <1>1, <1>6, <2>1, <2>2, HeldParts DEF Admits, Reads, InFlight
<1>7. CASE Uploads(d)
  <2>1. pc[d] = "putSnapshot"  BY <1>7 DEF Uploads, PutSnapshot
  <2>2. QED  BY <1>1, <1>7, <2>1, HeldParts DEF Uploads, InFlight
<1>8. CASE Publishes(d)
  <2>1. pc[d] = "putHead"  BY <1>8 DEF Publishes, PutHead
  <2>2. QED  BY <1>1, <1>8, <2>1, HeldParts DEF Publishes, InFlight
<1>9. CASE Fetches(d)
  <2>1. pc[d] = "fetch" /\ ctx[d] \in Frames
    BY <1>9 DEF Fetches, TypeOK, ControlTypeOK, FrameTypeOK
  <2>2. ctx'[d].bundle \in Held  BY <1>9, <2>1, HeldParts DEF Fetches, Frames
  <2>3. QED  BY <1>1, <1>9, <2>2 DEF Fetches, Reads
<1>10. CASE Installs(d)
  <2>1. UNCHANGED snaps /\ ctx'[d] = ctx[d] /\ pc[d] # "idle"  BY <1>10 DEF Installs
  <2>2. Held' \subseteq Held \cup {db'[d]}  BY <1>2, <2>1
  <2>3. CASE pc[d] = "applyRemoveDb"
    BY <1>10, <2>2, <2>3 DEF Installs, EmptyDb
  <2>4. CASE pc[d] = "applyCopyDb"
    <3>1. ctx[d].bundle \in Dbs  BY <2>4 DEF TypeOK, ControlTypeOK, FrameTypeOK
    <3>2. ctx[d].bundle \in Held  BY <2>1, <3>1, HeldParts, NoneAssumption DEF InFlight
    <3>3. QED  BY <1>10, <2>2, <2>4, <3>2 DEF Installs
  <2>5. CASE pc[d] = "applyStore"
    BY <1>10, <2>2, <2>5, HeldParts DEF Installs
  <2>6. QED  BY <1>10, <2>3, <2>4, <2>5 DEF Installs
<1>11. CASE Records(d)
  <2>1. UNCHANGED snaps /\ ctx'[d] = ctx[d] /\ pc[d] # "idle" /\ Wrote(d)  BY <1>11 DEF Records
  <2>2. /\ db'[d].seen = db[d].seen \/ pc[d] = "writeSeen"
        /\ \/ db'[d].applied = db[d].applied
           \/ pc[d] = "writeApplied" /\ db'[d].applied = TargetManifest(ctx[d])
    BY <1>11 DEF Records
  <2>3. QED  BY <1>2, <2>1, <2>2 DEF Wrote
<1>12. CASE Edits(d)
  BY <1>2, <1>12 DEF Edits, Wrote
<1>13. QED
  BY <1>3, <1>4, <1>5, <1>6, <1>7, <1>8, <1>9, <1>10, <1>11, <1>12 DEF AnyEffect

(* RevisionStep: revisions keep naming databases, and what is recorded as  *)
(* applied was written before.                                             *)
LEMMA RevisionStep ==
  ASSUME TypeOK, SnapshotInv, RevisionInv, [Next]_vars
  PROVE  RevisionInv'
<1>1. CASE UNCHANGED <<db, rev, head, snaps, pc, ctx, faults>>
  BY <1>1 DEF RevisionInv, RevisionsName, Held, InFlight
<1>2. ASSUME NEW d \in Devices, Alone(d), AnyEffect(d) PROVE RevisionInv'
  <2>1. CASE rev' = rev /\ Held' \subseteq Held
    BY <2>1 DEF RevisionInv, RevisionsName
  <2>2. CASE /\ Held' \subseteq Held \cup {db'[d]}
             /\ rev' = rev + 1 /\ db'[d].rev = rev + 1
             /\ db'[d].seen \in {None, db[d].seen} \/ pc[d] = "writeSeen"
             /\ \/ db'[d].applied \in {None, db[d].applied}
                \/ pc[d] = "writeApplied" /\ db'[d].applied = TargetManifest(ctx[d])
    <3>1. RevisionsName(Held)'
      <4>1. PICK held, after, b : held = Held /\ after = Held' /\ b = db'[d]  OBVIOUS
      <4>2. rev \in Nat /\ RevisionsName(held)  BY <4>1 DEF TypeOK, VaultTypeOK, RevisionInv
      <4>3. QED  BY <2>2, <4>1, <4>2, NewRevision DEF RevisionsName
    <3>2. rev \in Nat /\ db[d] \in Dbs /\ AppliedBefore(db[d]) /\ db[d].rev <= rev
      BY HeldParts DEF TypeOK, VaultTypeOK, RevisionInv, RevisionsName
    <3>3. CASE db'[d].applied \in {None, db[d].applied}
      <4>1. db[d].applied \in Manifests \cup {None} /\ db[d].rev \in Nat  BY <3>2 DEF Dbs
      <4>2. db[d].applied # None => db[d].applied.rev \in Nat  BY <4>1 DEF Manifests
      <4>3. AppliedBefore(db'[d])  BY <2>2, <3>2, <3>3, <4>1, <4>2 DEF AppliedBefore
      <4>4. QED  BY <2>2, <3>1, <4>3 DEF RevisionInv, AppliedBefore
    <3>4. CASE pc[d] = "writeApplied" /\ db'[d].applied = TargetManifest(ctx[d])
      <4>1. InFlight(d) /\ ctx[d] \in Frames /\ (ctx[d].kind = "push" => ctx[d].bundle \in Dbs)
        BY <3>4 DEF InFlight, TypeOK, ControlTypeOK, FrameTypeOK
      <4>2. FrameInv(DOMAIN snaps, pc[d], ctx[d])  BY <4>1 DEF SnapshotInv
      <4>3. PICK b \in Held : TargetManifest(ctx[d]).rev = b.rev
        <5>1. CASE ctx[d].kind = "push"
          BY <4>1, <4>2, <5>1, HeldParts, NoneAssumption DEF FrameInv, TargetManifest
        <5>2. CASE ctx[d].kind = "pull"
          <6>1. ctx[d].head.id \in DOMAIN snaps /\ ctx[d].head.manifest = ctx[d].head.id.manifest
            BY <4>2, <5>2 DEF FrameInv
          <6>2. TargetManifest(ctx[d]).rev = snaps[ctx[d].head.id].rev
            BY <5>2, <6>1 DEF TargetManifest, SnapshotInv
          <6>3. QED  BY <6>1, <6>2, HeldParts
        <5>3. QED  BY <4>1, <5>1, <5>2, FrameFields
      <4>4. b.rev \in Nat /\ b.rev <= rev  BY DEF RevisionInv, RevisionsName
      <4>5. AppliedBefore(db'[d])  BY <2>2, <3>2, <3>4, <4>3, <4>4 DEF AppliedBefore
      <4>6. QED  BY <2>2, <3>1, <4>5 DEF RevisionInv, AppliedBefore
    <3>5. QED  BY <2>2, <3>3, <3>4
  <2>3. QED  BY <1>2, <2>1, <2>2, HeldStep
<1>3. QED  BY <1>1, <1>2, Effects

(* RevisionsStay: the invariant holds in every reachable state.            *)
LEMMA RevisionsStay == Spec => []RevisionInv
<1>1. Init => RevisionInv
  <2> SUFFICES ASSUME Init PROVE RevisionInv
    OBVIOUS
  <2>1. Held \subseteq {EmptyDb(0)}  BY DEF Init, VaultInit, Held, InFlight
  <2>2. rev = 0 /\ EmptyDb(0).rev = 0 /\ EmptyDb(0).applied = None  BY DEF Init, VaultInit, EmptyDb
  <2>3. QED  BY <2>1, <2>2 DEF RevisionInv, RevisionsName, AppliedBefore
<1>2. TypeOK /\ SnapshotInv /\ RevisionInv /\ [Next]_vars => RevisionInv'  BY RevisionStep
<1>3. QED  BY <1>1, <1>2, TypeCorrect, SnapshotsStay, PTL DEF Spec

(* UploadedForGood: with any faults, any operation length and any TTL, no  *)
(* step of push or pull removes or rewrites an uploaded snapshot: an       *)
(* upload under an id already in use repeats the bytes that are there.     *)
THEOREM UploadedForGood == Spec => SnapshotsImmutable
<1> DEFINE Kept == \A i \in DOMAIN snaps : i \in DOMAIN snaps' /\ snaps'[i] = snaps[i]
<1>1. TypeOK /\ SnapshotInv /\ RevisionInv /\ [Next]_vars => Kept
  <2> SUFFICES ASSUME TypeOK, SnapshotInv, RevisionInv, [Next]_vars PROVE Kept
    OBVIOUS
  <2>1. ASSUME NEW d \in Devices, Uploads(d) PROVE Kept
    <3>1. PutSnapshot(d) /\ pc[d] = "putSnapshot"  BY <2>1 DEF Uploads, PutSnapshot
    <3>2. InFlight(d) /\ ctx[d] \in Frames /\ ctx[d].kind = "push" /\ ctx[d].bundle \in Dbs
      BY <3>1 DEF InFlight, TypeOK, ControlTypeOK, FrameTypeOK, PushPcs
    <3>3. ctx[d].bundle \in Held /\ ctx[d].bundle.rev = ctx[d].manifest.rev
      BY <3>2, HeldParts, NoneAssumption DEF SnapshotInv, FrameInv
    <3>4. Target(ctx[d]).manifest = ctx[d].manifest
      BY <3>2 DEF Target, SnapshotIdForManifest
    <3>5. ASSUME NEW i \in DOMAIN snaps, i = Target(ctx[d]) PROVE snaps[i] = ctx[d].bundle
      <4>1. snaps[i] \in Held /\ snaps[i].rev = ctx[d].manifest.rev
        BY <3>4, <3>5, HeldParts DEF SnapshotInv
      <4>2. QED  BY <3>3, <4>1 DEF RevisionInv, RevisionsName
    <3>6. QED  BY <3>1, <3>5 DEF PutSnapshot
  <2>2. CASE UNCHANGED snaps  BY <2>2
  <2>3. UNCHANGED snaps \/ \E d \in Devices : Uploads(d)
    BY Effects DEF AnyEffect, Begins, Ends, Moves, Admits, Publishes, Fetches, Installs,
                   Records, Edits, Reads
  <2>4. QED  BY <2>1, <2>2, <2>3
<1>2. QED  BY <1>1, TypeCorrect, SnapshotsStay, RevisionsStay, PTL DEF Spec, SnapshotsImmutable

-----------------------------------------------------------------------------
(* While the lock excludes, what was read of the head stays true.          *)

(* HeadStep: only a push at "putHead" changes the head.                    *)
LEMMA HeadStep ==
  ASSUME NEW d \in Devices, AnyEffect(d)
  PROVE  Publishes(d) \/ UNCHANGED head
BY DEF AnyEffect, Begins, Ends, Moves, Admits, Uploads, Fetches, Installs, Records, Edits, Reads

(* PublishesAlone: and nobody else holds the lock then.                    *)
LEMMA PublishesAlone ==
  ASSUME TypeOK, LockInv, NEW d \in Devices, Alone(d), Publishes(d)
  PROVE  /\ pc[d] = "putHead" /\ pc'[d] = "writeSeen" /\ ctx'[d] = ctx[d]
         /\ ctx[d] \in Frames /\ ctx[d].kind = "push"
         /\ head' # None /\ head'.id = Target(ctx[d]) /\ head'.trust = FingerprintOf[d]
         /\ \A e \in Devices : e # d => pc[e] \notin CriticalPcs /\ pc'[e] \notin CriticalPcs
<1>1. pc[d] = "putHead" /\ pc'[d] = "writeSeen" /\ ctx'[d] = ctx[d]  BY DEF Publishes, PutHead
<1>2. ctx[d] \in Frames /\ ctx[d].kind = "push"
  BY <1>1 DEF TypeOK, ControlTypeOK, FrameTypeOK, PushPcs
<1>3. head' = [id |-> Target(ctx[d]), manifest |-> ctx[d].manifest,
               trust |-> FingerprintOf[d], signer |-> SignerOf[d]]
  BY DEF Publishes, PutHead
<1>4. head' \in Heads
  <2>1. Target(ctx[d]) \in SnapshotIds /\ ctx[d].manifest \in Manifests
    BY <1>2, TargetType, FrameFields
  <2>2. QED  BY <1>3, <2>1, TrustAssumption DEF Heads
<1>5. \A e \in Devices : e # d => pc[e] \notin CriticalPcs
  BY <1>1 DEF LockInv, InLock, CriticalPcs, PushPcs
<1>6. QED  BY <1>1, <1>2, <1>3, <1>4, <1>5, NoneS3Assumption DEF Alone

(* ViewStep: ViewInv is inductive.                                         *)
LEMMA ViewStep ==
  ASSUME TypeOK, LockInv, ViewInv, [Next]_vars
  PROVE  ViewInv'
<1> DEFINE View(h, p, c, e) ==
      /\ p \in PullPcs \cup {"writeSeen"} => h # None /\ h.id = Target(c)
      /\ p \in PushPcs /\ h # None => h.trust = FingerprintOf[e]
<1>1. \A e \in Devices : View(head, pc[e], ctx[e], e)  BY DEF ViewInv
<1>2. CASE UNCHANGED <<db, rev, head, snaps, pc, ctx, faults>>
  BY <1>2 DEF ViewInv
<1>3. ASSUME NEW d \in Devices, Alone(d), AnyEffect(d) PROVE ViewInv'
  <2>1. CASE Publishes(d)
    <3>1. View(head', pc'[d], ctx'[d], d)
      BY <1>3, <2>1, PublishesAlone DEF PullPcs, PushPcs
    <3>2. ASSUME NEW e \in Devices, e # d PROVE View(head', pc'[e], ctx'[e], e)
      BY <1>3, <2>1, <3>2, PublishesAlone DEF CriticalPcs, PullPcs, PushPcs
    <3>3. QED  BY <3>1, <3>2 DEF ViewInv
  <2>2. CASE UNCHANGED head
    <3>1. ASSUME NEW e \in Devices, e # d PROVE View(head', pc'[e], ctx'[e], e)
      BY <1>1, <1>3, <2>2, <3>1 DEF Alone
    <3>2. View(head, pc'[d], ctx'[d], d)
      <4>1. CASE Begins(d) \/ Ends(d)
        BY <4>1 DEF Begins, Ends, PullPcs, PushPcs
      <4>2. CASE Moves(d)
        BY <1>1, <4>2 DEF Moves, PullPcs, PushPcs, AcquirePcs, ReleasePcs
      <4>3. CASE Admits(d)
        <5>1. ctx[d] \in Frames  BY <4>3 DEF Admits, TypeOK, ControlTypeOK, FrameTypeOK
        <5>2. CASE ctx[d].kind = "push"
          BY <4>3, <5>2 DEF Admits, TrustMatches, PullPcs, PushPcs
        <5>3. CASE ctx[d].kind = "pull"
          <6>1. ctx'[d].kind = "pull" /\ ctx'[d].head = head /\ head # None /\ pc'[d] \in {"preview", "fetch"}
            BY <4>3, <5>1, <5>3 DEF Admits, Frames
          <6>2. QED  BY <6>1 DEF Target, PullPcs, PushPcs
        <5>4. QED  BY <5>1, <5>2, <5>3, FrameFields
      <4>4. CASE Uploads(d)
        BY <1>1, <4>4 DEF Uploads, PutSnapshot, PullPcs, PushPcs
      <4>5. CASE Fetches(d)
        <5>1. ctx[d] \in Frames /\ ctx[d].kind = "pull" /\ pc[d] = "fetch" /\ pc'[d] = "applyRemoveDb"
          BY <4>5 DEF Fetches, TypeOK, ControlTypeOK, FrameTypeOK, PullPcs
        <5>2. Target(ctx'[d]) = Target(ctx[d])  BY <4>5, <5>1 DEF Fetches, Frames, Target
        <5>3. QED  BY <1>1, <5>1, <5>2 DEF PullPcs, PushPcs
      <4>6. CASE Installs(d)
        BY <1>1, <4>6 DEF Installs, PullPcs, PushPcs
      <4>7. CASE Records(d)
        BY <4>7 DEF Records, PullPcs, PushPcs
      <4>8. CASE Edits(d)
        BY <1>1, <4>8 DEF Edits
      <4>9. CASE Publishes(d)
        BY <2>2, <4>9, <1>3, PublishesAlone DEF PullPcs, PushPcs
      <4>10. QED
        BY <1>3, <4>1, <4>2, <4>3, <4>4, <4>5, <4>6, <4>7, <4>8, <4>9 DEF AnyEffect
    <3>3. QED  BY <2>2, <3>1, <3>2 DEF ViewInv
  <2>3. QED  BY <1>3, <2>1, <2>2, HeadStep
<1>4. QED  BY <1>2, <1>3, Effects

(* ViewStays: the invariant holds in every reachable state.                *)
LEMMA ViewStays ==
  ASSUME MaxFaults["crash"] = 0, OpBudget < TTL
  PROVE  Spec => []ViewInv
<1>1. Init => ViewInv  BY DEF Init, ViewInv, PullPcs, PushPcs
<1>2. TypeOK /\ LockInv /\ ViewInv /\ [Next]_vars => ViewInv'  BY ViewStep
<1>3. Spec => []LockInv  BY LockStays
<1>4. QED  BY <1>1, <1>2, <1>3, TypeCorrect, PTL DEF Spec

(* TargetKeepsItsPassphrase: if no replica crashes and no operation        *)
(* outlives the TTL, a push never puts a head with another passphrase      *)
(* fingerprint in the place of one: what ensure_remote_trust_matches saw   *)
(* under the lock is still so when the head is written.                    *)
THEOREM TargetKeepsItsPassphrase ==
  ASSUME MaxFaults["crash"] = 0, OpBudget < TTL
  PROVE  Spec => HeadTrustStable
<1>1. TypeOK /\ LockInv /\ ViewInv /\ [Next]_vars => (head # None => head'.trust = head.trust)
  <2> SUFFICES ASSUME TypeOK, LockInv, ViewInv, [Next]_vars, head # None
               PROVE  head'.trust = head.trust
    OBVIOUS
  <2>1. ASSUME NEW d \in Devices, Alone(d), Publishes(d) PROVE head'.trust = head.trust
    BY <2>1, PublishesAlone DEF ViewInv, PushPcs
  <2>2. QED  BY <2>1, Effects, HeadStep
<1>2. Spec => []LockInv  BY LockStays
<1>3. Spec => []ViewInv  BY ViewStays
<1>4. QED  BY <1>1, <1>2, <1>3, TypeCorrect, PTL DEF Spec, HeadTrustStable

-----------------------------------------------------------------------------
(* A replica that has synced replaces only the head it has seen.           *)

NoLocal == faults["local"] = 0

(* NoLocalErrors: bounding a kind of fault by zero rules it out.           *)
LEMMA NoLocalErrors ==
  ASSUME MaxFaults["local"] = 0
  PROVE  Spec => []NoLocal
<1>1. Init => NoLocal  BY DEF Init, FaultKinds, NoLocal
<1>2. TypeOK /\ NoLocal /\ [Next]_vars => NoLocal'
  <2> SUFFICES ASSUME TypeOK, faults["local"] = 0, [Next]_vars PROVE faults'["local"] = 0
    BY DEF NoLocal
  <2>1. ASSUME NEW k \in FaultKinds, Fault(k) PROVE faults'["local"] = 0
    <3>1. k # "local"  BY <2>1 DEF Fault
    <3>2. QED  BY <2>1, <3>1 DEF Fault, TypeOK, CounterTypeOK, FaultKinds
  <2>2. CASE UNCHANGED faults  BY <2>2
  <2>3. ASSUME NEW d \in Devices, Step(d) PROVE UNCHANGED faults
    <3>1. \A p : Goto(d, p) => UNCHANGED faults  BY DEF Goto
    <3>2. \A p, c : GotoWith(d, p, c) => UNCHANGED faults  BY DEF GotoWith
    <3>3. CASE PushStart(d)  BY <3>3 DEF PushStart
    <3>4. ASSUME NEW m \in PullModes, PullStart(d, m[1], m[2]) PROVE UNCHANGED faults
      BY <3>4 DEF PullStart
    <3>5. CASE PullPreview(d) \/ LockRead(d) \/ LockDelete(d) \/ LockPut(d)
               \/ ReleaseRead(d) \/ ReleaseDelete(d)
      BY <3>1, <3>2, <3>5
      DEF PullPreview, LockRead, LockDelete, LockPut, ReleaseRead, ReleaseDelete, Return
    <3>6. CASE Recheck(d)  BY <3>1, <3>2, <3>6 DEF Recheck
    <3>7. CASE PutSnapshot(d) \/ PutHead(d) \/ Fetch(d) \/ Apply(d) \/ RecordState(d)
      BY <3>1, <3>2, <3>7 DEF PutSnapshot, PutHead, Fetch, Apply, RecordState
    <3>8. QED  BY <2>3, <3>3, <3>4, <3>5, <3>6, <3>7 DEF Step
  <2>4. QED
    BY <2>1, <2>2, <2>3
    DEF Next, Tick, Edit, TransportError, LocalError, Crash, FaultKinds, vars
<1>3. QED  BY <1>1, <1>2, TypeCorrect, PTL DEF Spec

(* PairStep: a seen row has its applied row, except between the two writes *)
(* of RecordState.                                                         *)
LEMMA PairStep ==
  ASSUME TypeOK, LockInv', faults'["local"] = 0, PairInv, [Next]_vars
  PROVE  PairInv'
<1> DEFINE FramePaired(p, c) ==
      p # "idle" => /\ c.bundle # None => Paired(c.bundle)
                    /\ c.kind = "push" => c.seen = c.bundle.seen /\ c.applied = c.bundle.applied
<1>1. /\ \A i \in DOMAIN snaps : Paired(snaps[i])
      /\ \A e \in Devices : pc[e] # "writeApplied" => Paired(db[e])
      /\ \A e \in Devices : FramePaired(pc[e], ctx[e])
  BY DEF PairInv, InFlight
<1>2. CASE UNCHANGED <<db, rev, head, snaps, pc, ctx, faults>>
  BY <1>2 DEF PairInv, InFlight
<1>3. ASSUME NEW d \in Devices, Alone(d), AnyEffect(d) PROVE PairInv'
  <2>1. faults'["crash"] = 0  BY DEF LockInv
  <2>2. SUFFICES /\ \A i \in DOMAIN snaps' : Paired(snaps'[i])
                 /\ pc'[d] # "writeApplied" => Paired(db'[d])
                 /\ FramePaired(pc'[d], ctx'[d])
    <3>1. ASSUME NEW e \in Devices, e # d
          PROVE  (pc'[e] # "writeApplied" => Paired(db'[e])) /\ FramePaired(pc'[e], ctx'[e])
      BY <1>1, <1>3, <3>1 DEF Alone
    <3>2. QED  BY <2>2, <3>1 DEF PairInv, InFlight
  <2>3. CASE Begins(d)
    <3>1. Paired(db[d])  BY <1>1, <2>3 DEF Begins
    <3>2. FramePaired(pc'[d], PushFrame(d))  BY <3>1 DEF PushFrame
    <3>3. \A m : FramePaired(pc'[d], PullFrame(d, m[1], m[2]))  BY DEF PullFrame
    <3>4. FramePaired(pc'[d], ctx'[d])
      <4> HIDE DEF FramePaired
      <4>1. QED  BY <2>3, <3>2, <3>3 DEF Begins
    <3>5. QED  BY <1>1, <2>3, <3>1, <3>4 DEF Begins, Reads
  <2>4. CASE Ends(d)
    <3>1. pc[d] # "writeApplied"  BY <2>1, <2>4 DEF Ends, AcquirePcs, ReleasePcs
    <3>2. QED  BY <1>1, <2>4, <3>1 DEF Ends, Reads
  <2>5. CASE Moves(d)
    <3>1. pc[d] # "writeApplied" /\ (pc'[d] # "idle" => pc[d] # "idle")
      BY <2>5 DEF Moves, AcquirePcs, ReleasePcs, PushPcs
    <3>2. QED  BY <1>1, <2>5, <3>1 DEF Moves, Reads
  <2>6. CASE Admits(d)
    <3>1. ctx[d] \in Frames /\ pc[d] = "recheck"
      BY <2>6 DEF Admits, TypeOK, ControlTypeOK, FrameTypeOK
    <3>2. /\ ctx'[d].kind = ctx[d].kind /\ ctx'[d].bundle = ctx[d].bundle
          /\ ctx'[d].seen = ctx[d].seen /\ ctx'[d].applied = ctx[d].applied
      BY <2>6, <3>1 DEF Admits, Frames
    <3>3. QED  BY <1>1, <2>6, <3>1, <3>2 DEF Admits, Reads
  <2>7. CASE Uploads(d)
    <3>1. PutSnapshot(d) /\ pc[d] = "putSnapshot"  BY <2>7 DEF Uploads, PutSnapshot
    <3>2. ctx[d].bundle # None
      BY <3>1, NoneAssumption DEF TypeOK, ControlTypeOK, FrameTypeOK, PushPcs
    <3>3. \A i \in DOMAIN snaps' : Paired(snaps'[i])  BY <1>1, <3>1, <3>2 DEF PutSnapshot
    <3>4. QED  BY <1>1, <2>7, <3>1, <3>3 DEF Uploads
  <2>8. CASE Publishes(d)
    BY <1>1, <2>8 DEF Publishes, PutHead
  <2>9. CASE Fetches(d)
    <3>1. ctx[d] \in Frames /\ pc[d] = "fetch" /\ ctx[d].kind = "pull"
      BY <2>9 DEF Fetches, TypeOK, ControlTypeOK, FrameTypeOK, PullPcs
    <3>2. ctx'[d].kind = "pull" /\ Paired(ctx'[d].bundle)
      BY <1>1, <2>9, <3>1 DEF Fetches, Frames
    <3>3. QED  BY <1>1, <2>9, <3>1, <3>2 DEF Fetches, Reads
  <2>10. CASE Installs(d)
    <3>1. Paired(EmptyDb(rev + 1))  BY DEF EmptyDb, Paired
    <3>2. pc[d] = "applyCopyDb" => ctx[d].bundle # None
      BY NoneAssumption DEF TypeOK, ControlTypeOK, FrameTypeOK
    <3>3. QED  BY <1>1, <2>10, <3>1, <3>2 DEF Installs
  <2>11. CASE Records(d)
    <3>1. pc[d] \in {"writeSeen", "writeApplied"} /\ UNCHANGED snaps /\ ctx'[d] = ctx[d]
      BY <2>11 DEF Records
    <3>2. ctx[d] \in Frames /\ (ctx[d].kind = "pull" => ctx[d].head \in Heads)
      BY <3>1 DEF TypeOK, ControlTypeOK, FrameTypeOK
    <3>3. TargetManifest(ctx[d]) # None  BY <3>2, TargetType, NoneAssumption
    <3>4. pc'[d] # "writeApplied" => Paired(db'[d])  BY <2>11, <3>3 DEF Records, Paired
    <3>5. QED  BY <1>1, <3>1, <3>4
  <2>12. CASE Edits(d)
    BY <1>1, <2>12 DEF Edits, Paired
  <2>13. QED
    BY <1>3, <2>3, <2>4, <2>5, <2>6, <2>7, <2>8, <2>9, <2>10, <2>11, <2>12 DEF AnyEffect
<1>4. QED  BY <1>2, <1>3, Effects

(* FirstStep: a database remembers a head only after one was published.    *)
LEMMA FirstStep ==
  ASSUME TypeOK, LockInv, ViewInv, FirstInv, [Next]_vars
  PROVE  FirstInv'
<1> SUFFICES ASSUME head' = None PROVE \A b \in Held' : b.seen = None
  BY DEF FirstInv
<1>1. CASE UNCHANGED <<db, rev, head, snaps, pc, ctx, faults>>
  BY <1>1 DEF FirstInv, Held, InFlight
<1>2. ASSUME NEW d \in Devices, Alone(d), AnyEffect(d) PROVE \A b \in Held' : b.seen = None
  <2>1. head = None  BY <1>2, HeadStep, PublishesAlone
  <2>2. \A b \in Held : b.seen = None  BY <2>1 DEF FirstInv
  <2>3. pc[d] # "writeSeen"  BY <2>1 DEF ViewInv
  <2>4. db[d].seen = None  BY <2>2, HeldParts
  <2>5. QED  BY <1>2, <2>2, <2>3, <2>4, HeldStep
<1>3. QED  BY <1>1, <1>2, Effects

(* NoConflictSeen: a push that should_conflict lets pass has seen the      *)
(* head, or none: its applied manifest is there and is an older one.       *)
LEMMA NoConflictSeen ==
  ASSUME TypeOK, SnapshotInv, RevisionInv, PairInv, NEW d \in Devices,
         InFlight(d), ctx[d].kind = "push", head # None,
         ~ShouldConflict(head, ctx[d].seen, ctx[d].applied, ctx[d].manifest)
  PROVE  ctx[d].seen \in {None, head.id}
<1>1. ctx[d] \in Frames /\ ctx[d].bundle \in Dbs
  BY DEF InFlight, TypeOK, ControlTypeOK, FrameTypeOK
<1>2. /\ Paired(ctx[d].bundle) /\ ctx[d].seen = ctx[d].bundle.seen
      /\ ctx[d].applied = ctx[d].bundle.applied
  BY <1>1, NoneAssumption DEF PairInv
<1>3. AppliedBefore(ctx[d].bundle) /\ ctx[d].bundle.rev = ctx[d].manifest.rev
  BY <1>1, HeldParts, NoneAssumption DEF RevisionInv, SnapshotInv, FrameInv
<1>4. ctx[d].manifest.rev \in Nat  BY <1>1, FrameFields DEF Manifests
<1>5. ctx[d].applied # None => ctx[d].applied # ctx[d].manifest
  BY <1>2, <1>3, <1>4 DEF AppliedBefore
<1>6. QED  BY <1>2, <1>5 DEF ShouldConflict, Paired

(* BasisStep: BasisInv is inductive.                                       *)
LEMMA BasisStep ==
  ASSUME TypeOK, LockInv, SnapshotInv, RevisionInv, PairInv, BasisInv,
         LockInv', faults'["local"] = 0, [Next]_vars
  PROVE  BasisInv'
<1> DEFINE Basis(h, p, c, b) ==
      /\ p # "idle" /\ p \in SeenPcs(c.kind) => b.seen = c.seen
      /\ p \in PushPcs /\ h # None => c.seen \in {None, h.id}
<1>1. \A e \in Devices : Basis(head, pc[e], ctx[e], db[e])  BY DEF BasisInv, InFlight
<1>2. CASE UNCHANGED <<db, rev, head, snaps, pc, ctx, faults>>
  BY <1>2 DEF BasisInv, InFlight
<1>3. ASSUME NEW d \in Devices, Alone(d), AnyEffect(d) PROVE BasisInv'
  <2>1. \A k : /\ SeenPcs(k) \cap (ReleasePcs \cup {"idle", "writeApplied", "applyCopyDb", "applyStore"}) = {}
               /\ AcquirePcs \cup PushPcs \cup {"recheck", "preview", "fetch", "applyRemoveDb"} \subseteq SeenPcs(k)
    BY DEF SeenPcs, AcquirePcs, ReleasePcs, PushPcs
  <2>2. ASSUME NEW e \in Devices, e # d PROVE Basis(head', pc'[e], ctx'[e], db'[e])
    <3>1. CASE Publishes(d)
      BY <1>1, <1>3, <2>2, <3>1, PublishesAlone DEF Alone, CriticalPcs
    <3>2. CASE UNCHANGED head  BY <1>1, <1>3, <2>2, <3>2 DEF Alone
    <3>3. QED  BY <1>3, <3>1, <3>2, HeadStep
  <2>3. Basis(head', pc'[d], ctx'[d], db'[d])
    <3>1. CASE Begins(d)
      <4>1. PushFrame(d).seen = db[d].seen /\ \A m : PullFrame(d, m[1], m[2]).seen = db[d].seen
        BY DEF PushFrame, PullFrame
      <4>2. ctx'[d].seen = db[d].seen  BY <3>1, <4>1 DEF Begins
      <4>3. QED  BY <3>1, <4>2 DEF Begins, Reads, PushPcs
    <3>2. CASE Ends(d)  BY <3>2 DEF Ends, PushPcs
    <3>3. CASE Moves(d)
      <4>1. \/ pc'[d] \in ReleasePcs \cup {"idle"}
            \/ /\ pc[d] \in AcquirePcs \cup {"preview"}
               /\ pc'[d] \in AcquirePcs \cup {"recheck", "fetch"}
        BY <3>3 DEF Moves, ReleasePcs
      <4>2. pc'[d] \notin PushPcs  BY <4>1 DEF ReleasePcs, AcquirePcs, PushPcs
      <4>3. pc[d] \in AcquirePcs \cup {"preview"} => db[d].seen = ctx[d].seen
        BY <1>1, <2>1 DEF AcquirePcs
      <4>4. QED  BY <2>1, <3>3, <4>1, <4>2, <4>3 DEF Moves, Reads
    <3>4. CASE Admits(d)
      <4>1. ctx[d] \in Frames /\ pc[d] = "recheck" /\ InFlight(d)
        BY <3>4 DEF Admits, InFlight, TypeOK, ControlTypeOK, FrameTypeOK
      <4>2. ctx'[d].seen = ctx[d].seen /\ db'[d] = db[d] /\ head' = head
        BY <3>4, <4>1 DEF Admits, Frames, Reads
      <4>3. db[d].seen = ctx[d].seen  BY <1>1, <2>1, <4>1
      <4>4. pc'[d] \in PushPcs /\ head # None => ctx[d].seen \in {None, head.id}
        BY <3>4, <4>1, NoConflictSeen DEF Admits, PushPcs
      <4>5. QED  BY <4>2, <4>3, <4>4
    <3>5. CASE Uploads(d)
      <4>1. pc[d] = "putSnapshot" /\ pc'[d] = "putHead" /\ ctx'[d] = ctx[d] /\ db'[d] = db[d] /\ head' = head
        BY <3>5 DEF Uploads, PutSnapshot
      <4>2. QED  BY <1>1, <2>1, <4>1 DEF PushPcs
    <3>6. CASE Publishes(d)
      <4>1. pc[d] = "putHead" /\ pc'[d] = "writeSeen" /\ ctx'[d] = ctx[d] /\ db'[d] = db[d]
        BY <3>6 DEF Publishes, PutHead
      <4>2. QED  BY <1>1, <2>1, <4>1 DEF PushPcs
    <3>7. CASE Fetches(d)
      <4>1. ctx[d] \in Frames /\ pc[d] = "fetch"
        BY <3>7 DEF Fetches, TypeOK, ControlTypeOK, FrameTypeOK
      <4>2. ctx'[d].seen = ctx[d].seen /\ db'[d] = db[d] /\ pc'[d] = "applyRemoveDb"
        BY <3>7, <4>1 DEF Fetches, Frames, Reads
      <4>3. QED  BY <1>1, <2>1, <4>1, <4>2 DEF PushPcs
    <3>8. CASE Installs(d)
      <4>1. pc[d] \in PullPcs /\ pc'[d] \in {"applyCopyDb", "applyStore", "writeSeen"} /\ ctx'[d] = ctx[d]
        BY <3>8 DEF Installs, PullPcs
      <4>2. ctx[d].kind = "pull"  BY <4>1 DEF TypeOK, ControlTypeOK, FrameTypeOK
      <4>3. "writeSeen" \notin SeenPcs("pull")  BY DEF SeenPcs, AcquirePcs, PushPcs
      <4>4. QED  BY <2>1, <4>1, <4>2, <4>3 DEF PushPcs
    <3>9. CASE Records(d)
      <4>1. pc'[d] \in {"writeApplied", "releaseRead"}  BY <3>9 DEF Records
      <4>2. QED  BY <2>1, <4>1 DEF PushPcs, ReleasePcs
    <3>10. CASE Edits(d)
      BY <1>1, <3>10 DEF Edits
    <3>11. QED
      BY <1>3, <3>1, <3>2, <3>3, <3>4, <3>5, <3>6, <3>7, <3>8, <3>9, <3>10 DEF AnyEffect
  <2>4. QED  BY <2>2, <2>3 DEF BasisInv, InFlight
<1>4. QED  BY <1>2, <1>3, Effects

(* BasisStays: without crashes, late operations and local errors, the      *)
(* three invariants hold together in every reachable state.                *)
LEMMA BasisStays ==
  ASSUME MaxFaults["crash"] = 0, MaxFaults["local"] = 0, OpBudget < TTL
  PROVE  Spec => [](PairInv /\ BasisInv /\ FirstInv)
<1>1. Init => PairInv /\ BasisInv /\ FirstInv
  <2> SUFFICES ASSUME Init PROVE PairInv /\ BasisInv /\ FirstInv
    OBVIOUS
  <2>1. \A d \in Devices : db[d].seen = None /\ pc[d] = "idle"
    BY DEF Init, VaultInit, EmptyDb
  <2>2. PairInv  BY <2>1 DEF Init, PairInv, Paired, InFlight, FaultKinds
  <2>3. BasisInv  BY <2>1 DEF BasisInv, InFlight, PushPcs
  <2>4. FirstInv  BY <2>1 DEF Init, FirstInv, Held, InFlight
  <2>5. QED  BY <2>2, <2>3, <2>4
<1>2. /\ TypeOK /\ LockInv /\ LockInv' /\ SnapshotInv /\ RevisionInv /\ ViewInv
      /\ NoLocal' /\ PairInv /\ BasisInv /\ FirstInv /\ [Next]_vars
      => PairInv' /\ BasisInv' /\ FirstInv'
  BY PairStep, BasisStep, FirstStep DEF NoLocal
<1>3. Spec => []LockInv  BY LockStays
<1>4. Spec => []ViewInv  BY ViewStays
<1>5. Spec => []NoLocal  BY NoLocalErrors
<1>6. QED
  BY <1>1, <1>2, <1>3, <1>4, <1>5, TypeCorrect, SnapshotsStay, RevisionsStay, PTL DEF Spec

(* HeadReplacedWhenSeen: if no replica crashes, no operation outlives the  *)
(* TTL and sync_state rows are written, a push replaces a head only when   *)
(* its replica has seen that head, or has never synced: should_conflict,   *)
(* although it also lets pass a push without applied manifest or with      *)
(* nothing changed, never does so to a replica that is behind.             *)
THEOREM HeadReplacedWhenSeen ==
  ASSUME MaxFaults["crash"] = 0, MaxFaults["local"] = 0, OpBudget < TTL
  PROVE  Spec => NoUnseenOverwrite
<1>1. BasisInv => \A d \in Devices : pc[d] = "putHead" /\ pc'[d] = "writeSeen" /\ head # None
                                       => ctx[d].seen \in {None, head.id}
  BY DEF BasisInv, PushPcs
<1>2. Spec => [](PairInv /\ BasisInv /\ FirstInv)  BY BasisStays
<1>3. QED  BY <1>1, <1>2, PTL DEF Spec, NoUnseenOverwrite

-----------------------------------------------------------------------------
(* The target is a compare-and-swap register.                              *)

(* The refinement mapping of Register, by names.                           *)
Value == IF head = None THEN None ELSE head.id
AnswerlessAt(p, c) == p = "writeSeen" /\ c.kind = "push"
BaseOf(p, c, b) ==
  IF AnswerlessAt(p, c) THEN Target(c)
  ELSE IF p \in {"applyCopyDb", "applyStore", "writeSeen"} THEN c.seen ELSE b.seen
UnackedOf(p, c) == IF AnswerlessAt(p, c) THEN {c.seen} ELSE {}
Base == [d \in Devices |-> BaseOf(pc[d], ctx[d], db[d])]
Unacked == [d \in Devices |-> UnackedOf(pc[d], ctx[d])]
RegisterInv == TypeOK /\ LockInv /\ ViewInv /\ PairInv /\ BasisInv /\ FirstInv

(* BaseStep: the basis of the other replicas does not change, and they     *)
(* await the answers they awaited.                                         *)
LEMMA BaseStep ==
  ASSUME NEW d \in Devices, Alone(d)
  PROVE  /\ Base' = [Base EXCEPT ![d] = BaseOf(pc'[d], ctx'[d], db'[d])]
         /\ Unacked' = [Unacked EXCEPT ![d] = UnackedOf(pc'[d], ctx'[d])]
BY DEF Base, BaseOf, Unacked, UnackedOf, AnswerlessAt, Alone, Target

(* What a step of d is to the register.                                    *)
Keeps(d) ==
  /\ BaseOf(pc'[d], ctx'[d], db'[d]) = BaseOf(pc[d], ctx[d], db[d])
  /\ UnackedOf(pc'[d], ctx'[d]) = UnackedOf(pc[d], ctx[d])
Acknowledges(d) ==
  /\ UnackedOf(pc[d], ctx[d]) # {} /\ UnackedOf(pc'[d], ctx'[d]) = {}
  /\ BaseOf(pc'[d], ctx'[d], db'[d]) = BaseOf(pc[d], ctx[d], db[d])
  /\ UNCHANGED head
Loses(d) ==
  /\ BaseOf(pc'[d], ctx'[d], db'[d]) \in UnackedOf(pc[d], ctx[d])
  /\ UnackedOf(pc'[d], ctx'[d]) = {}
  /\ UNCHANGED head
Adopts(d) ==
  /\ UnackedOf(pc[d], ctx[d]) = {} /\ UnackedOf(pc'[d], ctx'[d]) = {}
  /\ head # None /\ BaseOf(pc'[d], ctx'[d], db'[d]) = head.id
  /\ UNCHANGED head

(* BaseStays: the basis of the replica that moves changes only when it     *)
(* publishes, loses the answer or records what it pulled: removing and     *)
(* copying the database, and edits, leave it as it was.                    *)
LEMMA BaseStays ==
  ASSUME RegisterInv, LockInv', NoLocal', NEW d \in Devices, Alone(d), AnyEffect(d)
  PROVE  Keeps(d) \/ Publishes(d) \/ Acknowledges(d) \/ Loses(d) \/ Adopts(d)
<1> USE DEF AnswerlessAt
<1>1. TypeOK /\ ViewInv /\ BasisInv  BY DEF RegisterInv
<1>2. InFlight(d) /\ pc[d] \in SeenPcs(ctx[d].kind) => db[d].seen = ctx[d].seen
  BY <1>1 DEF BasisInv
<1>3. CASE Begins(d)
  BY <1>3 DEF Begins, Reads, Keeps, BaseOf, UnackedOf
<1>4. CASE Ends(d)
  <2>1. faults'["crash"] = 0  BY DEF LockInv
  <2>2. QED  BY <1>4, <2>1 DEF Ends, Reads, Keeps, BaseOf, UnackedOf, AcquirePcs, ReleasePcs
<1>5. CASE Moves(d)
  <2>1. pc'[d] \notin {"applyCopyDb", "applyStore", "writeSeen"}
    BY <1>5 DEF Moves, AcquirePcs, ReleasePcs
  <2>2. CASE pc[d] = "writeSeen" /\ ctx[d].kind = "push"
    <3>1. db'[d].seen = ctx[d].seen
      BY <1>2, <1>5, <2>2 DEF Moves, Reads, InFlight, SeenPcs
    <3>2. QED  BY <1>5, <2>1, <2>2, <3>1 DEF Moves, Reads, Loses, BaseOf, UnackedOf
  <2>3. CASE pc[d] \notin {"applyCopyDb", "applyStore", "writeSeen"}
    BY <1>5, <2>1, <2>3 DEF Moves, Reads, Keeps, BaseOf, UnackedOf
  <2>4. QED  BY <1>5, <2>2, <2>3 DEF Moves, NoLocal, AcquirePcs, ReleasePcs, PushPcs
<1>6. CASE Admits(d)
  BY <1>6 DEF Admits, Reads, Keeps, BaseOf, UnackedOf
<1>7. CASE Uploads(d)
  BY <1>7 DEF Uploads, PutSnapshot, Keeps, BaseOf, UnackedOf
<1>8. CASE Publishes(d)
  BY <1>8
<1>9. CASE Fetches(d)
  BY <1>9 DEF Fetches, Reads, Keeps, BaseOf, UnackedOf
<1>10. CASE Installs(d)
  <2>1. pc[d] = "applyRemoveDb" => db[d].seen = ctx[d].seen
    BY <1>2 DEF InFlight, SeenPcs
  <2>2. pc[d] \in PullPcs /\ ctx'[d] = ctx[d]  BY <1>10 DEF Installs, PullPcs
  <2>3. ctx[d].kind = "pull"  BY <1>1, <2>2 DEF TypeOK, ControlTypeOK, FrameTypeOK
  <2>4. QED  BY <1>10, <2>1, <2>2, <2>3 DEF Installs, Keeps, BaseOf, UnackedOf
<1>11. CASE Records(d)
  <2>1. CASE pc[d] = "writeSeen"
    <3>1. head # None /\ head.id = Target(ctx[d])  BY <1>1, <2>1 DEF ViewInv
    <3>2. pc'[d] = "writeApplied" /\ db'[d].seen = Target(ctx[d]) /\ UNCHANGED head
      BY <1>11, <2>1 DEF Records
    <3>3. CASE ctx[d].kind = "push"
      BY <2>1, <3>2, <3>3 DEF Acknowledges, BaseOf, UnackedOf
    <3>4. CASE ctx[d].kind # "push"
      BY <2>1, <3>1, <3>2, <3>4 DEF Adopts, BaseOf, UnackedOf
    <3>5. QED  BY <3>3, <3>4
  <2>2. CASE pc[d] = "writeApplied"
    BY <1>11, <2>2 DEF Records, Keeps, BaseOf, UnackedOf
  <2>3. QED  BY <1>11, <2>1, <2>2 DEF Records
<1>12. CASE Edits(d)
  BY <1>12 DEF Edits, Keeps, BaseOf, UnackedOf
<1>13. QED
  BY <1>3, <1>4, <1>5, <1>6, <1>7, <1>8, <1>9, <1>10, <1>11, <1>12 DEF AnyEffect

(* PublishStep: a push compares and swaps, and what it published is its    *)
(* own basis from then on, the old one kept in case the answer is lost.    *)
LEMMA PublishStep ==
  ASSUME RegisterInv, NEW d \in Devices, Alone(d), Publishes(d)
  PROVE  /\ Unacked[d] = {} /\ Base[d] \in {None, Value}
         /\ Value' \in SnapshotIds
         /\ BaseOf(pc'[d], ctx'[d], db'[d]) = Value'
         /\ UnackedOf(pc'[d], ctx'[d]) = {Base[d]}
<1>1. /\ TypeOK /\ LockInv /\ BasisInv /\ FirstInv
      /\ pc[d] = "putHead" /\ ctx[d] \in Frames /\ ctx[d].kind = "push"
      /\ head' # None /\ head'.id = Target(ctx[d])
  BY PublishesAlone DEF RegisterInv
<1>2. Base[d] = db[d].seen /\ db[d].seen = ctx[d].seen /\ Unacked[d] = {}
  BY <1>1 DEF Base, BaseOf, Unacked, UnackedOf, AnswerlessAt, BasisInv, InFlight, SeenPcs, PushPcs
<1>3. head = None => db[d].seen = None  BY <1>1, HeldParts DEF FirstInv
<1>4. head # None => ctx[d].seen \in {None, head.id}  BY <1>1 DEF BasisInv, PushPcs
<1>5. Target(ctx[d]) \in SnapshotIds  BY <1>1, TargetType
<1>6. pc'[d] = "writeSeen" /\ ctx'[d] = ctx[d]  BY DEF Publishes, PutHead
<1>7. /\ BaseOf(pc'[d], ctx'[d], db'[d]) = Target(ctx[d])
      /\ UnackedOf(pc'[d], ctx'[d]) = {ctx[d].seen}
  BY <1>1, <1>6 DEF BaseOf, UnackedOf, AnswerlessAt
<1>8. QED  BY <1>1, <1>2, <1>3, <1>4, <1>5, <1>7 DEF Value

(* RegisterStep: so every step of a replica is one of the register's, its  *)
(* own, or leaves the register as it is.                                   *)
LEMMA RegisterStep ==
  ASSUME RegisterInv, LockInv', NoLocal', NEW d \in Devices, Alone(d), AnyEffect(d)
  PROVE  \/ UNCHANGED <<Value, Base, Unacked>>
         \/ Register!Publish(d) \/ Register!Acknowledge(d)
         \/ Register!Lose(d) \/ Register!Adopt(d)
<1> DEFINE b == BaseOf(pc'[d], ctx'[d], db'[d])
           u == UnackedOf(pc'[d], ctx'[d])
<1>1. Base' = [Base EXCEPT ![d] = b] /\ Unacked' = [Unacked EXCEPT ![d] = u]  BY BaseStep
<1>2. Base[d] = BaseOf(pc[d], ctx[d], db[d]) /\ Unacked[d] = UnackedOf(pc[d], ctx[d])
  BY DEF Base, Unacked
<1>3. /\ Register!Publish(d) <=> /\ Unacked[d] = {} /\ Base[d] \in {None, Value}
                                /\ Value' \in SnapshotIds
                                /\ Base' = [Base EXCEPT ![d] = Value']
                                /\ Unacked' = [Unacked EXCEPT ![d] = {Base[d]}]
      /\ Register!Acknowledge(d) <=> /\ Unacked[d] # {}
                                    /\ Unacked' = [Unacked EXCEPT ![d] = {}]
                                    /\ UNCHANGED <<Value, Base>>
      /\ Register!Lose(d) <=> /\ \E x \in Unacked[d] : Base' = [Base EXCEPT ![d] = x]
                             /\ Unacked' = [Unacked EXCEPT ![d] = {}]
                             /\ UNCHANGED Value
      /\ Register!Adopt(d) <=> /\ Unacked[d] = {} /\ Value # None
                              /\ Base' = [Base EXCEPT ![d] = Value]
                              /\ UNCHANGED <<Value, Unacked>>
  BY DEF Register!Publish, Register!Acknowledge, Register!Lose, Register!Adopt,
         Value, Base, BaseOf, Unacked, UnackedOf, AnswerlessAt, Answerless
<1>4. CASE Publishes(d)  BY <1>1, <1>3, <1>4, PublishStep
<1>5. CASE Acknowledges(d)
  <2>1. Base' = Base  BY <1>1, <1>2, <1>5 DEF Acknowledges, Base
  <2>2. QED  BY <1>1, <1>2, <1>3, <1>5, <2>1 DEF Acknowledges, Value
<1>6. CASE Loses(d)  BY <1>1, <1>2, <1>3, <1>6 DEF Loses, Value
<1>7. CASE Adopts(d)
  <2>1. head \in Heads  BY <1>7 DEF Adopts, RegisterInv, TypeOK, RemoteTypeOK
  <2>2. Value = head.id /\ Value # None  BY <1>7, <2>1, NoneAssumption DEF Adopts, Value, Heads
  <2>3. Unacked' = Unacked  BY <1>1, <1>2, <1>7 DEF Adopts, Unacked
  <2>4. QED  BY <1>1, <1>2, <1>3, <1>7, <2>2, <2>3 DEF Adopts, Value
<1>8. CASE Keeps(d) /\ ~Publishes(d)
  <2>1. Base' = Base /\ Unacked' = Unacked  BY <1>1, <1>2, <1>8 DEF Keeps, Base, Unacked
  <2>2. UNCHANGED head  BY <1>8, HeadStep
  <2>3. QED  BY <2>1, <2>2 DEF Value
<1>9. QED  BY <1>4, <1>5, <1>6, <1>7, <1>8, BaseStays

(* TargetIsARegister: if no replica crashes, no operation outlives the TTL *)
(* and sync_state rows are written, every behaviour of push and pull, with *)
(* lost acknowledgements, half-done pulls and local edits in between, is   *)
(* one of the register HeadRegister: a head is put by a replica over the   *)
(* head that this replica has seen, or by one that has seen none, and the  *)
(* replica then has it as its basis or, its answer lost, the one it had.   *)
THEOREM TargetIsARegister ==
  ASSUME MaxFaults["crash"] = 0, MaxFaults["local"] = 0, OpBudget < TTL
  PROVE  Spec => ImplementsRegister
<1>1. Init => Register!Init
  <2> SUFFICES ASSUME Init PROVE Register!Init
    OBVIOUS
  <2>1. head = None /\ \A d \in Devices : pc[d] = "idle" /\ db[d].seen = None
    BY DEF Init, VaultInit, EmptyDb
  <2>2. QED  BY <2>1 DEF Register!Init, Answerless
<1>2. RegisterInv /\ LockInv' /\ NoLocal' /\ [Next]_vars => [Register!Next]_(Register!vars)
  <2> SUFFICES ASSUME RegisterInv, LockInv', NoLocal', [Next]_vars
               PROVE  [Register!Next]_(Register!vars)
    OBVIOUS
  <2>1. UNCHANGED <<Value, Base, Unacked>> => UNCHANGED Register!vars
    BY DEF Register!vars, Value, Base, BaseOf, Unacked, UnackedOf, AnswerlessAt, Answerless
  <2>2. CASE UNCHANGED <<db, rev, head, snaps, pc, ctx, faults>>
    BY <2>1, <2>2 DEF Value, Base, BaseOf, Unacked, UnackedOf, AnswerlessAt, Target
  <2>3. ASSUME NEW d \in Devices, Alone(d), AnyEffect(d)
        PROVE  UNCHANGED Register!vars \/ Register!Next
    BY <2>1, <2>3, RegisterStep DEF Register!Next
  <2>4. TypeOK  BY DEF RegisterInv
  <2>5. QED  BY <2>2, <2>3, <2>4, Effects
<1>3. Spec => []LockInv  BY LockStays
<1>4. Spec => []ViewInv  BY ViewStays
<1>5. Spec => []NoLocal  BY NoLocalErrors
<1>6. Spec => [](PairInv /\ BasisInv /\ FirstInv)  BY BasisStays
<1>7. Spec => []RegisterInv  BY <1>3, <1>4, <1>6, TypeCorrect, PTL DEF RegisterInv
<1>8. QED
  BY <1>1, <1>2, <1>3, <1>5, <1>7, PTL DEF Spec, ImplementsRegister, Register!Spec
=============================================================================
