--------------------------- MODULE LineageProofs ---------------------------
(***************************************************************************)
(* Theorems about Lineage, for every set of users, documents, overlays and *)
(* policies, every lease and every bound: no process ever writes or        *)
(* removes an overlay without grounds, every overlay is audited, and the   *)
(* answers given agree with the rows.                                      *)
(***************************************************************************)
EXTENDS Lineage, TLAPS

-----------------------------------------------------------------------------
(* The inductive invariant.                                                *)

(* A process is only ever given leases of its own user.                    *)
LeaseOwned ==
  \A q \in Procs, k \in Keys : lease[q][k] # None => lease[q][k].owner = Owner[q]

(* So the token of an overlay call is one that no other process can write; *)
(* after the first look at the lock, if the row has the token it is live.  *)
TokenLive(q) ==
  LET c == ctx[q]
  IN /\ pc[q] \in OverlaySteps => c.token[1] = Owner[q]
     /\ pc[q] = "token" /\ locks[c.key] # None /\ Token(locks[c.key]) = c.token
          => locks[c.key].until > c.now

(* The checks that a call has passed were true at some moment of the call. *)
ChecksMet(q) ==
  /\ pc[q] \in {"role", "policy", "auditAllow", "insert", "delete"} => "lock" \in met[q]
  /\ pc[q] \in {"policy", "auditAllow", "insert", "delete"} => "role" \in met[q]
  /\ pc[q] \in {"auditAllow", "insert", "delete"} => "policy" \in met[q]

(* A call that is about to insert has been audited.                        *)
InsertAudited(q) == pc[q] = "insert" => AuditRow(ctx[q], TRUE) \in audit

IInv ==
  /\ TypeOK /\ LeaseOwned /\ OverlayIsAudited /\ AnswersMatchRows
  /\ \A q \in Procs : TokenLive(q) /\ ChecksMet(q) /\ InsertAudited(q)

-----------------------------------------------------------------------------
(* Types.                                                                  *)

TablesTyped ==
  /\ locks \in [Keys -> Leases \cup {None}]
  /\ lease \in [Procs -> [Keys -> Leases \cup {None}]]
  /\ grants \subseteq Subjects \X Roles /\ bindings \subseteq Subjects \X Policies
  /\ policies \in [Policies -> PolicyRows \cup {None}]
  /\ audit \subseteq [subject: Subjects, doc: Docs, ts: 0..MaxTime, allowed: BOOLEAN]
  /\ overlays \in [Overlays -> Rows \cup {None}] /\ answered \in [Overlays -> Int]

ControlTyped ==
  /\ pc \in [Procs -> Pcs] /\ ctx \in [Procs -> Frames \cup {None}]
  /\ \A q \in Procs : FrameFits(q, pc[q], ctx[q])

(* ControlStep: one process moves to a step with a frame that fits it.     *)
LEMMA ControlStep ==
  ASSUME TypeOK, NEW q \in Procs, NEW l \in Pcs, NEW c \in Frames \cup {None},
         FrameFits(q, l, c),
         pc' = [pc EXCEPT ![q] = l], ctx' = [ctx EXCEPT ![q] = c]
  PROVE  ControlTyped'
<1>1. pc' \in [Procs -> Pcs] /\ ctx' \in [Procs -> Frames \cup {None}]
  BY DEF TypeOK
<1>2. ASSUME NEW r \in Procs PROVE FrameFits(r, pc'[r], ctx'[r])
  <2>1. CASE r = q
    <3>1. pc'[r] = l /\ ctx'[r] = c  BY <2>1 DEF TypeOK
    <3>2. QED  BY <2>1, <3>1
  <2>2. CASE r # q
    <3>1. pc'[r] = pc[r] /\ ctx'[r] = ctx[r]  BY <2>2 DEF TypeOK
    <3>2. QED  BY <3>1 DEF TypeOK
  <2>3. QED  BY <2>1, <2>2
<1>3. QED  BY <1>1, <1>2 DEF ControlTyped

(* FrameAt: what a process that is not idle has for a frame.               *)
LEMMA FrameAt ==
  ASSUME TypeOK, NEW q \in Procs, pc[q] # "idle"
  PROVE  /\ ctx[q] \in Frames /\ ctx[q] # None
         /\ ctx[q].op \in {"acquire", "release", "add", "remove"}
         /\ ctx[q].now \in 0..MaxTime /\ ctx[q].key \in Keys
         /\ ctx[q].subject \in Subjects
<1>1. ctx[q] \in Frames \cup {None} /\ FrameFits(q, pc[q], ctx[q])  BY DEF TypeOK
<1>2. ctx[q] # None  BY <1>1 DEF FrameFits
<1>3. ctx[q] \in Frames  BY <1>1, <1>2
<1>4. QED  BY <1>2, <1>3 DEF Frames

(* OverlayFrameAt: the frame of an overlay call.                           *)
LEMMA OverlayFrameAt ==
  ASSUME TypeOK, NEW q \in Procs, pc[q] \in OverlaySteps
  PROVE  /\ ctx[q].op \in {"add", "remove"} /\ ctx[q].overlay \in Overlays
         /\ ctx[q].key = DocOf[ctx[q].overlay] /\ ctx[q].key \in Docs
         /\ ctx[q].token \in Tokens
<1>1. pc[q] # "idle"  BY DEF OverlaySteps
<1>2. ctx[q] \in Frames /\ FrameFits(q, pc[q], ctx[q])  BY <1>1, FrameAt DEF TypeOK
<1>3. ctx[q].token \in Tokens \cup {None}  BY <1>2 DEF Frames
<1>4. QED  BY <1>2, <1>3, DocsAssumption DEF FrameFits

(* ReturnControl: a call that ends.                                        *)
LEMMA ReturnControl ==
  ASSUME TypeOK, NEW q \in Procs, Return(q)
  PROVE  ControlTyped' /\ ops' = ops
<1>1. FrameFits(q, "idle", None)  BY DEF FrameFits, OverlaySteps
<1>2. "idle" \in Pcs  BY DEF Pcs
<1>3. QED  BY <1>1, <1>2, ControlStep DEF Return

(* GotoControl: a call that goes on with the frame it has.                 *)
LEMMA GotoControl ==
  ASSUME TypeOK, NEW q \in Procs, NEW l \in Pcs, Goto(q, l), FrameFits(q, l, ctx[q])
  PROVE  ControlTyped' /\ ops' = ops
<1>1. ctx' = [ctx EXCEPT ![q] = ctx[q]]  BY DEF Goto, TypeOK
<1>2. ctx[q] \in Frames \cup {None}  BY DEF TypeOK
<1>3. QED  BY <1>1, <1>2, ControlStep DEF Goto

(* CallControl: a call begins with a frame that fits its first step.       *)
LEMMA CallControl ==
  ASSUME TypeOK, NEW q \in Procs, NEW l \in Pcs, NEW c \in Frames,
         FrameFits(q, l, c), Call(q, l, c)
  PROVE  ControlTyped' /\ TablesTyped' /\ ops' \in [OpKinds -> Nat]
<1>1. c.op \in {"acquire", "release", "add", "remove"}  BY DEF Frames
<1>2. (IF c.op \in {"add", "remove"} THEN "overlay" ELSE c.op) \in OpKinds
  BY <1>1 DEF OpKinds
<1>3. ops' \in [OpKinds -> Nat]  BY <1>2 DEF Call, Counted, TypeOK
<1>4. ControlTyped'  BY ControlStep DEF Call
<1>5. TablesTyped'  BY DEF Call, tables, rights, TypeOK, TablesTyped
<1>6. QED  BY <1>3, <1>4, <1>5

(* CheckControl: a check moves on or ends the call, and writes nothing.    *)
LEMMA CheckControl ==
  ASSUME TypeOK, NEW q \in Procs, NEW l \in Pcs \ {"idle"}, NEW next \in Pcs, NEW ok,
         FrameFits(q, l, ctx[q]) => FrameFits(q, next, ctx[q]),
         Check(q, l, ok, next)
  PROVE  ControlTyped' /\ TablesTyped' /\ ops' = ops
<1>1. TablesTyped'  BY DEF Check, tables, rights, TypeOK, TablesTyped
<1>2. FrameFits(q, next, ctx[q])  BY DEF Check, TypeOK
<1>3. CASE Goto(q, next)  BY <1>1, <1>2, <1>3, GotoControl
<1>4. CASE Return(q)  BY <1>1, <1>4, ReturnControl
<1>5. QED  BY <1>3, <1>4 DEF Check

(* MetTyped: the grounds recorded are grounds.                             *)
LEMMA MetTyped ==
  ASSUME TypeOK, Next
  PROVE  met' \in [Procs -> SUBSET Grounds]
<1>1. \A q \in Procs : TrueNow(q)' \subseteq Grounds  BY DEF TrueNow
<1>2. \A q \in Procs : (IF ctx'[q] = None THEN {} ELSE met[q]) \cup TrueNow(q)' \in SUBSET Grounds
  BY <1>1 DEF TypeOK
<1>3. QED  BY <1>2 DEF Next

(* LockCallTypes: the steps of lineage_lock_acquire and _release.          *)
LEMMA LockCallTypes ==
  ASSUME TypeOK, NEW q \in Procs,
         \/ \E k \in Keys : Acquire(q, k) \/ Release(q, k)
         \/ AcquireRead(q) \/ AcquireWrite(q) \/ ReleaseRead(q) \/ ReleaseDelete(q)
  PROVE  ControlTyped' /\ TablesTyped' /\ ops' \in [OpKinds -> Nat]
<1> USE DEF Pcs, LockSteps, OverlaySteps
<1>0. ops \in [OpKinds -> Nat]  BY DEF TypeOK
<1>1. ASSUME NEW k \in Keys, Acquire(q, k) PROVE ControlTyped' /\ TablesTyped' /\ ops' \in [OpKinds -> Nat]
  <2> DEFINE c == Frame("acquire", k, None, None, Owner[q])
  <2>1. c \in Frames  BY OwnersAssumption DEF Frame, Frames, TypeOK
  <2>2. FrameFits(q, "acquireRead", c)
    BY <2>1, NoneAssumption DEF Frame, FrameFits
  <2>3. QED  BY <1>1, <2>1, <2>2, CallControl DEF Acquire
<1>2. ASSUME NEW k \in Keys, Release(q, k) PROVE ControlTyped' /\ TablesTyped' /\ ops' \in [OpKinds -> Nat]
  <2> DEFINE c == Frame("release", k, Token(lease[q][k]), None, Owner[q])
  <2>1. lease[q][k] \in Leases  BY <1>2 DEF Release, TypeOK
  <2>2. Token(lease[q][k]) \in Tokens  BY <2>1 DEF Token, Tokens, Leases
  <2>3. c \in Frames  BY <2>2, OwnersAssumption DEF Frame, Frames, TypeOK
  <2>4. FrameFits(q, "releaseRead", c)
    BY <2>3, NoneAssumption DEF Frame, FrameFits
  <2>5. QED  BY <1>2, <2>3, <2>4, CallControl DEF Release
<1>3. CASE AcquireRead(q)
  <2>1. FrameFits(q, "acquireRead", ctx[q]) => FrameFits(q, "acquireWrite", ctx[q])
    BY DEF FrameFits
  <2>2. QED  BY <1>0, <1>3, <2>1, CheckControl DEF AcquireRead
<1>4. CASE AcquireWrite(q)
  <2>1. ctx[q].key \in Keys /\ ctx[q].subject \in Subjects /\ ctx[q].now \in 0..MaxTime
    BY <1>4, FrameAt DEF AcquireWrite
  <2>2. NewLease(ctx[q].subject, ctx[q].now) \in Leases
    BY <2>1, BoundsAssumption DEF NewLease, Leases
  <2>3. TablesTyped'  BY <1>4, <2>1, <2>2 DEF AcquireWrite, TypeOK, TablesTyped, rights
  <2>4. QED  BY <1>0, <1>4, <2>3, ReturnControl DEF AcquireWrite
<1>5. CASE ReleaseRead(q)
  <2>1. FrameFits(q, "releaseRead", ctx[q]) => FrameFits(q, "releaseDelete", ctx[q])
    BY DEF FrameFits
  <2>2. QED  BY <1>0, <1>5, <2>1, CheckControl DEF ReleaseRead
<1>6. CASE ReleaseDelete(q)
  <2>1. TablesTyped'  BY <1>6, FrameAt DEF ReleaseDelete, TypeOK, TablesTyped, rights
  <2>2. QED  BY <1>0, <1>6, <2>1, ReturnControl DEF ReleaseDelete
<1>7. QED  BY <1>1, <1>2, <1>3, <1>4, <1>5, <1>6

(* OverlayCallTypes: the steps of lineage_overlay_add and _remove.         *)
LEMMA OverlayCallTypes ==
  ASSUME TypeOK, NEW q \in Procs,
         \/ \E o \in Overlays, by \in Subjects : OverlayAdd(q, o, by)
         \/ \E o \in Overlays : OverlayRemove(q, o)
         \/ Find(q) \/ LockStatus(q) \/ LockToken(q) \/ EnsurePermission(q)
         \/ DecidePolicy(q) \/ WriteAudit(q) \/ InsertRow(q) \/ DeleteRow(q)
  PROVE  ControlTyped' /\ TablesTyped' /\ ops' \in [OpKinds -> Nat]
<1> USE DEF Pcs, LockSteps, OverlaySteps
<1>0. ops \in [OpKinds -> Nat]  BY DEF TypeOK
<1>1. ASSUME NEW o \in Overlays, lease[q][DocOf[o]] # None
      PROVE  /\ DocOf[o] \in Keys /\ lease[q][DocOf[o]] \in Leases
             /\ Token(lease[q][DocOf[o]]) \in Tokens
             /\ Token(lease[q][DocOf[o]]) # None
  <2>1. DocOf[o] \in Keys  BY DocsAssumption DEF Keys
  <2>2. lease[q][DocOf[o]] \in Leases  BY <1>1, <2>1 DEF TypeOK
  <2>3. Token(lease[q][DocOf[o]]) \in Tokens  BY <2>2 DEF Token, Tokens, Leases
  <2>4. QED  BY <2>1, <2>2, <2>3, NoneAssumption
<1>2. ASSUME NEW o \in Overlays, NEW by \in Subjects, OverlayAdd(q, o, by)
      PROVE  ControlTyped' /\ TablesTyped' /\ ops' \in [OpKinds -> Nat]
  <2> DEFINE c == Frame("add", DocOf[o], Token(lease[q][DocOf[o]]), o, by)
  <2>1. c \in Frames  BY <1>1, <1>2 DEF OverlayAdd, Frame, Frames, TypeOK
  <2>2. FrameFits(q, "status", c)
    BY <1>1, <1>2, <2>1, NoneAssumption DEF OverlayAdd, Frame, FrameFits
  <2>3. QED  BY <1>2, <2>1, <2>2, CallControl DEF OverlayAdd
<1>3. ASSUME NEW o \in Overlays, OverlayRemove(q, o)
      PROVE  ControlTyped' /\ TablesTyped' /\ ops' \in [OpKinds -> Nat]
  <2> DEFINE l == lease[q][DocOf[o]]
             c == Frame("remove", DocOf[o], Token(l), o, l.owner)
  <2>0. l.owner \in Subjects  BY <1>1, <1>3 DEF OverlayRemove, Leases
  <2>1. c \in Frames  BY <1>1, <1>3, <2>0 DEF OverlayRemove, Frame, Frames, TypeOK
  <2>2. FrameFits(q, "find", c)
    BY <1>1, <1>3, <2>1, NoneAssumption DEF OverlayRemove, Frame, FrameFits
  <2>3. QED  BY <1>3, <2>1, <2>2, CallControl DEF OverlayRemove
<1>4. CASE Find(q)
  <2>1. FrameFits(q, "find", ctx[q]) => FrameFits(q, "status", ctx[q])  BY DEF FrameFits
  <2>2. QED  BY <1>0, <1>4, <2>1, CheckControl DEF Find
<1>5. CASE LockStatus(q)
  <2>1. FrameFits(q, "status", ctx[q]) => FrameFits(q, "token", ctx[q])  BY DEF FrameFits
  <2>2. QED  BY <1>0, <1>5, <2>1, CheckControl DEF LockStatus
<1>6. CASE LockToken(q)
  <2>1. FrameFits(q, "token", ctx[q]) => FrameFits(q, "role", ctx[q])  BY DEF FrameFits
  <2>2. QED  BY <1>0, <1>6, <2>1, CheckControl DEF LockToken
<1>7. CASE EnsurePermission(q)
  <2>1. FrameFits(q, "role", ctx[q]) => FrameFits(q, "policy", ctx[q])  BY DEF FrameFits
  <2>2. QED  BY <1>0, <1>7, <2>1, CheckControl DEF EnsurePermission
<1>8. CASE DecidePolicy(q)
  <2>1. FrameFits(q, "policy", ctx[q])  BY <1>8 DEF DecidePolicy, TypeOK
  <2>2. FrameFits(q, "auditAllow", ctx[q]) /\ FrameFits(q, "auditDeny", ctx[q])
    BY <2>1 DEF FrameFits
  <2>3. TablesTyped'  BY <1>8 DEF DecidePolicy, tables, rights, TypeOK, TablesTyped
  <2>4. QED  BY <1>0, <1>8, <2>2, <2>3, GotoControl DEF DecidePolicy
<1>9. CASE WriteAudit(q)
  <2>1. pc[q] \in {"auditDeny", "auditAllow"}  BY <1>9 DEF WriteAudit
  <2>2. FrameFits(q, pc[q], ctx[q])  BY DEF TypeOK
  <2>3. \A a \in BOOLEAN : AuditRow(ctx[q], a) \in
          [subject: Subjects, doc: Docs, ts: 0..MaxTime, allowed: BOOLEAN]
    BY <2>1, FrameAt, OverlayFrameAt DEF AuditRow
  <2>4. TablesTyped'  BY <1>9, <2>3 DEF WriteAudit, TypeOK, TablesTyped, rights
  <2>5. ctx[q].op = "add" => FrameFits(q, "insert", ctx[q])
    BY <2>1, <2>2 DEF FrameFits
  <2>6. ctx[q].op # "add" => FrameFits(q, "delete", ctx[q])
    BY <2>1, <2>2 DEF FrameFits
  <2>7. QED  BY <1>0, <1>9, <2>4, <2>5, <2>6, GotoControl, ReturnControl DEF WriteAudit
<1>10. CASE InsertRow(q)
  <2>1. [by |-> ctx[q].subject, at |-> ctx[q].now] \in Rows
    BY <1>10, FrameAt DEF InsertRow, Rows
  <2>2. overlays' \in [Overlays -> Rows \cup {None}] /\ answered' \in [Overlays -> Int]
    <3>1. ctx[q].overlay \in Overlays  BY <1>10, OverlayFrameAt DEF InsertRow
    <3>2. QED  BY <1>10, <2>1, <3>1 DEF InsertRow, TypeOK
  <2>3. TablesTyped'  BY <1>10, <2>2 DEF InsertRow, TypeOK, TablesTyped, rights
  <2>4. QED  BY <1>0, <1>10, <2>3, ReturnControl DEF InsertRow
<1>11. CASE DeleteRow(q)
  <2>1. TablesTyped'
    BY <1>11, OverlayFrameAt DEF DeleteRow, TypeOK, TablesTyped, rights
  <2>2. QED  BY <1>0, <1>11, <2>1, ReturnControl DEF DeleteRow
<1>12. QED
  BY <1>2, <1>3, <1>4, <1>5, <1>6, <1>7, <1>8, <1>9, <1>10, <1>11

(* AdminTypes: changes of roles and policies.                              *)
LEMMA AdminTypes ==
  ASSUME TypeOK, AdminStep
  PROVE  /\ ControlTyped' /\ TablesTyped' /\ ops' \in [OpKinds -> Nat]
         /\ UNCHANGED <<locks, lease, audit, overlays, answered, pc, ctx>>
<1>1. ChangeRights  BY DEF AdminStep, RoleGrant, RoleRevoke, PolicyAdd, PolicyBind
<1>2. ops' \in [OpKinds -> Nat]
  BY <1>1 DEF ChangeRights, Counted, TypeOK, OpKinds
<1>3. ControlTyped'  BY <1>1 DEF ChangeRights, ControlTyped, TypeOK
<1> DEFINE RightsTyped == /\ grants' \subseteq Subjects \X Roles
                          /\ bindings' \subseteq Subjects \X Policies
                          /\ policies' \in [Policies -> PolicyRows \cup {None}]
<1>4. ASSUME NEW s \in Subjects, NEW r \in Roles, RoleGrant(s, r) \/ RoleRevoke(s, r)
      PROVE  RightsTyped
  BY <1>4 DEF RoleGrant, RoleRevoke, TypeOK
<1>5. ASSUME NEW n \in Policies, NEW effect \in Effects, NEW ds \in SUBSET Docs,
             PolicyAdd(n, effect, ds)
      PROVE  RightsTyped
  <2>1. [effect |-> effect, docs |-> ds] \in PolicyRows  BY DEF PolicyRows
  <2>2. QED  BY <1>5, <2>1 DEF PolicyAdd, TypeOK
<1>6. ASSUME NEW s \in Subjects, NEW n \in Policies, PolicyBind(s, n)
      PROVE  RightsTyped
  BY <1>6 DEF PolicyBind, TypeOK
<1>7. RightsTyped  BY <1>4, <1>5, <1>6 DEF AdminStep
<1>8. QED  BY <1>1, <1>2, <1>3, <1>7 DEF ChangeRights, TablesTyped, TypeOK

(* TypeStep: every step keeps the state well typed.                        *)
LEMMA TypeStep == TypeOK /\ [Next]_vars => TypeOK'
<1>1. ASSUME TypeOK, UNCHANGED vars PROVE TypeOK'
  BY <1>1 DEF vars, tables, rights, TypeOK
<1>2. ASSUME TypeOK, Next PROVE TypeOK'
  <2>1. met' \in [Procs -> SUBSET Grounds]  BY <1>2, MetTyped
  <2>2. CASE (\E q \in Procs : ProcStep(q)) /\ UNCHANGED clock
    <3>1. ControlTyped' /\ TablesTyped' /\ ops' \in [OpKinds -> Nat]
      BY <1>2, <2>2, LockCallTypes, OverlayCallTypes DEF ProcStep
    <3>2. QED  BY <1>2, <2>1, <2>2, <3>1 DEF TypeOK, ControlTyped, TablesTyped
  <2>3. CASE AdminStep /\ UNCHANGED clock
    BY <1>2, <2>1, <2>3, AdminTypes DEF TypeOK, ControlTyped, TablesTyped
  <2>4. CASE Tick
    <3>1. clock' \in 0..MaxTime  BY <1>2, <2>4, BoundsAssumption DEF Tick, TypeOK
    <3>2. QED  BY <1>2, <2>1, <2>4, <3>1 DEF Tick, TypeOK, tables, rights
  <2>5. QED  BY <1>2, <2>2, <2>3, <2>4 DEF Next
<1>3. QED  BY <1>1, <1>2

(* InitTyped: a new vault.                                                 *)
LEMMA InitTyped == Init => TypeOK
<1> SUFFICES ASSUME Init PROVE TypeOK  OBVIOUS
<1>1. TablesTyped  BY RightsAssumption DEF Init, TablesTyped
<1>2. \A q \in Procs : FrameFits(q, pc[q], ctx[q])
  BY DEF Init, FrameFits, OverlaySteps
<1>3. QED  BY <1>1, <1>2, BoundsAssumption DEF Init, TypeOK, TablesTyped, Pcs

-----------------------------------------------------------------------------
(* What a step leaves alone.                                               *)

(* StepEffects: a step of one process moves no other; only a write of the  *)
(* lock row changes locks and leases, only an insert or a delete changes   *)
(* overlays and answers; rights stay and the audit only grows.             *)
LEMMA StepEffects ==
  ASSUME TypeOK, NEW q \in Procs, ProcStep(q)
  PROVE  /\ \A r \in Procs : r # q => pc'[r] = pc[r] /\ ctx'[r] = ctx[r]
         /\ UNCHANGED <<locks, lease>> \/ AcquireWrite(q) \/ ReleaseDelete(q)
         /\ UNCHANGED <<overlays, answered>> \/ InsertRow(q) \/ DeleteRow(q)
         /\ audit \subseteq audit'
         /\ UNCHANGED rights
<1> USE DEF TypeOK, tables, rights
<1>1. ASSUME NEW l, NEW c, Call(q, l, c)
      PROVE  /\ \A r \in Procs : r # q => pc'[r] = pc[r] /\ ctx'[r] = ctx[r]
             /\ UNCHANGED tables
  BY <1>1 DEF Call
<1>2. ASSUME NEW l, NEW ok, NEW next, Check(q, l, ok, next)
      PROVE  /\ \A r \in Procs : r # q => pc'[r] = pc[r] /\ ctx'[r] = ctx[r]
             /\ UNCHANGED tables
  BY <1>2 DEF Check, Goto, Return
<1>3. CASE \/ \E k \in Keys : Acquire(q, k) \/ Release(q, k)
           \/ \E o \in Overlays, by \in Subjects : OverlayAdd(q, o, by)
           \/ \E o \in Overlays : OverlayRemove(q, o)
  BY <1>1, <1>3 DEF Acquire, Release, OverlayAdd, OverlayRemove
<1>4. CASE AcquireRead(q) \/ ReleaseRead(q) \/ Find(q) \/ LockStatus(q) \/ LockToken(q)
           \/ EnsurePermission(q)
  BY <1>2, <1>4 DEF AcquireRead, ReleaseRead, Find, LockStatus, LockToken, EnsurePermission
<1>5. CASE AcquireWrite(q)  BY <1>5 DEF AcquireWrite, Return
<1>6. CASE ReleaseDelete(q)  BY <1>6 DEF ReleaseDelete, Return
<1>7. CASE DecidePolicy(q)  BY <1>7 DEF DecidePolicy, Goto
<1>8. CASE WriteAudit(q)  BY <1>8 DEF WriteAudit, Goto, Return
<1>9. CASE InsertRow(q)  BY <1>9 DEF InsertRow, Return
<1>10. CASE DeleteRow(q)  BY <1>10 DEF DeleteRow, Return
<1>11. QED
  BY <1>3, <1>4, <1>5, <1>6, <1>7, <1>8, <1>9, <1>10 DEF ProcStep

(* MetGrows: what was met stays met as long as the call goes on, and what  *)
(* is true after a step is met.                                            *)
LEMMA MetGrows ==
  ASSUME Next, NEW q \in Procs
  PROVE  /\ ctx'[q] # None => met[q] \subseteq met'[q]
         /\ TrueNow(q)' \subseteq met'[q]
BY DEF Next

-----------------------------------------------------------------------------
(* The parts of the invariant.                                             *)

(* LeaseStep: a lease names the user of the process that was given it.     *)
LEMMA LeaseStep ==
  ASSUME IInv, NEW q \in Procs, ProcStep(q)
  PROVE  LeaseOwned'
<1>1. TypeOK /\ LeaseOwned  BY DEF IInv
<1>2. CASE lease' = lease  BY <1>1, <1>2 DEF LeaseOwned
<1>3. CASE AcquireWrite(q)
  <2>1. ctx[q].key \in Keys /\ ctx[q].subject = Owner[q]
    BY <1>1, <1>3, FrameAt DEF AcquireWrite, TypeOK, FrameFits
  <2>2. lease' = [lease EXCEPT ![q][ctx[q].key] = NewLease(Owner[q], ctx[q].now)]
    BY <1>3, <2>1 DEF AcquireWrite
  <2>3. NewLease(Owner[q], ctx[q].now).owner = Owner[q]  BY DEF NewLease
  <2>4. ASSUME NEW r \in Procs, NEW k \in Keys, lease'[r][k] # None
        PROVE  lease'[r][k].owner = Owner[r]
    <3>1. CASE r = q /\ k = ctx[q].key  BY <1>1, <2>1, <2>2, <2>3, <3>1 DEF TypeOK
    <3>2. CASE ~(r = q /\ k = ctx[q].key)
      <4>1. lease'[r][k] = lease[r][k]  BY <1>1, <2>1, <2>2, <3>2 DEF TypeOK
      <4>2. QED  BY <1>1, <2>4, <4>1 DEF LeaseOwned
    <3>3. QED  BY <3>1, <3>2
  <2>5. QED  BY <2>4 DEF LeaseOwned
<1>4. QED  BY <1>1, <1>2, <1>3, StepEffects DEF ReleaseDelete

(* OtherTokens: a step of q does not bring back the token of another       *)
(* process: lock rows carry the user of the process that writes them.      *)
LEMMA OtherTokens ==
  ASSUME IInv, NEW q \in Procs, ProcStep(q), NEW r \in Procs, r # q
  PROVE  TokenLive(r)'
<1> USE DEF IInv
<1>1. pc'[r] = pc[r] /\ ctx'[r] = ctx[r]  BY StepEffects
<1>2. TokenLive(r)  OBVIOUS
<1>3. CASE locks' = locks  BY <1>1, <1>2, <1>3 DEF TokenLive
<1>4. CASE AcquireWrite(q)
  <2>1. ctx[q].key \in Keys /\ ctx[q].subject = Owner[q]
    BY <1>4, FrameAt DEF AcquireWrite, TypeOK, FrameFits
  <2>2. locks' = [locks EXCEPT ![ctx[q].key] = NewLease(Owner[q], ctx[q].now)]
    BY <1>4, <2>1 DEF AcquireWrite
  <2>3. Token(NewLease(Owner[q], ctx[q].now))[1] = Owner[q]  BY DEF Token, NewLease
  <2>4. ASSUME pc[r] = "token", locks'[ctx[r].key] # None,
               Token(locks'[ctx[r].key]) = ctx[r].token
        PROVE  locks'[ctx[r].key].until > ctx[r].now
    <3>1. ctx[r].key \in Keys  BY <2>4, FrameAt
    <3>2. ctx[r].token[1] = Owner[r]  BY <1>2, <2>4 DEF TokenLive, OverlaySteps
    <3>3. ctx[r].key # ctx[q].key
      BY <2>1, <2>2, <2>3, <2>4, <3>1, <3>2, OwnersAssumption DEF TypeOK
    <3>4. locks'[ctx[r].key] = locks[ctx[r].key]  BY <2>2, <3>1, <3>3 DEF TypeOK
    <3>5. QED  BY <1>2, <2>4, <3>4 DEF TokenLive
  <2>5. QED  BY <1>1, <1>2, <2>4 DEF TokenLive
<1>5. CASE ReleaseDelete(q)
  <2>1. ctx[q].key \in Keys /\ locks' = [locks EXCEPT ![ctx[q].key] = None]
    BY <1>5, FrameAt DEF ReleaseDelete
  <2>2. \A k \in Keys : locks'[k] # None => locks'[k] = locks[k]  BY <2>1 DEF TypeOK
  <2>3. pc[r] = "token" => ctx[r].key \in Keys  BY FrameAt
  <2>4. QED  BY <1>1, <1>2, <2>2, <2>3 DEF TokenLive
<1>6. QED  BY <1>3, <1>4, <1>5, StepEffects

(* IdleHolds: an idle process has nothing to show.                         *)
LEMMA IdleHolds ==
  ASSUME TypeOK', NEW q \in Procs, pc'[q] \notin OverlaySteps
  PROVE  TokenLive(q)' /\ ChecksMet(q)' /\ InsertAudited(q)'
BY DEF TokenLive, ChecksMet, InsertAudited, OverlaySteps

(* ReturnHolds: nor has a process that returns.                            *)
LEMMA ReturnHolds ==
  ASSUME TypeOK, TypeOK', NEW q \in Procs, Return(q)
  PROVE  TokenLive(q)' /\ ChecksMet(q)' /\ InsertAudited(q)'
<1>1. pc'[q] = "idle"  BY DEF Return, TypeOK
<1>2. QED  BY <1>1, IdleHolds DEF OverlaySteps

(* CallHolds: an overlay call begins with a token of its own user.         *)
LEMMA CallHolds ==
  ASSUME IInv, TypeOK', NEW q \in Procs,
         \/ \E k \in Keys : Acquire(q, k) \/ Release(q, k)
         \/ \E o \in Overlays, by \in Subjects : OverlayAdd(q, o, by)
         \/ \E o \in Overlays : OverlayRemove(q, o)
  PROVE  TokenLive(q)' /\ ChecksMet(q)' /\ InsertAudited(q)'
<1> USE DEF IInv
<1>1. CASE \E k \in Keys : Acquire(q, k) \/ Release(q, k)
  <2>1. pc'[q] \in {"acquireRead", "releaseRead"}
    BY <1>1 DEF Acquire, Release, Call, TypeOK
  <2>2. QED  BY <2>1, IdleHolds DEF OverlaySteps
<1>2. ASSUME NEW o \in Overlays, lease[q][DocOf[o]] # None
      PROVE  Token(lease[q][DocOf[o]])[1] = Owner[q]
  <2>1. DocOf[o] \in Keys  BY DocsAssumption DEF Keys
  <2>2. QED  BY <1>2, <2>1 DEF LeaseOwned, Token
<1>3. ASSUME NEW o \in Overlays, NEW by \in Subjects, OverlayAdd(q, o, by)
      PROVE  TokenLive(q)' /\ ChecksMet(q)' /\ InsertAudited(q)'
  <2>1. pc'[q] = "status" /\ ctx'[q].token = Token(lease[q][DocOf[o]])
    BY <1>3 DEF OverlayAdd, Call, Frame, TypeOK
  <2>2. ctx'[q].token[1] = Owner[q]  BY <1>2, <1>3, <2>1 DEF OverlayAdd
  <2>3. QED  BY <2>1, <2>2 DEF TokenLive, ChecksMet, InsertAudited
<1>4. ASSUME NEW o \in Overlays, OverlayRemove(q, o)
      PROVE  TokenLive(q)' /\ ChecksMet(q)' /\ InsertAudited(q)'
  <2>1. pc'[q] = "find" /\ ctx'[q].token = Token(lease[q][DocOf[o]])
    BY <1>4 DEF OverlayRemove, Call, Frame, TypeOK
  <2>2. ctx'[q].token[1] = Owner[q]  BY <1>2, <1>4, <2>1 DEF OverlayRemove
  <2>3. QED  BY <2>1, <2>2 DEF TokenLive, ChecksMet, InsertAudited
<1>5. QED  BY <1>1, <1>3, <1>4

(* ChecksHold: a check that passes is one of the grounds from then on.     *)
LEMMA ChecksHold ==
  ASSUME IInv, TypeOK', Next, NEW q \in Procs,
         \/ Find(q) \/ LockStatus(q) \/ LockToken(q) \/ EnsurePermission(q)
         \/ DecidePolicy(q)
  PROVE  TokenLive(q)' /\ ChecksMet(q)' /\ InsertAudited(q)'
<1> USE DEF IInv
<1> DEFINE c == ctx[q]
<1>0. pc[q] \in OverlaySteps
  BY DEF Find, LockStatus, LockToken, EnsurePermission, DecidePolicy, Check, OverlaySteps
<1>1. c # None /\ c.op \in {"add", "remove"} /\ c.token[1] = Owner[q] /\ c.key \in Keys
  BY <1>0, FrameAt, OverlayFrameAt DEF TokenLive, OverlaySteps
<1>2. UNCHANGED <<locks, grants, policies, bindings>>
  BY DEF Find, LockStatus, LockToken, EnsurePermission, DecidePolicy, Check, tables, rights
<1>3. ASSUME ctx'[q] = c
      PROVE  /\ met[q] \subseteq met'[q] /\ TrueNow(q)' \subseteq met'[q]
             /\ TrueNow(q)' = TrueNow(q)
  <2>1. met[q] \subseteq met'[q] /\ TrueNow(q)' \subseteq met'[q]  BY <1>1, <1>3, MetGrows
  <2>2. TrueNow(q)' = TrueNow(q)
    BY <1>2, <1>3 DEF TrueNow, Held, Token, Permitted, Matching
  <2>3. QED  BY <2>1, <2>2
<1>4. CASE Return(q)  BY <1>4, ReturnHolds
<1>5. CASE Find(q) /\ Goto(q, "status")
  <2>1. pc'[q] = "status" /\ ctx'[q] = c  BY <1>5 DEF Goto, TypeOK
  <2>2. QED  BY <1>1, <2>1 DEF TokenLive, ChecksMet, InsertAudited
<1>6. CASE LockStatus(q) /\ Held(c.key, c.now) /\ Goto(q, "token")
  <2>1. pc'[q] = "token" /\ ctx'[q] = c  BY <1>6 DEF Goto, TypeOK
  <2>2. locks'[c.key].until > c.now  BY <1>2, <1>6 DEF Held
  <2>3. QED  BY <1>1, <2>1, <2>2 DEF TokenLive, ChecksMet, InsertAudited
<1>7. CASE LockToken(q) /\ locks[c.key] # None /\ Token(locks[c.key]) = c.token /\ Goto(q, "role")
  <2>1. pc'[q] = "role" /\ ctx'[q] = c  BY <1>7 DEF Goto, TypeOK
  <2>2. Held(c.key, c.now)  BY <1>7 DEF TokenLive, LockToken, Check, Held
  <2>3. "lock" \in TrueNow(q)  BY <1>1, <1>7, <2>2 DEF TrueNow, Grounds
  <2>4. "lock" \in met'[q]  BY <1>3, <2>1, <2>3
  <2>5. QED  BY <1>1, <2>1, <2>4 DEF TokenLive, ChecksMet, InsertAudited
<1>8. CASE EnsurePermission(q) /\ Permitted(c.subject) /\ Goto(q, "policy")
  <2>1. pc'[q] = "policy" /\ ctx'[q] = c  BY <1>8 DEF Goto, TypeOK
  <2>2. "role" \in TrueNow(q)  BY <1>1, <1>8 DEF TrueNow, Grounds
  <2>3. "lock" \in met[q]  BY <1>8 DEF EnsurePermission, Check, ChecksMet
  <2>4. {"lock", "role"} \subseteq met'[q]  BY <1>3, <2>1, <2>2, <2>3
  <2>5. QED  BY <1>1, <2>1, <2>4 DEF TokenLive, ChecksMet, InsertAudited
<1>9. CASE DecidePolicy(q) /\ PolicyDecision(c.subject, c.key) /\ Goto(q, "auditAllow")
  <2>1. pc'[q] = "auditAllow" /\ ctx'[q] = c  BY <1>9 DEF Goto, TypeOK
  <2>2. "policy" \in TrueNow(q)  BY <1>1, <1>9 DEF TrueNow, Grounds, PolicyDecision
  <2>3. {"lock", "role"} \subseteq met[q]  BY <1>9 DEF DecidePolicy, ChecksMet
  <2>4. {"lock", "role", "policy"} \subseteq met'[q]  BY <1>3, <2>1, <2>2, <2>3
  <2>5. QED  BY <1>1, <2>1, <2>4 DEF TokenLive, ChecksMet, InsertAudited
<1>10. CASE DecidePolicy(q) /\ Goto(q, "auditDeny")
  <2>1. pc'[q] = "auditDeny" /\ ctx'[q] = c  BY <1>10 DEF Goto, TypeOK
  <2>2. QED  BY <1>1, <2>1 DEF TokenLive, ChecksMet, InsertAudited
<1>11. QED
  BY <1>4, <1>5, <1>6, <1>7, <1>8, <1>9, <1>10
  DEF Find, LockStatus, LockToken, EnsurePermission, DecidePolicy, Check

(* AuditHolds: the decision is in the audit before the row is written.     *)
LEMMA AuditHolds ==
  ASSUME IInv, TypeOK', Next, NEW q \in Procs, WriteAudit(q)
  PROVE  TokenLive(q)' /\ ChecksMet(q)' /\ InsertAudited(q)'
<1> USE DEF IInv
<1>1. CASE Return(q)  BY <1>1, ReturnHolds
<1>2. CASE /\ pc[q] = "auditAllow" /\ audit' = audit \cup {AuditRow(ctx[q], TRUE)}
           /\ Goto(q, IF ctx[q].op = "add" THEN "insert" ELSE "delete")
  <2>1. pc'[q] \in {"insert", "delete"} /\ ctx'[q] = ctx[q]  BY <1>2 DEF Goto, TypeOK
  <2>2. ctx[q] # None /\ ctx[q].token[1] = Owner[q]
    BY <1>2, FrameAt DEF TokenLive, OverlaySteps
  <2>3. met[q] \subseteq met'[q]  BY <2>1, <2>2, MetGrows
  <2>4. {"lock", "role", "policy"} \subseteq met[q]  BY <1>2 DEF ChecksMet
  <2>5. AuditRow(ctx'[q], TRUE) \in audit'  BY <1>2, <2>1
  <2>6. QED  BY <2>1, <2>2, <2>3, <2>4, <2>5 DEF TokenLive, ChecksMet, InsertAudited, AuditRow
<1>3. QED  BY <1>1, <1>2 DEF WriteAudit

(* OwnStep: the parts about the process that takes the step.               *)
LEMMA OwnStep ==
  ASSUME IInv, TypeOK', Next, NEW q \in Procs, ProcStep(q)
  PROVE  TokenLive(q)' /\ ChecksMet(q)' /\ InsertAudited(q)'
<1> USE DEF IInv
<1>1. CASE AcquireRead(q) \/ ReleaseRead(q)
  <2>1. pc'[q] \in {"acquireWrite", "releaseDelete", "idle"}
    BY <1>1 DEF AcquireRead, ReleaseRead, Check, Goto, Return, TypeOK
  <2>2. QED  BY <2>1, IdleHolds DEF OverlaySteps
<1>2. CASE AcquireWrite(q) \/ ReleaseDelete(q) \/ InsertRow(q) \/ DeleteRow(q)
  BY <1>2, ReturnHolds DEF AcquireWrite, ReleaseDelete, InsertRow, DeleteRow
<1>3. QED  BY <1>1, <1>2, CallHolds, ChecksHold, AuditHolds DEF ProcStep

(* RowsStep: a row is written only after its audit, and each answer goes   *)
(* with the row it changed.                                                *)
LEMMA RowsStep ==
  ASSUME IInv, NEW q \in Procs, ProcStep(q)
  PROVE  OverlayIsAudited' /\ AnswersMatchRows'
<1> USE DEF IInv
<1>0. audit \subseteq audit'  BY StepEffects
<1>1. CASE UNCHANGED <<overlays, answered>>
  BY <1>0, <1>1 DEF OverlayIsAudited, AnswersMatchRows
<1>2. CASE InsertRow(q)
  <2> DEFINE c == ctx[q]
  <2>1. c.overlay \in Overlays /\ c.key = DocOf[c.overlay]
    BY <1>2, OverlayFrameAt DEF InsertRow, OverlaySteps
  <2>2. [by |-> c.subject, at |-> c.now] # None
    <3>1. [by |-> c.subject, at |-> c.now] \in Rows  BY <1>2, FrameAt DEF InsertRow, Rows
    <3>2. QED  BY <3>1, NoneAssumption
  <2>3. [subject |-> c.subject, doc |-> DocOf[c.overlay], ts |-> c.now, allowed |-> TRUE] \in audit
    BY <1>2, <2>1 DEF InsertRow, InsertAudited, AuditRow
  <2>4. CASE overlays[c.overlay] # None
    BY <1>0, <1>1, <1>2, <2>4 DEF InsertRow
  <2>5. CASE overlays[c.overlay] = None
    <3>1. /\ overlays' = [overlays EXCEPT ![c.overlay] = [by |-> c.subject, at |-> c.now]]
          /\ answered' = [answered EXCEPT ![c.overlay] = @ + 1]
      BY <1>2, <2>5 DEF InsertRow
    <3>2. answered[c.overlay] = 0  BY <2>1, <2>5 DEF AnswersMatchRows
    <3>3. AnswersMatchRows'  BY <2>1, <2>2, <3>1, <3>2 DEF AnswersMatchRows, TypeOK
    <3>4. OverlayIsAudited'  BY <1>0, <2>1, <2>3, <3>1 DEF OverlayIsAudited, TypeOK
    <3>5. QED  BY <3>3, <3>4
  <2>6. QED  BY <2>4, <2>5
<1>3. CASE DeleteRow(q)
  <2> DEFINE c == ctx[q]
  <2>1. c.overlay \in Overlays  BY <1>3, OverlayFrameAt DEF DeleteRow, OverlaySteps
  <2>2. overlays' = [overlays EXCEPT ![c.overlay] = None]  BY <1>3 DEF DeleteRow
  <2>3. OverlayIsAudited'  BY <1>0, <2>1, <2>2 DEF OverlayIsAudited, TypeOK
  <2>4. answered'[c.overlay] = 0
    BY <1>3, <2>1 DEF DeleteRow, AnswersMatchRows, TypeOK
  <2>5. \A o \in Overlays : o # c.overlay => answered'[o] = answered[o]
    BY <1>3, <2>1 DEF DeleteRow, TypeOK
  <2>6. AnswersMatchRows'  BY <2>1, <2>2, <2>4, <2>5 DEF AnswersMatchRows, TypeOK
  <2>7. QED  BY <2>3, <2>6
<1>4. QED  BY <1>1, <1>2, <1>3, StepEffects

(* QuietHolds: a process whose frame, step and locks are as they were.     *)
LEMMA QuietHolds ==
  ASSUME IInv, TypeOK', NEW q \in Procs, pc'[q] = pc[q], ctx'[q] = ctx[q],
         audit \subseteq audit', ctx'[q] # None => met[q] \subseteq met'[q]
  PROVE  ChecksMet(q)' /\ InsertAudited(q)' /\ (locks' = locks => TokenLive(q)')
<1>1. pc[q] # "idle" => ctx[q] # None  BY FrameAt DEF IInv
<1>2. QED  BY <1>1 DEF IInv, ChecksMet, InsertAudited, TokenLive, AuditRow

(* Inductive: every step preserves the invariant.                          *)
LEMMA Inductive == IInv /\ [Next]_vars => IInv'
<1>1. ASSUME IInv, UNCHANGED vars PROVE IInv'
  <2>1. TypeOK'  BY <1>1, TypeStep DEF IInv
  <2>2. \A q \in Procs : TokenLive(q)' /\ ChecksMet(q)' /\ InsertAudited(q)'
    BY <1>1, <2>1, QuietHolds DEF vars, tables
  <2>3. QED
    BY <1>1, <2>1, <2>2
    DEF vars, tables, IInv, LeaseOwned, OverlayIsAudited, AnswersMatchRows
<1>2. ASSUME IInv, Next PROVE IInv'
  <2>1. TypeOK'  BY <1>2, TypeStep DEF IInv
  <2>2. ASSUME NEW q \in Procs, ProcStep(q) PROVE IInv'
    <3>1. LeaseOwned'  BY <1>2, <2>2, LeaseStep
    <3>2. OverlayIsAudited' /\ AnswersMatchRows'  BY <1>2, <2>2, RowsStep
    <3>3. ASSUME NEW r \in Procs, r # q
          PROVE  TokenLive(r)' /\ ChecksMet(r)' /\ InsertAudited(r)'
      <4>1. TokenLive(r)'  BY <1>2, <2>2, <3>3, OtherTokens
      <4>2. pc'[r] = pc[r] /\ ctx'[r] = ctx[r] /\ audit \subseteq audit'
        BY <1>2, <2>2, <3>3, StepEffects DEF IInv
      <4>3. ctx'[r] # None => met[r] \subseteq met'[r]  BY <1>2, MetGrows
      <4>4. QED  BY <1>2, <2>1, <4>1, <4>2, <4>3, QuietHolds
    <3>4. TokenLive(q)' /\ ChecksMet(q)' /\ InsertAudited(q)'
      BY <1>2, <2>1, <2>2, OwnStep
    <3>5. QED  BY <2>1, <3>1, <3>2, <3>3, <3>4 DEF IInv
  <2>3. CASE AdminStep \/ Tick
    <3>1. UNCHANGED <<locks, lease, audit, overlays, answered, pc, ctx>>
      BY <1>2, <2>3, AdminTypes DEF IInv, Tick, tables
    <3>2. ASSUME NEW q \in Procs PROVE TokenLive(q)' /\ ChecksMet(q)' /\ InsertAudited(q)'
      <4>1. ctx'[q] # None => met[q] \subseteq met'[q]  BY <1>2, MetGrows
      <4>2. QED  BY <1>2, <2>1, <3>1, <4>1, QuietHolds
    <3>3. QED
      BY <1>2, <2>1, <3>1, <3>2 DEF IInv, LeaseOwned, OverlayIsAudited, AnswersMatchRows
  <2>4. QED  BY <1>2, <2>2, <2>3 DEF Next
<1>3. QED  BY <1>1, <1>2

(* Initially: a new vault satisfies the invariant.                         *)
LEMMA Initially == Init => IInv
<1> SUFFICES ASSUME Init PROVE IInv  OBVIOUS
<1>1. TypeOK  BY InitTyped
<1>2. \A q \in Procs : TokenLive(q) /\ ChecksMet(q) /\ InsertAudited(q)
  BY DEF Init, TokenLive, ChecksMet, InsertAudited, OverlaySteps
<1>3. LeaseOwned /\ OverlayIsAudited /\ AnswersMatchRows
  BY DEF Init, LeaseOwned, OverlayIsAudited, AnswersMatchRows
<1>4. QED  BY <1>1, <1>2, <1>3 DEF IInv

-----------------------------------------------------------------------------
(* TypeCorrect: rows, leases, frames and histories are always well typed.  *)
THEOREM TypeCorrect == Spec => []TypeOK
<1>1. QED  BY InitTyped, TypeStep, PTL DEF Spec

(* Invariance: the invariant always holds.                                 *)
LEMMA Invariance == Spec => []IInv
<1>1. QED  BY Initially, Inductive, PTL DEF Spec

(* EveryOverlayAudited: every row of lineage_overlays was allowed by a     *)
(* decision that ensure_lineage_policy_allows recorded for the same user,  *)
(* document and time.                                                      *)
THEOREM EveryOverlayAudited == Spec => []OverlayIsAudited
<1>1. IInv => OverlayIsAudited  BY DEF IInv
<1>2. QED  BY <1>1, Invariance, PTL

(* AnswersAgree: of overlapping lineage_overlay_add and _remove calls,     *)
(* exactly one is told that it changed the row.                            *)
THEOREM AnswersAgree == Spec => []AnswersMatchRows
<1>1. IInv => AnswersMatchRows  BY DEF IInv
<1>2. QED  BY <1>1, Invariance, PTL

(* GroundsForEveryWrite: no lease that had expired, role that had been     *)
(* revoked or policy that had denied before the call began lets an overlay *)
(* be written or removed, although each check is a statement of its own.   *)
THEOREM GroundsForEveryWrite == Spec => WriteHasGrounds
<1> DEFINE A == \A o \in Overlays : overlays'[o] # overlays[o] =>
                  \E q \in Procs : ctx[q] # None /\ ctx[q].overlay = o /\ met[q] = Grounds
<1>1. ASSUME IInv, Next PROVE A
  <2>1. ASSUME NEW q \in Procs, ProcStep(q) PROVE A
    <3>1. CASE overlays' = overlays  BY <3>1
    <3>2. CASE InsertRow(q) \/ DeleteRow(q)
      <4>1. pc[q] \in {"insert", "delete"}  BY <3>2 DEF InsertRow, DeleteRow
      <4>2. ctx[q] # None /\ ctx[q].overlay \in Overlays
        BY <1>1, <4>1, FrameAt, OverlayFrameAt DEF IInv, OverlaySteps
      <4>3. met[q] = Grounds
        BY <1>1, <4>1 DEF IInv, ChecksMet, Grounds, TypeOK
      <4>4. \A o \in Overlays : o # ctx[q].overlay => overlays'[o] = overlays[o]
        BY <1>1, <3>2, <4>2 DEF IInv, TypeOK, InsertRow, DeleteRow
      <4>5. QED  BY <4>2, <4>3, <4>4
    <3>3. QED  BY <1>1, <2>1, <3>1, <3>2, StepEffects DEF IInv
  <2>2. CASE AdminStep \/ Tick
    BY <1>1, <2>2, AdminTypes DEF IInv, Tick, tables
  <2>3. QED  BY <1>1, <2>1, <2>2 DEF Next
<1>2. IInv /\ [Next]_vars => [A]_vars  BY <1>1
<1>3. QED  BY <1>2, Invariance, PTL DEF Spec, WriteHasGrounds
=============================================================================
