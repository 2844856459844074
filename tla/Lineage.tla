------------------------------ MODULE Lineage ------------------------------
(***************************************************************************)
(* Lineage overlays: edges that users add to the lineage graph of a        *)
(* document under a lease, with a role and with a policy.  Every SQL       *)
(* statement is a step of its own, for no call opens a transaction: leases *)
(* expire, and roles, policies and locks change, between the checks of a   *)
(* call and its write.  A process that dies is one that takes no more      *)
(* steps: what it did stays, and a lease it holds runs out.                *)
(***************************************************************************)
EXTENDS Integers, FiniteSets

CONSTANTS
  Procs, Subjects,
  Owner,            \* Owner[q]: the user on whose behalf q takes locks
  Docs, Scopes,     \* what edit locks and scope locks are about
  Overlays, DocOf,  \* overlay ids, which hash the document and the edge
  Roles,            \* the roles considered
  Policies,         \* policy names
  Grants0, Policies0, Bindings0,  \* the rights that earlier calls set up
  None,
  Lease,            \* LINEAGE_LOCK_LEASE_MS
  MaxTime,          \* bound: the clock
  MaxOps            \* bound: calls of each kind

Effects == {"allow", "deny"}
OpKinds == {"acquire", "release", "overlay", "rights"}

ASSUME OwnersAssumption ==
  Owner \in [Procs -> Subjects] /\ \A q, r \in Procs : Owner[q] = Owner[r] => q = r
ASSUME DocsAssumption == DocOf \in [Overlays -> Docs] /\ Docs \cap Scopes = {}
(* A policy matches a set of documents.                                    *)
PolicyRows == [effect: Effects, docs: SUBSET Docs]

ASSUME RightsAssumption ==
  /\ Roles \subseteq {"admin", "editor", "viewer"}
  /\ Grants0 \subseteq Subjects \X Roles
  /\ Policies0 \in [Policies -> PolicyRows \cup {None}]
  /\ Bindings0 \subseteq {b \in Subjects \X Policies : Policies0[b[2]] # None}
ASSUME BoundsAssumption ==
  /\ Lease \in Nat \ {0} /\ MaxTime \in Nat
  /\ MaxOps \in [OpKinds -> Nat]

VARIABLES
  clock,
  locks,     \* lineage_edit_locks and lineage_lock_scopes
  lease,     \* lease[q][k]: the last lease on k that q was given, or None
  grants,    \* lineage_role_bindings
  policies,  \* lineage_policies
  bindings,  \* lineage_policy_bindings
  audit,     \* lineage_policy_audit
  overlays,  \* lineage_overlays
  pc, ctx, ops,
  met,       \* history: what has been true since the call began
  answered   \* history: adds minus removes that were answered with success

rights == <<grants, policies, bindings>>
tables == <<locks, lease, rights, audit, overlays, answered>>
vars == <<clock, tables, pc, ctx, ops, met>>

Keys == Docs \cup Scopes

-----------------------------------------------------------------------------
(* A lease; the token is a hash of the key, the owner and the time.        *)
Leases == [owner: Subjects, at: 0..MaxTime, until: 0..(MaxTime + Lease)]
NewLease(owner, now) == [owner |-> owner, at |-> now, until |-> now + Lease]
Token(l) == <<l.owner, l.at>>

(* lineage_lock_status.                                                    *)
Held(k, now) == locks[k] # None /\ locks[k].until > now

(* lineage_permission_decision: every row of lineage_permissions for this  *)
(* action allows, so the one of the least rank does.                       *)
WriteRoles == {"admin", "editor"}
Permitted(s) == \E r \in WriteRoles : <<s, r>> \in grants

(* evaluate_condition for the policies bound to s.                         *)
Matching(s, d) ==
  {policies[n] : n \in {m \in Policies : /\ <<s, m>> \in bindings
                                         /\ d \in policies[m].docs}}

(* Faulty variant: the first allow decides.                                *)
PolicyDecisionAllow(s, d) == \E p \in Matching(s, d) : p.effect = "allow"
(* lineage_policy_decision.                                                *)
PolicyDecision(s, d) ==
  /\ \E p \in Matching(s, d) : p.effect = "allow"
  /\ \A p \in Matching(s, d) : p.effect # "deny"

-----------------------------------------------------------------------------
Init ==
  /\ clock = 0
  /\ locks = [k \in Keys |-> None] /\ lease = [q \in Procs |-> [k \in Keys |-> None]]
  /\ grants = Grants0 /\ policies = Policies0 /\ bindings = Bindings0
  /\ audit = {} /\ overlays = [o \in Overlays |-> None]
  /\ pc = [q \in Procs |-> "idle"] /\ ctx = [q \in Procs |-> None]
  /\ ops = [k \in OpKinds |-> 0]
  /\ met = [q \in Procs |-> {}] /\ answered = [o \in Overlays |-> 0]

(* The frame of a call: its time, the key and token it names, the overlay  *)
(* and the user whose rights count.                                        *)
Tokens == Subjects \X (0..MaxTime)
Frames == [op: {"acquire", "release", "add", "remove"}, now: 0..MaxTime, key: Keys,
           token: Tokens \cup {None},
           overlay: Overlays \cup {None}, subject: Subjects]
Rows == [by: Subjects, at: 0..MaxTime]

(* None is not a value of any of these.                                    *)
ASSUME NoneAssumption == None \notin Leases \cup Tokens \cup PolicyRows \cup Frames \cup Rows

Frame(op, k, t, o, s) ==
  [op |-> op, now |-> clock, key |-> k, token |-> t, overlay |-> o, subject |-> s]

Counted(kind) ==
  ops[kind] < MaxOps[kind] /\ ops' = [ops EXCEPT ![kind] = @ + 1]

Call(q, l, c) ==
  /\ pc[q] = "idle" /\ Counted(IF c.op \in {"add", "remove"} THEN "overlay" ELSE c.op)
  /\ pc' = [pc EXCEPT ![q] = l] /\ ctx' = [ctx EXCEPT ![q] = c]
  /\ UNCHANGED tables

Goto(q, l) == pc' = [pc EXCEPT ![q] = l] /\ UNCHANGED <<ctx, ops>>
(* Faulty variant: the frame of the call survives it.                      *)
ReturnKeepingFrame(q) == pc' = [pc EXCEPT ![q] = "idle"] /\ UNCHANGED <<ctx, ops>>
Return(q) ==
  pc' = [pc EXCEPT ![q] = "idle"] /\ ctx' = [ctx EXCEPT ![q] = None] /\ UNCHANGED ops
Check(q, l, ok, next) ==
  pc[q] = l /\ (IF ok THEN Goto(q, next) ELSE Return(q)) /\ UNCHANGED tables

-----------------------------------------------------------------------------
(* lineage_lock_acquire and lineage_lock_acquire_scope.                    *)
Acquire(q, k) ==
  Call(q, "acquireRead", Frame("acquire", k, None, None, Owner[q]))

AcquireRead(q) == Check(q, "acquireRead", ~Held(ctx[q].key, ctx[q].now), "acquireWrite")

AcquireWrite(q) ==
  LET c == ctx[q]
      row == NewLease(c.subject, c.now)
  IN /\ pc[q] = "acquireWrite"
     /\ locks' = [locks EXCEPT ![c.key] = row]
     /\ lease' = [lease EXCEPT ![q][c.key] = row]
     /\ Return(q)
     /\ UNCHANGED <<rights, audit, overlays, answered>>

(* lineage_lock_release and lineage_lock_release_scope.                    *)
Release(q, k) ==
  /\ lease[q][k] # None
  /\ Call(q, "releaseRead", Frame("release", k, Token(lease[q][k]), None, Owner[q]))

ReleaseRead(q) ==
  LET c == ctx[q]
  IN Check(q, "releaseRead", locks[c.key] # None /\ Token(locks[c.key]) = c.token, "releaseDelete")

ReleaseDelete(q) ==
  /\ pc[q] = "releaseDelete"
  /\ locks' = [locks EXCEPT ![ctx[q].key] = None]
  /\ Return(q)
  /\ UNCHANGED <<lease, rights, audit, overlays, answered>>

-----------------------------------------------------------------------------
(* lineage_overlay_add on behalf of by, who need not own the lock, and     *)
(* lineage_overlay_remove, where the rights of the lock's owner count.     *)
OverlayAdd(q, o, by) ==
  /\ lease[q][DocOf[o]] # None
  /\ Call(q, "status", Frame("add", DocOf[o], Token(lease[q][DocOf[o]]), o, by))

OverlayRemove(q, o) ==
  LET l == lease[q][DocOf[o]]
  IN l # None /\ Call(q, "find", Frame("remove", DocOf[o], Token(l), o, l.owner))

Find(q) == Check(q, "find", overlays[ctx[q].overlay] # None, "status")

(* Faulty variant: a lease that has expired still counts.                  *)
LockStatusAny(q) == Check(q, "status", locks[ctx[q].key] # None, "token")
(* require_valid_lock reads the row twice.                                 *)
LockStatus(q) == Check(q, "status", Held(ctx[q].key, ctx[q].now), "token")

LockToken(q) ==
  LET c == ctx[q]
  IN Check(q, "token", locks[c.key] # None /\ Token(locks[c.key]) = c.token, "role")

EnsurePermission(q) == Check(q, "role", Permitted(ctx[q].subject), "policy")

(* ensure_lineage_policy_allows: the decision is audited, then applied.    *)
DecidePolicy(q) ==
  LET c == ctx[q]
  IN /\ pc[q] = "policy"
     /\ Goto(q, IF PolicyDecision(c.subject, c.key) THEN "auditAllow" ELSE "auditDeny")
     /\ UNCHANGED tables

AuditRow(c, allowed) == [subject |-> c.subject, doc |-> c.key, ts |-> c.now, allowed |-> allowed]

(* Faulty variant: only refusals are audited.                              *)
WriteAuditRefusals(q) ==
  /\ \/ /\ pc[q] = "auditDeny"
        /\ audit' = audit \cup {AuditRow(ctx[q], FALSE)} /\ Return(q)
     \/ /\ pc[q] = "auditAllow"
        /\ Goto(q, IF ctx[q].op = "add" THEN "insert" ELSE "delete") /\ UNCHANGED audit
  /\ UNCHANGED <<locks, lease, rights, overlays, answered>>
WriteAudit(q) ==
  /\ \/ /\ pc[q] = "auditDeny"
        /\ audit' = audit \cup {AuditRow(ctx[q], FALSE)} /\ Return(q)
     \/ /\ pc[q] = "auditAllow"
        /\ audit' = audit \cup {AuditRow(ctx[q], TRUE)}
        /\ Goto(q, IF ctx[q].op = "add" THEN "insert" ELSE "delete")
  /\ UNCHANGED <<locks, lease, rights, overlays, answered>>

(* Faulty variant: INSERT OR REPLACE.                                      *)
InsertRowReplacing(q) ==
  LET c == ctx[q]
  IN /\ pc[q] = "insert"
     /\ overlays' = [overlays EXCEPT ![c.overlay] = [by |-> c.subject, at |-> c.now]]
     /\ answered' = [answered EXCEPT ![c.overlay] = @ + 1]
     /\ Return(q)
     /\ UNCHANGED <<locks, lease, rights, audit>>
(* The UNIQUE constraint refuses a second row for the same edge.           *)
InsertRow(q) ==
  LET c == ctx[q]
  IN /\ pc[q] = "insert"
     /\ IF overlays[c.overlay] = None
        THEN /\ overlays' = [overlays EXCEPT ![c.overlay] = [by |-> c.subject, at |-> c.now]]
             /\ answered' = [answered EXCEPT ![c.overlay] = @ + 1]
        ELSE UNCHANGED <<overlays, answered>>
     /\ Return(q)
     /\ UNCHANGED <<locks, lease, rights, audit>>

(* A call that finds the row gone answers that there is no such overlay.   *)
DeleteRow(q) ==
  LET c == ctx[q]
  IN /\ pc[q] = "delete"
     /\ overlays' = [overlays EXCEPT ![c.overlay] = None]
     /\ answered' = [answered EXCEPT ![c.overlay] = IF overlays[c.overlay] = None THEN @ ELSE @ - 1]
     /\ Return(q)
     /\ UNCHANGED <<locks, lease, rights, audit>>

-----------------------------------------------------------------------------
(* Roles and policies change in single statements, at any time and by      *)
(* anyone.  A policy of the same name is replaced under its bindings.      *)
ChangeRights ==
  Counted("rights") /\ UNCHANGED <<locks, lease, audit, overlays, answered, pc, ctx>>

(* lineage_role_grant.                                                     *)
RoleGrant(s, r) ==
  /\ <<s, r>> \notin grants
  /\ grants' = grants \cup {<<s, r>>}
  /\ ChangeRights /\ UNCHANGED <<policies, bindings>>

(* lineage_role_revoke.                                                    *)
RoleRevoke(s, r) ==
  /\ <<s, r>> \in grants
  /\ grants' = grants \ {<<s, r>>}
  /\ ChangeRights /\ UNCHANGED <<policies, bindings>>

(* lineage_policy_add.                                                     *)
PolicyAdd(n, effect, docs) ==
  /\ policies' = [policies EXCEPT ![n] = [effect |-> effect, docs |-> docs]]
  /\ ChangeRights /\ UNCHANGED <<grants, bindings>>

(* lineage_policy_bind.                                                    *)
PolicyBind(s, n) ==
  /\ policies[n] # None /\ <<s, n>> \notin bindings
  /\ bindings' = bindings \cup {<<s, n>>}
  /\ ChangeRights /\ UNCHANGED <<grants, policies>>

Tick == clock < MaxTime /\ clock' = clock + 1 /\ UNCHANGED <<tables, pc, ctx, ops>>

ProcStep(q) ==
  \/ \E k \in Keys : Acquire(q, k) \/ Release(q, k)
  \/ AcquireRead(q) \/ AcquireWrite(q) \/ ReleaseRead(q) \/ ReleaseDelete(q)
  \/ \E o \in Overlays, by \in Subjects : OverlayAdd(q, o, by)
  \/ \E o \in Overlays : OverlayRemove(q, o)
  \/ Find(q) \/ LockStatus(q) \/ LockToken(q) \/ EnsurePermission(q)
  \/ DecidePolicy(q) \/ WriteAudit(q) \/ InsertRow(q) \/ DeleteRow(q)

AdminStep ==
  \/ \E s \in Subjects, r \in Roles : RoleGrant(s, r) \/ RoleRevoke(s, r)
  \/ \E n \in Policies, effect \in Effects, docs \in SUBSET Docs : PolicyAdd(n, effect, docs)
  \/ \E s \in Subjects, n \in Policies : PolicyBind(s, n)

(* What is true of the call of q now: its lease is live, its user has a    *)
(* role and a policy allows it.                                            *)
Grounds == {"lock", "role", "policy"}
TrueNow(q) ==
  LET c == ctx[q]
  IN {g \in Grounds :
        /\ c # None /\ c.op \in {"add", "remove"}
        /\ g = "lock" => Held(c.key, c.now) /\ Token(locks[c.key]) = c.token
        /\ g = "role" => Permitted(c.subject)
        /\ g = "policy" => /\ \E p \in Matching(c.subject, c.key) : p.effect = "allow"
                           /\ \A p \in Matching(c.subject, c.key) : p.effect # "deny"}

Next ==
  /\ \/ (\E q \in Procs : ProcStep(q)) /\ UNCHANGED clock
     \/ AdminStep /\ UNCHANGED clock
     \/ Tick
  /\ met' = [q \in Procs |-> (IF ctx'[q] = None THEN {} ELSE met[q]) \cup TrueNow(q)']

Spec == Init /\ [][Next]_vars

-----------------------------------------------------------------------------
(* The steps of the calls, and the frames they work with.                  *)
LockSteps == {"acquireRead", "acquireWrite", "releaseRead", "releaseDelete"}
OverlaySteps == {"find", "status", "token", "role", "policy", "auditAllow", "auditDeny",
                 "insert", "delete"}
Pcs == {"idle"} \cup LockSteps \cup OverlaySteps

FrameFits(q, l, c) ==
  /\ l = "idle" <=> c = None
  /\ l \in {"acquireRead", "acquireWrite"} => c.op = "acquire" /\ c.subject = Owner[q]
  /\ l \in OverlaySteps =>
       /\ c.op \in {"add", "remove"} /\ c.overlay \in Overlays
       /\ c.key = DocOf[c.overlay] /\ c.token # None
  /\ l \in {"find", "delete"} => c.op = "remove"
  /\ l = "insert" => c.op = "add"

(* Rows, frames and histories have their shapes, and every step has the    *)
(* frame that it works with.                                               *)
TypeOK ==
  /\ clock \in 0..MaxTime
  /\ locks \in [Keys -> Leases \cup {None}]
  /\ lease \in [Procs -> [Keys -> Leases \cup {None}]]
  /\ grants \subseteq Subjects \X Roles /\ bindings \subseteq Subjects \X Policies
  /\ policies \in [Policies -> PolicyRows \cup {None}]
  /\ audit \subseteq [subject: Subjects, doc: Docs, ts: 0..MaxTime, allowed: BOOLEAN]
  /\ overlays \in [Overlays -> Rows \cup {None}] /\ answered \in [Overlays -> Int]
  /\ ops \in [OpKinds -> Nat] /\ met \in [Procs -> SUBSET Grounds]
  /\ pc \in [Procs -> Pcs] /\ ctx \in [Procs -> Frames \cup {None}]
  /\ \A q \in Procs : FrameFits(q, pc[q], ctx[q])

(* An overlay appears or goes only if, at some moment of the call, its     *)
(* lease was the live one, and its user had a role, and a policy allowed   *)
(* it with none denying: what was revoked, denied or expired before the    *)
(* call began never counts.                                                *)
WriteHasGrounds ==
  [][\A o \in Overlays : overlays'[o] # overlays[o] =>
       \E q \in Procs : ctx[q] # None /\ ctx[q].overlay = o /\ met[q] = Grounds]_vars

(* Every overlay was allowed by a decision that is in the audit table,     *)
(* under the same user, document and time.                                 *)
OverlayIsAudited ==
  \A o \in Overlays : overlays[o] # None =>
    [subject |-> overlays[o].by, doc |-> DocOf[o], ts |-> overlays[o].at, allowed |-> TRUE] \in audit

(* Of calls that overlap, exactly one is told that it added or removed an  *)
(* overlay.                                                                *)
AnswersMatchRows ==
  \A o \in Overlays : answered[o] = IF overlays[o] = None THEN 0 ELSE 1
=============================================================================
