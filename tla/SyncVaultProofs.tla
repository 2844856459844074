-------------------------- MODULE SyncVaultProofs --------------------------
(***************************************************************************)
(* What the proofs about both transports need of SyncVault, and the merge  *)
(* policies that both consult before they pull into a vault with edits.    *)
(***************************************************************************)
EXTENDS SyncVault, SyncMerge, TLAPS

-----------------------------------------------------------------------------
(* Types.                                                                  *)

(* PutDbType: a written database is again a database.                      *)
LEMMA PutDbType ==
  ASSUME VaultTypeOK, NEW d \in Devices, NEW b \in Dbs, PutDb(d, b)
  PROVE  db' \in [Devices -> Dbs] /\ rev' \in Nat
BY DEF VaultTypeOK, PutDb, Dbs

(* EditType: local edits keep the vault well typed.                        *)
LEMMA EditType ==
  ASSUME VaultTypeOK, NEW d \in Devices,
         AddObject(d) \/ AddOverlay(d) \/ RemoveOverlay(d)
  PROVE  VaultTypeOK'
<1>1. CASE AddObject(d)
  <2>1. PICK o \in Objects : /\ store' = [store EXCEPT ![d] = @ \cup {o}]
                             /\ PutDb(d, [db[d] EXCEPT !.objects = @ \cup {o}])
    BY <1>1 DEF AddObject
  <2>2. [db[d] EXCEPT !.objects = @ \cup {o}] \in Dbs
    BY DEF VaultTypeOK, Dbs
  <2>3. db' \in [Devices -> Dbs] /\ rev' \in Nat
    BY <2>1, <2>2, PutDbType
  <2>4. store[d] \cup {o} \in SUBSET Objects  BY DEF VaultTypeOK
  <2>5. store' \in [Devices -> SUBSET Objects]  BY <2>1, <2>4 DEF VaultTypeOK
  <2>6. edits' \in Nat  BY <1>1 DEF VaultTypeOK, AddObject
  <2>7. QED  BY <2>3, <2>5, <2>6 DEF VaultTypeOK
<1>2. CASE AddOverlay(d)
  <2>1. PICK v \in Overlays : PutDb(d, [db[d] EXCEPT !.overlays = @ \cup {v}])
    BY <1>2 DEF AddOverlay
  <2>2. [db[d] EXCEPT !.overlays = @ \cup {v}] \in Dbs
    BY DEF VaultTypeOK, Dbs
  <2>3. db' \in [Devices -> Dbs] /\ rev' \in Nat
    BY <2>1, <2>2, PutDbType
  <2>4. QED  BY <1>2, <2>3 DEF VaultTypeOK, AddOverlay
<1>3. CASE RemoveOverlay(d)
  <2>1. PICK v \in db[d].overlays : PutDb(d, [db[d] EXCEPT !.overlays = @ \ {v}])
    BY <1>3 DEF RemoveOverlay
  <2>2. [db[d] EXCEPT !.overlays = @ \ {v}] \in Dbs
    BY DEF VaultTypeOK, Dbs
  <2>3. db' \in [Devices -> Dbs] /\ rev' \in Nat
    BY <2>1, <2>2, PutDbType
  <2>4. QED  BY <1>3, <2>3 DEF VaultTypeOK, RemoveOverlay
<1>4. QED  BY <1>1, <1>2, <1>3

(* ApplyType: each step of apply_snapshot_to_vault keeps the vault typed.  *)
LEMMA ApplyType ==
  ASSUME VaultTypeOK, NEW d \in Devices, NEW b \in Dbs,
         ApplyRemoveDb(d) \/ ApplyCopyDb(d, b) \/ ApplyStore(d, b)
  PROVE  VaultTypeOK'
<1>1. CASE ApplyRemoveDb(d)
  BY <1>1 DEF VaultTypeOK, ApplyRemoveDb, EmptyDb, Dbs
<1>2. CASE ApplyCopyDb(d, b)
  BY <1>2 DEF VaultTypeOK, ApplyCopyDb
<1>3. CASE ApplyStore(d, b)
  <2>1. b.objects \in SUBSET Objects  BY DEF Dbs
  <2>2. QED  BY <1>3, <2>1 DEF VaultTypeOK, ApplyStore
<1>4. QED  BY <1>1, <1>2, <1>3

(* WriteStateType: the sync_state upserts keep the vault typed.            *)
LEMMA WriteStateType ==
  ASSUME VaultTypeOK, NEW d \in Devices, NEW i \in SnapshotIds, NEW m \in Manifests,
         WriteSeen(d, i) \/ WriteApplied(d, m)
  PROVE  VaultTypeOK'
<1>1. CASE WriteSeen(d, i)
  <2>1. [db[d] EXCEPT !.seen = i] \in Dbs  BY DEF VaultTypeOK, Dbs
  <2>2. QED  BY <1>1, <2>1, PutDbType DEF VaultTypeOK, WriteSeen
<1>2. CASE WriteApplied(d, m)
  <2>1. [db[d] EXCEPT !.applied = m] \in Dbs  BY DEF VaultTypeOK, Dbs
  <2>2. QED  BY <1>2, <2>1, PutDbType DEF VaultTypeOK, WriteApplied
<1>3. QED  BY <1>1, <1>2

-----------------------------------------------------------------------------
(* Revisions.                                                              *)

(* Databases that are around: a written one has a revision of its own, so  *)
(* that equal revisions mean equal bytes.                                  *)
RevisionsName(held) ==
  /\ \A b \in held : b.rev \in Nat /\ b.rev <= rev
  /\ \A b, c \in held : b.rev = c.rev => b = c

(* Wrote: replica d now has a database with a new revision.                *)
Wrote(d) ==
  /\ rev' = rev + 1 /\ db'[d].rev = rev + 1
  /\ \A e \in Devices : e # d => db'[e] = db[e]

(* PutDbWrites: what a write changes.                                      *)
LEMMA PutDbWrites ==
  ASSUME VaultTypeOK, NEW d \in Devices, NEW b \in Dbs, PutDb(d, b)
  PROVE  /\ Wrote(d)
         /\ db'[d].objects = b.objects /\ db'[d].overlays = b.overlays
         /\ db'[d].seen = b.seen /\ db'[d].applied = b.applied
<1>1. rev + 1 \in Nat  BY DEF VaultTypeOK
<1>2. db'[d] = [b EXCEPT !.rev = rev + 1]  BY DEF PutDb, VaultTypeOK
<1>3. QED  BY <1>1, <1>2 DEF PutDb, VaultTypeOK, Dbs, Wrote

(* EditWrites: a local edit writes the database of its replica, and not    *)
(* its sync_state rows.                                                    *)
LEMMA EditWrites ==
  ASSUME VaultTypeOK, NEW d \in Devices,
         AddObject(d) \/ AddOverlay(d) \/ RemoveOverlay(d)
  PROVE  /\ Wrote(d) /\ \A e \in Devices : e # d => store'[e] = store[e]
         /\ db'[d].seen = db[d].seen /\ db'[d].applied = db[d].applied
<1>1. db[d] \in Dbs /\ store \in [Devices -> SUBSET Objects]  BY DEF VaultTypeOK
<1>2. PICK b \in Dbs : PutDb(d, b) /\ b.seen = db[d].seen /\ b.applied = db[d].applied
  <2> DEFINE Same(b) == b \in Dbs /\ b.seen = db[d].seen /\ b.applied = db[d].applied
  <2>1. \A o \in Objects : Same([db[d] EXCEPT !.objects = @ \cup {o}])  BY <1>1 DEF Dbs
  <2>2. \A v \in Overlays : Same([db[d] EXCEPT !.overlays = @ \cup {v}])  BY <1>1 DEF Dbs
  <2>3. \A v : Same([db[d] EXCEPT !.overlays = @ \ {v}])  BY <1>1 DEF Dbs
  <2>4. \E b : PutDb(d, b) /\ Same(b)
    <3> HIDE DEF Same
    <3>1. QED  BY <2>1, <2>2, <2>3 DEF AddObject, AddOverlay, RemoveOverlay
  <2>5. QED  BY <2>4
<1>3. \A e \in Devices : e # d => store'[e] = store[e]
  BY <1>1 DEF AddObject, AddOverlay, RemoveOverlay
<1>4. QED  BY <1>2, <1>3, PutDbWrites

(* NewRevision: a database with a new revision disturbs no name.           *)
LEMMA NewRevision ==
  ASSUME rev \in Nat, NEW held, RevisionsName(held), NEW after, NEW b,
         after \subseteq held \cup {b}, b.rev = rev + 1, rev' = rev + 1
  PROVE  /\ \A x \in after : x.rev \in Nat /\ x.rev <= rev'
         /\ \A x, y \in after : x.rev = y.rev => x = y
<1>1. \A x \in after : x.rev \in Nat /\ (x = b \/ (x \in held /\ x.rev <= rev))
  BY DEF RevisionsName
<1>2. QED  BY <1>1 DEF RevisionsName

-----------------------------------------------------------------------------
(* The merge policies.                                                     *)

(* What an input gives cause to object to.                                 *)
Raised(k, l, r, c) ==
  \/ k = "objects" /\ l.objects \cap r.objects # {}
  \/ k = "overlays" /\ l.overlays \cap r.overlays # {}
  \/ k \in c

Kinds(p) ==
  {"objects", "overlays"}
    \cup (IF p = "conservative_v1" THEN {} ELSE {"trust", "lock"})
    \cup (IF p \in {"conservative_plus_v3", "conservative_plus_v4"} THEN {"rbac"} ELSE {})

(* ChecksCover: each policy has one check for each kind of objection it    *)
(* knows, and none of its reasons is the one that states safety.           *)
LEMMA ChecksCover ==
  ASSUME NEW p \in Policies
  PROVE  /\ \A k : k \in Kinds(p) <=> \E check \in Checks(p) : check[1] = k
         /\ \A check \in Checks(p) : check[2] \notin SafeReasons(p)
         /\ \A a, b \in Checks(p) : a[2] = b[2] => a[1] = b[1]
<1>1. CASE p = "conservative_v1"
  <2>1. Checks(p) = ChecksV1 /\ SafeReasons(p) = {}
    BY <1>1 DEF Checks, SafeReasons
  <2>2. Kinds(p) = {"objects", "overlays"}
    BY <1>1 DEF Kinds
  <2>3. \A k : k \in Kinds(p) <=> \E check \in ChecksV1 : check[1] = k
    BY <2>2 DEF ChecksV1
  <2>4. \A check \in ChecksV1 : check[2] \notin {}
    BY DEF ChecksV1
  <2>5. \A a, b \in ChecksV1 : a[2] = b[2] => a[1] = b[1]
    BY DEF ChecksV1
  <2>6. QED  BY <2>1, <2>3, <2>4, <2>5
<1>2. CASE p = "conservative_plus_v2"
  <2>1. Checks(p) = ChecksV2 /\ SafeReasons(p) = {}
    BY <1>2 DEF Checks, SafeReasons
  <2>2. Kinds(p) = {"objects", "overlays", "trust", "lock"}
    BY <1>2 DEF Kinds
  <2>3. \A k : k \in Kinds(p) <=> \E check \in ChecksV2 : check[1] = k
    BY <2>2 DEF ChecksV1, ChecksV2
  <2>4. \A check \in ChecksV2 : check[2] \notin {}
    BY DEF ChecksV1, ChecksV2
  <2>5. \A a, b \in ChecksV2 : a[2] = b[2] => a[1] = b[1]
    BY DEF ChecksV1, ChecksV2
  <2>6. QED  BY <2>1, <2>3, <2>4, <2>5
<1>3. CASE p = "conservative_plus_v3"
  <2>1. Checks(p) = ChecksV3 /\ SafeReasons(p) = {"safe_disjoint"}
    BY <1>3 DEF Checks, SafeReasons
  <2>2. Kinds(p) = {"objects", "overlays", "trust", "lock", "rbac"}
    BY <1>3 DEF Kinds
  <2>3. \A k : k \in Kinds(p) <=> \E check \in ChecksV3 : check[1] = k
    BY <2>2 DEF ChecksV3
  <2>4. \A check \in ChecksV3 : check[2] \notin {"safe_disjoint"}
    BY DEF ChecksV3
  <2>5. \A a, b \in ChecksV3 : a[2] = b[2] => a[1] = b[1]
    BY DEF ChecksV3
  <2>6. QED  BY <2>1, <2>3, <2>4, <2>5
<1>4. CASE p = "conservative_plus_v4"
  <2>1. Checks(p) = ChecksV4 /\ SafeReasons(p) = {"safe_disjoint_v4"}
    BY <1>4 DEF Checks, SafeReasons
  <2>2. Kinds(p) = {"objects", "overlays", "trust", "lock", "rbac"}
    BY <1>4 DEF Kinds
  <2>3. \A k : k \in Kinds(p) <=> \E check \in ChecksV4 : check[1] = k
    BY <2>2 DEF ChecksV4
  <2>4. \A check \in ChecksV4 : check[2] \notin {"safe_disjoint_v4"}
    BY DEF ChecksV4
  <2>5. \A a, b \in ChecksV4 : a[2] = b[2] => a[1] = b[1]
    BY DEF ChecksV4
  <2>6. QED  BY <2>1, <2>3, <2>4, <2>5
<1>5. QED  BY <1>1, <1>2, <1>3, <1>4 DEF Policies

(* ReasonsTell: a report names exactly the checks that were raised, and is *)
(* safe exactly when there are none.                                       *)
LEMMA ReasonsTell ==
  ASSUME NEW p \in Policies, NEW l, NEW r, NEW c
  PROVE  /\ Safe(p, Reasons(p, l, r, c)) <=> \A k \in Kinds(p) : ~Raised(k, l, r, c)
         /\ \A k : (\E check \in Checks(p) : check[1] = k /\ check[2] \in Reasons(p, l, r, c))
                    <=> k \in Kinds(p) /\ Raised(k, l, r, c)
<1> DEFINE found == Objections(p, l, r, c)
<1>1. \A x : x \in found <=> \E check \in Checks(p) : check[2] = x /\ Raised(check[1], l, r, c)
  BY DEF Objections, Overlap, Raised
<1>2. \A check \in Checks(p) : check[2] \in found <=> Raised(check[1], l, r, c)
  BY <1>1, ChecksCover
<1>3. found = {} <=> \A k \in Kinds(p) : ~Raised(k, l, r, c)
  BY <1>1, ChecksCover
<1>4. Reasons(p, l, r, c) = IF found = {} THEN SafeReasons(p) ELSE found
  BY DEF Reasons
<1> HIDE DEF found
<1>5. found # {} => found # SafeReasons(p)
  BY <1>1, ChecksCover
<1>6. Safe(p, Reasons(p, l, r, c)) <=> found = {}
  BY <1>4, <1>5 DEF Safe
<1>7. ASSUME NEW k
      PROVE  (\E check \in Checks(p) : check[1] = k /\ check[2] \in Reasons(p, l, r, c))
               <=> k \in Kinds(p) /\ Raised(k, l, r, c)
  <2>1. CASE found = {}
    <3>1. \A check \in Checks(p) : check[2] \notin Reasons(p, l, r, c)
      BY <1>4, <2>1, ChecksCover
    <3>2. QED  BY <1>3, <2>1, <3>1
  <2>2. CASE found # {}
    <3>1. Reasons(p, l, r, c) = found  BY <1>4, <2>2
    <3>2. QED  BY <1>2, <3>1, ChecksCover
  <2>3. QED  BY <2>1, <2>2
<1>8. QED  BY <1>3, <1>6, <1>7

(* DisjointDeltasIsSafe: the pulls of SyncS3 and SyncFs, which ask whether *)
(* the deltas are disjoint, decide as each of the four policies does with  *)
(* the default context that sync.rs passes.                                *)
THEOREM DisjointDeltasIsSafe ==
  ASSUME NEW p \in Policies, NEW l, NEW r
  PROVE  EnsureCode(p, Reasons(p, l, r, {})) =
           IF DisjointDeltas(l, r) THEN "ok" ELSE "KC_SYNC_MERGE_NOT_SAFE"
<1> DEFINE named(k) == \E check \in Checks(p) : check[1] = k /\ check[2] \in Reasons(p, l, r, {})
<1>1. "objects" \in Kinds(p) /\ "overlays" \in Kinds(p)  BY DEF Kinds
<1>2. \A k : Raised(k, l, r, {}) => k \in {"objects", "overlays"}  BY DEF Raised
<1>3. Safe(p, Reasons(p, l, r, {})) <=> DisjointDeltas(l, r)
  BY <1>1, <1>2, ReasonsTell DEF Raised, DisjointDeltas
<1>4. ~named("trust") /\ ~named("lock") /\ ~named("rbac")
  BY <1>2, ReasonsTell
<1>5. QED  BY <1>3, <1>4 DEF EnsureCode

(* A verdict is that of the policy on the inputs.                          *)
MergeInv ==
  /\ policy \in Policies
  /\ report.code = "ok" => report.reasons = Reasons(policy, local, remote, context)
  /\ verdict # "pending" => verdict = EnsureCode(policy, Reasons(policy, local, remote, context))

(* VerdictsFit: MergeInv is an invariant.                                  *)
LEMMA VerdictsFit == MergeSpec => []MergeInv
<1>1. MergeInit => MergeInv  BY DEF MergeInit, MergeInv
<1>2. MergeInv /\ [MergeNext]_mergeVars => MergeInv'
  <2> SUFFICES ASSUME MergeInv, [MergeNext]_mergeVars PROVE MergeInv'  OBVIOUS
  <2>1. UNCHANGED inputs  BY DEF MergeNext, Preview, Ensure, mergeVars
  <2>2. CASE Preview  BY <2>1, <2>2 DEF Preview, MergeInv, inputs
  <2>3. CASE Ensure  BY <2>1, <2>3 DEF Ensure, MergeInv, inputs
  <2>4. CASE UNCHANGED mergeVars  BY <2>4 DEF mergeVars, inputs, MergeInv
  <2>5. QED  BY <2>2, <2>3, <2>4 DEF MergeNext
<1>3. QED  BY <1>1, <1>2, PTL DEF MergeSpec

(* DefaultAcceptsDisjoint: for every set of hashes and overlay ids and all *)
(* four policies, a merge with the default context is accepted exactly     *)
(* when the change sets are disjoint, and else refused as NOT_SAFE.        *)
THEOREM DefaultAcceptsDisjoint == MergeSpec => []DefaultContextMeansDisjoint
<1>1. MergeInv => DefaultContextMeansDisjoint
  <2>1. Overlap(local, remote) = [objects |-> {}, overlays |-> {}]
          <=> DisjointDeltas(local, remote)
    BY DEF Overlap, DisjointDeltas
  <2>2. QED  BY <2>1, DisjointDeltasIsSafe DEF MergeInv, DefaultContextMeansDisjoint
<1>2. QED  BY <1>1, VerdictsFit, PTL

(* StricterPolicies: no later policy accepts what an earlier one refuses,  *)
(* in any context, and each policy treats the two sides alike.             *)
THEOREM StricterPolicies == MergeSpec => []PoliciesGetStricter
<1>1. MergeInv => PoliciesGetStricter
  <2> SUFFICES ASSUME MergeInv, verdict = "ok" PROVE PoliciesGetStricter
    BY DEF PoliciesGetStricter
  <2>1. Safe(policy, Reasons(policy, local, remote, context))
    BY DEF MergeInv, EnsureCode
  <2>2. \A k : Raised(k, remote, local, context) <=> Raised(k, local, remote, context)
    BY DEF Raised
  <2>3. ASSUME NEW q \in Policies, NEW l, NEW r, \A k \in Kinds(q) : ~Raised(k, l, r, context)
        PROVE  Safe(q, Reasons(q, l, r, context))
    BY <2>3, ReasonsTell
  <2>4. \A k \in Kinds(policy) : ~Raised(k, local, remote, context)
    BY <2>1, ReasonsTell DEF MergeInv
  <2>5. Safe(policy, Reasons(policy, remote, local, context))
    BY <2>2, <2>3, <2>4 DEF MergeInv
  <2>6. Safe("conservative_v1", Reasons("conservative_v1", local, remote, context))
    <3>1. Kinds("conservative_v1") \subseteq Kinds(policy)  BY DEF Kinds
    <3>2. QED  BY <2>3, <2>4, <3>1 DEF Policies
  <2>7. ASSUME policy \in {"conservative_plus_v3", "conservative_plus_v4"}, NEW q \in Policies
        PROVE  Safe(q, Reasons(q, local, remote, context))
    <3>1. Kinds(q) \subseteq Kinds(policy)  BY <2>7 DEF Kinds
    <3>2. QED  BY <2>3, <2>4, <3>1
  <2>8. QED  BY <2>5, <2>6, <2>7 DEF PoliciesGetStricter, Policies
<1>2. QED  BY <1>1, VerdictsFit, PTL
=============================================================================
