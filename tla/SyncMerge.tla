----------------------------- MODULE SyncMerge -----------------------------
(***************************************************************************)
(* The merge policies of sync_merge.rs: a preview report is computed from  *)
(* the change sets of both sides and a context, and ensure_*_merge_safe    *)
(* turns an unsafe report into an error code.  One behaviour is one call.  *)
(***************************************************************************)
CONSTANTS
  Hashes, BadHash,        \* well-formed object hashes, and a malformed one
  OverlayIds, EmptyId     \* non-empty overlay ids, and the empty string

ASSUME BadInputsAssumption == BadHash \notin Hashes /\ EmptyId \notin OverlayIds

VARIABLES
  local, remote,   \* the two change sets, as given
  policy,          \* the merge policy asked for
  context,         \* SyncMergeContextV2: the set of its flags that are true
  report,          \* the outcome of the preview
  verdict          \* what ensure_*_merge_safe says of the report

inputs == <<local, remote, policy, context>>
mergeVars == <<inputs, report, verdict>>

Policies == {"conservative_v1", "conservative_plus_v2",
             "conservative_plus_v3", "conservative_plus_v4"}
Flags == {"trust", "lock", "rbac"}

(* Vectors of hashes and ids; order and repetition do not survive          *)
(* normalize_change_set, which collects them in BTreeSets.                 *)
ChangeSets == [objects: SUBSET (Hashes \cup {BadHash}),
               overlays: SUBSET (OverlayIds \cup {EmptyId})]

Normalizes(cs) == BadHash \notin cs.objects /\ EmptyId \notin cs.overlays

Overlap(l, r) == [objects  |-> l.objects \cap r.objects,
                  overlays |-> l.overlays \cap r.overlays]

(* What each policy may object to, with the name it gives the reason.      *)
ChecksV1 == {<<"objects", "object_hash_overlap">>, <<"overlays", "lineage_overlay_overlap">>}
ChecksV2 == ChecksV1 \cup {<<"trust", "trust_chain_mismatch">>, <<"lock", "lineage_lock_conflict">>}
ChecksV3 == {<<"objects", "unsafe_overlap_object">>, <<"overlays", "unsafe_overlay_overlap">>,
             <<"trust", "unsafe_trust">>, <<"lock", "unsafe_lock">>, <<"rbac", "unsafe_rbac">>}
ChecksV4 == {<<"objects", "unsafe_object_overlap_v4">>, <<"overlays", "unsafe_overlay_overlap_v4">>,
             <<"trust", "unsafe_trust_chain_v4">>, <<"lock", "unsafe_lock_scope_v4">>,
             <<"rbac", "unsafe_rbac_v4">>}

(* Faulty variant: v4 forgets the lineage lock of v2 and v3.               *)
ChecksV4WithoutLock(p) ==
  CASE p = "conservative_v1" -> ChecksV1
    [] p = "conservative_plus_v4" -> ChecksV4 \ {<<"lock", "unsafe_lock_scope_v4">>}
    [] OTHER -> ChecksV2

Checks(p) ==
  CASE p = "conservative_v1" -> ChecksV1
    [] p = "conservative_plus_v2" -> ChecksV2
    [] p = "conservative_plus_v3" -> ChecksV3
    [] OTHER -> ChecksV4

(* v3 and v4 state safety as a reason of its own.                          *)
SafeReasons(p) == CASE p = "conservative_plus_v3" -> {"safe_disjoint"}
                    [] p = "conservative_plus_v4" -> {"safe_disjoint_v4"}
                    [] OTHER -> {}

(* Faulty variant: overlay overlaps are not looked at.                     *)
ObjectionsToObjects(p, l, r, c) ==
  {check[2] : check \in {k \in Checks(p) :
     \/ k[1] = "objects" /\ Overlap(l, r).objects # {}
     \/ k[1] \in c}}

Objections(p, l, r, c) ==
  {check[2] : check \in {k \in Checks(p) :
     \/ k[1] = "objects" /\ Overlap(l, r).objects # {}
     \/ k[1] = "overlays" /\ Overlap(l, r).overlays # {}
     \/ k[1] \in c}}

(* The reasons of a report.  Each is pushed at most once, and their order  *)
(* (v1 and v2 sort them) decides nothing: ensure_* asks which there are.   *)
Reasons(p, l, r, c) ==
  LET found == Objections(p, l, r, c)
  IN IF found = {} THEN SafeReasons(p) ELSE found

Safe(p, reasons) == reasons = SafeReasons(p)

(* ensure_*_merge_safe: the code names the gravest objection.              *)
EnsureCode(p, reasons) ==
  LET named(kind) == \E check \in Checks(p) : check[1] = kind /\ check[2] \in reasons
  IN IF Safe(p, reasons) THEN "ok"
     ELSE IF named("trust") THEN "KC_SYNC_MERGE_TRUST_CONFLICT"
     ELSE IF named("lock") THEN "KC_SYNC_MERGE_LOCK_CONFLICT"
     ELSE IF ~named("rbac") THEN "KC_SYNC_MERGE_NOT_SAFE"
     ELSE IF p = "conservative_plus_v3" THEN "KC_SYNC_MERGE_POLICY_V3_UNSAFE"
     ELSE "KC_SYNC_MERGE_POLICY_V4_UNSAFE"

-----------------------------------------------------------------------------
MergeInit ==
  /\ local \in ChangeSets /\ remote \in ChangeSets
  /\ policy \in Policies
  /\ context \in SUBSET Flags
  /\ policy = "conservative_v1" => context = {}
  /\ report = [code |-> "pending"] /\ verdict = "pending"

(* merge_preview_conservative and merge_preview_with_policy_v2.            *)
Preview ==
  /\ report.code = "pending"
  /\ \/ /\ ~(Normalizes(local) /\ Normalizes(remote))
        /\ report' = [code |-> "KC_SYNC_MERGE_PRECONDITION_FAILED"]
     \/ /\ Normalizes(local) /\ Normalizes(remote)
        /\ LET reasons == Reasons(policy, local, remote, context)
           IN report' = [code |-> "ok", overlap |-> Overlap(local, remote),
                         reasons |-> reasons, safe |-> Safe(policy, reasons)]
  /\ UNCHANGED <<inputs, verdict>>

(* The ensure_ function of the policy, which callers run on the report.    *)
Ensure ==
  /\ report.code = "ok"
  /\ verdict = "pending"
  /\ verdict' = EnsureCode(policy, report.reasons)
  /\ UNCHANGED <<inputs, report>>

MergeNext == Preview \/ Ensure

MergeSpec == MergeInit /\ [][MergeNext]_mergeVars

-----------------------------------------------------------------------------
(* DefaultContextMeansDisjoint: pulls pass the default context, and then   *)
(* whichever policy is asked for accepts exactly the disjoint change sets, *)
(* with NOT_SAFE as the only refusal; SyncVault's DisjointDeltas stands    *)
(* for all four policies because of it.                                    *)
DefaultContextMeansDisjoint ==
  verdict # "pending" /\ context = {} =>
    verdict = IF Overlap(local, remote) = [objects |-> {}, overlays |-> {}]
              THEN "ok" ELSE "KC_SYNC_MERGE_NOT_SAFE"

(* PoliciesGetStricter: on the same input a later policy accepts only what *)
(* every earlier one accepts, and swapping the sides changes no verdict:   *)
(* choosing a higher policy, or pulling from the other side, never turns   *)
(* an unsafe merge into a safe one.                                        *)
PoliciesGetStricter ==
  LET accepts(p, l, r) == Safe(p, Reasons(p, l, r, context))
  IN verdict = "ok" =>
       /\ accepts(policy, remote, local)
       /\ accepts("conservative_v1", local, remote)
       /\ policy \in {"conservative_plus_v3", "conservative_plus_v4"} =>
            /\ accepts("conservative_plus_v2", local, remote)
            /\ accepts("conservative_plus_v3", local, remote)
            /\ accepts("conservative_plus_v4", local, remote)

=============================================================================
