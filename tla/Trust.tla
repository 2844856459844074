------------------------------- MODULE Trust -------------------------------
(***************************************************************************)
(* Who may author a sync head: identity providers, sessions and their      *)
(* policies, trusted devices with their certificates, custody of signing   *)
(* keys, the signature of a published head and its verification.  Several  *)
(* processes (kc_cli trust, the desktop app, sync) work on the tables of   *)
(* one vault.  Every SQL statement commits by itself, except in a key      *)
(* rotation, which is one transaction.  Processes crash between statements.*)
(* now_ms is the caller's (--now-ms, or a clock that may be set back), so  *)
(* a call may have any time, earlier than that of calls before it too.     *)
(***************************************************************************)
EXTENDS Naturals, FiniteSets, Functions

CONSTANTS
  Procs,            \* processes working on the vault
  Providers,        \* provider ids
  Discovered,       \* the provider ids derived from an issuer URL
  DefaultProvider,  \* the provider that the enrol services use
  Configs,          \* issuer and audience of a provider
  DefaultConfig,    \* what default_issuer, default_audience and discovery give
  Policies,         \* provider policies that are set: skew, required claims
  Subjects,         \* subjects that complete a sign-in
  Devices,          \* device ids; a device and its key pair are the same value
  CertIds, SessionIds,   \* uuids, ordered, drawn in any order
  None,
  TTL,              \* DEFAULT_SESSION_TTL_MS
  TemplateSkew,     \* DEFAULT_TENANT_TEMPLATE_CLOCK_SKEW_MS
  MaxTime,          \* bound: the largest now_ms
  MaxOps,           \* bound: operations started, of each kind
  MaxTotal,         \* bound: operations started
  MaxCrashes        \* bound: crashes

OpKinds == {"provider", "disable", "policy", "template", "complete", "revoke",
            "enroll", "verifyChain", "deleteKey", "rotate", "push"}

ASSUME IdsAssumption ==
  /\ Discovered \subseteq Providers /\ DefaultProvider \in Providers
  /\ DefaultConfig \in Configs /\ CertIds \subseteq Nat /\ SessionIds \subseteq Nat
  /\ CertIds # {}
  /\ None \notin Devices \cup Providers /\ None \notin Configs /\ None \notin SessionIds
ASSUME BoundsAssumption ==
  /\ TTL \in Nat /\ TemplateSkew \in Nat /\ MaxTime \in Nat
  /\ MaxOps \in [OpKinds -> Nat] /\ MaxTotal \in Nat /\ MaxCrashes \in Nat

VARIABLES
  providers,    \* trust_providers: provider |-> row or None
  legacy,       \* identity_providers: the rows that foreign keys refer to
  policies,     \* trust_provider_policies
  sessions,     \* identity_sessions
  revoked,      \* trust_session_revocations
  devices,      \* trusted_devices
  audit,        \* trust_events: the actions recorded for each device
  certs,        \* device_certificates
  custody,      \* sync_signing_keys
  head,         \* the head this vault published last
  pc, ctx, ops, crashes

identity == <<providers, legacy, policies, sessions, revoked>>
keys == <<devices, audit, certs, custody>>
vars == <<identity, keys, head, pc, ctx, ops, crashes>>

-----------------------------------------------------------------------------
(* now_ms as callers give it.                                              *)
Times == 0..MaxTime

(* Rows.                                                                   *)
ProviderRows == [enabled: BOOLEAN, config: Configs]
SessionRows == [provider: Providers, subject: Subjects, config: Configs,
                issued: Nat, expires: Nat]
CertRows == [device: Devices, provider: Providers, subject: Subjects,
             created: Nat, verified: BOOLEAN]
PolicyRows ==
  Policies \cup {[skew |-> TemplateSkew, require |-> [iss |-> c, tenant |-> "tenant"]] : c \in Configs}
DeviceStates == {"created", "verified"}
KeyStates == {"active", "deleted", "rotated"}

ASSUME NoneIsNoRow ==
  None \notin CertRows \cup SessionRows \cup DeviceStates \cup KeyStates

Enabled(p) == providers[p] # None /\ providers[p].enabled

(* parse_require_claims and the claim subset of a session.  A session has  *)
(* no tenant claim.                                                        *)
Claims(s) == [iss |-> sessions[s].config, sub |-> sessions[s].subject]
ClaimsSatisfied(s, required) ==
  \A k \in DOMAIN required : k \in DOMAIN Claims(s) /\ Claims(s)[k] = required[k]

(* ensure_session_policy_allows at time t.                                 *)
SessionPolicyAllows(s, t) ==
  LET policy == policies[sessions[s].provider]
  IN /\ s \notin revoked
     /\ policy # None =>
          /\ sessions[s].issued <= t + policy.skew
          /\ t <= sessions[s].expires + policy.skew
          /\ ClaimsSatisfied(s, policy.require)

(* Faulty variant: the session has already expired at its last instant.    *)
AuthenticateBeforeExpiry(s, t) ==
  /\ sessions[s] # None /\ Enabled(sessions[s].provider)
  /\ sessions[s].issued <= t /\ t < sessions[s].expires
  /\ SessionPolicyAllows(s, t)
(* authenticate_identity_session.                                          *)
AuthenticateIdentitySession(s, t) ==
  /\ sessions[s] # None /\ Enabled(sessions[s].provider)
  /\ sessions[s].issued <= t /\ t <= sessions[s].expires
  /\ SessionPolicyAllows(s, t)

(* latest_session_subject: the newest unexpired, unrevoked session of an   *)
(* enabled provider, or None.                                              *)
LatestSession(p, t) ==
  LET live == {s \in SessionIds \ revoked :
                 /\ sessions[s] # None /\ sessions[s].provider = p
                 /\ sessions[s].expires >= t /\ Enabled(p)}
      newer(s, o) == \/ sessions[s].issued > sessions[o].issued
                     \/ sessions[s].issued = sessions[o].issued /\ s >= o
  IN IF live = {} THEN None ELSE CHOOSE s \in live : \A o \in live : newer(s, o)

DeviceVerified(d) == devices[d] = "verified"

(* verified_author_identity: the oldest verified certificate of a verified *)
(* device, or None.                                                        *)
VerifiedAuthorIdentity ==
  LET usable == {c \in CertIds : /\ certs[c] # None /\ certs[c].verified
                                 /\ DeviceVerified(certs[c].device)}
      older(c, o) == \/ certs[c].created < certs[o].created
                     \/ certs[c].created = certs[o].created /\ c <= o
  IN IF usable = {} THEN None ELSE CHOOSE c \in usable : \A o \in usable : older(c, o)

-----------------------------------------------------------------------------
(* Heads as read from a target.  "bound" is the chain hash of the head's   *)
(* own certificate, device and fingerprint.  A signature is the legacy     *)
(* digest or made by a device over one of two payloads; the head and the   *)
(* verifier build different ones.                                          *)
Payloads == {"sync_signature_payload", "canonical_sync_author_payload_v1"}
Signatures == [by: Devices \cup {"legacy"}, payload: Payloads]
Heads == [schema: {2, 3}, complete: BOOLEAN, device: Devices, fingerprint: Devices,
          cert: CertIds, chain: {"bound", "other"}, sig: Signatures,
          alg: {"undeclared", "ed25519", "unknown"}]

ASSUME NoneIsNoHead == None \notin Heads

(* verify_author_chain.                                                    *)
VerifyAuthorChain(h) ==
  /\ certs[h.cert] # None /\ certs[h.cert].device = h.device /\ certs[h.cert].verified
  /\ h.chain = "bound" /\ h.fingerprint = h.device

(* verify_sync_head_author_signature_v1.                                   *)
VerifyHead(h) ==
  h.schema = 3 =>
    /\ h.complete /\ VerifyAuthorChain(h)
    /\ DeviceVerified(h.device) /\ h.fingerprint = h.device
    /\ h.sig = [by |-> h.device, payload |-> "canonical_sync_author_payload_v1"]

LegacyMatch(h) == h.complete /\ h.sig.by = "legacy"

(* ensure_remote_trust_matches, the passphrase fingerprints being equal.   *)
TrustMatches(h) ==
  h.schema = 3 =>
    /\ h.complete /\ h.chain = "bound"
    /\ \/ h.alg = "ed25519" /\ VerifyHead(h)
       \/ h.alg = "undeclared" /\ (VerifyHead(h) \/ LegacyMatch(h))

(* Faulty variant: an undeclared head that verifies counts as declared.    *)
ClassifyByVerification(h) ==
  CASE h.schema = 2 -> "legacy_schema"
    [] h.alg = "unknown" -> "unsupported_declared_algorithm"
    [] h.sig.by # "legacy" -> "declared_ed25519"
    [] LegacyMatch(h) -> "undeclared_legacy_fallback"
    [] OTHER -> "invalid"
(* classify_sync_auth_readiness of a head that exists.                     *)
Classify(h) ==
  CASE h.schema = 2 -> "legacy_schema"
    [] h.schema = 3 /\ h.alg = "unknown" -> "unsupported_declared_algorithm"
    [] h.schema = 3 /\ h.alg = "ed25519" ->
         IF VerifyHead(h) THEN "declared_ed25519" ELSE "invalid"
    [] OTHER ->
         IF VerifyHead(h) THEN "undeclared_ed25519_compatible"
         ELSE IF LegacyMatch(h) THEN "undeclared_legacy_fallback" ELSE "invalid"

DependsOnLegacyFallback(h) == Classify(h) \in {"legacy_schema", "undeclared_legacy_fallback"}

(* sync_auth_strict_check_targets over targets with these heads; None is a *)
(* target without one.                                                     *)
StrictCheckTargets(hs) == \A h \in hs : h = None \/ Classify(h) = "declared_ed25519"

-----------------------------------------------------------------------------
Init ==
  /\ providers = [p \in Providers |-> None] /\ legacy = {}
  /\ policies = [p \in Providers |-> None]
  /\ sessions = [s \in SessionIds |-> None] /\ revoked = {}
  /\ devices = [d \in Devices |-> None] /\ audit = [d \in Devices |-> {}]
  /\ certs = [c \in CertIds |-> None] /\ custody = [d \in Devices |-> None]
  /\ head = None
  /\ pc = [q \in Procs |-> "idle"] /\ ctx = [q \in Procs |-> None]
  /\ ops = [k \in OpKinds |-> 0] /\ crashes = 0

Started == FoldFunction(+, 0, ops)

Begin(q, kind) ==
  /\ pc[q] = "idle" /\ ops[kind] < MaxOps[kind] /\ Started < MaxTotal
  /\ ops' = [ops EXCEPT ![kind] = @ + 1]
  /\ UNCHANGED crashes

Goto(q, l, f) ==
  /\ pc' = [pc EXCEPT ![q] = l] /\ ctx' = [ctx EXCEPT ![q] = f]
Stay(q) == UNCHANGED <<pc, ctx>>
Return(q) == Goto(q, "idle", None)
At(q, l) == pc[q] = l /\ UNCHANGED <<ops, crashes>>

-----------------------------------------------------------------------------
(* Providers.  trust_provider_add gives any configuration; discovery and   *)
(* the first identity_start of an unknown id give the default one.         *)
ProviderFrame(op, p, c) == [op |-> op, provider |-> p, config |-> c, subject |-> None]

TrustProviderAdd(q) ==
  /\ Begin(q, "provider")
  /\ \E p \in Providers, c \in Configs : Goto(q, "upsertTrust", ProviderFrame("provider", p, c))
  /\ UNCHANGED <<identity, keys, head>>

TrustIdentityStart(q) ==
  /\ Begin(q, "provider")
  /\ \E p \in Providers :
       /\ p \in Discovered \/ providers[p] = None
       /\ Goto(q, "upsertTrust", ProviderFrame("provider", p, DefaultConfig))
  /\ UNCHANGED <<identity, keys, head>>

(* upsert_identity_provider_with_jwks writes both provider tables; an      *)
(* upsert enables the provider.                                            *)
UpsertTrust(q) ==
  /\ At(q, "upsertTrust")
  /\ providers' = [providers EXCEPT ![ctx[q].provider] =
                     [enabled |-> TRUE, config |-> ctx[q].config]]
  /\ Goto(q, "upsertLegacy", ctx[q])
  /\ UNCHANGED <<legacy, policies, sessions, revoked, keys, head>>

UpsertLegacy(q) ==
  /\ At(q, "upsertLegacy")
  /\ legacy' = legacy \cup {ctx[q].provider}
  /\ CASE ctx[q].op = "complete" -> Goto(q, "loadProvider", ctx[q])
       [] ctx[q].op = "template" -> Goto(q, "setTemplate", ctx[q])
       [] OTHER -> Return(q)
  /\ UNCHANGED <<providers, policies, sessions, revoked, keys, head>>

(* The second statement of trust_provider_disable changes a column nobody  *)
(* reads.                                                                  *)
TrustProviderDisable(q) ==
  /\ Begin(q, "disable")
  /\ \E p \in Providers :
       /\ providers[p] # None
       /\ providers' = [providers EXCEPT ![p].enabled = FALSE]
  /\ Stay(q)
  /\ UNCHANGED <<legacy, policies, sessions, revoked, keys, head>>

TrustProviderPolicySet(q) ==
  /\ Begin(q, "policy")
  /\ \E p \in Providers, pol \in Policies :
       /\ providers[p] # None
       /\ policies' = [policies EXCEPT ![p] = pol]
  /\ Stay(q)
  /\ UNCHANGED <<providers, legacy, sessions, revoked, keys, head>>

(* trust_provider_policy_set_tenant_template_service: an issuer is         *)
(* discovered, an id looked up; the claims come from the row then read.    *)
TenantTemplate(q) ==
  /\ Begin(q, "template")
  /\ \E p \in Providers :
       \/ p \in Discovered /\ Goto(q, "upsertTrust", ProviderFrame("template", p, DefaultConfig))
       \/ /\ providers[p] # None
          /\ Goto(q, "setTemplate", ProviderFrame("template", p, providers[p].config))
  /\ UNCHANGED <<identity, keys, head>>

SetTemplate(q) ==
  /\ At(q, "setTemplate")
  /\ policies' = [policies EXCEPT ![ctx[q].provider] =
                    [skew |-> TemplateSkew,
                     require |-> [iss |-> ctx[q].config, tenant |-> "tenant"]]]
  /\ Return(q)
  /\ UNCHANGED <<providers, legacy, sessions, revoked, keys, head>>

-----------------------------------------------------------------------------
(* Sessions.                                                               *)
TrustIdentityComplete(q) ==
  /\ Begin(q, "complete")
  /\ \E p \in Providers, sub \in Subjects :
       LET f == [ProviderFrame("complete", p, DefaultConfig) EXCEPT !.subject = sub]
       IN \/ p \in Discovered /\ Goto(q, "upsertTrust", f)
          \/ Goto(q, "loadProvider", f)
  /\ UNCHANGED <<identity, keys, head>>

LoadProvider(q) ==
  /\ At(q, "loadProvider")
  /\ LET p == ctx[q].provider
     IN IF Enabled(p) THEN Goto(q, "insertSession", [ctx[q] EXCEPT !.config = providers[p].config])
        ELSE Return(q)
  /\ UNCHANGED <<identity, keys, head>>

(* The row is written before ensure_session_policy_allows is asked; its    *)
(* answer is returned and the row stays.  Without the legacy provider row  *)
(* the foreign key refuses it.  now_ms is first read here.                 *)
InsertSession(q) ==
  /\ At(q, "insertSession")
  /\ \/ /\ ctx[q].provider \in legacy
        /\ \E s \in SessionIds, t \in Times :
             /\ sessions[s] = None
             /\ sessions' = [sessions EXCEPT ![s] =
                  [provider |-> ctx[q].provider, subject |-> ctx[q].subject,
                   config |-> ctx[q].config, issued |-> t, expires |-> t + TTL]]
     \/ ctx[q].provider \notin legacy /\ UNCHANGED sessions
  /\ Return(q)
  /\ UNCHANGED <<providers, legacy, policies, revoked, keys, head>>

TrustSessionRevoke(q) ==
  /\ Begin(q, "revoke")
  /\ \E s \in SessionIds : sessions[s] # None /\ revoked' = revoked \cup {s}
  /\ Stay(q)
  /\ UNCHANGED <<providers, legacy, policies, sessions, keys, head>>

-----------------------------------------------------------------------------
(* Enrolment: trust_device_enroll_service and                              *)
(* trust_device_enroll_signing_key_service, a statement at a time.         *)
DeviceFrame(d, withKey) == [device |-> d, withKey |-> withKey, subject |-> None, now |-> 0]

InitDevice(q) ==
  /\ Begin(q, "enroll")
  /\ \E d \in Devices, withKey \in BOOLEAN :
       /\ devices[d] = None
       /\ devices' = [devices EXCEPT ![d] = "created"]
       /\ Goto(q, "auditInit", DeviceFrame(d, withKey))
  /\ UNCHANGED <<identity, audit, certs, custody, head>>

(* append_trust_event: an action and its actor.                            *)
AppendTrustEvent(d, action, actor) ==
  audit' = [audit EXCEPT ![d] = @ \cup {<<action, actor>>}]

AuditInit(q) ==
  /\ At(q, "auditInit")
  /\ AppendTrustEvent(ctx[q].device, "init", "enroll")
  /\ Goto(q, "verifyDevice", ctx[q])
  /\ UNCHANGED <<identity, devices, certs, custody, head>>

(* trust_device_verify, with the fingerprint just created.                 *)
VerifyDevice(q) ==
  /\ At(q, "verifyDevice")
  /\ devices' = [devices EXCEPT ![ctx[q].device] = "verified"]
  /\ Goto(q, "auditVerify", ctx[q])
  /\ UNCHANGED <<identity, audit, certs, custody, head>>

AuditVerify(q) ==
  /\ At(q, "auditVerify")
  /\ AppendTrustEvent(ctx[q].device, "verify", "enroll")
  /\ Goto(q, "readSession", ctx[q])
  /\ UNCHANGED <<identity, devices, certs, custody, head>>

(* Faulty variant: without a session the key is stored all the same.       *)
ReadSessionOptional(q) ==
  /\ At(q, "readSession")
  /\ \E t \in Times :
     LET s == LatestSession(DefaultProvider, t)
     IN IF s # None
        THEN Goto(q, "insertCert", [ctx[q] EXCEPT !.subject = sessions[s].subject, !.now = t])
        ELSE IF ctx[q].withKey THEN Goto(q, "storeKey", ctx[q]) ELSE Return(q)
  /\ UNCHANGED <<identity, keys, head>>
(* Faulty variant: without a session the certificate has no subject.       *)
ReadSessionAnonymous(q) ==
  /\ At(q, "readSession")
  /\ \E t \in Times :
     LET s == LatestSession(DefaultProvider, t)
     IN Goto(q, "insertCert",
             [ctx[q] EXCEPT !.subject = IF s = None THEN None ELSE sessions[s].subject, !.now = t])
  /\ UNCHANGED <<identity, keys, head>>
(* trust_device_enroll: the subject of the certificate is read first, for  *)
(* the service's now_ms + 2, the time that the certificate gets.           *)
ReadSession(q) ==
  /\ At(q, "readSession")
  /\ \E t \in Times :
     LET s == LatestSession(DefaultProvider, t)
     IN IF s = None THEN Return(q)
        ELSE Goto(q, "insertCert", [ctx[q] EXCEPT !.subject = sessions[s].subject, !.now = t])
  /\ UNCHANGED <<identity, keys, head>>

CertRow(d, sub, t) == [device |-> d, provider |-> DefaultProvider, subject |-> sub,
                       created |-> t, verified |-> FALSE]

InsertCert(q) ==
  /\ At(q, "insertCert")
  /\ \E c \in CertIds :
       /\ certs[c] = None
       /\ certs' = [certs EXCEPT ![c] = CertRow(ctx[q].device, ctx[q].subject, ctx[q].now)]
  /\ IF ctx[q].withKey THEN Goto(q, "storeKey", ctx[q]) ELSE Return(q)
  /\ UNCHANGED <<identity, devices, audit, custody, head>>

(* store_sync_signing_seed.                                                *)
StoreKey(q) ==
  /\ At(q, "storeKey")
  /\ custody' = [custody EXCEPT ![ctx[q].device] = "active"]
  /\ Return(q)
  /\ UNCHANGED <<identity, devices, audit, certs, head>>

(* trust_device_verify_chain.                                              *)
TrustDeviceVerifyChain(q) ==
  /\ Begin(q, "verifyChain")
  /\ \E c \in CertIds :
       /\ certs[c] # None /\ DeviceVerified(certs[c].device)
       /\ certs' = [certs EXCEPT ![c].verified = TRUE]
  /\ Stay(q)
  /\ UNCHANGED <<identity, devices, audit, custody, head>>

DeleteSigningKey(q) ==
  /\ Begin(q, "deleteKey")
  /\ \E d \in Devices : custody[d] = "active" /\ custody' = [custody EXCEPT ![d] = "deleted"]
  /\ Stay(q)
  /\ UNCHANGED <<identity, devices, audit, certs, head>>

(* trust_device_signing_key_rotate_service: the status is read before the  *)
(* transaction begins.                                                     *)
RotateCheck(q) ==
  /\ Begin(q, "rotate")
  /\ \E d \in Devices : custody[d] = "active" /\ Goto(q, "rotate", DeviceFrame(d, TRUE))
  /\ UNCHANGED <<identity, keys, head>>

Replace(old, new, c, sub, t) ==
  /\ devices' = [devices EXCEPT ![new] = "verified"]
  /\ audit' = [audit EXCEPT ![new] = {<<"init", "rotate">>, <<"verify", "rotate">>}]
  /\ certs' = [certs EXCEPT ![c] = CertRow(new, sub, t)]
  /\ custody' = [custody EXCEPT ![new] = "active", ![old] = "rotated"]

Fresh(d, c) == devices[d] = None /\ certs[c] = None

(* Faulty variant: the transaction trusts the status read before it.       *)
RotateUnchecked(q) ==
  /\ At(q, "rotate")
  /\ \E t \in Times :
     LET s == LatestSession(DefaultProvider, t)
     IN IF s # None
        THEN \E d \in Devices, c \in CertIds :
               Fresh(d, c) /\ Replace(ctx[q].device, d, c, sessions[s].subject, t)
        ELSE UNCHANGED keys
  /\ Return(q)
  /\ UNCHANGED <<identity, head>>
(* Faulty variant: the replaced device is no longer trusted.               *)
RotateDistrusting(q) ==
  /\ At(q, "rotate")
  /\ \E t \in Times :
     LET s == LatestSession(DefaultProvider, t)
         old == ctx[q].device
     IN IF s # None /\ custody[old] = "active"
        THEN \E d \in Devices, c \in CertIds :
               /\ Fresh(d, c)
               /\ devices' = [devices EXCEPT ![d] = "verified", ![old] = "created"]
               /\ audit' = [audit EXCEPT ![d] = {<<"init", "rotate">>, <<"verify", "rotate">>}]
               /\ certs' = [certs EXCEPT ![c] = CertRow(d, sessions[s].subject, t)]
               /\ custody' = [custody EXCEPT ![d] = "active", ![old] = "rotated"]
        ELSE UNCHANGED keys
  /\ Return(q)
  /\ UNCHANGED <<identity, head>>
(* The transaction: a replacement device with certificate and key, and the *)
(* old key retired; without a session or an active old key it rolls back.  *)
Rotate(q) ==
  /\ At(q, "rotate")
  /\ \E t \in Times :
     LET s == LatestSession(DefaultProvider, t)
     IN IF s # None /\ custody[ctx[q].device] = "active"
        THEN \E d \in Devices, c \in CertIds :
               Fresh(d, c) /\ Replace(ctx[q].device, d, c, sessions[s].subject, t)
        ELSE UNCHANGED keys
  /\ Return(q)
  /\ UNCHANGED <<identity, head>>

-----------------------------------------------------------------------------
(* Push: local_sync_author at its start, sign_sync_payload when the head   *)
(* is written.                                                             *)
PushAuthor(q) ==
  /\ Begin(q, "push")
  /\ VerifiedAuthorIdentity # None
  /\ Goto(q, "sign", [cert |-> VerifiedAuthorIdentity,
                      device |-> certs[VerifiedAuthorIdentity].device])
  /\ UNCHANGED <<identity, keys, head>>

HeadBy(f, by, alg) ==
  [schema |-> 3, complete |-> TRUE, device |-> f.device, fingerprint |-> f.device,
   cert |-> f.cert, chain |-> "bound", alg |-> alg,
   sig |-> [by |-> by, payload |-> "sync_signature_payload"]]

(* load_sync_signing_key needs the passphrase; without a custody row the   *)
(* key in the environment signs, undeclared, and without that the legacy   *)
(* digest stands in.                                                       *)
SignSyncPayload(q, unlocked, env) ==
  LET f == ctx[q]
  IN IF custody[f.device] = "active"
     THEN IF unlocked THEN head' = HeadBy(f, f.device, "ed25519") ELSE UNCHANGED head
     ELSE IF env = None THEN head' = HeadBy(f, "legacy", "undeclared")
     ELSE IF env = f.device THEN head' = HeadBy(f, f.device, "undeclared")
     ELSE UNCHANGED head

Sign(q) ==
  /\ At(q, "sign")
  /\ \E unlocked \in BOOLEAN, env \in Devices \cup {None} : SignSyncPayload(q, unlocked, env)
  /\ Return(q)
  /\ UNCHANGED <<identity, keys>>

-----------------------------------------------------------------------------
Crash(q) ==
  /\ pc[q] # "idle" /\ crashes < MaxCrashes
  /\ crashes' = crashes + 1
  /\ Return(q)
  /\ UNCHANGED <<identity, keys, head, ops>>

Step(q) ==
  \/ TrustProviderAdd(q) \/ TrustIdentityStart(q) \/ UpsertTrust(q) \/ UpsertLegacy(q)
  \/ TrustProviderDisable(q) \/ TrustProviderPolicySet(q) \/ TenantTemplate(q) \/ SetTemplate(q)
  \/ TrustIdentityComplete(q) \/ LoadProvider(q) \/ InsertSession(q) \/ TrustSessionRevoke(q)
  \/ InitDevice(q) \/ AuditInit(q) \/ VerifyDevice(q) \/ AuditVerify(q) \/ ReadSession(q)
  \/ InsertCert(q) \/ StoreKey(q) \/ TrustDeviceVerifyChain(q) \/ DeleteSigningKey(q)
  \/ RotateCheck(q) \/ Rotate(q) \/ PushAuthor(q) \/ Sign(q) \/ Crash(q)

Next == \E q \in Procs : Step(q)

Spec == Init /\ [][Next]_vars

-----------------------------------------------------------------------------
ProviderSteps == {"upsertTrust", "upsertLegacy", "setTemplate", "loadProvider", "insertSession"}
EnrolSteps == {"auditInit", "verifyDevice", "auditVerify", "readSession", "insertCert", "storeKey"}
Pcs == ProviderSteps \cup EnrolSteps \cup {"idle", "rotate", "sign"}

(* The frame of a call at step l.                                          *)
ProviderFrames == [op: {"provider", "template", "complete"}, provider: Providers,
                   config: Configs, subject: Subjects \cup {None}]
DeviceFrames == [device: Devices, withKey: BOOLEAN, subject: Subjects \cup {None}, now: Times]
PushFrames == [cert: CertIds, device: Devices]
Frames == ProviderFrames \cup DeviceFrames \cup PushFrames \cup {None}
FrameFits(l, f) ==
  /\ l \in ProviderSteps => f \in ProviderFrames /\ (f.op = "complete" => f.subject \in Subjects)
  /\ l \in {"loadProvider", "insertSession"} => f.op = "complete"
  /\ l \in EnrolSteps \cup {"rotate"} => f \in DeviceFrames
  /\ l = "insertCert" => f.subject \in Subjects
  /\ l = "sign" => f \in PushFrames

(* The tables hold rows of their types; each step has the frame that it    *)
(* works with.                                                             *)
TypeOK ==
  /\ providers \in [Providers -> ProviderRows \cup {None}]
  /\ legacy \subseteq Providers
  /\ policies \in [Providers -> PolicyRows \cup {None}]
  /\ sessions \in [SessionIds -> SessionRows \cup {None}]
  /\ revoked \subseteq SessionIds
  /\ devices \in [Devices -> DeviceStates \cup {None}]
  /\ audit \in [Devices -> SUBSET ({"init", "verify"} \X {"enroll", "rotate"})]
  /\ certs \in [CertIds -> CertRows \cup {None}]
  /\ custody \in [Devices -> KeyStates \cup {None}]
  /\ head \in Heads \cup {None}
  /\ pc \in [Procs -> Pcs] /\ ctx \in [Procs -> Frames]
  /\ \A q \in Procs : FrameFits(pc[q], ctx[q])

(* An active signing key belongs to a verified device that has a           *)
(* certificate, whatever enrolments failed or died on the way.             *)
CustodyHasCertificate ==
  \A d \in Devices :
    custody[d] = "active" =>
      DeviceVerified(d) /\ \E c \in CertIds : certs[c] # None /\ certs[c].device = d

(* However many processes rotate, delete or enrol at once, every retired   *)
(* key has exactly one replacement device.                                 *)
OneReplacementPerRotation ==
  Cardinality({d \in Devices : <<"init", "rotate">> \in audit[d]})
    = Cardinality({d \in Devices : custody[d] = "rotated"})

(* The sessions of a provider that authenticate_identity_session, asked by *)
(* federation and document lifecycle, admits at time t.                    *)
Admitted(p, t) ==
  {s \in SessionIds : /\ sessions[s] # None /\ sessions[s].provider = p
                      /\ AuthenticateIdentitySession(s, t)}

(* The two judgements of a session, for every provider without a policy    *)
(* and every now_ms: one that enrolment selects (latest_session_subject,   *)
(* in SQL) is admitted by authenticate_identity_session or has not begun,  *)
(* the one thing that the SQL does not ask; and when any is admitted,      *)
(* enrolment selects one, as new as those.                                 *)
SelectionAgreesWithAdmission ==
  \A p \in Providers, t \in Times :
    LET s == LatestSession(p, t)
    IN policies[p] = None =>
         /\ s # None => s \in Admitted(p, t) \/ t < sessions[s].issued
         /\ \A o \in Admitted(p, t) : s # None /\ sessions[o].issued <= sessions[s].issued

(* Heads a target may hold: sound up to one defect.  Certificate ids are   *)
(* drawn in any order, so the least one stands for every other.            *)
AnyCert == CHOOSE c \in CertIds : \A o \in CertIds : c <= o
HeadOf(d, by, payload, alg) ==
  [schema |-> 3, complete |-> TRUE, device |-> d, fingerprint |-> d, cert |-> AnyCert,
   chain |-> "bound", sig |-> [by |-> by, payload |-> payload], alg |-> alg]
SignedHeads == {HeadOf(d, d, pl, alg) : d \in Devices, pl \in Payloads,
                                        alg \in {"undeclared", "ed25519"}}
DigestHeads == {HeadOf(d, "legacy", "sync_signature_payload", alg) :
                  d \in Devices, alg \in {"undeclared", "ed25519", "unknown"}}
SoundHeads == SignedHeads \cup DigestHeads
HeadInputs ==
  UNION {SoundHeads, {[h EXCEPT !.chain = "other"] : h \in SoundHeads},
         {[h EXCEPT !.complete = FALSE] : h \in SoundHeads},
         {[h EXCEPT !.schema = 2, !.alg = "undeclared"] : h \in DigestHeads}}

(* The readiness report and the pull agree on every head a target may      *)
(* hold: what the strict check passes is accepted by                       *)
(* ensure_remote_trust_matches, what that accepts is never reported        *)
(* invalid, and dependence on the fallback means Ed25519 does not verify.  *)
ReadinessAgreesWithPull ==
  \A h \in HeadInputs :
    /\ StrictCheckTargets({h}) => TrustMatches(h)
    /\ TrustMatches(h) => Classify(h) \notin {"invalid", "unsupported_declared_algorithm"}
    /\ h.schema = 3 /\ DependsOnLegacyFallback(h) => ~VerifyHead(h)

(* A head that verifies keeps verifying: rotation, deletion of keys,       *)
(* revocation and new enrolments leave the public records of its author.   *)
VerificationIsStable ==
  [][\A h \in HeadInputs : h.schema = 3 /\ VerifyHead(h) => VerifyHead(h)']_vars

(* spec/40: a head that declares Ed25519 verifies; here for the heads that *)
(* this vault published itself.                                            *)
DeclaredHeadVerifies ==
  head # None /\ head.alg = "ed25519" => VerifyHead(head)
=============================================================================
