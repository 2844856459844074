---------------------------- MODULE TrustProofs ----------------------------
(***************************************************************************)
(* Theorems about Trust, for every set of processes, providers, devices,   *)
(* certificates and sessions and every bound.                              *)
(***************************************************************************)
EXTENDS Trust, FiniteSetTheorems, WellFoundedInduction, TLAPS

-----------------------------------------------------------------------------
(* The inductive invariant.                                                *)

(* An enrolment works on a device of its own, which has no key yet; from   *)
(* trust_device_verify on the device is verified.                          *)
Enrolling(q) ==
  LET d == ctx[q].device
  IN /\ pc[q] \in EnrolSteps =>
          /\ devices[d] # None /\ custody[d] = None
          /\ \A r \in Procs : r # q /\ pc[r] \in EnrolSteps => ctx[r].device # d
     /\ pc[q] \in EnrolSteps \ {"auditInit", "verifyDevice"} => DeviceVerified(d)
     /\ pc[q] = "storeKey" => \E c \in CertIds : certs[c] # None /\ certs[c].device = d

(* Keys and events are of devices that there are.                          *)
KeysOfDevices == \A d \in Devices : devices[d] = None => custody[d] = None /\ audit[d] = {}

Retired == {d \in Devices : custody[d] = "rotated"}
Replacements == {d \in Devices : <<"init", "rotate">> \in audit[d]}

(* The two are finite, so that they can be counted.                        *)
RetiredReplaced ==
  IsFiniteSet(Retired) /\ IsFiniteSet(Replacements) /\ Cardinality(Replacements) = Cardinality(Retired)

(* There are finitely many sessions, so that one of them is the newest.    *)
Issued == {s \in SessionIds : sessions[s] # None}
SessionsIssued == IsFiniteSet(Issued)

IInv ==
  /\ TypeOK /\ KeysOfDevices /\ CustodyHasCertificate /\ RetiredReplaced /\ SessionsIssued
  /\ \A q \in Procs : Enrolling(q)

-----------------------------------------------------------------------------
(* Rows found by their order.                                              *)

(* NatLeast: a set of numbers that is not empty has a least element.       *)
LEMMA NatLeast ==
  ASSUME NEW S \in SUBSET Nat, S # {}
  PROVE  \E x \in S : \A y \in S : x <= y
<1>1. \E x \in S : \A y \in S : ~ (<<y, x>> \in OpToRel(<, Nat))
  BY NatLessThanWellFounded, WFMin
<1>2. \A x, y \in Nat : ~ (<<y, x>> \in OpToRel(<, Nat)) => x <= y  BY DEF OpToRel
<1>3. QED  BY <1>1, <1>2

(* LastOfFinite: a finite set has an element that none comes after: the    *)
(* one with the fewest after it.                                           *)
LEMMA LastOfFinite ==
  ASSUME NEW S, IsFiniteSet(S), S # {}, NEW After \in [S -> SUBSET S],
         \A x \in S : x \notin After[x],
         \A x \in S : \A y \in After[x] : After[y] \subseteq After[x]
  PROVE  \E x \in S : After[x] = {}
<1> DEFINE Counts == {Cardinality(After[x]) : x \in S}
<1>1. \A x \in S : IsFiniteSet(After[x]) /\ Cardinality(After[x]) \in Nat
  BY FS_Subset, FS_CardinalityType
<1>2. PICK x \in S : \A y \in S : Cardinality(After[x]) <= Cardinality(After[y])
  <2>1. Counts \in SUBSET Nat /\ Counts # {}  BY <1>1
  <2>2. PICK n \in Counts : \A k \in Counts : n <= k  BY <2>1, NatLeast
  <2>3. PICK x \in S : n = Cardinality(After[x])  OBVIOUS
  <2>4. \A y \in S : Cardinality(After[y]) \in Counts  OBVIOUS
  <2>5. QED  BY <2>2, <2>3, <2>4
<1>3. ASSUME NEW y \in After[x] PROVE FALSE
  <2>1. y \in S /\ After[y] \in SUBSET After[x] /\ y \notin After[y]  OBVIOUS
  <2>2. Cardinality(After[y]) = Cardinality(After[x])
    <3>1. Cardinality(After[y]) <= Cardinality(After[x])  BY <1>1, <2>1, FS_Subset
    <3>2. Cardinality(After[x]) <= Cardinality(After[y])  BY <1>2, <2>1
    <3>3. QED  BY <1>1, <2>1, <3>1, <3>2
  <2>3. After[y] = After[x]  BY <1>1, <2>1, <2>2, FS_Subset
  <2>4. QED  BY <2>1, <2>3
<1>4. QED  BY <1>3

(* What latest_session_subject asks of a session, and of the one it takes. *)
Live(p, t, s) ==
  /\ s \in SessionIds \ revoked /\ sessions[s] # None /\ sessions[s].provider = p
  /\ sessions[s].expires >= t /\ Enabled(p)
Latest(p, t, s) ==
  /\ Live(p, t, s)
  /\ sessions[s] \in SessionRows /\ sessions[s].subject \in Subjects
  /\ \A o : Live(p, t, o) => sessions[o].issued <= sessions[s].issued

(* SessionChosen: when there is a live session it returns one, and none    *)
(* that is live is newer.                                                  *)
LEMMA SessionChosen ==
  ASSUME TypeOK, IsFiniteSet(Issued), NEW p \in Providers, NEW t \in Nat,
         NEW some, Live(p, t, some)
  PROVE  LatestSession(p, t) # None /\ Latest(p, t, LatestSession(p, t))
<1> DEFINE live == {s \in SessionIds \ revoked :
                      /\ sessions[s] # None /\ sessions[s].provider = p
                      /\ sessions[s].expires >= t /\ Enabled(p)}
           newer(s, o) == \/ sessions[s].issued > sessions[o].issued
                          \/ sessions[s].issued = sessions[o].issued /\ s >= o
           best == CHOOSE s \in live : \A o \in live : newer(s, o)
           After == [s \in live |-> {o \in live : ~newer(s, o)}]
<1>0. \A s : Live(p, t, s) <=> s \in live  BY DEF Live
<1>1. live # {} /\ LatestSession(p, t) = best  BY <1>0 DEF LatestSession
<1>2. IsFiniteSet(live)
  <2>1. live \in SUBSET Issued  BY DEF Issued
  <2>2. QED  BY <2>1, FS_Subset
<1>3. \A s \in live : s \in Nat /\ sessions[s] \in SessionRows /\ sessions[s].issued \in Nat
                      /\ sessions[s].subject \in Subjects
  BY IdsAssumption DEF TypeOK, SessionRows
<1>4. \E s \in live : \A o \in live : newer(s, o)
  <2>1. After \in [live -> SUBSET live]  OBVIOUS
  <2>2. \A s \in live : s \notin After[s]  BY <1>3
  <2>3. ASSUME NEW s \in live, NEW o \in After[s], NEW x \in After[o] PROVE x \in After[s]
    <3>1. o \in live /\ x \in live /\ ~newer(s, o) /\ ~newer(o, x)  OBVIOUS
    <3>2. /\ s \in Nat /\ o \in Nat /\ x \in Nat /\ sessions[s].issued \in Nat
          /\ sessions[o].issued \in Nat /\ sessions[x].issued \in Nat
      BY <1>3, <3>1
    <3>3. ~newer(s, x)  BY <3>1, <3>2
    <3>4. QED  BY <3>1, <3>3
  <2>4. \A s \in live : \A o \in After[s] : After[o] \subseteq After[s]  BY <2>3
  <2> HIDE DEF After
  <2>5. PICK s \in live : After[s] = {}  BY <1>1, <1>2, <2>1, <2>2, <2>4, LastOfFinite
  <2>6. \A o \in live : newer(s, o)  BY <2>5 DEF After
  <2>7. QED  BY <2>6
<1>5. best \in live /\ \A o \in live : newer(best, o)  BY <1>4
<1> HIDE DEF best
<1>6. \A o \in live : sessions[o].issued <= sessions[best].issued  BY <1>3, <1>5
<1>7. Live(p, t, best) /\ best # None  BY <1>0, <1>5, IdsAssumption
<1>8. QED  BY <1>0, <1>1, <1>3, <1>5, <1>6, <1>7 DEF Latest

(* SessionFound: and what it returns, if anything, is such a session.      *)
LEMMA SessionFound ==
  ASSUME TypeOK, IsFiniteSet(Issued), NEW p \in Providers, NEW t \in Nat,
         LatestSession(p, t) # None
  PROVE  Latest(p, t, LatestSession(p, t))
<1>1. \E x : Live(p, t, x)  BY DEF LatestSession, Live
<1>2. QED  BY <1>1, SessionChosen

(* AuthorFound: verified_author_identity returns a verified certificate of *)
(* a verified device.                                                      *)
LEMMA AuthorFound ==
  ASSUME TypeOK, VerifiedAuthorIdentity # None
  PROVE  /\ VerifiedAuthorIdentity \in CertIds
         /\ certs[VerifiedAuthorIdentity].device \in Devices
         /\ certs[VerifiedAuthorIdentity] # None /\ certs[VerifiedAuthorIdentity].verified
         /\ DeviceVerified(certs[VerifiedAuthorIdentity].device)
<1> DEFINE usable == {c \in CertIds : /\ certs[c] # None /\ certs[c].verified
                                      /\ DeviceVerified(certs[c].device)}
           older(c, o) == \/ certs[c].created < certs[o].created
                          \/ certs[c].created = certs[o].created /\ c <= o
           best == CHOOSE c \in usable : \A o \in usable : older(c, o)
           Created == {certs[c].created : c \in usable}
<1>1. usable # {} /\ VerifiedAuthorIdentity = best  BY DEF VerifiedAuthorIdentity
<1>2. \A c \in usable : c \in Nat /\ c \in CertIds /\ certs[c].created \in Nat /\ certs[c].device \in Devices
  BY IdsAssumption DEF TypeOK, CertRows
<1>3. \E c \in usable : \A o \in usable : older(c, o)
  <2>1. Created \in SUBSET Nat /\ Created # {}  BY <1>1, <1>2
  <2>2. PICK t \in Created : \A u \in Created : t <= u  BY <2>1, NatLeast
  <2> DEFINE First == {c \in usable : certs[c].created = t}
  <2>3. First \in SUBSET Nat /\ First # {}  BY <1>2
  <2>4. PICK c \in First : \A o \in First : c <= o  BY <2>3, NatLeast
  <2>5. ASSUME NEW o \in usable PROVE older(c, o)
    <3>1. c \in Nat /\ o \in Nat /\ certs[o].created \in Created /\ certs[o].created \in Nat
          /\ certs[c].created = t /\ t \in Nat /\ t <= certs[o].created
      BY <1>2, <2>1, <2>2
    <3>2. CASE certs[o].created = t  BY <2>4, <3>1, <3>2
    <3>3. CASE certs[o].created # t  BY <3>1, <3>3
    <3>4. QED  BY <3>2, <3>3
  <2>6. QED  BY <2>5
<1>4. best \in usable  BY <1>3
<1> HIDE DEF best
<1>5. QED  BY <1>1, <1>2, <1>4

-----------------------------------------------------------------------------
(* Types.                                                                  *)

IdentityTyped ==
  /\ providers \in [Providers -> ProviderRows \cup {None}] /\ legacy \subseteq Providers
  /\ policies \in [Providers -> PolicyRows \cup {None}]
  /\ sessions \in [SessionIds -> SessionRows \cup {None}] /\ revoked \subseteq SessionIds
KeysTyped ==
  /\ devices \in [Devices -> DeviceStates \cup {None}]
  /\ audit \in [Devices -> SUBSET ({"init", "verify"} \X {"enroll", "rotate"})]
  /\ certs \in [CertIds -> CertRows \cup {None}] /\ custody \in [Devices -> KeyStates \cup {None}]
ControlTyped ==
  /\ pc \in [Procs -> Pcs] /\ ctx \in [Procs -> Frames]
  /\ \A q \in Procs : FrameFits(pc[q], ctx[q])
RestTyped == head \in Heads \cup {None}

(* TypeParts: TypeOK by its parts.                                         *)
LEMMA TypeParts ==
  ASSUME IdentityTyped', KeysTyped', ControlTyped', RestTyped'
  PROVE  TypeOK'
BY DEF TypeOK, IdentityTyped, KeysTyped, ControlTyped, RestTyped

(* The processes other than q are where they were.                         *)
Others(q) == \A r \in Procs : r # q => pc'[r] = pc[r] /\ ctx'[r] = ctx[r]

(* GotoControl: one process moves to a step with a frame that fits it.     *)
LEMMA GotoControl ==
  ASSUME TypeOK, NEW q \in Procs, NEW l \in Pcs, NEW f \in Frames, FrameFits(l, f), Goto(q, l, f)
  PROVE  ControlTyped' /\ pc'[q] = l /\ ctx'[q] = f /\ Others(q)
<1>1. pc' \in [Procs -> Pcs] /\ ctx' \in [Procs -> Frames]  BY DEF TypeOK, Goto
<1>2. pc'[q] = l /\ ctx'[q] = f /\ Others(q)  BY DEF TypeOK, Others, Goto
<1>3. ASSUME NEW r \in Procs PROVE FrameFits(pc'[r], ctx'[r])
  <2>1. CASE r = q  BY <1>2, <2>1
  <2>2. CASE r # q  BY <1>2, <2>2 DEF TypeOK, Others
  <2>3. QED  BY <2>1, <2>2
<1>4. QED  BY <1>1, <1>2, <1>3 DEF ControlTyped

(* ReturnControl: a call that ends.                                        *)
LEMMA ReturnControl ==
  ASSUME TypeOK, NEW q \in Procs, Return(q)
  PROVE  ControlTyped' /\ pc'[q] = "idle" /\ Others(q)
<1>1. "idle" \in Pcs /\ None \in Frames  BY DEF Pcs, Frames
<1>2. FrameFits("idle", None)  BY DEF FrameFits, ProviderSteps, EnrolSteps
<1>3. QED  BY <1>1, <1>2, GotoControl DEF Return

(* StayControl: a call of one statement.                                   *)
LEMMA StayControl ==
  ASSUME TypeOK, NEW q \in Procs, Stay(q), pc[q] = "idle"
  PROVE  ControlTyped' /\ pc'[q] = "idle" /\ Others(q)
BY DEF TypeOK, ControlTyped, Stay, Others

(* ProviderControl: a step of an identity call that goes on.               *)
LEMMA ProviderControl ==
  ASSUME TypeOK, NEW q \in Procs, NEW l \in ProviderSteps, NEW f \in ProviderFrames,
         f.op = "complete" => f.subject \in Subjects,
         l \in {"loadProvider", "insertSession"} => f.op = "complete", Goto(q, l, f)
  PROVE  ControlTyped' /\ pc'[q] = l /\ Others(q)
<1>1. l \in Pcs /\ f \in Frames  BY DEF Pcs, Frames
<1>2. FrameFits(l, f)  BY DEF FrameFits, ProviderSteps, EnrolSteps
<1>3. QED  BY <1>1, <1>2, GotoControl

(* ProviderAt: the frame of an identity call.                              *)
LEMMA ProviderAt ==
  ASSUME TypeOK, NEW q \in Procs, pc[q] \in ProviderSteps
  PROVE  /\ ctx[q] \in ProviderFrames /\ ctx[q].provider \in Providers /\ ctx[q].config \in Configs
         /\ ctx[q].op \in {"provider", "template", "complete"}
         /\ ctx[q].op = "complete" => ctx[q].subject \in Subjects
         /\ pc[q] \in {"loadProvider", "insertSession"} => ctx[q].op = "complete"
BY DEF TypeOK, FrameFits, ProviderFrames

IdentityCalls(q) ==
  \/ TrustProviderAdd(q) \/ TrustIdentityStart(q) \/ TenantTemplate(q)
  \/ TrustIdentityComplete(q) \/ LoadProvider(q)
IdentityWrites(q) ==
  \/ UpsertTrust(q) \/ UpsertLegacy(q) \/ TrustProviderDisable(q) \/ TrustProviderPolicySet(q)
  \/ SetTemplate(q) \/ InsertSession(q) \/ TrustSessionRevoke(q)
Enrolments(q) ==
  \/ InitDevice(q) \/ AuditInit(q) \/ VerifyDevice(q) \/ AuditVerify(q) \/ ReadSession(q)
  \/ InsertCert(q) \/ StoreKey(q)
KeyCalls(q) == TrustDeviceVerifyChain(q) \/ DeleteSigningKey(q) \/ RotateCheck(q) \/ Rotate(q)
Pushes(q) == PushAuthor(q) \/ Sign(q) \/ Crash(q)

(* What the steps outside Enrolments leave of a process: it does not       *)
(* enrol.                                                                  *)
Outside(q) == ControlTyped' /\ Others(q) /\ pc'[q] \notin EnrolSteps

(* OutsideSteps: these are ways to be outside.                             *)
LEMMA OutsideSteps ==
  ASSUME TypeOK, NEW q \in Procs
  PROVE  /\ Return(q) => Outside(q)
         /\ Stay(q) /\ pc[q] = "idle" => Outside(q)
         /\ \A l \in ProviderSteps, f \in ProviderFrames :
              /\ f.op = "complete" => f.subject \in Subjects
              /\ l \in {"loadProvider", "insertSession"} => f.op = "complete"
              /\ Goto(q, l, f)
              => Outside(q)
<1>1. "idle" \notin EnrolSteps /\ \A l \in ProviderSteps : l \notin EnrolSteps
  BY DEF EnrolSteps, ProviderSteps
<1>2. Return(q) => Outside(q)  BY <1>1, ReturnControl DEF Outside
<1>3. Stay(q) /\ pc[q] = "idle" => Outside(q)  BY <1>1, StayControl DEF Outside
<1>4. ASSUME NEW l \in ProviderSteps, NEW f \in ProviderFrames,
             f.op = "complete" => f.subject \in Subjects,
             l \in {"loadProvider", "insertSession"} => f.op = "complete", Goto(q, l, f)
      PROVE  Outside(q)
  BY <1>1, <1>4, ProviderControl DEF Outside
<1>5. QED  BY <1>2, <1>3, <1>4

(* BeginIdle: a call begins at an idle process.                            *)
LEMMA BeginIdle ==
  ASSUME NEW q, NEW kind, Begin(q, kind)
  PROVE  pc[q] = "idle"
BY DEF Begin

(* IdentityCallTypes: the calls that read the provider tables.             *)
LEMMA IdentityCallTypes ==
  ASSUME TypeOK, NEW q \in Procs, IdentityCalls(q)
  PROVE  TypeOK' /\ Outside(q) /\ UNCHANGED <<identity, keys, head>>
<1>1. UNCHANGED <<identity, keys, head>>
  BY BeginIdle DEF IdentityCalls, TrustProviderAdd, TrustIdentityStart, TenantTemplate,
         TrustIdentityComplete, LoadProvider, At
<1>2. IdentityTyped' /\ KeysTyped' /\ RestTyped'
  BY <1>1 DEF identity, keys, TypeOK, IdentityTyped, KeysTyped, RestTyped
<1>3. ASSUME NEW op \in {"provider", "template", "complete"}, NEW p \in Providers, NEW c \in Configs
      PROVE  ProviderFrame(op, p, c) \in ProviderFrames /\ ProviderFrame(op, p, c).op = op
  BY DEF ProviderFrame, ProviderFrames
<1>4. {"upsertTrust", "setTemplate", "loadProvider", "insertSession"} \subseteq ProviderSteps
  BY DEF ProviderSteps
<1>5. CASE TrustProviderAdd(q)
  <2>1. PICK p \in Providers, c \in Configs : Goto(q, "upsertTrust", ProviderFrame("provider", p, c))
    BY <1>5 DEF TrustProviderAdd
  <2>2. Outside(q)  BY <1>3, <1>4, <2>1, OutsideSteps
  <2>3. QED  BY <1>1, <1>2, <2>2, TypeParts DEF Outside
<1>6. CASE TrustIdentityStart(q)
  <2>1. PICK p \in Providers : Goto(q, "upsertTrust", ProviderFrame("provider", p, DefaultConfig))
    BY <1>6 DEF TrustIdentityStart
  <2>2. Outside(q)  BY <1>3, <1>4, <2>1, OutsideSteps, IdsAssumption
  <2>3. QED  BY <1>1, <1>2, <2>2, TypeParts DEF Outside
<1>7. CASE TenantTemplate(q)
  <2>1. PICK p \in Providers :
          \/ Goto(q, "upsertTrust", ProviderFrame("template", p, DefaultConfig))
          \/ providers[p] # None /\ Goto(q, "setTemplate", ProviderFrame("template", p, providers[p].config))
    BY <1>7 DEF TenantTemplate
  <2>2. providers[p] # None => providers[p].config \in Configs  BY DEF TypeOK, ProviderRows
  <2>3. Outside(q)  BY <1>3, <1>4, <2>1, <2>2, OutsideSteps, IdsAssumption
  <2>4. QED  BY <1>1, <1>2, <2>3, TypeParts DEF Outside
<1>8. CASE TrustIdentityComplete(q)
  <2>1. PICK p \in Providers, sub \in Subjects, l \in {"upsertTrust", "loadProvider"} :
          Goto(q, l, [ProviderFrame("complete", p, DefaultConfig) EXCEPT !.subject = sub])
    BY <1>8 DEF TrustIdentityComplete
  <2> DEFINE f == [ProviderFrame("complete", p, DefaultConfig) EXCEPT !.subject = sub]
  <2>2. f \in ProviderFrames /\ f.op = "complete" /\ f.subject \in Subjects
    BY IdsAssumption DEF ProviderFrame, ProviderFrames
  <2> HIDE DEF f
  <2>3. Outside(q)  BY <1>4, <2>1, <2>2, OutsideSteps DEF f
  <2>4. QED  BY <1>1, <1>2, <2>3, TypeParts DEF Outside
<1>9. CASE LoadProvider(q)
  <2>1. pc[q] = "loadProvider"  BY <1>9 DEF LoadProvider, At
  <2>2. CASE Return(q)
    <3>1. Outside(q)  BY <2>2, OutsideSteps
    <3>2. QED  BY <1>1, <1>2, <3>1, TypeParts DEF Outside
  <2> DEFINE f == [ctx[q] EXCEPT !.config = providers[ctx[q].provider].config]
  <2>3. CASE Enabled(ctx[q].provider) /\ Goto(q, "insertSession", f)
    <3>1. /\ ctx[q] \in ProviderFrames /\ ctx[q].provider \in Providers /\ ctx[q].op = "complete"
          /\ ctx[q].subject \in Subjects
      BY <2>1, <1>4, ProviderAt
    <3>2. providers[ctx[q].provider].config \in Configs
      BY <2>3, <3>1 DEF Enabled, TypeOK, ProviderRows
    <3>3. f \in ProviderFrames /\ f.op = "complete" /\ f.subject \in Subjects
      BY <3>1, <3>2 DEF ProviderFrames
    <3> HIDE DEF f
    <3>4. Outside(q)  BY <1>4, <2>3, <3>3, OutsideSteps
    <3>5. QED  BY <1>1, <1>2, <3>4, TypeParts DEF Outside
  <2>4. QED  BY <1>9, <2>2, <2>3 DEF LoadProvider
<1>10. QED  BY <1>5, <1>6, <1>7, <1>8, <1>9 DEF IdentityCalls

(* IdentityWriteTypes: the calls and steps that write them.                *)
LEMMA IdentityWriteTypes ==
  ASSUME TypeOK, NEW q \in Procs, IdentityWrites(q)
  PROVE  TypeOK' /\ Outside(q) /\ UNCHANGED <<keys, head>>
<1>1. UNCHANGED <<keys, head>>
  BY BeginIdle DEF IdentityWrites, UpsertTrust, UpsertLegacy, TrustProviderDisable, TrustProviderPolicySet,
         SetTemplate, InsertSession, TrustSessionRevoke, At
<1>2. KeysTyped' /\ RestTyped'  BY <1>1 DEF keys, TypeOK, KeysTyped, RestTyped
<1>3. SUFFICES IdentityTyped' /\ Outside(q)  BY <1>1, <1>2, TypeParts DEF Outside
<1>4. {"upsertTrust", "upsertLegacy", "setTemplate", "loadProvider", "insertSession"} \subseteq ProviderSteps
  BY DEF ProviderSteps
<1>5. CASE UpsertTrust(q)
  <2>1. pc[q] = "upsertTrust" /\ Goto(q, "upsertLegacy", ctx[q])  BY <1>5 DEF UpsertTrust, At
  <2>2. Outside(q)  BY <1>4, <2>1, ProviderAt, OutsideSteps
  <2>3. [enabled |-> TRUE, config |-> ctx[q].config] \in ProviderRows
    BY <1>4, <2>1, ProviderAt DEF ProviderRows
  <2>4. IdentityTyped'  BY <1>5, <2>3 DEF UpsertTrust, TypeOK, IdentityTyped
  <2>5. QED  BY <2>2, <2>4
<1>6. CASE UpsertLegacy(q)
  <2>1. pc[q] = "upsertLegacy"  BY <1>6 DEF UpsertLegacy, At
  <2>2. Outside(q)
    <3>1. CASE ctx[q].op = "complete" /\ Goto(q, "loadProvider", ctx[q])
      BY <1>4, <2>1, <3>1, ProviderAt, OutsideSteps
    <3>2. CASE ctx[q].op = "template" /\ Goto(q, "setTemplate", ctx[q])
      BY <1>4, <2>1, <3>2, ProviderAt, OutsideSteps
    <3>3. CASE Return(q)  BY <3>3, OutsideSteps
    <3>4. QED  BY <1>6, <3>1, <3>2, <3>3 DEF UpsertLegacy
  <2>3. IdentityTyped'
    BY <1>4, <1>6, <2>1, ProviderAt DEF UpsertLegacy, TypeOK, IdentityTyped
  <2>4. QED  BY <2>2, <2>3
<1>7. CASE TrustProviderDisable(q)
  <2>1. Outside(q)  BY <1>7, BeginIdle, OutsideSteps DEF TrustProviderDisable
  <2>2. PICK p \in Providers : providers[p] # None /\ providers' = [providers EXCEPT ![p].enabled = FALSE]
    BY <1>7 DEF TrustProviderDisable
  <2>3. [providers[p] EXCEPT !.enabled = FALSE] \in ProviderRows  BY <2>2 DEF TypeOK, ProviderRows
  <2>4. IdentityTyped'  BY <1>7, <2>2, <2>3 DEF TrustProviderDisable, TypeOK, IdentityTyped
  <2>5. QED  BY <2>1, <2>4
<1>8. CASE TrustProviderPolicySet(q)
  <2>1. Outside(q)  BY <1>8, BeginIdle, OutsideSteps DEF TrustProviderPolicySet
  <2>2. IdentityTyped'  BY <1>8 DEF TrustProviderPolicySet, TypeOK, IdentityTyped, PolicyRows
  <2>3. QED  BY <2>1, <2>2
<1>9. CASE SetTemplate(q)
  <2>1. Outside(q) /\ pc[q] = "setTemplate"  BY <1>9, OutsideSteps DEF SetTemplate, At
  <2> DEFINE row == [skew |-> TemplateSkew, require |-> [iss |-> ctx[q].config, tenant |-> "tenant"]]
  <2>2. row \in PolicyRows  BY <1>4, <2>1, ProviderAt DEF PolicyRows
  <2>3. policies' = [policies EXCEPT ![ctx[q].provider] = row]  BY <1>9 DEF SetTemplate
  <2> HIDE DEF row
  <2>4. policies' \in [Providers -> PolicyRows \cup {None}]  BY <2>2, <2>3 DEF TypeOK
  <2>5. IdentityTyped'  BY <1>9, <2>4 DEF SetTemplate, TypeOK, IdentityTyped
  <2>6. QED  BY <2>1, <2>5
<1>10. CASE InsertSession(q)
  <2>1. Outside(q) /\ pc[q] = "insertSession"  BY <1>10, OutsideSteps DEF InsertSession, At
  <2> DEFINE row(t) == [provider |-> ctx[q].provider, subject |-> ctx[q].subject,
                        config |-> ctx[q].config, issued |-> t, expires |-> t + TTL]
  <2>2. \A t \in Times : t \in Nat /\ t + TTL \in Nat  BY BoundsAssumption DEF Times
  <2>3. \A t \in Times : row(t) \in SessionRows  BY <1>4, <2>1, <2>2, ProviderAt DEF SessionRows
  <2>4. sessions' = sessions \/ \E s \in SessionIds, t \in Times : sessions' = [sessions EXCEPT ![s] = row(t)]
    BY <1>10 DEF InsertSession
  <2> HIDE DEF row
  <2>5. sessions' \in [SessionIds -> SessionRows \cup {None}]  BY <2>3, <2>4 DEF TypeOK
  <2>6. IdentityTyped'  BY <1>10, <2>5 DEF InsertSession, TypeOK, IdentityTyped
  <2>7. QED  BY <2>1, <2>6
<1>11. CASE TrustSessionRevoke(q)
  <2>1. Outside(q)  BY <1>11, BeginIdle, OutsideSteps DEF TrustSessionRevoke
  <2>2. IdentityTyped'  BY <1>11 DEF TrustSessionRevoke, TypeOK, IdentityTyped
  <2>3. QED  BY <2>1, <2>2
<1>12. QED  BY <1>5, <1>6, <1>7, <1>8, <1>9, <1>10, <1>11 DEF IdentityWrites

(* DeviceControl: a step of an enrolment that goes on.                     *)
LEMMA DeviceControl ==
  ASSUME TypeOK, NEW q \in Procs, NEW l \in EnrolSteps \cup {"rotate"}, NEW f \in DeviceFrames,
         l = "insertCert" => f.subject \in Subjects, Goto(q, l, f)
  PROVE  ControlTyped' /\ pc'[q] = l /\ ctx'[q] = f /\ Others(q)
<1>1. l \in Pcs /\ f \in Frames  BY DEF Pcs, Frames
<1>2. FrameFits(l, f)  BY DEF FrameFits, ProviderSteps, EnrolSteps
<1>3. QED  BY <1>1, <1>2, GotoControl

(* DeviceAt: the frame of an enrolment or a rotation.                      *)
LEMMA DeviceAt ==
  ASSUME TypeOK, NEW q \in Procs, pc[q] \in EnrolSteps \cup {"rotate"}
  PROVE  /\ ctx[q] \in DeviceFrames /\ ctx[q].device \in Devices
         /\ pc[q] = "insertCert" => ctx[q].subject \in Subjects
         /\ ctx[q].now \in Times
BY DEF TypeOK, FrameFits, DeviceFrames

(* CertTyped: a certificate written at time t.                             *)
LEMMA CertTyped ==
  ASSUME TypeOK, NEW d \in Devices, NEW sub \in Subjects, NEW t \in Times
  PROVE  CertRow(d, sub, t) \in CertRows /\ CertRow(d, sub, t) # None /\ CertRow(d, sub, t).device = d
<1>1. t \in Nat  BY BoundsAssumption DEF Times
<1>2. CertRow(d, sub, t) \in CertRows /\ CertRow(d, sub, t).device = d
  BY <1>1, IdsAssumption DEF CertRow, CertRows
<1>3. QED  BY <1>2, NoneIsNoRow

(* SubjectRead: ReadSession goes on only with a subject.                   *)
LEMMA SubjectRead ==
  ASSUME TypeOK, IsFiniteSet(Issued), NEW q \in Procs, ReadSession(q)
  PROVE  \/ Return(q)
         \/ \E sub \in Subjects, t \in Times :
              Goto(q, "insertCert", [ctx[q] EXCEPT !.subject = sub, !.now = t])
<1>1. PICK t \in Times :
        LET s == LatestSession(DefaultProvider, t)
        IN IF s = None THEN Return(q)
           ELSE Goto(q, "insertCert", [ctx[q] EXCEPT !.subject = sessions[s].subject, !.now = t])
  BY DEF ReadSession
<1> DEFINE s == LatestSession(DefaultProvider, t)
<1>2. CASE s = None  BY <1>1, <1>2
<1>3. CASE s # None
  <2>1. t \in Nat /\ DefaultProvider \in Providers  BY IdsAssumption, BoundsAssumption DEF Times
  <2>2. sessions[s].subject \in Subjects  BY <1>3, <2>1, SessionFound DEF Latest
  <2>3. Goto(q, "insertCert", [ctx[q] EXCEPT !.subject = sessions[s].subject, !.now = t])
    BY <1>1, <1>3
  <2>4. QED  BY <2>2, <2>3
<1>4. QED  BY <1>2, <1>3

(* EnrolmentTypes: the statements of an enrolment.                         *)
LEMMA EnrolmentTypes ==
  ASSUME TypeOK, IsFiniteSet(Issued), NEW q \in Procs, Enrolments(q)
  PROVE  TypeOK' /\ Others(q) /\ UNCHANGED <<identity, head>>
<1>1. UNCHANGED <<identity, head>>
  BY BeginIdle DEF Enrolments, InitDevice, AuditInit, VerifyDevice, AuditVerify, ReadSession, InsertCert,
         StoreKey, At
<1>2. IdentityTyped' /\ RestTyped'  BY <1>1 DEF identity, TypeOK, IdentityTyped, RestTyped
<1>3. SUFFICES KeysTyped' /\ ControlTyped' /\ Others(q)  BY <1>1, <1>2, TypeParts
<1>4. {"auditInit", "verifyDevice", "auditVerify", "readSession", "insertCert", "storeKey"} = EnrolSteps
  BY DEF EnrolSteps
<1>5. CASE InitDevice(q)
  <2>1. PICK d \in Devices, withKey \in BOOLEAN :
          devices' = [devices EXCEPT ![d] = "created"] /\ Goto(q, "auditInit", DeviceFrame(d, withKey))
    BY <1>5 DEF InitDevice
  <2>2. DeviceFrame(d, withKey) \in DeviceFrames
    BY BoundsAssumption DEF DeviceFrame, DeviceFrames, Times
  <2>3. ControlTyped' /\ Others(q)  BY <1>4, <2>1, <2>2, DeviceControl
  <2>4. KeysTyped'  BY <1>5, <2>1 DEF InitDevice, TypeOK, KeysTyped, DeviceStates
  <2>5. QED  BY <2>3, <2>4
<1>6. CASE AuditInit(q)
  <2>1. pc[q] = "auditInit" /\ Goto(q, "verifyDevice", ctx[q])  BY <1>6 DEF AuditInit, At
  <2>2. KeysTyped'  BY <1>4, <1>6, <2>1, DeviceAt DEF AuditInit, AppendTrustEvent, TypeOK, KeysTyped
  <2>3. QED  BY <1>4, <2>1, <2>2, DeviceAt, DeviceControl
<1>7. CASE VerifyDevice(q)
  <2>1. pc[q] = "verifyDevice" /\ Goto(q, "auditVerify", ctx[q])  BY <1>7 DEF VerifyDevice, At
  <2>2. KeysTyped'  BY <1>7 DEF VerifyDevice, TypeOK, KeysTyped, DeviceStates
  <2>3. QED  BY <1>4, <2>1, <2>2, DeviceAt, DeviceControl
<1>8. CASE AuditVerify(q)
  <2>1. pc[q] = "auditVerify" /\ Goto(q, "readSession", ctx[q])  BY <1>8 DEF AuditVerify, At
  <2>2. KeysTyped'  BY <1>4, <1>8, <2>1, DeviceAt DEF AuditVerify, AppendTrustEvent, TypeOK, KeysTyped
  <2>3. QED  BY <1>4, <2>1, <2>2, DeviceAt, DeviceControl
<1>9. CASE ReadSession(q)
  <2>1. KeysTyped' /\ pc[q] = "readSession"  BY <1>9 DEF ReadSession, At, keys, TypeOK, KeysTyped
  <2>2. CASE Return(q)  BY <2>1, <2>2, ReturnControl
  <2>3. ASSUME NEW sub \in Subjects, NEW t \in Times,
               Goto(q, "insertCert", [ctx[q] EXCEPT !.subject = sub, !.now = t])
        PROVE  ControlTyped' /\ Others(q)
    <3> DEFINE f == [ctx[q] EXCEPT !.subject = sub, !.now = t]
    <3>1. f \in DeviceFrames /\ f.subject \in Subjects  BY <1>4, <2>1, DeviceAt DEF DeviceFrames
    <3> HIDE DEF f
    <3>2. QED  BY <1>4, <2>3, <3>1, DeviceControl DEF f
  <2>4. QED  BY <1>9, <2>1, <2>2, <2>3, SubjectRead
<1>10. CASE InsertCert(q)
  <2>1. pc[q] = "insertCert"  BY <1>10 DEF InsertCert, At
  <2>2. CertRow(ctx[q].device, ctx[q].subject, ctx[q].now) \in CertRows  BY <1>4, <2>1, DeviceAt, CertTyped
  <2>3. certs' \in [CertIds -> CertRows \cup {None}]  BY <1>10, <2>2 DEF InsertCert, TypeOK
  <2>4. KeysTyped'  BY <1>10, <2>3 DEF InsertCert, TypeOK, KeysTyped
  <2>5. CASE Return(q)  BY <2>4, <2>5, ReturnControl
  <2>6. CASE Goto(q, "storeKey", ctx[q])  BY <1>4, <2>1, <2>4, <2>6, DeviceAt, DeviceControl
  <2>7. QED  BY <1>10, <2>5, <2>6 DEF InsertCert
<1>11. CASE StoreKey(q)
  <2>1. KeysTyped'  BY <1>11 DEF StoreKey, TypeOK, KeysTyped, KeyStates
  <2>2. QED  BY <1>11, <2>1, ReturnControl DEF StoreKey
<1>12. QED  BY <1>5, <1>6, <1>7, <1>8, <1>9, <1>10, <1>11 DEF Enrolments

(* RotateEffect: a rotation replaces a device, or changes nothing.         *)
LEMMA RotateEffect ==
  ASSUME TypeOK, IsFiniteSet(Issued), NEW q \in Procs, Rotate(q)
  PROVE  \/ UNCHANGED keys
         \/ /\ ctx[q].device \in Devices /\ custody[ctx[q].device] = "active"
            /\ \E d \in Devices, c \in CertIds, sub \in Subjects, t \in Times :
                 Fresh(d, c) /\ Replace(ctx[q].device, d, c, sub, t)
<1>1. PICK t \in Times :
        LET s == LatestSession(DefaultProvider, t)
        IN IF s # None /\ custody[ctx[q].device] = "active"
           THEN \E d \in Devices, c \in CertIds :
                  Fresh(d, c) /\ Replace(ctx[q].device, d, c, sessions[s].subject, t)
           ELSE UNCHANGED keys
  BY DEF Rotate
<1> DEFINE s == LatestSession(DefaultProvider, t)
<1>2. CASE s # None /\ custody[ctx[q].device] = "active"
  <2>1. t \in Nat /\ DefaultProvider \in Providers  BY IdsAssumption, BoundsAssumption DEF Times
  <2>2. sessions[s].subject \in Subjects  BY <1>2, <2>1, SessionFound DEF Latest
  <2>3. ctx[q].device \in Devices  BY DeviceAt DEF Rotate, At
  <2>4. PICK d \in Devices, c \in CertIds :
          Fresh(d, c) /\ Replace(ctx[q].device, d, c, sessions[s].subject, t)
    BY <1>1, <1>2
  <2>5. QED  BY <1>2, <2>2, <2>3, <2>4
<1>3. QED  BY <1>1, <1>2

(* KeyCallTypes: the calls on certificates and keys of enrolled devices.   *)
LEMMA KeyCallTypes ==
  ASSUME TypeOK, IsFiniteSet(Issued), NEW q \in Procs, KeyCalls(q)
  PROVE  TypeOK' /\ Outside(q) /\ UNCHANGED <<identity, head>>
<1>1. UNCHANGED <<identity, head>>
  BY BeginIdle DEF KeyCalls, TrustDeviceVerifyChain, DeleteSigningKey, RotateCheck, Rotate, At
<1>2. IdentityTyped' /\ RestTyped'  BY <1>1 DEF identity, TypeOK, IdentityTyped, RestTyped
<1>3. SUFFICES KeysTyped' /\ Outside(q)  BY <1>1, <1>2, TypeParts DEF Outside
<1>4. CASE TrustDeviceVerifyChain(q)
  <2>1. Outside(q)  BY <1>4, BeginIdle, OutsideSteps DEF TrustDeviceVerifyChain
  <2>2. PICK c \in CertIds : certs[c] # None /\ certs' = [certs EXCEPT ![c].verified = TRUE]
    BY <1>4 DEF TrustDeviceVerifyChain
  <2>3. [certs[c] EXCEPT !.verified = TRUE] \in CertRows  BY <2>2 DEF TypeOK, CertRows
  <2>4. KeysTyped'  BY <1>4, <2>2, <2>3 DEF TrustDeviceVerifyChain, TypeOK, KeysTyped
  <2>5. QED  BY <2>1, <2>4
<1>5. CASE DeleteSigningKey(q)
  <2>1. Outside(q)  BY <1>5, BeginIdle, OutsideSteps DEF DeleteSigningKey
  <2>2. KeysTyped'  BY <1>5 DEF DeleteSigningKey, TypeOK, KeysTyped, KeyStates
  <2>3. QED  BY <2>1, <2>2
<1>6. CASE RotateCheck(q)
  <2>1. PICK d \in Devices : Goto(q, "rotate", DeviceFrame(d, TRUE))  BY <1>6 DEF RotateCheck
  <2>2. DeviceFrame(d, TRUE) \in DeviceFrames
    BY BoundsAssumption DEF DeviceFrame, DeviceFrames, Times
  <2>3. ControlTyped' /\ Others(q) /\ pc'[q] = "rotate"  BY <2>1, <2>2, DeviceControl
  <2>4. KeysTyped'  BY <1>6 DEF RotateCheck, keys, TypeOK, KeysTyped
  <2>5. QED  BY <2>3, <2>4 DEF Outside, EnrolSteps
<1>7. CASE Rotate(q)
  <2>1. Outside(q)  BY <1>7, OutsideSteps DEF Rotate
  <2>2. CASE UNCHANGED keys  BY <2>1, <2>2 DEF keys, TypeOK, KeysTyped
  <2>3. ASSUME NEW d \in Devices, NEW c \in CertIds, NEW sub \in Subjects, NEW t \in Times,
               Replace(ctx[q].device, d, c, sub, t)
        PROVE  KeysTyped'
    <3>1. CertRow(d, sub, t) \in CertRows  BY CertTyped
    <3>2. certs' \in [CertIds -> CertRows \cup {None}]  BY <2>3, <3>1 DEF Replace, TypeOK
    <3>3. custody' \in [Devices -> KeyStates \cup {None}]  BY <2>3 DEF Replace, TypeOK, KeyStates
    <3>4. QED  BY <2>3, <3>2, <3>3 DEF Replace, TypeOK, KeysTyped, DeviceStates
  <2>4. QED  BY <1>7, <2>1, <2>2, <2>3, RotateEffect
<1>8. QED  BY <1>4, <1>5, <1>6, <1>7 DEF KeyCalls

(* PushTypes: publishing a head, and crashes.                              *)
LEMMA PushTypes ==
  ASSUME TypeOK, NEW q \in Procs, Pushes(q)
  PROVE  TypeOK' /\ Outside(q) /\ UNCHANGED <<identity, keys>>
<1>1. UNCHANGED <<identity, keys>>
  BY BeginIdle DEF Pushes, PushAuthor, Sign, Crash, At
<1>2. IdentityTyped' /\ KeysTyped'
  BY <1>1 DEF identity, keys, TypeOK, IdentityTyped, KeysTyped
<1>3. SUFFICES head' \in Heads \cup {None} /\ Outside(q)
  BY <1>1, <1>2, TypeParts DEF Outside, RestTyped
<1>4. CASE PushAuthor(q)
  <2> DEFINE f == [cert |-> VerifiedAuthorIdentity, device |-> certs[VerifiedAuthorIdentity].device]
  <2>1. f \in PushFrames  BY <1>4, AuthorFound DEF PushAuthor, PushFrames
  <2>2. Goto(q, "sign", f)  BY <1>4 DEF PushAuthor
  <2> HIDE DEF f
  <2>3. f \in Frames /\ "sign" \in Pcs  BY <2>1 DEF Frames, Pcs
  <2>4. FrameFits("sign", f)  BY <2>1 DEF FrameFits, ProviderSteps, EnrolSteps
  <2>5. Outside(q)  BY <2>2, <2>3, <2>4, GotoControl DEF Outside, EnrolSteps
  <2>6. QED  BY <1>4, <2>5 DEF PushAuthor, TypeOK
<1>5. CASE Sign(q)
  <2>1. Outside(q)  BY <1>5, OutsideSteps DEF Sign
  <2>2. ctx[q].cert \in CertIds /\ ctx[q].device \in Devices
    BY <1>5 DEF Sign, At, TypeOK, FrameFits, PushFrames
  <2>3. \A by \in Devices \cup {"legacy"}, alg \in {"undeclared", "ed25519"} :
          HeadBy(ctx[q], by, alg) \in Heads
    BY <2>2 DEF HeadBy, Heads, Signatures, Payloads
  <2>4. ASSUME NEW unlocked \in BOOLEAN, NEW env \in Devices \cup {None}, SignSyncPayload(q, unlocked, env)
        PROVE  head' \in Heads \cup {None}
    BY <2>2, <2>3, <2>4 DEF SignSyncPayload, TypeOK
  <2>5. QED  BY <1>5, <2>1, <2>4 DEF Sign
<1>6. CASE Crash(q)
  BY <1>6, OutsideSteps DEF Crash, TypeOK
<1>7. QED  BY <1>4, <1>5, <1>6 DEF Pushes

-----------------------------------------------------------------------------
(* Devices, certificates and keys.                                         *)

(* No step removes a device or a certificate, or takes a verification      *)
(* back.                                                                   *)
Kept ==
  /\ \A d \in Devices : /\ devices[d] # None => devices'[d] # None
                        /\ devices[d] = "verified" => devices'[d] = "verified"
  /\ \A c \in CertIds :
       certs[c] # None =>
         /\ certs'[c] # None /\ certs'[c].device = certs[c].device
         /\ certs[c].verified => certs'[c].verified

(* KeptAll: every step of a process keeps them.                            *)
LEMMA KeptAll ==
  ASSUME TypeOK, IsFiniteSet(Issued), NEW q \in Procs, Enrolments(q) \/ KeyCalls(q)
  PROVE  Kept
<1>1. None \notin DeviceStates /\ "verified" # None /\ "created" # None
  BY NoneIsNoRow DEF DeviceStates
<1>2. CASE UNCHANGED keys  BY <1>2 DEF Kept, keys
<1>3. CASE InitDevice(q)  BY <1>1, <1>3 DEF InitDevice, Kept, TypeOK
<1>4. CASE AuditInit(q)  BY <1>4 DEF AuditInit, Kept
<1>5. CASE VerifyDevice(q)  BY <1>1, <1>5 DEF VerifyDevice, Kept, TypeOK
<1>6. CASE AuditVerify(q)  BY <1>6 DEF AuditVerify, Kept
<1>7. CASE InsertCert(q)
  <2>1. PICK c \in CertIds : certs[c] = None /\ certs' = [certs EXCEPT ![c] = CertRow(ctx[q].device, ctx[q].subject, ctx[q].now)]
    BY <1>7 DEF InsertCert
  <2>2. \A o \in CertIds : certs[o] # None => certs'[o] = certs[o]  BY <2>1 DEF TypeOK
  <2>3. QED  BY <1>7, <2>2 DEF InsertCert, Kept
<1>8. CASE StoreKey(q)  BY <1>8 DEF StoreKey, Kept
<1>9. CASE TrustDeviceVerifyChain(q)
  <2>1. PICK c \in CertIds : certs[c] # None /\ certs' = [certs EXCEPT ![c].verified = TRUE]
    BY <1>9 DEF TrustDeviceVerifyChain
  <2>2. certs[c] \in CertRows  BY <2>1 DEF TypeOK
  <2>3. certs'[c] = [certs[c] EXCEPT !.verified = TRUE]  BY <2>1 DEF TypeOK
  <2>4. certs'[c] \in CertRows /\ certs'[c].device = certs[c].device /\ certs'[c].verified
    BY <2>2, <2>3 DEF CertRows
  <2>5. certs'[c] # None  BY <2>4, NoneIsNoRow
  <2>6. \A o \in CertIds : o # c => certs'[o] = certs[o]  BY <2>1 DEF TypeOK
  <2>7. QED  BY <1>9, <2>4, <2>5, <2>6 DEF TrustDeviceVerifyChain, Kept
<1>10. CASE DeleteSigningKey(q)  BY <1>10 DEF DeleteSigningKey, Kept
<1>11. CASE Rotate(q)
  <2>1. ASSUME NEW d \in Devices, NEW c \in CertIds, NEW sub \in Subjects, NEW t \in Times,
               Fresh(d, c), Replace(ctx[q].device, d, c, sub, t)
        PROVE  Kept
    <3>1. \A o \in CertIds : certs[o] # None => certs'[o] = certs[o]
      BY <2>1 DEF Fresh, Replace, TypeOK
    <3>2. \A e \in Devices : devices[e] # None => devices'[e] = devices[e]
      BY <2>1 DEF Fresh, Replace, TypeOK
    <3>3. QED  BY <1>1, <3>1, <3>2 DEF Kept
  <2>2. QED  BY <1>2, <1>11, <2>1, RotateEffect
<1>12. QED
  BY <1>2, <1>3, <1>4, <1>5, <1>6, <1>7, <1>8, <1>9, <1>10, <1>11
     DEF Enrolments, KeyCalls, ReadSession, RotateCheck

KeysInv ==
  /\ KeysOfDevices /\ CustodyHasCertificate /\ RetiredReplaced
  /\ \A q \in Procs : Enrolling(q)

(* QuietKeys: nothing is written, and no process begins an enrolment or    *)
(* goes on with one.                                                       *)
LEMMA QuietKeys ==
  ASSUME KeysInv, UNCHANGED keys,
         \A r \in Procs : (pc'[r] = pc[r] /\ ctx'[r] = ctx[r]) \/ pc'[r] \notin EnrolSteps
  PROVE  KeysInv'
<1>1. KeysOfDevices' /\ CustodyHasCertificate' /\ RetiredReplaced'
  BY DEF KeysInv, keys, KeysOfDevices, CustodyHasCertificate, DeviceVerified, RetiredReplaced, Retired,
         Replacements
<1>2. ASSUME NEW r \in Procs PROVE Enrolling(r)'
  <2>1. CASE pc'[r] \notin EnrolSteps
    BY <2>1 DEF Enrolling, EnrolSteps
  <2>2. CASE pc'[r] = pc[r] /\ ctx'[r] = ctx[r]
    BY <2>2 DEF KeysInv, keys, Enrolling, DeviceVerified
  <2>3. QED  BY <2>1, <2>2
<1>3. QED  BY <1>1, <1>2 DEF KeysInv

(* OthersEnrol: an enrolment that nobody else's step concerns.             *)
LEMMA OthersEnrol ==
  ASSUME TypeOK, NEW q \in Procs, Others(q), Kept, NEW r \in Procs, r # q, Enrolling(r),
         pc[r] \in EnrolSteps => /\ custody'[ctx[r].device] = None
                                 /\ pc'[q] \in EnrolSteps => ctx'[q].device # ctx[r].device
  PROVE  Enrolling(r)'
<1>1. pc'[r] = pc[r] /\ ctx'[r] = ctx[r]  BY DEF Others
<1>2. CASE pc[r] \notin EnrolSteps  BY <1>1, <1>2 DEF Enrolling, EnrolSteps
<1>3. CASE pc[r] \in EnrolSteps
  <2> DEFINE d == ctx[r].device
  <2>1. d \in Devices /\ devices[d] # None  BY <1>3, DeviceAt DEF Enrolling
  <2>2. devices'[d] # None /\ custody'[d] = None  BY <1>3, <2>1 DEF Kept
  <2>3. ASSUME NEW x \in Procs, x # r, pc'[x] \in EnrolSteps PROVE ctx'[x].device # d
    <3>1. CASE x = q  BY <1>3, <2>3, <3>1
    <3>2. CASE x # q  BY <1>3, <2>3, <3>2 DEF Others, Enrolling
    <3>3. QED  BY <3>1, <3>2
  <2>4. pc[r] \in EnrolSteps \ {"auditInit", "verifyDevice"} => devices'[d] = "verified"
    BY <2>1 DEF Kept, Enrolling, DeviceVerified
  <2>5. pc[r] = "storeKey" => \E c \in CertIds : certs'[c] # None /\ certs'[c].device = d
    BY DEF Kept, Enrolling
  <2>6. QED  BY <1>1, <2>2, <2>3, <2>4, <2>5 DEF Enrolling, DeviceVerified
<1>4. QED  BY <1>2, <1>3

(* RetiredSame: a step that retires no key and writes no event of a        *)
(* rotation.                                                               *)
LEMMA RetiredSame ==
  ASSUME RetiredReplaced,
         \A d \in Devices : (custody'[d] = "rotated") <=> (custody[d] = "rotated"),
         \A d \in Devices : (<<"init", "rotate">> \in audit'[d]) <=> (<<"init", "rotate">> \in audit[d])
  PROVE  RetiredReplaced'
<1>1. Retired' = Retired  BY DEF Retired
<1>2. Replacements' = Replacements  BY DEF Replacements
<1>3. QED  BY <1>1, <1>2 DEF RetiredReplaced

(* CustodyKept: no key becomes active.                                     *)
LEMMA CustodyKept ==
  ASSUME CustodyHasCertificate, Kept, \A d \in Devices : custody'[d] = "active" => custody[d] = "active"
  PROVE  CustodyHasCertificate'
BY DEF CustodyHasCertificate, Kept, DeviceVerified

(* EnrolmentKeys: the statements of an enrolment keep all of it.           *)
LEMMA EnrolmentKeys ==
  ASSUME TypeOK, KeysInv, IsFiniteSet(Issued), NEW q \in Procs, Enrolments(q)
  PROVE  KeysInv'
<1>1. TypeOK' /\ Others(q) /\ Kept  BY EnrolmentTypes, KeptAll
<1>2. {"auditInit", "verifyDevice", "auditVerify", "readSession", "insertCert", "storeKey"} = EnrolSteps
  BY DEF EnrolSteps
<1>3. "active" # None /\ "created" # None /\ "verified" # None
  BY NoneIsNoRow DEF KeyStates, DeviceStates
<1>4. CASE InitDevice(q)
  <2>1. PICK d \in Devices, withKey \in BOOLEAN :
          /\ devices[d] = None /\ devices' = [devices EXCEPT ![d] = "created"]
          /\ Goto(q, "auditInit", DeviceFrame(d, withKey))
    BY <1>4 DEF InitDevice
  <2>2. pc'[q] = "auditInit" /\ ctx'[q].device = d  BY <2>1 DEF Goto, DeviceFrame, TypeOK
  <2>3. UNCHANGED <<audit, certs, custody>> /\ custody[d] = None
    BY <1>4, <2>1 DEF InitDevice, KeysInv, KeysOfDevices
  <2>4. KeysOfDevices'  BY <2>1, <2>3 DEF KeysInv, KeysOfDevices, TypeOK
  <2>5. CustodyHasCertificate'  BY <1>1, <2>3, CustodyKept DEF KeysInv
  <2>6. RetiredReplaced'  BY <2>3, RetiredSame DEF KeysInv
  <2>7. \A r \in Procs : pc[r] \in EnrolSteps => ctx[r].device # d /\ custody[ctx[r].device] = None
    BY <2>1 DEF KeysInv, Enrolling
  <2>8. ASSUME NEW r \in Procs, r # q PROVE Enrolling(r)'
    BY <1>1, <2>2, <2>3, <2>7, <2>8, OthersEnrol DEF KeysInv
  <2>9. Enrolling(q)'
    <3>1. devices'[d] # None /\ custody'[d] = None  BY <1>3, <2>1, <2>3 DEF TypeOK
    <3>2. \A r \in Procs : r # q /\ pc'[r] \in EnrolSteps => ctx'[r].device # d
      BY <1>1, <2>7 DEF Others
    <3>3. QED  BY <2>2, <3>1, <3>2 DEF Enrolling, EnrolSteps
  <2>10. QED  BY <2>4, <2>5, <2>6, <2>8, <2>9 DEF KeysInv
<1>5. CASE ~InitDevice(q)
  <2> DEFINE d == ctx[q].device
  <2>1. pc[q] \in EnrolSteps
    BY <1>2, <1>5 DEF Enrolments, AuditInit, VerifyDevice, AuditVerify, ReadSession, InsertCert, StoreKey, At
  <2>2. /\ d \in Devices /\ devices[d] # None /\ custody[d] = None
        /\ \A r \in Procs : r # q /\ pc[r] \in EnrolSteps => ctx[r].device # d
    BY <2>1, DeviceAt DEF KeysInv, Enrolling
  <2> HIDE DEF d
  <2>3. pc'[q] \in EnrolSteps => ctx'[q].device = d
    <3>1. CASE \E sub \in Subjects, t \in Times :
                 Goto(q, "insertCert", [ctx[q] EXCEPT !.subject = sub, !.now = t])
      <4>1. PICK sub \in Subjects, t \in Times :
              Goto(q, "insertCert", [ctx[q] EXCEPT !.subject = sub, !.now = t])
        BY <3>1
      <4>2. ctx'[q] = [ctx[q] EXCEPT !.subject = sub, !.now = t]  BY <4>1 DEF Goto, TypeOK
      <4>3. ctx[q] \in DeviceFrames  BY <2>1, DeviceAt
      <4>4. QED  BY <4>2, <4>3 DEF d, DeviceFrames
    <3>2. CASE Return(q)  BY <3>2, ReturnControl DEF EnrolSteps
    <3>3. CASE \E l \in EnrolSteps : Goto(q, l, ctx[q])  BY <3>3 DEF Goto, TypeOK, d
    <3>4. QED
      BY <1>2, <1>5, <3>1, <3>2, <3>3, SubjectRead
         DEF Enrolments, AuditInit, VerifyDevice, AuditVerify, InsertCert, StoreKey
  <2>4. /\ \A e \in Devices : e # d => /\ custody'[e] = custody[e] /\ devices'[e] = devices[e]
                                       /\ audit'[e] = audit[e]
        /\ \/ custody'[d] = custody[d]
           \/ pc[q] = "storeKey" /\ custody'[d] = "active" /\ pc'[q] \notin EnrolSteps
        /\ <<"init", "rotate">> \in audit'[d] <=> <<"init", "rotate">> \in audit[d]
    <3>1. CASE AuditInit(q)  BY <2>2, <3>1 DEF AuditInit, AppendTrustEvent, TypeOK, d
    <3>2. CASE VerifyDevice(q)  BY <2>2, <3>2 DEF VerifyDevice, TypeOK, d
    <3>3. CASE AuditVerify(q)  BY <2>2, <3>3 DEF AuditVerify, AppendTrustEvent, TypeOK, d
    <3>4. CASE ReadSession(q)  BY <3>4 DEF ReadSession, keys
    <3>5. CASE InsertCert(q)  BY <3>5 DEF InsertCert
    <3>6. CASE StoreKey(q)
      <4>1. pc'[q] \notin EnrolSteps  BY <3>6, ReturnControl DEF StoreKey, EnrolSteps
      <4>2. QED  BY <2>2, <3>6, <4>1 DEF StoreKey, At, TypeOK, d
    <3>7. QED  BY <1>5, <3>1, <3>2, <3>3, <3>4, <3>5, <3>6 DEF Enrolments
  <2>5. KeysOfDevices'
    <3>1. devices'[d] # None  BY <1>1, <2>2 DEF Kept
    <3>2. QED  BY <2>4, <3>1 DEF KeysInv, KeysOfDevices
  <2>6. pc[q] = "storeKey" =>
          devices'[d] = "verified" /\ \E c \in CertIds : certs'[c] # None /\ certs'[c].device = d
    BY <1>1, <2>2 DEF Kept, KeysInv, Enrolling, DeviceVerified, EnrolSteps, d
  <2>7. CustodyHasCertificate'
    <3>1. ASSUME NEW e \in Devices, custody'[e] = "active"
          PROVE  devices'[e] = "verified" /\ \E c \in CertIds : certs'[c] # None /\ certs'[c].device = e
      <4>1. CASE custody[e] = "active"
        BY <1>1, <4>1 DEF Kept, KeysInv, CustodyHasCertificate, DeviceVerified
      <4>2. CASE custody[e] # "active"  BY <2>4, <2>6, <3>1, <4>2
      <4>3. QED  BY <4>1, <4>2
    <3>2. QED  BY <3>1 DEF CustodyHasCertificate, DeviceVerified
  <2>8. RetiredReplaced'
    <3>1. \A e \in Devices : (custody'[e] = "rotated") <=> (custody[e] = "rotated")
      <4>1. None # "rotated"  BY NoneIsNoRow DEF KeyStates
      <4>2. QED  BY <2>2, <2>4, <4>1
    <3>2. \A e \in Devices : (<<"init", "rotate">> \in audit'[e]) <=> (<<"init", "rotate">> \in audit[e])
      BY <2>4
    <3>3. QED  BY <3>1, <3>2, RetiredSame DEF KeysInv
  <2>9. ASSUME NEW r \in Procs, r # q PROVE Enrolling(r)'
    <3>1. pc[r] \in EnrolSteps => ctx[r].device \in Devices /\ ctx[r].device # d /\ custody[ctx[r].device] = None
      BY <2>2, <2>9, DeviceAt DEF KeysInv, Enrolling
    <3>2. QED  BY <1>1, <2>3, <2>4, <2>9, <3>1, OthersEnrol DEF KeysInv
  <2>10. Enrolling(q)'
    <3>1. CASE pc'[q] \notin EnrolSteps  BY <3>1 DEF Enrolling, EnrolSteps
    <3>2. CASE pc'[q] \in EnrolSteps
      <4>1. ctx'[q].device = d /\ devices'[d] # None /\ custody'[d] = None
        BY <1>1, <2>2, <2>3, <2>4, <3>2 DEF Kept
      <4>2. \A r \in Procs : r # q /\ pc'[r] \in EnrolSteps => ctx'[r].device # d
        BY <1>1, <2>2 DEF Others
      <4>3. pc'[q] \in EnrolSteps \ {"auditInit", "verifyDevice"} => devices'[d] = "verified"
        <5>1. CASE AuditInit(q)  BY <5>1 DEF AuditInit, Goto, TypeOK
        <5>2. CASE VerifyDevice(q)  BY <2>2, <5>2 DEF VerifyDevice, TypeOK, d
        <5>3. CASE ~AuditInit(q) /\ ~VerifyDevice(q)
          <6>1. pc[q] \in EnrolSteps \ {"auditInit", "verifyDevice"}
            BY <1>2, <1>5, <5>3 DEF Enrolments, AuditVerify, ReadSession, InsertCert, StoreKey, At
          <6>2. devices[d] = "verified"  BY <6>1 DEF KeysInv, Enrolling, DeviceVerified, d
          <6>3. QED  BY <1>1, <2>2, <6>2 DEF Kept
        <5>4. QED  BY <5>1, <5>2, <5>3
      <4>4. pc'[q] = "storeKey" => \E c \in CertIds : certs'[c] # None /\ certs'[c].device = d
        <5>1. CASE InsertCert(q)
          <6>1. PICK c \in CertIds : certs' = [certs EXCEPT ![c] = CertRow(ctx[q].device, ctx[q].subject, ctx[q].now)]
            BY <5>1 DEF InsertCert
          <6>2. ctx[q].subject \in Subjects /\ ctx[q].now \in Times
            BY <2>1, <5>1, DeviceAt DEF InsertCert, At
          <6>3. CertRow(d, ctx[q].subject, ctx[q].now) # None /\ CertRow(d, ctx[q].subject, ctx[q].now).device = d
            BY <2>2, <6>2, CertTyped
          <6>4. certs'[c] = CertRow(d, ctx[q].subject, ctx[q].now)  BY <6>1 DEF TypeOK, d
          <6>5. QED  BY <6>3, <6>4
        <5>2. CASE ~InsertCert(q)
          <6>1. pc'[q] # "storeKey"
            <7>1. CASE Return(q)  BY <7>1, ReturnControl
            <7>2. CASE \E l \in EnrolSteps, f \in Frames : l # "storeKey" /\ Goto(q, l, f)
              BY <7>2 DEF Goto, TypeOK
            <7>3. ctx[q] \in Frames /\ ctx[q] \in DeviceFrames  BY <2>1, DeviceAt DEF TypeOK
            <7>4. \A sub \in Subjects, t \in Times : [ctx[q] EXCEPT !.subject = sub, !.now = t] \in Frames
              BY <7>3 DEF DeviceFrames, Frames
            <7>5. CASE ReadSession(q)  BY <1>2, <7>1, <7>2, <7>4, <7>5, SubjectRead
            <7>6. CASE AuditInit(q)  BY <1>2, <7>2, <7>3, <7>6 DEF AuditInit
            <7>7. CASE VerifyDevice(q)  BY <1>2, <7>2, <7>3, <7>7 DEF VerifyDevice
            <7>8. CASE AuditVerify(q)  BY <1>2, <7>2, <7>3, <7>8 DEF AuditVerify
            <7>9. CASE StoreKey(q)  BY <7>1, <7>9 DEF StoreKey
            <7>10. QED  BY <1>5, <5>2, <7>5, <7>6, <7>7, <7>8, <7>9 DEF Enrolments
          <6>2. QED  BY <6>1
        <5>3. QED  BY <5>1, <5>2
      <4>5. QED  BY <4>1, <4>2, <4>3, <4>4 DEF Enrolling, DeviceVerified
    <3>3. QED  BY <3>1, <3>2
  <2>11. QED  BY <2>5, <2>7, <2>8, <2>9, <2>10 DEF KeysInv
<1>6. QED  BY <1>4, <1>5

(* KeyCallKeys: verifying chains, deleting keys and rotating them.         *)
LEMMA KeyCallKeys ==
  ASSUME TypeOK, KeysInv, IsFiniteSet(Issued), NEW q \in Procs, KeyCalls(q)
  PROVE  KeysInv'
<1>1. TypeOK' /\ Others(q) /\ pc'[q] \notin EnrolSteps /\ Kept
  BY KeyCallTypes, KeptAll DEF Outside
<1>2. \A r \in Procs : (pc'[r] = pc[r] /\ ctx'[r] = ctx[r]) \/ pc'[r] \notin EnrolSteps
  BY <1>1 DEF Others
<1>3. "active" # None /\ "deleted" # None /\ "rotated" # None /\ "verified" # None
  BY NoneIsNoRow DEF KeyStates, DeviceStates
<1>4. Enrolling(q)'  BY <1>1 DEF Enrolling, EnrolSteps
<1>5. \A r \in Procs : pc[r] \in EnrolSteps =>
        ctx[r].device \in Devices /\ devices[ctx[r].device] # None /\ custody[ctx[r].device] = None
  BY DeviceAt DEF KeysInv, Enrolling
<1>6. CASE UNCHANGED keys  BY <1>2, <1>6, QuietKeys
<1>7. CASE TrustDeviceVerifyChain(q)
  <2>1. UNCHANGED <<devices, audit, custody>>  BY <1>7 DEF TrustDeviceVerifyChain
  <2>2. KeysOfDevices'  BY <2>1 DEF KeysInv, KeysOfDevices
  <2>3. CustodyHasCertificate'  BY <1>1, <2>1, CustodyKept DEF KeysInv
  <2>4. RetiredReplaced'  BY <2>1, RetiredSame DEF KeysInv
  <2>5. ASSUME NEW r \in Procs, r # q PROVE Enrolling(r)'
    BY <1>1, <1>5, <2>1, <2>5, OthersEnrol DEF KeysInv
  <2>6. QED  BY <1>4, <2>2, <2>3, <2>4, <2>5 DEF KeysInv
<1>8. CASE DeleteSigningKey(q)
  <2>1. PICK d \in Devices : custody[d] = "active" /\ custody' = [custody EXCEPT ![d] = "deleted"]
    BY <1>8 DEF DeleteSigningKey
  <2>2. UNCHANGED <<devices, audit, certs>>  BY <1>8 DEF DeleteSigningKey
  <2>3. KeysOfDevices'  BY <1>3, <2>1, <2>2 DEF KeysInv, KeysOfDevices, TypeOK
  <2>4. \A e \in Devices : custody'[e] = "active" => custody[e] = "active"  BY <2>1 DEF TypeOK
  <2>5. CustodyHasCertificate'  BY <1>1, <2>4, CustodyKept DEF KeysInv
  <2>6. RetiredReplaced'  BY <2>1, <2>2, RetiredSame DEF KeysInv, TypeOK
  <2>7. ASSUME NEW r \in Procs, r # q PROVE Enrolling(r)'
    <3>1. pc[r] \in EnrolSteps => custody'[ctx[r].device] = None  BY <1>3, <1>5, <2>1 DEF TypeOK
    <3>2. QED  BY <1>1, <2>7, <3>1, OthersEnrol DEF KeysInv
  <2>8. QED  BY <1>4, <2>3, <2>5, <2>6, <2>7 DEF KeysInv
<1>9. ASSUME NEW old \in Devices, custody[old] = "active", NEW new \in Devices, NEW c \in CertIds,
             NEW sub \in Subjects, NEW t \in Times, Fresh(new, c), Replace(old, new, c, sub, t)
      PROVE  KeysInv'
  <2>1. custody[new] = None /\ audit[new] = {} /\ new # old
    BY <1>3, <1>9 DEF Fresh, KeysInv, KeysOfDevices
  <2>2. /\ custody'[new] = "active" /\ custody'[old] = "rotated"
        /\ \A e \in Devices : e # new /\ e # old => custody'[e] = custody[e]
    BY <1>9, <2>1 DEF Replace, TypeOK
  <2>3. /\ devices'[new] = "verified"
        /\ audit'[new] = {<<"init", "rotate">>, <<"verify", "rotate">>}
        /\ \A e \in Devices : e # new => devices'[e] = devices[e] /\ audit'[e] = audit[e]
    BY <1>9 DEF Replace, TypeOK
  <2>4. KeysOfDevices'
    <3>1. devices[old] # None  BY <1>3, <1>9 DEF KeysInv, KeysOfDevices
    <3>2. QED  BY <1>3, <2>1, <2>2, <2>3, <3>1 DEF KeysInv, KeysOfDevices
  <2>5. CustodyHasCertificate'
    <3>1. certs'[c] = CertRow(new, sub, t)  BY <1>9 DEF Replace, TypeOK
    <3>2. certs'[c] # None /\ certs'[c].device = new  BY <3>1, CertTyped
    <3>3. ASSUME NEW e \in Devices, custody'[e] = "active", e # new
          PROVE  devices'[e] = "verified" /\ \E o \in CertIds : certs'[o] # None /\ certs'[o].device = e
      <4>1. custody[e] = "active"  BY <2>2, <3>3
      <4>2. QED  BY <1>1, <4>1 DEF Kept, KeysInv, CustodyHasCertificate, DeviceVerified
    <3>4. QED  BY <2>3, <3>2, <3>3 DEF CustodyHasCertificate, DeviceVerified
  <2>6. RetiredReplaced'
    <3>1. Retired' = Retired \cup {old} /\ old \notin Retired  BY <1>3, <1>9, <2>1, <2>2 DEF Retired
    <3>2. Replacements' = Replacements \cup {new} /\ new \notin Replacements
      BY <2>1, <2>3 DEF Replacements
    <3>3. /\ IsFiniteSet(Retired) /\ IsFiniteSet(Replacements)
          /\ Cardinality(Replacements) = Cardinality(Retired)
      BY DEF KeysInv, RetiredReplaced
    <3>4. IsFiniteSet(Retired') /\ Cardinality(Retired') = Cardinality(Retired) + 1
      BY <3>1, <3>3, FS_AddElement
    <3>5. IsFiniteSet(Replacements') /\ Cardinality(Replacements') = Cardinality(Replacements) + 1
      BY <3>2, <3>3, FS_AddElement
    <3>6. QED  BY <3>3, <3>4, <3>5 DEF RetiredReplaced
  <2>7. ASSUME NEW r \in Procs, r # q PROVE Enrolling(r)'
    <3>1. pc[r] \in EnrolSteps => custody'[ctx[r].device] = None
      <4>1. pc[r] \in EnrolSteps => ctx[r].device # new /\ ctx[r].device # old
        BY <1>3, <1>5, <1>9 DEF Fresh
      <4>2. QED  BY <1>5, <2>2, <4>1
    <3>2. QED  BY <1>1, <2>7, <3>1, OthersEnrol DEF KeysInv
  <2>8. QED  BY <1>4, <2>4, <2>5, <2>6, <2>7 DEF KeysInv
<1>10. CASE Rotate(q)
  <2>1. CASE UNCHANGED keys  BY <1>6, <2>1
  <2>2. CASE ~ UNCHANGED keys
    <3>1. /\ ctx[q].device \in Devices /\ custody[ctx[q].device] = "active"
          /\ \E d \in Devices, c \in CertIds, sub \in Subjects, t \in Times :
               Fresh(d, c) /\ Replace(ctx[q].device, d, c, sub, t)
      BY <1>10, <2>2, RotateEffect
    <3>2. QED  BY <1>9, <3>1
  <2>3. QED  BY <2>1, <2>2
<1>11. QED  BY <1>6, <1>7, <1>8, <1>10 DEF KeyCalls, RotateCheck

-----------------------------------------------------------------------------
(* The invariant.                                                          *)

(* SessionsKept: they come one by one.                                     *)
LEMMA SessionsKept ==
  ASSUME TypeOK, SessionsIssued, NEW q \in Procs, IdentityWrites(q)
  PROVE  SessionsIssued'
<1>1. CASE UNCHANGED sessions  BY <1>1 DEF SessionsIssued, Issued
<1>2. CASE \E s \in SessionIds : \E row : sessions' = [sessions EXCEPT ![s] = row]
  <2>1. PICK s \in SessionIds : \E row : sessions' = [sessions EXCEPT ![s] = row]  BY <1>2
  <2>2. Issued' \in SUBSET (Issued \cup {s})  BY <2>1 DEF Issued, TypeOK
  <2>3. QED  BY <2>2, FS_AddElement, FS_Subset DEF SessionsIssued
<1>3. CASE InsertSession(q)  BY <1>1, <1>2, <1>3 DEF InsertSession
<1>4. QED
  BY <1>1, <1>3 DEF IdentityWrites, UpsertTrust, UpsertLegacy, TrustProviderDisable, TrustProviderPolicySet,
     SetTemplate, TrustSessionRevoke

(* Initially: the invariant holds at first.                                *)
LEMMA Initially == Init => IInv
<1> SUFFICES ASSUME Init PROVE IInv  OBVIOUS
<1>1. TypeOK
  <2>1. IdentityTyped /\ KeysTyped  BY DEF Init, IdentityTyped, KeysTyped
  <2>2. RestTyped  BY BoundsAssumption DEF Init, RestTyped
  <2>3. ControlTyped
    <3>1. pc \in [Procs -> Pcs] /\ ctx \in [Procs -> Frames]  BY DEF Init, Pcs, Frames
    <3>2. FrameFits("idle", None)  BY DEF FrameFits, ProviderSteps, EnrolSteps
    <3>3. QED  BY <3>1, <3>2 DEF Init, ControlTyped
  <2>4. QED  BY <2>1, <2>2, <2>3 DEF TypeOK, IdentityTyped, KeysTyped, RestTyped, ControlTyped
<1>2. None # "active" /\ None # "rotated"  BY NoneIsNoRow DEF KeyStates
<1>3. KeysOfDevices /\ CustodyHasCertificate
  BY <1>2 DEF Init, KeysOfDevices, CustodyHasCertificate
<1>4. RetiredReplaced
  <2>1. Retired = {} /\ Replacements = {}  BY <1>2 DEF Init, Retired, Replacements
  <2>2. QED  BY <2>1, FS_EmptySet DEF RetiredReplaced
<1>5. SessionsIssued
  <2>1. Issued = {}  BY DEF Init, Issued
  <2>2. QED  BY <2>1, FS_EmptySet DEF SessionsIssued
<1>6. \A q \in Procs : Enrolling(q)  BY DEF Init, Enrolling, EnrolSteps
<1>7. QED  BY <1>1, <1>3, <1>4, <1>5, <1>6 DEF IInv

(* Inductive: every step keeps the invariant.                              *)
LEMMA Inductive == IInv /\ [Next]_vars => IInv'
<1> SUFFICES ASSUME IInv, [Next]_vars PROVE IInv'  OBVIOUS
<1>1. TypeOK /\ KeysInv /\ SessionsIssued /\ IsFiniteSet(Issued)  BY DEF IInv, KeysInv, SessionsIssued
<1>2. SUFFICES TypeOK' /\ KeysInv' /\ SessionsIssued'  BY DEF IInv, KeysInv
<1>3. ASSUME UNCHANGED identity PROVE SessionsIssued'
  BY <1>1, <1>3 DEF identity, SessionsIssued, Issued
<1>4. ASSUME NEW q \in Procs, Outside(q), UNCHANGED keys PROVE KeysInv'
  BY <1>1, <1>4, QuietKeys DEF Outside, Others
<1>5. CASE UNCHANGED vars
  <2>1. TypeOK'  BY <1>1, <1>5 DEF vars, identity, keys, TypeOK
  <2>2. KeysInv'  BY <1>1, <1>5, QuietKeys DEF vars
  <2>3. QED  BY <1>3, <1>5, <2>1, <2>2 DEF vars
<1>7. ASSUME NEW q \in Procs, Step(q) PROVE TypeOK' /\ KeysInv' /\ SessionsIssued'
  <2>1. CASE IdentityCalls(q)  BY <1>1, <1>3, <1>4, <2>1, IdentityCallTypes
  <2>2. CASE IdentityWrites(q)  BY <1>1, <1>4, <2>2, IdentityWriteTypes, SessionsKept
  <2>3. CASE Enrolments(q)  BY <1>1, <1>3, <2>3, EnrolmentTypes, EnrolmentKeys
  <2>4. CASE KeyCalls(q)  BY <1>1, <1>3, <2>4, KeyCallTypes, KeyCallKeys
  <2>5. CASE Pushes(q)  BY <1>1, <1>3, <1>4, <2>5, PushTypes
  <2>6. QED
    BY <1>7, <2>1, <2>2, <2>3, <2>4, <2>5
       DEF Step, IdentityCalls, IdentityWrites, Enrolments, KeyCalls, Pushes
<1>8. QED  BY <1>5, <1>7 DEF Next

(* Invariance: the inductive invariant holds in every reachable state.     *)
LEMMA Invariance == Spec => []IInv
BY Initially, Inductive, PTL DEF Spec

-----------------------------------------------------------------------------
(* Theorems.                                                               *)

(* TypeCorrect: the trust tables hold rows of their types whatever the     *)
(* processes do and wherever they die, and each step of a trust service    *)
(* finds the frame that it works with: a certificate is never written      *)
(* without the subject of a session.                                       *)
THEOREM TypeCorrect == Spec => []TypeOK
<1>1. IInv => TypeOK  BY DEF IInv
<1>2. QED  BY <1>1, Invariance, PTL

(* KeysAreCertified: a signing key that store_sync_signing_seed or a       *)
(* rotation made active belongs to a verified device with a certificate.   *)
THEOREM KeysAreCertified == Spec => []CustodyHasCertificate
<1>1. IInv => CustodyHasCertificate  BY DEF IInv
<1>2. QED  BY <1>1, Invariance, PTL

(* RotationsPair: the retired keys and the replacement devices of          *)
(* trust_device_signing_key_rotate_service are as many, although each      *)
(* rotation reads the key's status before its transaction begins.          *)
THEOREM RotationsPair == Spec => []OneReplacementPerRotation
<1>1. IInv => OneReplacementPerRotation
  BY DEF IInv, RetiredReplaced, Retired, Replacements, OneReplacementPerRotation
<1>2. QED  BY <1>1, Invariance, PTL

(* SelectedSessionIsAdmitted: whatever now_ms the callers give, the        *)
(* session that latest_session_subject selects for an enrolment is one     *)
(* that authenticate_identity_session admits, or one that has not begun,   *)
(* which the SQL does not rule out; and an admitted session is never       *)
(* passed over for an older one or for none.                               *)
THEOREM SelectedSessionIsAdmitted == Spec => []SelectionAgreesWithAdmission
<1>1. IInv => SelectionAgreesWithAdmission
  <2> SUFFICES ASSUME IInv, NEW p \in Providers, NEW t \in Times, policies[p] = None
               PROVE  LET s == LatestSession(p, t)
                      IN /\ s # None => s \in Admitted(p, t) \/ t < sessions[s].issued
                         /\ \A o \in Admitted(p, t) : s # None /\ sessions[o].issued <= sessions[s].issued
    BY DEF SelectionAgreesWithAdmission
  <2> DEFINE s == LatestSession(p, t)
  <2>1. TypeOK /\ IsFiniteSet(Issued) /\ t \in Nat
    BY BoundsAssumption DEF IInv, SessionsIssued, Times
  <2>2. ASSUME s # None PROVE s \in Admitted(p, t) \/ t < sessions[s].issued
    <3>1. /\ s \in SessionIds \ revoked /\ sessions[s] # None /\ sessions[s] \in SessionRows
          /\ sessions[s].provider = p /\ sessions[s].expires >= t /\ Enabled(p)
      BY <2>1, <2>2, SessionFound DEF Latest, Live
    <3> HIDE DEF s
    <3>2. sessions[s].expires \in Nat /\ sessions[s].issued \in Nat  BY <3>1 DEF SessionRows
    <3>3. t <= sessions[s].expires  BY <2>1, <3>1, <3>2
    <3>4. CASE sessions[s].issued <= t
      BY <3>1, <3>3, <3>4 DEF Admitted, AuthenticateIdentitySession, SessionPolicyAllows
    <3>5. QED  BY <2>1, <3>2, <3>4
  <2>3. ASSUME NEW o \in Admitted(p, t) PROVE s # None /\ sessions[o].issued <= sessions[s].issued
    <3>1. /\ o \in SessionIds \ revoked /\ sessions[o] # None /\ sessions[o].provider = p
          /\ t <= sessions[o].expires /\ Enabled(p)
      BY <2>3 DEF Admitted, AuthenticateIdentitySession, SessionPolicyAllows
    <3>2. sessions[o].expires \in Nat  BY <2>1, <3>1 DEF TypeOK, SessionRows
    <3>3. sessions[o].expires >= t  BY <2>1, <3>1, <3>2
    <3>4. Live(p, t, o)  BY <3>1, <3>3 DEF Live
    <3>5. QED  BY <2>1, <3>4, SessionChosen DEF Latest
  <2>4. QED  BY <2>2, <2>3
<1>2. QED  BY <1>1, Invariance, PTL

(* HeadParts: the heads that are considered name a certificate and a       *)
(* device.                                                                 *)
LEMMA HeadParts ==
  ASSUME NEW h \in HeadInputs
  PROVE  h \in Heads /\ h.schema \in {2, 3} /\ h.cert \in CertIds /\ h.device \in Devices
         /\ h.alg \in {"undeclared", "ed25519", "unknown"}
<1>1. AnyCert \in CertIds
  <2>1. \E c \in CertIds : \A o \in CertIds : c <= o  BY NatLeast, IdsAssumption
  <2>2. QED  BY <2>1 DEF AnyCert
<1>2. \A x \in SoundHeads : x \in Heads
  <2>1. ASSUME NEW d \in Devices, NEW by \in Devices \cup {"legacy"}, NEW pl \in Payloads,
               NEW alg \in {"undeclared", "ed25519", "unknown"}
        PROVE  HeadOf(d, by, pl, alg) \in Heads
    <3>1. [by |-> by, payload |-> pl] \in Signatures  BY DEF Signatures
    <3>2. QED  BY <1>1, <3>1 DEF Heads, HeadOf
  <2>2. "sync_signature_payload" \in Payloads  BY DEF Payloads
  <2>3. QED  BY <2>1, <2>2 DEF SoundHeads, SignedHeads, DigestHeads
<1>3. h \in Heads
  <2>1. \A x \in Heads : /\ [x EXCEPT !.chain = "other"] \in Heads
                         /\ [x EXCEPT !.complete = FALSE] \in Heads
                         /\ [x EXCEPT !.schema = 2, !.alg = "undeclared"] \in Heads
    BY DEF Heads
  <2>2. DigestHeads \subseteq SoundHeads  BY DEF SoundHeads
  <2>3. \/ h \in SoundHeads
        \/ \E x \in SoundHeads : h = [x EXCEPT !.chain = "other"] \/ h = [x EXCEPT !.complete = FALSE]
        \/ \E x \in DigestHeads : h = [x EXCEPT !.schema = 2, !.alg = "undeclared"]
    BY DEF HeadInputs
  <2>4. QED  BY <1>2, <2>1, <2>2, <2>3
<1>4. QED  BY <1>3 DEF Heads

(* ReportAgreesWithPull: classify_sync_auth_readiness and                  *)
(* ensure_remote_trust_matches agree, whatever the tables hold.            *)
THEOREM ReportAgreesWithPull == Spec => []ReadinessAgreesWithPull
<1>1. ReadinessAgreesWithPull
  <2>1. SUFFICES ASSUME NEW h \in HeadInputs
                 PROVE  /\ StrictCheckTargets({h}) => TrustMatches(h)
                        /\ TrustMatches(h) => Classify(h) \notin {"invalid", "unsupported_declared_algorithm"}
                        /\ h.schema = 3 /\ DependsOnLegacyFallback(h) => ~VerifyHead(h)
    BY DEF ReadinessAgreesWithPull
  <2>2. h.schema \in {2, 3} /\ h.alg \in {"undeclared", "ed25519", "unknown"}  BY HeadParts
  <2>3. StrictCheckTargets({h}) => TrustMatches(h)
    <3>1. h # None  BY HeadParts, NoneIsNoHead
    <3>2. QED  BY <2>2, <3>1 DEF StrictCheckTargets, TrustMatches, Classify, VerifyHead, VerifyAuthorChain
  <2>4. TrustMatches(h) => Classify(h) \notin {"invalid", "unsupported_declared_algorithm"}
    BY <2>2 DEF TrustMatches, Classify
  <2>5. h.schema = 3 /\ DependsOnLegacyFallback(h) => ~VerifyHead(h)
    BY <2>2 DEF Classify, DependsOnLegacyFallback
  <2>6. QED  BY <2>3, <2>4, <2>5
<1>2. QED  BY <1>1, PTL

(* KeptNext: no step at all takes back what a verification rests on.       *)
LEMMA KeptNext ==
  ASSUME IInv, [Next]_vars
  PROVE  Kept
<1>1. TypeOK /\ IsFiniteSet(Issued)  BY DEF IInv, SessionsIssued
<1>2. CASE UNCHANGED keys  BY <1>2 DEF Kept, keys
<1>3. CASE UNCHANGED vars  BY <1>2, <1>3 DEF vars
<1>4. ASSUME NEW q \in Procs, Step(q) PROVE Kept
  BY <1>1, <1>2, <1>4, KeptAll, IdentityCallTypes, IdentityWriteTypes, PushTypes
     DEF Step, IdentityCalls, IdentityWrites, Enrolments, KeyCalls, Pushes
<1>5. QED  BY <1>3, <1>4 DEF Next

(* VerificationStays: no rotation, deletion, revocation or enrolment makes *)
(* verify_sync_head_author_signature_v1 refuse a head it accepted.         *)
THEOREM VerificationStays == Spec => VerificationIsStable
<1>1. IInv /\ [Next]_vars => [\A h \in HeadInputs : h.schema = 3 /\ VerifyHead(h) => VerifyHead(h)']_vars
  <2>1. SUFFICES ASSUME IInv, Next, NEW h \in HeadInputs, h.schema = 3, VerifyHead(h)
                 PROVE  VerifyHead(h)'
    OBVIOUS
  <2>2. h.cert \in CertIds /\ h.device \in Devices  BY HeadParts
  <2>3. Kept  BY <2>1, KeptNext
  <2>4. QED  BY <2>1, <2>2, <2>3 DEF VerifyHead, VerifyAuthorChain, DeviceVerified, Kept
<1>2. QED  BY <1>1, Invariance, PTL DEF Spec, VerificationIsStable

-----------------------------------------------------------------------------
(* The heads that this vault publishes.                                    *)

(* The author of a frame or of a head: a verified device and its verified  *)
(* certificate.                                                            *)
AuthorStands(a) ==
  /\ certs[a.cert] # None /\ certs[a.cert].device = a.device /\ certs[a.cert].verified
  /\ DeviceVerified(a.device)

(* A head is signed over the payload that sync.rs builds, by the custody   *)
(* key, the key in the environment or the legacy digest.                   *)
Published(h) ==
  /\ h.schema = 3 /\ h.complete /\ h.chain = "bound" /\ h.fingerprint = h.device
  /\ h.sig.payload = "sync_signature_payload"
  /\ \/ h.alg = "ed25519" /\ h.sig.by = h.device
     \/ h.alg = "undeclared" /\ h.sig.by \in {"legacy", h.device}

PushInv ==
  /\ \A q \in Procs : pc[q] = "sign" => AuthorStands(ctx[q])
  /\ head # None => Published(head) /\ AuthorStands(head)

(* StillStands: an author once found stands for ever.                      *)
LEMMA StillStands ==
  ASSUME Kept
  PROVE  \A a : a.cert \in CertIds /\ a.device \in Devices /\ AuthorStands(a) => AuthorStands(a)'
BY DEF Kept, AuthorStands, DeviceVerified

(* SigningGoesOn: who signs has just found its author or was about to sign *)
(* with the same frame; and only a signature publishes a head.             *)
LEMMA SigningGoesOn ==
  ASSUME TypeOK, IsFiniteSet(Issued), [Next]_vars
  PROVE  /\ \A q \in Procs :
              pc'[q] = "sign" => PushAuthor(q) \/ (pc[q] = "sign" /\ ctx'[q] = ctx[q])
         /\ UNCHANGED head \/ \E q \in Procs : Sign(q)
<1>1. CASE UNCHANGED vars  BY <1>1 DEF vars
<1>2. ASSUME NEW q \in Procs, Step(q)
      PROVE  Others(q) /\ (pc'[q] = "sign" => PushAuthor(q)) /\ (UNCHANGED head \/ Sign(q))
  <2>1. UNCHANGED head \/ Sign(q)
    BY <1>2 DEF Step, TrustProviderAdd, TrustIdentityStart, UpsertTrust, UpsertLegacy,
       TrustProviderDisable, TrustProviderPolicySet, TenantTemplate, SetTemplate, TrustIdentityComplete,
       LoadProvider, InsertSession, TrustSessionRevoke, InitDevice, AuditInit, VerifyDevice, AuditVerify,
       ReadSession, InsertCert, StoreKey, TrustDeviceVerifyChain, DeleteSigningKey, RotateCheck, Rotate,
       PushAuthor, Crash
  <2>2. ASSUME NEW l, NEW f, Goto(q, l, f) PROVE Others(q) /\ pc'[q] = l
    BY <2>2 DEF Goto, Others, TypeOK
  <2>3. ASSUME Stay(q), pc[q] = "idle" PROVE Others(q) /\ pc'[q] = "idle"
    BY <2>3 DEF Stay, Others
  <2>4. ASSUME Return(q) PROVE Others(q) /\ pc'[q] = "idle"  BY <2>2, <2>4 DEF Return
  <2>5. CASE TrustProviderAdd(q) \/ TrustIdentityStart(q) \/ UpsertTrust(q) \/ UpsertLegacy(q)
    BY <2>2, <2>4, <2>5 DEF TrustProviderAdd, TrustIdentityStart, UpsertTrust, UpsertLegacy
  <2>6. CASE TrustProviderDisable(q) \/ TrustProviderPolicySet(q) \/ TrustSessionRevoke(q)
             \/ TrustDeviceVerifyChain(q) \/ DeleteSigningKey(q)
    BY <2>3, <2>6, BeginIdle DEF TrustProviderDisable, TrustProviderPolicySet, TrustSessionRevoke,
       TrustDeviceVerifyChain, DeleteSigningKey
  <2>7. CASE TenantTemplate(q) \/ SetTemplate(q) \/ TrustIdentityComplete(q) \/ LoadProvider(q) \/ InsertSession(q)
    <3>1. \E l, f : Goto(q, l, f) /\ l # "sign"
      <4>1. CASE TenantTemplate(q)  BY <4>1 DEF TenantTemplate
      <4>2. CASE TrustIdentityComplete(q)  BY <4>2 DEF TrustIdentityComplete
      <4>3. CASE LoadProvider(q)  BY <4>3 DEF LoadProvider, Return
      <4>4. CASE SetTemplate(q) \/ InsertSession(q)
        <5>1. Return(q)  BY <4>4 DEF SetTemplate, InsertSession
        <5>2. QED  BY <5>1 DEF Return
      <4>5. QED  BY <2>7, <4>1, <4>2, <4>3, <4>4
    <3>2. PICK l, f : Goto(q, l, f) /\ l # "sign"  BY <3>1
    <3>3. QED  BY <2>1, <2>2, <3>2
  <2>8. CASE Enrolments(q)
    <3>1. CASE ReadSession(q)
      <4>1. CASE Return(q)  BY <2>1, <2>4, <4>1
      <4>2. CASE \E sub \in Subjects, t \in Times :
                   Goto(q, "insertCert", [ctx[q] EXCEPT !.subject = sub, !.now = t])
        <5>1. PICK sub, t : Goto(q, "insertCert", [ctx[q] EXCEPT !.subject = sub, !.now = t])  BY <4>2
        <5>2. QED  BY <2>1, <2>2, <5>1
      <4>3. QED  BY <3>1, <4>1, <4>2, SubjectRead
    <3>2. CASE ~ReadSession(q)
      BY <2>2, <2>4, <2>8, <3>2 DEF Enrolments, InitDevice, AuditInit, VerifyDevice, AuditVerify,
         InsertCert, StoreKey
    <3>3. QED  BY <3>1, <3>2
  <2>9. CASE RotateCheck(q) \/ Rotate(q) \/ Sign(q) \/ Crash(q)
    <3>1. CASE RotateCheck(q)
      <4>1. PICK f : Goto(q, "rotate", f)  BY <3>1 DEF RotateCheck
      <4>2. QED  BY <2>1, <2>2, <4>1
    <3>2. CASE Rotate(q) \/ Sign(q) \/ Crash(q)
      <4>1. Return(q)  BY <3>2 DEF Rotate, Sign, Crash
      <4>2. QED  BY <2>1, <2>4, <4>1
    <3>3. QED  BY <2>9, <3>1, <3>2
  <2>10. CASE PushAuthor(q)  BY <2>2, <2>10 DEF PushAuthor
  <2>11. QED
    BY <1>2, <2>1, <2>5, <2>6, <2>7, <2>8, <2>9, <2>10 DEF Step, Enrolments
<1>3. CASE \E q \in Procs : Step(q)
  <2>1. PICK q \in Procs : Step(q)  BY <1>3
  <2>2. QED  BY <1>2, <2>1 DEF Others
<1>4. QED  BY <1>1, <1>3 DEF Next

(* PushInductive: every step keeps it so.                                  *)
LEMMA PushInductive ==
  ASSUME IInv, PushInv, [Next]_vars
  PROVE  PushInv'
<1>1. TypeOK /\ IsFiniteSet(Issued) /\ Kept  BY KeptNext DEF IInv, SessionsIssued
<1>2. \A q \in Procs : pc[q] = "sign" => ctx[q].cert \in CertIds /\ ctx[q].device \in Devices
  BY <1>1 DEF TypeOK, FrameFits, PushFrames
<1>3. ASSUME NEW q \in Procs, pc'[q] = "sign" PROVE AuthorStands(ctx[q])'
  <2>1. CASE PushAuthor(q)
    <3>1. PICK c : c = VerifiedAuthorIdentity  OBVIOUS
    <3>2. /\ c # None /\ UNCHANGED keys
          /\ ctx' = [ctx EXCEPT ![q] = [cert |-> c, device |-> certs[c].device]]
      BY <2>1, <3>1 DEF PushAuthor, Goto
    <3>3. certs[c] # None /\ certs[c].verified /\ DeviceVerified(certs[c].device)
      BY <1>1, <3>1, <3>2, AuthorFound
    <3>4. ctx'[q].cert = c /\ ctx'[q].device = certs[c].device  BY <1>1, <3>2 DEF TypeOK
    <3>5. QED  BY <3>2, <3>3, <3>4 DEF AuthorStands, DeviceVerified, keys
  <2>2. CASE pc[q] = "sign" /\ ctx'[q] = ctx[q]
    <3>1. AuthorStands(ctx[q])  BY <2>2 DEF PushInv
    <3>2. PICK a : a = ctx[q]  OBVIOUS
    <3>3. AuthorStands(a)'  BY <1>1, <1>2, <2>2, <3>1, <3>2, StillStands
    <3>4. QED  BY <2>2, <3>2, <3>3
  <2>3. QED  BY <1>1, <1>3, <2>1, <2>2, SigningGoesOn
<1>4. ASSUME head' # None PROVE Published(head') /\ AuthorStands(head)'
  <2>1. CASE UNCHANGED head
    <3>1. Published(head) /\ AuthorStands(head)  BY <1>4, <2>1 DEF PushInv
    <3>2. head.cert \in CertIds /\ head.device \in Devices  BY <1>1, <1>4, <2>1 DEF TypeOK, Heads
    <3>3. PICK h : h = head  OBVIOUS
    <3>4. AuthorStands(h)'  BY <1>1, <3>1, <3>2, <3>3, StillStands
    <3>5. QED  BY <2>1, <3>1, <3>3, <3>4
  <2>2. ASSUME NEW q \in Procs, Sign(q), head' # head PROVE Published(head') /\ AuthorStands(head)'
    <3>1. pc[q] = "sign" /\ UNCHANGED keys  BY <2>2 DEF Sign, At
    <3>2. PICK f : f = ctx[q]  OBVIOUS
    <3>3. PICK by, alg : /\ head' = HeadBy(f, by, alg)
                         /\ \/ alg = "ed25519" /\ by = f.device
                            \/ alg = "undeclared" /\ by \in {"legacy", f.device}
      BY <2>2, <3>2 DEF Sign, SignSyncPayload
    <3>4. Published(head')  BY <3>3 DEF Published, HeadBy
    <3>5. AuthorStands(f)  BY <3>1, <3>2 DEF PushInv
    <3>6. head'.cert = f.cert /\ head'.device = f.device  BY <3>3 DEF HeadBy
    <3>7. AuthorStands(head)'  BY <3>1, <3>5, <3>6 DEF AuthorStands, DeviceVerified, keys
    <3>8. QED  BY <3>4, <3>7
  <2>3. QED  BY <1>1, <2>1, <2>2, SigningGoesOn
<1>5. QED  BY <1>3, <1>4 DEF PushInv, Published

(* PushInvariance: so it is in every reachable state.                      *)
LEMMA PushInvariance == Spec => []PushInv
<1>1. Init => PushInv  BY DEF Init, PushInv
<1>2. IInv /\ PushInv /\ [Next]_vars => PushInv'  BY PushInductive
<1>3. QED  BY <1>1, <1>2, Invariance, PTL DEF Spec

(* PublishedAuthorStands: a push reads its author when it starts and signs *)
(* when it ends.  Whatever rotations, deletions and revocations come in    *)
(* between or later, the head it publishes names a device that is verified *)
(* and a certificate that verify_author_chain accepts, for ever.           *)
THEOREM PublishedAuthorStands ==
  Spec => [](head # None => VerifyAuthorChain(head) /\ DeviceVerified(head.device))
<1>1. PushInv => (head # None => VerifyAuthorChain(head) /\ DeviceVerified(head.device))
  BY DEF PushInv, Published, AuthorStands, VerifyAuthorChain
<1>2. QED  BY <1>1, PushInvariance, PTL

(* OnlyDigestsAreAccepted: the payload that sign_sync_payload signs is not *)
(* the one that verify_sync_head_author_signature_v1 checks, and nothing   *)
(* else is wrong with a head: ensure_remote_trust_matches refuses all that *)
(* this vault published with an Ed25519 key and accepts all that carry the *)
(* legacy digest.                                                          *)
THEOREM OnlyDigestsAreAccepted ==
  Spec => [](head # None => (TrustMatches(head) <=> head.alg = "undeclared" /\ head.sig.by = "legacy"))
<1>1. PushInv => (head # None => (TrustMatches(head) <=> head.alg = "undeclared" /\ head.sig.by = "legacy"))
  <2>1. SUFFICES ASSUME PushInv, head # None
                 PROVE  TrustMatches(head) <=> head.alg = "undeclared" /\ head.sig.by = "legacy"
    OBVIOUS
  <2>2. Published(head)  BY <2>1 DEF PushInv
  <2>3. ~VerifyHead(head)
    <3>1. head.sig.payload # "canonical_sync_author_payload_v1"  BY <2>2 DEF Published
    <3>2. QED  BY <2>2, <3>1 DEF Published, VerifyHead
  <2>4. QED  BY <2>2, <2>3 DEF Published, TrustMatches, LegacyMatch
<1>2. QED  BY <1>1, PushInvariance, PTL
=============================================================================
