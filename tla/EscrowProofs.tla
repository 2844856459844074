---------------------------- MODULE EscrowProofs ----------------------------
(***************************************************************************)
(* Theorems about Escrow, for every number of processes and providers and  *)
(* every bound: unless two calls were writing one bundle at once, a        *)
(* manifest never names an escrow that is not there, and a phrase that a   *)
(* rotation returned stays good until its bundle is written over.          *)
(***************************************************************************)
EXTENDS Escrow, FiniteSetTheorems, WellFoundedInduction, TLAPS

-----------------------------------------------------------------------------
(* Orders and counts.                                                      *)

(* NatLeast: a set of numbers that is not empty has a least element.       *)
LEMMA NatLeast ==
  ASSUME NEW S \in SUBSET Nat, S # {}
  PROVE  \E x \in S : \A y \in S : x <= y
<1>1. \E x \in S : \A y \in S : ~ (<<y, x>> \in OpToRel(<, Nat))
  BY NatLessThanWellFounded, WFMin
<1>2. \A x, y \in Nat : ~ (<<y, x>> \in OpToRel(<, Nat)) => x <= y  BY DEF OpToRel
<1>3. QED  BY <1>1, <1>2

(* MinLeast: Min is that element.                                          *)
LEMMA MinLeast ==
  ASSUME NEW S \in SUBSET Nat, S # {}
  PROVE  Min(S) \in S /\ \A y \in S : Min(S) <= y
BY NatLeast DEF Min

(* CurrentConfigured: read_recovery_escrow_config finds a row if there is  *)
(* one: the one with the fewest rows after it has none after it.           *)
LEMMA CurrentConfigured ==
  ASSUME v2 \in [Providers -> Times \cup {None}], Configured # {}
  PROVE  Current \in Configured
<1> DEFINE After(p) == {r \in Configured : v2[r] > v2[p] \/ (v2[r] = v2[p] /\ IdOrder[r] > IdOrder[p])}
           Counts == {Cardinality(After(p)) : p \in Configured}
<1>1. Configured \subseteq Providers /\ IsFiniteSet(Configured) /\ Configured \subseteq Nat
  BY ProvidersAssumption, FS_Subset DEF Configured
<1>2. \A p \in Configured : v2[p] \in Nat /\ IdOrder[p] \in Nat
  <2>1. Cardinality(Providers) \in Nat  BY ProvidersAssumption, FS_CardinalityType
  <2>2. QED  BY <1>1, <2>1, BoundsAssumption, IdOrderAssumption DEF Configured, Times
<1>3. \A p \in Configured : IsFiniteSet(After(p)) /\ Cardinality(After(p)) \in Nat
  BY <1>1, FS_Subset, FS_CardinalityType
<1>4. PICK p \in Configured : \A r \in Configured : Cardinality(After(p)) <= Cardinality(After(r))
  <2>1. Counts \in SUBSET Nat /\ Counts # {}  BY <1>3
  <2>2. PICK n \in Counts : \A k \in Counts : n <= k  BY <2>1, NatLeast
  <2>3. PICK p \in Configured : n = Cardinality(After(p))  OBVIOUS
  <2>4. \A r \in Configured : Cardinality(After(r)) \in Counts  OBVIOUS
  <2>5. QED  BY <2>2, <2>3, <2>4
<1>5. ASSUME NEW r \in After(p) PROVE FALSE
  <2>1. r \in Configured  OBVIOUS
  <2>2. After(r) \in SUBSET After(p)
    <3>1. ASSUME NEW x \in After(r) PROVE x \in After(p)
      <4>1. IdOrder[x] \in Nat /\ IdOrder[r] \in Nat /\ IdOrder[p] \in Nat /\ v2[x] \in Nat /\ v2[r] \in Nat /\ v2[p] \in Nat
        BY <1>1, <1>2, <2>1
      <4>2. QED  BY <4>1
    <3>2. QED  BY <3>1
  <2>3. r \notin After(r)  BY <1>1, <1>2, <2>1
  <2>4. Cardinality(After(r)) = Cardinality(After(p))
    BY <1>3, <1>4, <2>1, <2>2, FS_Subset
  <2>5. After(r) = After(p)  BY <1>3, <2>2, <2>4, FS_Subset
  <2>6. QED  BY <2>3, <2>5
<1>6. \A r \in Configured : v2[r] < v2[p] \/ (v2[r] = v2[p] /\ IdOrder[r] <= IdOrder[p])
  BY <1>1, <1>2, <1>5
<1>7. QED  BY <1>6 DEF Current

-----------------------------------------------------------------------------
(* The inductive invariant.                                                *)

Rotations == {"rotate", "rotateAll"}
Later == {"stateFile", "upsertV2", "upsertV3", "event"}

(* rotate_all has a time for every provider that it has still to go to.    *)
TimeFits(q) ==
  ctx[q] # None => ctx[q].time + Cardinality(ctx[q].todo) <= MaxTime + Cardinality(Providers)
Timely == \A q \in Procs : TimeFits(q)

(* Unless its bundle is shared, a call that is writing one is alone with   *)
(* it, and the blob is the one that was drawn, or lost.                    *)
OwnBundle(q) ==
  /\ ctx[q] # None /\ ctx[q].bundle # None => ctx[q].bundle \in DOMAIN bundles
  /\ pc[q] \in Writing => ctx[q].phrase <= drawn
  /\ pc[q] \in Writing /\ ctx[q].phrase \notin mixed =>
       /\ bundles[ctx[q].bundle].blob \in {ctx[q].phrase, None}
       /\ Writers(ctx[q].bundle) \cup Restorers(ctx[q].bundle) \subseteq {q}

(* The manifest at b is that of ph, with a descriptor, and nobody is about *)
(* to write another.                                                       *)
Settled(b, ph) ==
  /\ bundles[b].manifest # None /\ bundles[b].manifest.escrow # None
  /\ bundles[b].manifest.phrase = ph /\ Writers(b) = {}

(* What is so of a phrase and a path once the descriptor is written.       *)
Answered(x) ==
  /\ x[1] <= drawn /\ x[2] \in DOMAIN bundles
  /\ latest[x[2]] = x[1] /\ x[1] \notin mixed => Settled(x[2], x[1])

(* What a rotation has achieved at its later steps.                        *)
Achieved(q) ==
  LET c == ctx[q]
  IN /\ pc[q] = "descriptor" /\ c.phrase \notin mixed => c.phrase \in held[Min(c.todo)]
     /\ pc[q] \in Later /\ c.op \in Rotations => Answered(<<c.phrase, c.bundle>>)
     /\ c # None => \A x \in c.phrases : Answered(x)

IInv ==
  /\ TypeOK /\ Timely /\ DescriptorHasBlob
  /\ \A x \in told : Answered(x)
  /\ \A q \in Procs : OwnBundle(q) /\ Achieved(q)

-----------------------------------------------------------------------------
(* Types.                                                                  *)

(* DirParts: a directory names no provider, or one.                        *)
LEMMA DirParts ==
  /\ \A d \in Dirs : d[2] = None \/ d[2] \in Providers
  /\ None \notin Providers /\ <<"output", None>> \in Dirs /\ <<"escrow", None>> \in Dirs
  /\ \A p \in Providers : <<"escrow", p>> \in Dirs
BY ProvidersAssumption, NoneAssumption DEF Dirs

(* FrameAt: what a process that is not idle has for a frame.               *)
LEMMA FrameAt ==
  ASSUME TypeOK, NEW q \in Procs, pc[q] # "idle"
  PROVE  /\ ctx[q] \in Frames /\ ctx[q] # None /\ FrameFits(pc[q], ctx[q])
         /\ ctx[q].todo \subseteq Providers /\ ctx[q].time \in Times
         /\ ctx[q].bundle \in BundlePaths \cup {None} /\ ctx[q].phrase \in Phrases \cup {None}
         /\ ctx[q].phrases \subseteq Phrases \X BundlePaths
<1>1. ctx[q] \in Frames \cup {None} /\ FrameFits(pc[q], ctx[q])  BY DEF TypeOK
<1>2. ctx[q] # None  BY <1>1 DEF FrameFits
<1>3. ctx[q] \in Frames  BY <1>1, <1>2
<1>4. QED  BY <1>1, <1>2, <1>3 DEF Frames

(* ProviderAt: the provider at hand.                                       *)
LEMMA ProviderAt ==
  ASSUME TypeOK, NEW q \in Procs, pc[q] # "idle", ctx[q].op # "generate"
  PROVE  Min(ctx[q].todo) \in ctx[q].todo /\ Min(ctx[q].todo) \in Providers
<1>1. ctx[q].todo # {} /\ ctx[q].todo \subseteq Providers  BY FrameAt DEF FrameFits
<1>2. ctx[q].todo \in SUBSET Nat  BY <1>1, ProvidersAssumption
<1>3. QED  BY <1>1, <1>2, MinLeast

ControlTyped ==
  /\ pc \in [Procs -> Pcs] /\ ctx \in [Procs -> Frames \cup {None}]
  /\ \A q \in Procs : FrameFits(pc[q], ctx[q])

(* Others: the processes other than q are where they were.                 *)
Others(q) == \A r \in Procs : r # q => pc'[r] = pc[r] /\ ctx'[r] = ctx[r]

(* ControlStep: one process moves to a step with a frame that fits it.     *)
LEMMA ControlStep ==
  ASSUME TypeOK, NEW q \in Procs, NEW l \in Pcs, NEW c \in Frames \cup {None}, FrameFits(l, c),
         pc' = [pc EXCEPT ![q] = l], ctx' = [ctx EXCEPT ![q] = c]
  PROVE  ControlTyped' /\ pc'[q] = l /\ ctx'[q] = c /\ Others(q)
<1>1. pc' \in [Procs -> Pcs] /\ ctx' \in [Procs -> Frames \cup {None}]
  BY DEF TypeOK
<1>2. pc'[q] = l /\ ctx'[q] = c /\ Others(q)  BY DEF TypeOK, Others
<1>3. ASSUME NEW r \in Procs PROVE FrameFits(pc'[r], ctx'[r])
  <2>1. CASE r = q  BY <1>2, <2>1
  <2>2. CASE r # q  BY <1>2, <2>2 DEF TypeOK, Others
  <2>3. QED  BY <2>1, <2>2
<1>4. QED  BY <1>1, <1>2, <1>3 DEF ControlTyped

(* ReturnControl: a call that ends.                                        *)
LEMMA ReturnControl ==
  ASSUME TypeOK, NEW q \in Procs,
         pc' = [pc EXCEPT ![q] = "idle"], ctx' = [ctx EXCEPT ![q] = None]
  PROVE  ControlTyped' /\ pc'[q] = "idle" /\ ctx'[q] = None /\ Others(q)
<1>1. FrameFits("idle", None) /\ "idle" \in Pcs  BY DEF FrameFits, Pcs
<1>2. QED  BY <1>1, ControlStep

(* GotoControl: a call that goes on with the frame it has.                 *)
LEMMA GotoControl ==
  ASSUME TypeOK, NEW q \in Procs, NEW l \in Pcs, Goto(q, l), FrameFits(l, ctx[q])
  PROVE  ControlTyped' /\ pc'[q] = l /\ ctx'[q] = ctx[q] /\ Others(q)
<1>1. ctx[q] \in Frames \cup {None}  BY DEF TypeOK
<1>2. QED  BY <1>1, ControlStep DEF Goto, GotoWith

BundlesTyped == DOMAIN bundles \subseteq BundlePaths /\ bundles \in [DOMAIN bundles -> Bundles]
SharingTyped == latest \in [DOMAIN bundles -> Phrases] /\ mixed \subseteq Phrases

(* WithTyped: a bundle written at a path.                                  *)
LEMMA WithTyped ==
  ASSUME TypeOK, NEW b \in BundlePaths, NEW x \in Bundles, bundles' = With(b, x)
  PROVE  BundlesTyped'
<1>1. bundles \in [DOMAIN bundles -> Bundles] /\ DOMAIN bundles \subseteq BundlePaths
  BY DEF TypeOK
<1>2. \A a \in DOMAIN bundles : bundles[a] \in Bundles  BY <1>1
<1>3. DOMAIN bundles' = DOMAIN bundles \cup {b}  BY DEF With
<1>4. bundles' \in [DOMAIN bundles \cup {b} -> Bundles]  BY <1>2 DEF With
<1>5. QED  BY <1>1, <1>3, <1>4 DEF BundlesTyped

(* BundleTyped: what is at a path.                                         *)
LEMMA BundleTyped ==
  ASSUME TypeOK, NEW b
  PROVE  /\ Bundle(b) \in Bundles
         /\ \A x \in Phrases \cup {Torn, None} : [blob |-> x, manifest |-> Bundle(b).manifest] \in Bundles
         /\ \A m \in Manifests \cup {None} : [blob |-> Bundle(b).blob, manifest |-> m] \in Bundles
<1>1. Bundle(b) \in Bundles  BY DEF TypeOK, Bundle, NoBundle, Bundles
<1>2. QED  BY <1>1 DEF Bundles

(* BlobTyped: the blob of a bundle is written.                             *)
LEMMA BlobTyped ==
  ASSUME TypeOK, NEW b \in BundlePaths, NEW x \in Phrases \cup {Torn, None}, bundles' = WithBlob(b, x)
  PROVE  BundlesTyped'
BY BundleTyped, WithTyped DEF WithBlob

(* ManifestTyped: its manifest is written.                                 *)
LEMMA ManifestTyped ==
  ASSUME TypeOK, NEW b \in BundlePaths, NEW m \in Manifests \cup {None}, bundles' = WithManifest(b, m)
  PROVE  BundlesTyped'
BY BundleTyped, WithTyped DEF WithManifest

TablesTyped ==
  /\ held \in [Providers -> SUBSET Phrases] /\ up \in [Providers -> BOOLEAN]
  /\ v2 \in [Providers -> Times \cup {None}] /\ v3 \subseteq Providers

CountsTyped == calls \in 0..MaxCalls /\ drawn \in 0..MaxPhrases
RestTyped == last \in BundlePaths \cup {None} /\ told \subseteq Phrases \X BundlePaths

(* TypePartsNext: TypeOK by its parts.                                     *)
LEMMA TypePartsNext ==
  ASSUME CountsTyped', BundlesTyped', SharingTyped', TablesTyped', RestTyped', ControlTyped'
  PROVE  TypeOK'
BY DEF TypeOK, CountsTyped, BundlesTyped, SharingTyped, TablesTyped, RestTyped, ControlTyped

(* DomainKept: a bundle that is there is written to.                       *)
LEMMA DomainKept ==
  ASSUME NEW b \in DOMAIN bundles, NEW x, bundles' = WithBlob(b, x) \/ bundles' = WithManifest(b, x)
  PROVE  DOMAIN bundles' = DOMAIN bundles
BY DEF WithBlob, WithManifest, With

(* WritersTyped: the phrases of the calls that are writing a bundle.       *)
LEMMA WritersTyped ==
  ASSUME TypeOK, NEW b
  PROVE  PhrasesOf(Writers(b)) \subseteq Phrases
<1>1. ASSUME NEW q \in Writers(b) PROVE ctx[q].phrase \in Phrases
  <2>1. q \in Procs /\ pc[q] \in Writing  BY DEF Writers
  <2>2. QED  BY <2>1, FrameAt DEF FrameFits, Writing
<1>2. QED  BY <1>1 DEF PhrasesOf

(* NewFrame: the frame a call begins with.                                 *)
LEMMA NewFrame ==
  ASSUME NEW t \in 1..MaxTime,
         NEW op \in {"enable", "providerAdd", "generate", "rotate", "rotateAll", "restore"},
         NEW S \in SUBSET Providers
  PROVE  t \in Times /\ Frame(op, S, t) \in Frames /\ Frame(op, S, t) # None
<1>1. Cardinality(Providers) \in Nat  BY ProvidersAssumption, FS_CardinalityType
<1>2. t \in Times  BY <1>1, BoundsAssumption DEF Times
<1>3. Frame(op, S, t) \in Frames  BY <1>2 DEF Frame, Frames
<1>4. QED  BY <1>2, <1>3, NoneIsNoRow

CallsAt(q, t) ==
  \/ \E p \in Providers : Enable(q, p, t) \/ ProviderAdd(q, p, t)
  \/ Generate(q, t) \/ Rotate(q, t) \/ RotateAll(q, t) \/ \E b \in DOMAIN bundles : Restore(q, b, t)
Calls(q) == \E t \in 1..MaxTime : CallsAt(q, t)

(* CallTypes: the beginning of every call.                                 *)
LEMMA CallTypes ==
  ASSUME TypeOK, NEW q \in Procs, NEW t \in 1..MaxTime, CallsAt(q, t)
  PROVE  TypeOK' /\ Others(q)
<1> USE DEF Pcs
<1>0. CountsTyped' /\ BundlesTyped' /\ RestTyped' /\ SharingTyped'
  <2>1. /\ calls < MaxCalls /\ calls' = calls + 1 /\ UNCHANGED <<drawn, bundles, last, told, latest>>
        /\ mixed' = mixed \/ \E b \in DOMAIN bundles : mixed' = mixed \cup PhrasesOf(Writers(b))
    BY DEF CallsAt, Enable, ProviderAdd, Generate, Rotate, RotateAll, Restore, Call, files, sharing
  <2>2. mixed' \subseteq Phrases  BY <2>1, WritersTyped DEF TypeOK
  <2>3. QED
    BY <2>1, <2>2, BoundsAssumption DEF TypeOK, CountsTyped, BundlesTyped, RestTyped, SharingTyped
<1>1. ASSUME NEW p \in Providers, Enable(q, p, t) PROVE ControlTyped' /\ TablesTyped' /\ Others(q)
  <2>1. Frame("enable", {p}, t) \in Frames /\ Frame("enable", {p}, t) # None
        /\ t \in Times
    BY NewFrame
  <2>2. FrameFits("event", Frame("enable", {p}, t))  BY <2>1 DEF FrameFits, Frame
  <2>3. TablesTyped'  BY <1>1, <2>1 DEF Enable, Call, TypeOK, TablesTyped
  <2>4. QED  BY <1>1, <2>1, <2>2, <2>3, ControlStep DEF Enable, Call
<1>2. ASSUME NEW p \in Providers, ProviderAdd(q, p, t) PROVE ControlTyped' /\ TablesTyped' /\ Others(q)
  <2>1. Frame("providerAdd", {p}, t) \in Frames /\ Frame("providerAdd", {p}, t) # None
    BY NewFrame
  <2>2. FrameFits("upsertV2", Frame("providerAdd", {p}, t))  BY <2>1 DEF FrameFits, Frame
  <2>3. TablesTyped'  BY <1>2 DEF ProviderAdd, Call, TypeOK, TablesTyped
  <2>4. QED  BY <1>2, <2>1, <2>2, <2>3, ControlStep DEF ProviderAdd, Call
<1>3. ASSUME Generate(q, t) PROVE ControlTyped' /\ TablesTyped' /\ Others(q)
  <2>1. Frame("generate", {}, t) \in Frames /\ Frame("generate", {}, t) # None
    BY NewFrame
  <2>2. FrameFits("draw", Frame("generate", {}, t))  BY <2>1 DEF FrameFits, Frame
  <2>3. TablesTyped'  BY <1>3 DEF Generate, Call, TypeOK, TablesTyped, config
  <2>4. QED  BY <1>3, <2>1, <2>2, <2>3, ControlStep DEF Generate, Call
<1>4. ASSUME Rotate(q, t) PROVE ControlTyped' /\ TablesTyped' /\ Others(q)
  <2>0. Current \in Providers  BY <1>4, CurrentConfigured DEF Rotate, TypeOK, Configured
  <2>1. Frame("rotate", {Current}, t) \in Frames /\ Frame("rotate", {Current}, t) # None
    BY <2>0, NewFrame
  <2>2. FrameFits("draw", Frame("rotate", {Current}, t))  BY <2>1 DEF FrameFits, Frame
  <2>3. TablesTyped'  BY <1>4 DEF Rotate, Call, TypeOK, TablesTyped, config
  <2>4. QED  BY <1>4, <2>1, <2>2, <2>3, ControlStep DEF Rotate, Call
<1>5. ASSUME RotateAll(q, t) PROVE ControlTyped' /\ TablesTyped' /\ Others(q)
  <2>0. v3 \in SUBSET Providers /\ v3 # {}  BY <1>5 DEF RotateAll, TypeOK
  <2>1. Frame("rotateAll", v3, t) \in Frames /\ Frame("rotateAll", v3, t) # None
    BY <2>0, NewFrame
  <2>2. FrameFits("draw", Frame("rotateAll", v3, t))  BY <2>0, <2>1 DEF FrameFits, Frame
  <2>3. TablesTyped'  BY <1>5 DEF RotateAll, Call, TypeOK, TablesTyped, config
  <2>4. QED  BY <1>5, <2>1, <2>2, <2>3, ControlStep DEF RotateAll, Call
<1>6. ASSUME NEW b \in DOMAIN bundles, Restore(q, b, t) PROVE ControlTyped' /\ TablesTyped' /\ Others(q)
  <2> DEFINE m == Bundle(b).manifest
             f == Frame("restore", {Current}, t)
             c == [f EXCEPT !.bundle = b, !.phrase = m.phrase]
  <2>0. Current \in Providers  BY <1>6, CurrentConfigured DEF Restore, TypeOK, Configured
  <2>1. f \in Frames  BY <2>0, NewFrame
  <2>2. m # None /\ m \in Manifests \cup {None} /\ b \in BundlePaths
    BY <1>6, BundleTyped DEF Restore, Escrowed, Bundles, TypeOK
  <2>3. m.phrase \in Phrases  BY <2>2 DEF Manifests
  <2>4. b # None /\ m.phrase # None  BY <2>2, <2>3, NoneIsNoRow, NoneAssumption DEF Phrases
  <2>5. c \in Frames /\ c.op = "restore" /\ c.todo # {} /\ c.bundle = b /\ c.phrase = m.phrase
    BY <2>1, <2>2, <2>3 DEF Frames, Frame
  <2>6. FrameFits("restore", c)  BY <2>4, <2>5, NoneIsNoRow DEF FrameFits
  <2>7. TablesTyped'  BY <1>6 DEF Restore, Call, TypeOK, TablesTyped, config
  <2>8. QED  BY <1>6, <2>5, <2>6, <2>7, ControlStep DEF Restore, Call
<1>7. ControlTyped' /\ TablesTyped' /\ Others(q)
  BY <1>1, <1>2, <1>3, <1>4, <1>5, <1>6 DEF CallsAt
<1>8. QED  BY <1>0, <1>7, TypePartsNext

(* DirTyped: the directory of a call that draws.                           *)
LEMMA DirTyped ==
  ASSUME TypeOK, NEW q \in Procs, pc[q] # "idle"
  PROVE  /\ Dir(ctx[q]) \in Dirs /\ <<Dir(ctx[q]), ctx[q].time>> \in BundlePaths
         /\ ctx[q].op = "rotateAll" => Dir(ctx[q]) = <<"escrow", Min(ctx[q].todo)>>
<1>1. ctx[q].time \in Times  BY FrameAt
<1>2. CASE ctx[q].op = "generate"
  <2>1. Dir(ctx[q]) = <<"output", None>>  BY <1>2 DEF Dir
  <2>2. QED  BY <1>1, <1>2, <2>1, DirParts DEF BundlePaths
<1>3. CASE ctx[q].op = "rotate"
  <2>1. Dir(ctx[q]) = <<"escrow", None>>  BY <1>3 DEF Dir
  <2>2. QED  BY <1>1, <1>3, <2>1, DirParts DEF BundlePaths
<1>4. CASE ctx[q].op \notin {"generate", "rotate"}
  <2>1. Dir(ctx[q]) = <<"escrow", Min(ctx[q].todo)>>  BY <1>4 DEF Dir
  <2>2. QED  BY <1>1, <1>4, <2>1, DirParts, ProviderAt DEF BundlePaths
<1>5. QED  BY <1>2, <1>3, <1>4

(* RestCount: one provider less to go to.                                  *)
LEMMA RestCount ==
  ASSUME NEW S \in SUBSET Providers, S # {}
  PROVE  /\ Cardinality(S) \in Nat /\ Cardinality(S) >= 1
         /\ Cardinality(S \ {Min(S)}) = Cardinality(S) - 1
<1>1. IsFiniteSet(S) /\ S \in SUBSET Nat  BY ProvidersAssumption, FS_Subset
<1>2. Min(S) \in S  BY <1>1, MinLeast
<1>3. Cardinality(S) \in Nat /\ Cardinality(S) # 0  BY <1>1, FS_CardinalityType, FS_EmptySet
<1>4. QED  BY <1>1, <1>2, <1>3, FS_RemoveElement

(* TimeIsNat: times are numbers.                                           *)
LEMMA TimeIsNat == Times \subseteq Nat /\ Cardinality(Providers) \in Nat
<1>1. Cardinality(Providers) \in Nat  BY ProvidersAssumption, FS_CardinalityType
<1>2. QED  BY <1>1, BoundsAssumption DEF Times

(* NextProviderTypes: the next provider, or the end of the call.           *)
LEMMA NextProviderTypes ==
  ASSUME TypeOK, Timely, NEW q \in Procs, pc[q] = "stateFile", ctx[q].op = "rotateAll",
         NEW c, c = [ctx[q] EXCEPT !.phrases = @ \cup {<<ctx[q].phrase, ctx[q].bundle>>}], NextProvider(q, c)
  PROVE  ControlTyped' /\ Others(q) /\ told' \subseteq Phrases \X BundlePaths
<1> DEFINE d == [c EXCEPT !.todo = c.todo \ {Min(c.todo)}, !.time = @ + 1]
<1>1. /\ ctx[q] \in Frames /\ ctx[q] # None /\ ctx[q].todo \in SUBSET Providers
      /\ ctx[q].phrase \in Phrases /\ ctx[q].todo # {} /\ ctx[q].bundle # None
      /\ ctx[q].bundle \in BundlePaths
  BY FrameAt DEF FrameFits
<1>2. /\ c \in Frames /\ c.todo = ctx[q].todo /\ c.time = ctx[q].time /\ c.op = "rotateAll"
      /\ c.phrases \subseteq Phrases \X BundlePaths /\ c.bundle # None /\ c.phrase = ctx[q].phrase
  BY <1>1 DEF Frames
<1>3. CASE d.todo = {}
  <2>1. Return(q) /\ told' = told \cup c.phrases  BY <1>2, <1>3 DEF NextProvider
  <2>2. QED  BY <1>2, <2>1, ReturnControl DEF Return, GotoWith, TypeOK
<1>4. CASE d.todo # {}
  <2>1. /\ d.op = "rotateAll" /\ d.todo = ctx[q].todo \ {Min(ctx[q].todo)}
        /\ d.time = ctx[q].time + 1 /\ d.bundle = c.bundle /\ d.phrase = c.phrase
        /\ d.phrases = c.phrases
    BY <1>2 DEF Frames
  <2>2. c.time + 1 \in Times
    <3>1. ctx[q].time + Cardinality(ctx[q].todo) <= MaxTime + Cardinality(Providers)
      BY <1>1 DEF Timely, TimeFits
    <3>2. ctx[q].time \in Nat /\ ctx[q].time >= 1 /\ Cardinality(Providers) \in Nat
      BY <1>1, TimeIsNat, BoundsAssumption DEF Frames, Times
    <3>3. Cardinality(ctx[q].todo) \in Nat /\ Cardinality(ctx[q].todo) >= 1  BY <1>1, RestCount
    <3>4. QED  BY <1>2, <3>1, <3>2, <3>3, BoundsAssumption DEF Times
  <2>4. d \in Frames  BY <1>2, <2>2 DEF Frames
  <2>5. FrameFits("draw", d)  BY <1>2, <1>4, <2>1, <2>4, NoneIsNoRow DEF FrameFits
  <2>6. GotoWith(q, "draw", d) /\ told' = told  BY <1>2, <1>4 DEF NextProvider
  <2>7. "draw" \in Pcs  BY DEF Pcs
  <2> HIDE DEF d
  <2>8. QED  BY <2>4, <2>5, <2>6, <2>7, ControlStep DEF GotoWith, TypeOK
<1>5. QED  BY <1>3, <1>4

WriteSteps(q) == DrawPhrase(q) \/ WriteFirstManifest(q) \/ ProviderWrite(q) \/ WriteDescriptor(q)
LaterSteps(q) ==
  \/ WriteStateFile(q) \/ UpsertV2(q) \/ UpsertV3(q) \/ AppendEvent(q) \/ RestoreWrite(q) \/ Abort(q)

(* WriteTypes: the steps that write a bundle and escrow it.                *)
LEMMA WriteTypes ==
  ASSUME TypeOK, NEW q \in Procs, WriteSteps(q),
         ctx[q] # None /\ ctx[q].bundle # None => ctx[q].bundle \in DOMAIN bundles
  PROVE  TypeOK' /\ Others(q)
<1> USE DEF Pcs
<1> DEFINE c == ctx[q]
<1>0. pc[q] \in {"draw"} \cup Writing
  BY DEF WriteSteps, DrawPhrase, WriteFirstManifest, ProviderWrite, WriteDescriptor, Writing
<1>1. c \in Frames /\ c # None /\ FrameFits(pc[q], c)  BY <1>0, FrameAt DEF Writing
<1>2. ASSUME pc[q] # "draw"
      PROVE  c.bundle \in BundlePaths /\ c.phrase \in Phrases
  BY <1>0, <1>1, <1>2, FrameAt DEF FrameFits, Writing
<1>3. ASSUME c.op # "generate" PROVE Min(c.todo) \in Providers
  BY <1>0, <1>3, ProviderAt DEF Writing
<1>4. RestTyped'
  BY DEF WriteSteps, DrawPhrase, WriteFirstManifest, ProviderWrite, WriteDescriptor, RestTyped,
         TypeOK, files
<1>5. UNCHANGED <<calls, up, v2, v3>>
  BY DEF WriteSteps, DrawPhrase, WriteFirstManifest, ProviderWrite, WriteDescriptor, config,
         Goto, GotoWith, Return
<1>6. CASE DrawPhrase(q)
  <2>1. pc[q] = "draw" /\ drawn < MaxPhrases /\ UNCHANGED held  BY <1>6 DEF DrawPhrase
  <2>2. TablesTyped'  BY <1>5, <2>1 DEF TypeOK, TablesTyped
  <2>3. CASE Return(q) /\ UNCHANGED <<drawn, bundles, sharing>>
    <3>1. CountsTyped' /\ BundlesTyped' /\ SharingTyped'
      BY <1>5, <2>3 DEF TypeOK, CountsTyped, BundlesTyped, SharingTyped, sharing
    <3>2. QED  BY <1>4, <2>2, <2>3, <3>1, ReturnControl, TypePartsNext DEF Return, GotoWith
  <2> DEFINE b == <<Dir(c), c.time>>
             d == [c EXCEPT !.bundle = b, !.phrase = drawn + 1]
             X == {ph \in {drawn + 1} : Writers(b) \cup Restorers(b) # {}}
  <2>4. CASE /\ drawn' = drawn + 1 /\ bundles' = WithBlob(b, drawn + 1)
             /\ latest' = [x \in DOMAIN latest \cup {b} |-> IF x = b THEN drawn + 1 ELSE latest[x]]
             /\ mixed' = mixed \cup PhrasesOf(Writers(b)) \cup X
             /\ GotoWith(q, "manifest", d)
    <3>1. b \in BundlePaths /\ b # None  BY <2>1, DirTyped, NoneIsNoRow
    <3>2. drawn + 1 \in Phrases /\ drawn + 1 # None /\ drawn + 1 \in 0..MaxPhrases
      BY <2>1, BoundsAssumption, NoneAssumption DEF Phrases, TypeOK
    <3>3. CountsTyped'  BY <1>5, <2>4, <3>2 DEF CountsTyped, TypeOK
    <3>4. BundlesTyped'  BY <2>4, <3>1, <3>2, BlobTyped
    <3>9. SharingTyped'
      <4>1. mixed' \subseteq Phrases  BY <2>4, <3>2, WritersTyped DEF TypeOK
      <4>2. DOMAIN bundles' = DOMAIN bundles \cup {b}  BY <2>4 DEF WithBlob, With
      <4>3. latest' \in [DOMAIN bundles' -> Phrases]  BY <2>4, <3>2, <4>2 DEF TypeOK
      <4>4. QED  BY <4>1, <4>3 DEF SharingTyped
    <3> HIDE DEF b
    <3>5. d \in Frames /\ d.op = c.op /\ d.todo = c.todo /\ d.bundle = b /\ d.phrase = drawn + 1
      BY <1>1, <3>1, <3>2 DEF Frames
    <3>6. FrameFits("manifest", d)
      BY <1>1, <2>1, <3>1, <3>2, <3>5, NoneIsNoRow DEF FrameFits
    <3> HIDE DEF d
    <3>7. ControlTyped' /\ Others(q)  BY <2>4, <3>5, <3>6, ControlStep DEF GotoWith
    <3>8. QED  BY <1>4, <2>2, <3>3, <3>4, <3>7, <3>9, TypePartsNext
  <2>5. QED  BY <1>6, <2>3, <2>4 DEF DrawPhrase, BundlePath
<1>7. CASE WriteFirstManifest(q) \/ WriteDescriptor(q)
  <2>1. UNCHANGED <<drawn, held, sharing>>  BY <1>7 DEF WriteFirstManifest, WriteDescriptor
  <2>2. TablesTyped' /\ CountsTyped'  BY <1>5, <2>1 DEF TypeOK, TablesTyped, CountsTyped
  <2>3. PICK e \in Providers \cup {None} : bundles' = WithManifest(c.bundle, [phrase |-> c.phrase, escrow |-> e])
    <3>1. CASE WriteFirstManifest(q)  BY <3>1 DEF WriteFirstManifest
    <3>2. CASE WriteDescriptor(q)
      BY <1>1, <1>3, <3>2 DEF WriteDescriptor, FrameFits
    <3>3. QED  BY <1>7, <3>1, <3>2
  <2>4. pc[q] # "draw"  BY <1>7 DEF WriteFirstManifest, WriteDescriptor
  <2>5. [phrase |-> c.phrase, escrow |-> e] \in Manifests  BY <1>2, <2>4 DEF Manifests
  <2>6. BundlesTyped'  BY <1>2, <2>3, <2>4, <2>5, ManifestTyped
  <2>10. SharingTyped'
    <3>1. c.bundle \in DOMAIN bundles  BY <1>1, <1>2, <2>4, NoneIsNoRow
    <3>2. DOMAIN bundles' = DOMAIN bundles  BY <2>3, <3>1, DomainKept
    <3>3. QED  BY <2>1, <3>2 DEF TypeOK, SharingTyped, sharing
  <2>7. PICK l \in Pcs : Goto(q, l) /\ FrameFits(l, c)
    <3>1. CASE WriteFirstManifest(q)
      <4>1. c.op = "generate" => FrameFits("stateFile", c)
        BY <1>1, <3>1 DEF WriteFirstManifest, FrameFits
      <4>2. c.op # "generate" => FrameFits("provider", c)
        BY <1>1, <3>1 DEF WriteFirstManifest, FrameFits
      <4>3. QED  BY <3>1, <4>1, <4>2 DEF WriteFirstManifest
    <3>2. CASE WriteDescriptor(q)
      <4>1. c.op = "rotate" => FrameFits("stateFile", c)
        BY <1>1, <3>2 DEF WriteDescriptor, FrameFits
      <4>2. c.op # "rotate" => FrameFits("upsertV2", c)
        BY <1>1, <3>2 DEF WriteDescriptor, FrameFits
      <4>3. QED  BY <3>2, <4>1, <4>2 DEF WriteDescriptor
    <3>3. QED  BY <1>7, <3>1, <3>2
  <2>8. ControlTyped' /\ Others(q)  BY <2>7, GotoControl
  <2>9. QED  BY <1>4, <2>2, <2>6, <2>8, <2>10, TypePartsNext
<1>8. CASE ProviderWrite(q)
  <2>1. pc[q] = "provider" /\ UNCHANGED <<drawn, bundles, sharing>>  BY <1>8 DEF ProviderWrite, files
  <2>2. CountsTyped' /\ BundlesTyped' /\ SharingTyped'
    BY <1>5, <2>1 DEF TypeOK, CountsTyped, BundlesTyped, SharingTyped, sharing
  <2>3. Min(c.todo) \in Providers  BY <1>1, <1>3, <2>1 DEF FrameFits
  <2>4. \A blob : Stored(Min(c.todo), c.phrase, blob) \in [Providers -> SUBSET Phrases]
    BY <1>2, <2>1, <2>3 DEF Stored, TypeOK
  <2>5. held' \in [Providers -> SUBSET Phrases]  BY <1>8, <2>4 DEF ProviderWrite, TypeOK
  <2>6. TablesTyped'  BY <1>5, <2>5 DEF TablesTyped, TypeOK
  <2>7. FrameFits("descriptor", c)  BY <1>1, <2>1 DEF FrameFits
  <2>8. ControlTyped' /\ Others(q)
    <3>1. CASE Goto(q, "descriptor")  BY <2>7, <3>1, GotoControl
    <3>2. CASE Return(q)  BY <3>2, ReturnControl DEF Return, GotoWith
    <3>3. QED  BY <1>8, <3>1, <3>2 DEF ProviderWrite
  <2>9. QED  BY <1>4, <2>2, <2>6, <2>8, TypePartsNext
<1>9. QED  BY <1>6, <1>7, <1>8 DEF WriteSteps

(* LaterTypes: the tables, the state file, the end of a call, a restore.   *)
LEMMA LaterTypes ==
  ASSUME TypeOK, Timely, NEW q \in Procs, LaterSteps(q),
         ctx[q] # None /\ ctx[q].bundle # None => ctx[q].bundle \in DOMAIN bundles
  PROVE  TypeOK' /\ Others(q)
<1> USE DEF Pcs
<1> DEFINE c == ctx[q]
<1>0. pc[q] # "idle"
  BY DEF LaterSteps, WriteStateFile, UpsertV2, UpsertV3, AppendEvent, RestoreWrite, Abort
<1>1. c \in Frames /\ c # None /\ FrameFits(pc[q], c)  BY <1>0, FrameAt
<1>2. UNCHANGED <<calls, drawn, held, up>>
  BY DEF LaterSteps, WriteStateFile, UpsertV2, UpsertV3, AppendEvent, RestoreWrite, Abort, Fault,
         Goto, GotoWith, Return, NextProvider
<1>3. CountsTyped'  BY <1>2 DEF CountsTyped, TypeOK
<1>10. ASSUME UNCHANGED <<bundles, sharing>> PROVE SharingTyped'
  BY <1>10 DEF TypeOK, SharingTyped, sharing
<1>11. ASSUME NEW b \in DOMAIN bundles, NEW x, NEW S \in SUBSET Phrases,
              bundles' = WithBlob(b, x) \/ bundles' = WithManifest(b, x),
              latest' = latest, mixed' = mixed \cup S
       PROVE  SharingTyped'
  BY <1>11, DomainKept DEF TypeOK, SharingTyped
<1>4. CASE WriteStateFile(q)
  <2>1. TablesTyped' /\ BundlesTyped' /\ SharingTyped'
    BY <1>2, <1>4, <1>10 DEF WriteStateFile, TypeOK, TablesTyped, BundlesTyped, config
  <2>2. last' \in BundlePaths \cup {None}  BY <1>0, <1>4, FrameAt DEF WriteStateFile
  <2>3. ControlTyped' /\ Others(q) /\ told' \subseteq Phrases \X BundlePaths
    <3>1. CASE Return(q) /\ UNCHANGED told  BY <3>1, ReturnControl DEF Return, GotoWith, TypeOK
    <3>2. CASE c.op = "rotate" /\ Goto(q, "upsertV2") /\ UNCHANGED told
      <4>1. FrameFits("upsertV2", c)  BY <1>1, <1>4, <3>2 DEF WriteStateFile, FrameFits
      <4>2. QED  BY <3>2, <4>1, GotoControl DEF TypeOK
    <3>3. CASE c.op = "rotateAll" /\ NextProvider(q, [c EXCEPT !.phrases = @ \cup {<<c.phrase, c.bundle>>}])
      BY <1>4, <3>3, NextProviderTypes DEF WriteStateFile
    <3>4. QED  BY <1>4, <3>1, <3>2, <3>3 DEF WriteStateFile
  <2>4. QED  BY <1>3, <2>1, <2>2, <2>3, TypePartsNext DEF RestTyped
<1>5. CASE UpsertV2(q) \/ UpsertV3(q)
  <2>1. RestTyped' /\ BundlesTyped' /\ SharingTyped'
    BY <1>5, <1>10 DEF UpsertV2, UpsertV3, TypeOK, RestTyped, BundlesTyped, files
  <2>2. Min(c.todo) \in Providers /\ c.time \in Times
    BY <1>0, <1>1, <1>5, FrameAt, ProviderAt DEF UpsertV2, UpsertV3, FrameFits
  <2>3. TablesTyped'  BY <1>2, <1>5, <2>2 DEF UpsertV2, UpsertV3, TypeOK, TablesTyped
  <2>4. PICK l \in Pcs : Goto(q, l) /\ FrameFits(l, c)
    <3>1. pc[q] = "upsertV2" /\ c.op = "rotateAll" => FrameFits("upsertV3", c)
      BY <1>1 DEF FrameFits
    <3>2. pc[q] \in {"upsertV2", "upsertV3"} => FrameFits("event", c)
      BY <1>1 DEF FrameFits
    <3>3. QED  BY <1>5, <3>1, <3>2 DEF UpsertV2, UpsertV3
  <2>5. ControlTyped' /\ Others(q)  BY <2>4, GotoControl
  <2>6. QED  BY <1>3, <2>1, <2>3, <2>5, TypePartsNext
<1>6. CASE AppendEvent(q)
  <2>1. TablesTyped' /\ BundlesTyped' /\ UNCHANGED last /\ SharingTyped'
    BY <1>2, <1>6, <1>10 DEF AppendEvent, TypeOK, TablesTyped, BundlesTyped, files
  <2>2. ControlTyped' /\ Others(q) /\ told' \subseteq Phrases \X BundlePaths
    <3>1. CASE c.op = "rotateAll" /\ Goto(q, "stateFile") /\ UNCHANGED told
      <4>1. FrameFits("stateFile", c)  BY <1>1, <1>6, <3>1 DEF AppendEvent, FrameFits
      <4>2. QED  BY <3>1, <4>1, GotoControl DEF TypeOK
    <3>2. CASE c.op = "rotate" /\ told' = told \cup {<<c.phrase, c.bundle>>} /\ Return(q)
      <4>1. c.phrase \in Phrases /\ c.bundle \in BundlePaths
        BY <1>0, <1>1, <1>6, <3>2, FrameAt DEF AppendEvent, FrameFits
      <4>2. told' \subseteq Phrases \X BundlePaths  BY <3>2, <4>1 DEF TypeOK
      <4>3. QED  BY <3>2, <4>2, ReturnControl DEF Return, GotoWith
    <3>3. CASE Return(q) /\ UNCHANGED told  BY <3>3, ReturnControl DEF Return, GotoWith, TypeOK
    <3>4. QED  BY <1>6, <3>1, <3>2, <3>3 DEF AppendEvent
  <2>3. RestTyped'  BY <2>1, <2>2 DEF RestTyped, TypeOK
  <2>4. QED  BY <1>3, <2>1, <2>2, <2>3, TypePartsNext
<1>7. CASE RestoreWrite(q)
  <2>1. TablesTyped' /\ RestTyped'
    BY <1>2, <1>7 DEF RestoreWrite, TypeOK, TablesTyped, RestTyped, config
  <2>2. c.bundle \in BundlePaths /\ c.phrase \in Phrases
    BY <1>0, <1>1, <1>7, FrameAt DEF RestoreWrite, FrameFits
  <2>3. BundlesTyped'  BY <1>7, <2>2, BlobTyped DEF RestoreWrite
  <2>4. FrameFits("event", c)  BY <1>1, <1>7 DEF RestoreWrite, FrameFits
  <2>6. SharingTyped'
    <3>1. c.bundle \in DOMAIN bundles  BY <1>1, <2>2, NoneIsNoRow
    <3>2. latest' = latest /\ mixed' = mixed \cup {}  BY <1>7 DEF RestoreWrite, sharing
    <3>3. bundles' = WithBlob(c.bundle, c.phrase)  BY <1>7 DEF RestoreWrite
    <3>4. {} \in SUBSET Phrases  OBVIOUS
    <3>5. QED  BY <1>11, <3>1, <3>2, <3>3, <3>4
  <2>5. QED  BY <1>3, <1>7, <2>1, <2>3, <2>4, <2>6, GotoControl, TypePartsNext DEF RestoreWrite
<1>8. CASE Abort(q)
  <2>1. TablesTyped' /\ UNCHANGED told
    BY <1>2, <1>8 DEF Abort, Fault, TypeOK, TablesTyped, config
  <2>2. ControlTyped' /\ Others(q)  BY <1>8, ReturnControl DEF Abort
  <2> DEFINE b == <<Dir(c), c.time>>
  <2>3. BundlesTyped' /\ RestTyped' /\ SharingTyped'
    <3>0. PhrasesOf(Writers(b)) \in SUBSET Phrases /\ {} \in SUBSET Phrases  BY WritersTyped
    <3>1. CASE UNCHANGED <<bundles, sharing>> /\ last' \in {last, None}
      BY <1>10, <2>1, <3>1 DEF BundlesTyped, RestTyped, TypeOK
    <3>2. CASE pc[q] = "restore" /\ UNCHANGED <<last, sharing>> /\ bundles' = WithBlob(c.bundle, Torn)
      <4>1. c.bundle \in BundlePaths  BY <1>0, <1>1, <3>2, FrameAt DEF FrameFits
      <4>2. c.bundle \in DOMAIN bundles  BY <1>1, <4>1, NoneIsNoRow
      <4>3. latest' = latest /\ mixed' = mixed \cup {}  BY <3>2 DEF sharing
      <4>4. SharingTyped'  BY <1>11, <3>0, <3>2, <4>2, <4>3
      <4>5. QED  BY <2>1, <3>2, <4>1, <4>4, BlobTyped DEF RestTyped, TypeOK
    <3>3. CASE /\ pc[q] \in {"manifest", "descriptor"} /\ UNCHANGED <<last, sharing>>
               /\ bundles' = WithManifest(c.bundle, None)
      <4>1. c.bundle \in BundlePaths  BY <1>0, <1>1, <3>3, FrameAt DEF FrameFits
      <4>2. c.bundle \in DOMAIN bundles  BY <1>1, <4>1, NoneIsNoRow
      <4>3. latest' = latest /\ mixed' = mixed \cup {}  BY <3>3 DEF sharing
      <4>4. SharingTyped'  BY <1>11, <3>0, <3>3, <4>2, <4>3
      <4>5. QED  BY <2>1, <3>3, <4>1, <4>4, ManifestTyped DEF RestTyped, TypeOK
    <3>4. CASE /\ b \in DOMAIN bundles /\ UNCHANGED <<last, latest>> /\ bundles' = WithBlob(b, Torn)
               /\ mixed' = mixed \cup PhrasesOf(Writers(b))
      <4>1. b \in BundlePaths  BY <3>4 DEF TypeOK
      <4> HIDE DEF b
      <4>2. SharingTyped'  BY <1>11, <3>0, <3>4
      <4>3. QED  BY <2>1, <3>4, <4>1, <4>2, BlobTyped DEF RestTyped, TypeOK
    <3>5. QED  BY <1>8, <3>1, <3>2, <3>3, <3>4 DEF Abort, files, BundlePath
  <2>4. QED  BY <1>3, <2>1, <2>2, <2>3, TypePartsNext
<1>9. QED  BY <1>4, <1>5, <1>6, <1>7, <1>8 DEF LaterSteps

EnvSteps == (\E p \in Providers : Outage(p)) \/ (\E b \in DOMAIN bundles : LoseBlob(b))

(* EnvTypes: outages and lost blobs.                                       *)
LEMMA EnvTypes ==
  ASSUME TypeOK, EnvSteps
  PROVE  TypeOK' /\ UNCHANGED <<drawn, told, held, latest, mixed, pc, ctx>>
<1>1. UNCHANGED <<calls, drawn, told, held, v2, v3, last, latest, mixed, pc, ctx>>
  BY DEF EnvSteps, Outage, LoseBlob, Fault, config, files, sharing
<1>2. CountsTyped' /\ RestTyped' /\ ControlTyped'
  BY <1>1 DEF CountsTyped, RestTyped, ControlTyped, TypeOK
<1>3. ASSUME NEW p \in Providers, Outage(p) PROVE TablesTyped' /\ BundlesTyped' /\ SharingTyped'
  BY <1>1, <1>3 DEF Outage, files, TypeOK, TablesTyped, BundlesTyped, SharingTyped
<1>4. ASSUME NEW b \in DOMAIN bundles, LoseBlob(b) PROVE TablesTyped' /\ BundlesTyped' /\ SharingTyped'
  <2>1. b \in BundlePaths  BY DEF TypeOK
  <2>2. BundlesTyped'  BY <1>4, <2>1, BlobTyped DEF LoseBlob
  <2>3. DOMAIN bundles' = DOMAIN bundles  BY <1>4, DomainKept DEF LoseBlob
  <2>4. QED  BY <1>1, <1>4, <2>2, <2>3 DEF LoseBlob, TypeOK, TablesTyped, SharingTyped
<1>5. QED  BY <1>1, <1>2, <1>3, <1>4, TypePartsNext DEF EnvSteps

-----------------------------------------------------------------------------
(* What a step does to the files and the providers.                        *)

(* OwnFile: a call that writes to a bundle has one in its frame.           *)
LEMMA OwnFile ==
  ASSUME IInv, NEW q \in Procs, pc[q] \in Writing \cup {"restore"}
  PROVE  ctx[q].bundle \in DOMAIN bundles
<1>1. ctx[q] # None /\ ctx[q].bundle # None  BY FrameAt DEF IInv, FrameFits, Writing
<1>2. QED  BY <1>1 DEF IInv, OwnBundle

ProcStep(q) == Calls(q) \/ WriteSteps(q) \/ LaterSteps(q)

(* StepTypes: types after a step.                                          *)
LEMMA StepTypes ==
  ASSUME IInv, NEW q \in Procs, ProcStep(q)
  PROVE  TypeOK /\ TypeOK' /\ Others(q)
<1>1. TypeOK /\ Timely /\ OwnBundle(q)  BY DEF IInv
<1>2. QED  BY <1>1, CallTypes, WriteTypes, LaterTypes DEF ProcStep, Calls, OwnBundle

(* What a step of q may write: the blob of a bundle, new or not, whole or  *)
(* cut off; the manifest of the bundle it is writing; or the blob of the   *)
(* bundle it restores.                                                     *)
Target(q) == <<Dir(ctx[q]), ctx[q].time>>
Drawing(q) ==
  LET b == Target(q)
  IN /\ pc[q] = "draw" /\ bundles' = WithBlob(b, drawn + 1)
     /\ drawn' = drawn + 1 /\ drawn + 1 \in Phrases /\ pc'[q] = "manifest"
     /\ ctx'[q] = [ctx[q] EXCEPT !.bundle = b, !.phrase = drawn + 1]
     /\ latest' = [x \in DOMAIN latest \cup {b} |-> IF x = b THEN drawn + 1 ELSE latest[x]]
     /\ mixed \cup PhrasesOf(Writers(b)) \subseteq mixed'
     /\ Writers(b) \cup Restorers(b) # {} => drawn + 1 \in mixed'
Tearing(q) ==
  /\ pc[q] = "draw" /\ Target(q) \in DOMAIN bundles /\ bundles' = WithBlob(Target(q), Torn)
  /\ PhrasesOf(Writers(Target(q))) \subseteq mixed' /\ pc'[q] = "idle"
Describing(q, m) ==
  /\ pc[q] \in Writing /\ bundles' = WithManifest(ctx[q].bundle, m)
  /\ m # None /\ m.escrow # None =>
       pc[q] = "descriptor" /\ m = [phrase |-> ctx[q].phrase, escrow |-> Min(ctx[q].todo)]
Restoring(q, x) == pc[q] = "restore" /\ bundles' = WithBlob(ctx[q].bundle, x)
Beside(q) == drawn' = drawn /\ latest' = latest /\ mixed \subseteq mixed'

(* DrawStep: DrawPhrase draws, or returns.                                 *)
LEMMA DrawStep ==
  ASSUME TypeOK, NEW q \in Procs, DrawPhrase(q)
  PROVE  \/ Drawing(q)
         \/ Beside(q) /\ bundles' = bundles /\ pc'[q] = "idle" /\ ctx'[q] = None
<1> DEFINE b == <<Dir(ctx[q]), ctx[q].time>>
           X == {ph \in {drawn + 1} : Writers(b) \cup Restorers(b) # {}}
           d == [ctx[q] EXCEPT !.bundle = b, !.phrase = drawn + 1]
<1>1. pc[q] = "draw" /\ drawn < MaxPhrases  BY DEF DrawPhrase
<1>2. drawn + 1 \in Phrases  BY <1>1, BoundsAssumption DEF Phrases, TypeOK
<1>3. CASE Return(q) /\ UNCHANGED <<drawn, bundles, sharing>>
  <2>1. pc'[q] = "idle" /\ ctx'[q] = None  BY <1>3 DEF Return, GotoWith, TypeOK
  <2>2. Beside(q)  BY <1>3 DEF Beside, sharing
  <2>3. QED  BY <1>3, <2>1, <2>2
<1>4. CASE /\ drawn' = drawn + 1 /\ bundles' = WithBlob(b, drawn + 1)
           /\ latest' = [x \in DOMAIN latest \cup {b} |-> IF x = b THEN drawn + 1 ELSE latest[x]]
           /\ mixed' = mixed \cup PhrasesOf(Writers(b)) \cup X
           /\ GotoWith(q, "manifest", d)
  <2>1. pc'[q] = "manifest" /\ ctx'[q] = d  BY <1>4 DEF GotoWith, TypeOK
  <2>2. Writers(b) \cup Restorers(b) # {} => drawn + 1 \in X  OBVIOUS
  <2> HIDE DEF X
  <2>3. /\ mixed \cup PhrasesOf(Writers(b)) \subseteq mixed'
        /\ Writers(b) \cup Restorers(b) # {} => drawn + 1 \in mixed'
    BY <1>4, <2>2
  <2>4. QED  BY <1>1, <1>2, <1>4, <2>1, <2>3 DEF Drawing, Target
<1>5. QED  BY <1>3, <1>4 DEF DrawPhrase, BundlePath

(* FilesStep: nothing else is written.                                     *)
LEMMA FilesStep ==
  ASSUME TypeOK, NEW q \in Procs, ProcStep(q)
  PROVE  \/ Drawing(q)
         \/ /\ Beside(q)
            /\ \/ bundles' = bundles
               \/ Tearing(q)
               \/ \E m : Describing(q, m)
               \/ \E x : Restoring(q, x)
<1>1. CASE DrawPhrase(q)  BY <1>1, DrawStep
<1>2. CASE WriteFirstManifest(q)
  <2> DEFINE m == [phrase |-> ctx[q].phrase, escrow |-> None]
  <2>1. bundles' = WithManifest(ctx[q].bundle, m) /\ m.escrow = None /\ pc[q] \in Writing
    BY <1>2 DEF WriteFirstManifest, Writing
  <2>2. Describing(q, m)  BY <2>1 DEF Describing
  <2>3. Beside(q)  BY <1>2 DEF WriteFirstManifest, Beside, sharing
  <2>4. QED  BY <2>2, <2>3
<1>3. CASE WriteDescriptor(q)
  <2>1. Describing(q, [phrase |-> ctx[q].phrase, escrow |-> Min(ctx[q].todo)])
    BY <1>3 DEF WriteDescriptor, Describing, Writing
  <2>2. Beside(q)  BY <1>3 DEF WriteDescriptor, Beside, sharing
  <2>3. QED  BY <2>1, <2>2
<1>4. CASE RestoreWrite(q)
  <2>1. Restoring(q, ctx[q].phrase) /\ Beside(q)
    BY <1>4 DEF RestoreWrite, Restoring, Beside, sharing
  <2>2. QED  BY <2>1
<1>5. CASE Abort(q)
  <2>0. pc'[q] = "idle" /\ drawn' = drawn  BY <1>5 DEF Abort, Fault, TypeOK
  <2>1. CASE UNCHANGED <<bundles, sharing>>  BY <2>0, <2>1 DEF Beside, sharing
  <2>2. CASE pc[q] = "restore" /\ bundles' = WithBlob(ctx[q].bundle, Torn) /\ UNCHANGED sharing
    <3>1. Restoring(q, Torn) /\ Beside(q)  BY <2>0, <2>2 DEF Restoring, Beside, sharing
    <3>2. QED  BY <3>1
  <2>3. CASE /\ pc[q] \in {"manifest", "descriptor"} /\ bundles' = WithManifest(ctx[q].bundle, None)
             /\ UNCHANGED sharing
    <3>1. Describing(q, None) /\ Beside(q)
      BY <2>0, <2>3 DEF Describing, Writing, Beside, sharing
    <3>2. QED  BY <3>1
  <2> DEFINE b == <<Dir(ctx[q]), ctx[q].time>>
  <2>4. CASE /\ pc[q] = "draw" /\ b \in DOMAIN bundles /\ UNCHANGED latest
             /\ bundles' = WithBlob(b, Torn) /\ mixed' = mixed \cup PhrasesOf(Writers(b))
    <3>1. Tearing(q) /\ Beside(q)  BY <2>0, <2>4 DEF Tearing, Target, Beside
    <3>2. QED  BY <3>1
  <2>5. QED  BY <1>5, <2>1, <2>2, <2>3, <2>4 DEF Abort, files, BundlePath
<1>6. CASE Calls(q)
  <2>1. PICK t \in 1..MaxTime : CallsAt(q, t)  BY <1>6 DEF Calls
  <2>2. bundles' = bundles /\ drawn' = drawn /\ latest' = latest /\ mixed \subseteq mixed'
    BY <2>1 DEF CallsAt, Enable, ProviderAdd, Generate, Rotate, RotateAll, Restore, Call, files, sharing
  <2>3. QED  BY <2>2 DEF Beside
<1>7. CASE ProviderWrite(q) \/ WriteStateFile(q) \/ UpsertV2(q) \/ UpsertV3(q) \/ AppendEvent(q)
  <2>1. bundles' = bundles /\ Beside(q)
    BY <1>7 DEF ProviderWrite, WriteStateFile, UpsertV2, UpsertV3, AppendEvent, files, sharing, Beside
  <2>2. QED  BY <2>1
<1>8. QED
  BY <1>1, <1>2, <1>3, <1>4, <1>5, <1>6, <1>7 DEF ProcStep, WriteSteps, LaterSteps

(* BlobAt: what writing the blob of a bundle changes.                      *)
LEMMA BlobAt ==
  ASSUME NEW b, NEW x, bundles' = WithBlob(b, x)
  PROVE  /\ DOMAIN bundles' = DOMAIN bundles \cup {b} /\ bundles'[b].blob = x
         /\ \A a \in DOMAIN bundles : bundles'[a].manifest = bundles[a].manifest
         /\ \A a \in DOMAIN bundles : a # b => bundles'[a] = bundles[a]
         /\ b \notin DOMAIN bundles => bundles'[b].manifest = None
BY DEF WithBlob, With, Bundle, NoBundle

(* ManifestAt: what writing its manifest changes.                          *)
LEMMA ManifestAt ==
  ASSUME NEW b \in DOMAIN bundles, NEW m, bundles' = WithManifest(b, m)
  PROVE  /\ DOMAIN bundles' = DOMAIN bundles /\ bundles'[b].manifest = m
         /\ \A a \in DOMAIN bundles : bundles'[a].blob = bundles[a].blob
         /\ \A a \in DOMAIN bundles : a # b => bundles'[a] = bundles[a]
BY DEF WithManifest, With, Bundle

-----------------------------------------------------------------------------
(* How a call moves on.                                                    *)

(* With the frame it has: only ProviderWrite leads to the descriptor, and  *)
(* only the descriptor leads a rotation on.                                *)
Moves(q) ==
  /\ pc[q] \notin {"idle", "draw"} /\ pc'[q] \notin {"idle", "draw", "restore"}
  /\ ctx'[q] = ctx[q]
  /\ pc'[q] \in Writing => pc[q] \in Writing \ {"descriptor"}
  /\ pc'[q] = "descriptor" => ProviderWrite(q)
  /\ pc[q] \in Writing /\ pc'[q] \notin Writing => ctx[q].op = "generate" \/ WriteDescriptor(q)

(* To the next provider.                                                   *)
NextOne(q) ==
  /\ pc[q] = "stateFile" /\ ctx[q].op = "rotateAll" /\ ctx[q].todo # {} /\ bundles' = bundles
  /\ pc'[q] = "draw" /\ ctx'[q] # None /\ ctx'[q].op = "rotateAll"
  /\ ctx'[q].todo = ctx[q].todo \ {Min(ctx[q].todo)} /\ ctx'[q].time = ctx[q].time + 1
  /\ ctx'[q].bundle = ctx[q].bundle /\ ctx'[q].phrases = ctx[q].phrases \cup {<<ctx[q].phrase, ctx[q].bundle>>}

(* NextOneStep: that is what NextProvider does if there is one.            *)
LEMMA NextOneStep ==
  ASSUME TypeOK, TypeOK', NEW q \in Procs, WriteStateFile(q), ctx[q].op = "rotateAll"
  PROVE  \/ NextOne(q) /\ told' = told
         \/ /\ pc'[q] = "idle" /\ ctx'[q] = None
            /\ told' = told \cup ctx[q].phrases \cup {<<ctx[q].phrase, ctx[q].bundle>>}
<1> DEFINE c == [ctx[q] EXCEPT !.phrases = @ \cup {<<ctx[q].phrase, ctx[q].bundle>>}]
           d == [c EXCEPT !.todo = c.todo \ {Min(c.todo)}, !.time = @ + 1]
<1>1. /\ ctx[q] \in Frames /\ pc[q] = "stateFile" /\ ctx[q].todo # {} /\ bundles' = bundles
      /\ NextProvider(q, c)
  BY FrameAt DEF WriteStateFile, FrameFits
<1>2. /\ c.todo = ctx[q].todo /\ c.time = ctx[q].time /\ c.op = "rotateAll"
      /\ c.phrases = ctx[q].phrases \cup {<<ctx[q].phrase, ctx[q].bundle>>} /\ c.bundle = ctx[q].bundle
  BY <1>1 DEF Frames
<1>3. CASE c.todo \ {Min(c.todo)} = {}
  <2>1. Return(q) /\ told' = told \cup c.phrases  BY <1>1, <1>3 DEF NextProvider
  <2>2. pc'[q] = "idle" /\ ctx'[q] = None  BY <2>1 DEF Return, GotoWith, TypeOK
  <2>3. QED  BY <1>2, <2>1, <2>2
<1>4. CASE c.todo \ {Min(c.todo)} # {}
  <2>1. GotoWith(q, "draw", d) /\ told' = told  BY <1>1, <1>4 DEF NextProvider
  <2>2. pc'[q] = "draw" /\ ctx'[q] = d  BY <2>1 DEF GotoWith, TypeOK
  <2>3. /\ d.todo = ctx[q].todo \ {Min(ctx[q].todo)} /\ d.time = ctx[q].time + 1
        /\ d.op = "rotateAll" /\ d.phrases = c.phrases /\ d.bundle = ctx[q].bundle
    BY <1>1, <1>2 DEF Frames
  <2>4. ctx'[q] # None  BY <2>2 DEF TypeOK, FrameFits
  <2> HIDE DEF c, d
  <2>5. QED  BY <1>1, <1>2, <2>1, <2>2, <2>3, <2>4 DEF NextOne
<1>5. QED  BY <1>3, <1>4

(* MoveStep: every step of a call ends it, draws, moves on with its frame, *)
(* or goes to the next provider.                                           *)
LEMMA MoveStep ==
  ASSUME IInv, NEW q \in Procs, WriteSteps(q) \/ LaterSteps(q)
  PROVE  \/ pc'[q] = "idle" /\ ctx'[q] = None
         \/ Drawing(q)
         \/ Moves(q)
         \/ NextOne(q)
<1>0. TypeOK /\ TypeOK'  BY StepTypes DEF ProcStep
<1>1. \A l : Goto(q, l) => pc'[q] = l /\ ctx'[q] = ctx[q]  BY <1>0 DEF Goto, GotoWith, TypeOK
<1>2. Return(q) => pc'[q] = "idle" /\ ctx'[q] = None  BY <1>0 DEF Return, GotoWith, TypeOK
<1>3. CASE DrawPhrase(q)  BY <1>0, <1>3, DrawStep
<1>4. CASE WriteFirstManifest(q)
  BY <1>1, <1>4 DEF WriteFirstManifest, Moves, Writing
<1>5. CASE ProviderWrite(q)
  BY <1>1, <1>2, <1>5 DEF ProviderWrite, Moves, Writing
<1>6. CASE WriteDescriptor(q)
  BY <1>1, <1>6 DEF WriteDescriptor, Moves, Writing
<1>7. CASE WriteStateFile(q)
  <2>1. CASE ctx[q].op = "rotateAll"  BY <1>0, <1>7, <2>1, NextOneStep
  <2>2. CASE ctx[q].op # "rotateAll"
    BY <1>1, <1>2, <1>7, <2>2 DEF WriteStateFile, Moves, Writing
  <2>3. QED  BY <2>1, <2>2
<1>8. CASE UpsertV2(q) \/ UpsertV3(q)
  BY <1>1, <1>8 DEF UpsertV2, UpsertV3, Moves, Writing
<1>9. CASE AppendEvent(q)
  BY <1>1, <1>2, <1>9 DEF AppendEvent, Moves, Writing
<1>10. CASE RestoreWrite(q)  BY <1>1, <1>10 DEF RestoreWrite, Moves, Writing
<1>11. CASE Abort(q)
  <2>1. pc'[q] = "idle" /\ ctx'[q] = None  BY <1>0, <1>11 DEF Abort, TypeOK
  <2>2. QED  BY <2>1
<1>12. QED
  BY <1>3, <1>4, <1>5, <1>6, <1>7, <1>8, <1>9, <1>10, <1>11 DEF WriteSteps, LaterSteps

(* CallStart: how a call begins.                                           *)
LEMMA CallStart ==
  ASSUME TypeOK, NEW q \in Procs, Calls(q)
  PROVE  /\ pc[q] = "idle" /\ pc'[q] \notin Writing /\ ctx'[q].phrases = {}
         /\ told' = told /\ ctx'[q].time \in 1..MaxTime
         /\ pc'[q] # "draw" => ctx'[q].op \notin Rotations
         /\ \/ ctx'[q].bundle = None /\ pc'[q] # "restore"
            \/ /\ ctx'[q].bundle \in DOMAIN bundles
               /\ PhrasesOf(Writers(ctx'[q].bundle)) \subseteq mixed'
<1> USE DEF Rotations
<1>0. PICK t \in 1..MaxTime : CallsAt(q, t)  BY DEF Calls
<1>1. ASSUME NEW l, NEW c, pc' = [pc EXCEPT ![q] = l], ctx' = [ctx EXCEPT ![q] = c]
      PROVE  pc'[q] = l /\ ctx'[q] = c
  BY <1>1 DEF TypeOK
<1>2. CASE \E p \in Providers : Enable(q, p, t) \/ ProviderAdd(q, p, t)
  BY <1>1, <1>2 DEF Enable, ProviderAdd, Call, Frame, Writing
<1>3. CASE Generate(q, t) \/ Rotate(q, t) \/ RotateAll(q, t)
  BY <1>1, <1>3 DEF Generate, Rotate, RotateAll, Call, Frame, Writing
<1>4. ASSUME NEW b \in DOMAIN bundles, Restore(q, b, t)
      PROVE  /\ pc[q] = "idle" /\ pc'[q] = "restore" /\ ctx'[q].phrases = {}
             /\ told' = told /\ ctx'[q].op = "restore" /\ ctx'[q].time = t
             /\ ctx'[q].bundle = b /\ PhrasesOf(Writers(b)) \subseteq mixed'
  <2>1. /\ pc[q] = "idle" /\ told' = told /\ pc'[q] = "restore"
        /\ ctx'[q] = [Frame("restore", {Current}, t)
             EXCEPT !.bundle = b, !.phrase = Bundle(b).manifest.phrase]
    BY <1>1, <1>4 DEF Restore, Call
  <2>2. PhrasesOf(Writers(b)) \subseteq mixed'  BY <1>4 DEF Restore
  <2>3. ctx'[q].phrases = {} /\ ctx'[q].op = "restore" /\ ctx'[q].bundle = b /\ ctx'[q].time = t
    BY <2>1 DEF Frame
  <2>4. QED  BY <2>1, <2>2, <2>3
<1>5. QED  BY <1>0, <1>2, <1>3, <1>4 DEF CallsAt, Writing

(* TimeStep: a call begins with time enough, and goes on so.               *)
LEMMA TimeStep ==
  ASSUME IInv, NEW q \in Procs, ProcStep(q)
  PROVE  Timely'
<1>0. TypeOK /\ TypeOK' /\ Others(q) /\ Timely  BY StepTypes DEF IInv
<1>1. ASSUME NEW c \in Frames PROVE Cardinality(c.todo) \in Nat /\ c.time \in Nat
                                    /\ Cardinality(c.todo) <= Cardinality(Providers)
  <2>1. c.todo \in SUBSET Providers /\ IsFiniteSet(Providers)  BY ProvidersAssumption DEF Frames
  <2>2. IsFiniteSet(c.todo) /\ Cardinality(c.todo) <= Cardinality(Providers)  BY <2>1, FS_Subset
  <2>3. QED  BY <2>2, FS_CardinalityType, TimeIsNat DEF Frames
<1>2. TimeFits(q)'
  <2>1. CASE ctx'[q] = None  BY <2>1 DEF TimeFits
  <2>2. CASE Calls(q)
    <3>1. ctx'[q].time \in 1..MaxTime  BY <1>0, <2>2, CallStart
    <3>2. ctx'[q] # None => ctx'[q] \in Frames  BY <1>0 DEF TypeOK
    <3>3. QED  BY <1>1, <3>1, <3>2, TimeIsNat, BoundsAssumption DEF TimeFits
  <2>3. CASE Drawing(q)
    <3>1. ctx[q] \in Frames /\ ctx[q] # None  BY <1>0, <2>3, FrameAt DEF Drawing
    <3>2. ctx'[q].time = ctx[q].time /\ ctx'[q].todo = ctx[q].todo
      BY <2>3, <3>1 DEF Drawing, Frames
    <3>3. QED  BY <1>0, <3>1, <3>2 DEF Timely, TimeFits
  <2>4. CASE Moves(q)  BY <1>0, <2>4 DEF Moves, Timely, TimeFits
  <2>5. CASE NextOne(q)
    <3>1. ctx[q] \in Frames /\ ctx[q] # None /\ ctx[q].todo \in SUBSET Providers /\ ctx[q].todo # {}
      BY <1>0, <2>5, FrameAt DEF NextOne
    <3>2. ctx'[q].time = ctx[q].time + 1 /\ ctx'[q].todo = ctx[q].todo \ {Min(ctx[q].todo)}
      BY <2>5 DEF NextOne
    <3>3. Cardinality(ctx[q].todo) \in Nat /\ Cardinality(ctx'[q].todo) = Cardinality(ctx[q].todo) - 1
      BY <3>1, <3>2, RestCount
    <3>4. ctx[q].time \in Nat  BY <1>1, <3>1
    <3>5. ctx[q].time + Cardinality(ctx[q].todo) <= MaxTime + Cardinality(Providers)
      BY <1>0, <3>1 DEF Timely, TimeFits
    <3>6. ctx'[q].time + Cardinality(ctx'[q].todo) = ctx[q].time + Cardinality(ctx[q].todo)
      BY <3>2, <3>3, <3>4
    <3>7. QED  BY <3>5, <3>6 DEF TimeFits
  <2>6. QED  BY <2>1, <2>2, <2>3, <2>4, <2>5, MoveStep DEF ProcStep
<1>3. ASSUME NEW r \in Procs, r # q PROVE TimeFits(r)'
  BY <1>0, <1>3 DEF Others, Timely, TimeFits
<1>4. QED  BY <1>2, <1>3 DEF Timely

(* WritersStay: only a draw at b adds one who is writing the bundle at b.  *)
LEMMA WritersStay ==
  ASSUME IInv, NEW q \in Procs, ProcStep(q), NEW b, Drawing(q) => b # Target(q)
  PROVE  Writers(b)' \subseteq Writers(b)
<1>0. TypeOK /\ Others(q)  BY StepTypes
<1>1. ASSUME NEW r \in Procs, r # q, r \in Writers(b)' PROVE r \in Writers(b)
  BY <1>0, <1>1 DEF Others, Writers
<1>2. ASSUME q \in Writers(b)' PROVE q \in Writers(b)
  <2>1. pc'[q] \in Writing /\ ctx'[q].bundle = b  BY <1>2 DEF Writers
  <2>2. ~Calls(q)  BY <1>0, <2>1, CallStart
  <2>3. ~NextOne(q) /\ pc'[q] # "idle"  BY <2>1 DEF NextOne, Writing
  <2>4. ~Drawing(q)
    <3>1. SUFFICES ASSUME Drawing(q) PROVE FALSE  OBVIOUS
    <3>2. ctx[q] \in Frames  BY <1>0, <3>1, FrameAt DEF Drawing
    <3>3. ctx'[q].bundle = Target(q)  BY <3>1, <3>2 DEF Drawing, Frames
    <3>4. QED  BY <2>1, <3>1, <3>3
  <2>5. Moves(q)  BY <2>2, <2>3, <2>4, MoveStep DEF ProcStep
  <2>6. pc[q] \in Writing /\ ctx'[q] = ctx[q]  BY <2>1, <2>5 DEF Moves
  <2>7. QED  BY <2>1, <2>6 DEF Writers
<1>3. QED  BY <1>1, <1>2 DEF Writers

(* ProvidersKeep: a provider that has a blob keeps it, unless its bundle   *)
(* is shared: what ProviderWrite reads is the blob drawn, or nothing.      *)
LEMMA ProvidersKeep ==
  ASSUME IInv, NEW q \in Procs, ProcStep(q)
  PROVE  /\ \A p \in Providers : \A ph \in held[p] : ph \notin mixed' => ph \in held'[p]
         /\ ProviderWrite(q) /\ pc'[q] = "descriptor" /\ ctx[q].phrase \notin mixed'
              => ctx[q].phrase \in held'[Min(ctx[q].todo)]
<1>1. TypeOK  BY DEF IInv
<1>2. CASE ProviderWrite(q)
  <2> DEFINE c == ctx[q]
  <2>0. mixed' = mixed  BY <1>2 DEF ProviderWrite, sharing
  <2>1. pc[q] = "provider" /\ c.bundle \in DOMAIN bundles
    BY <1>2, OwnFile DEF ProviderWrite, Writing
  <2>2. Min(c.todo) \in Providers /\ c.phrase \in Phrases
    BY <1>1, <2>1, FrameAt, ProviderAt DEF FrameFits
  <2>3. c.phrase \notin mixed => Bundle(c.bundle).blob \in {c.phrase, None}
    BY <2>1 DEF IInv, OwnBundle, Writing, Bundle
  <2>4. CASE held' = held /\ Return(q)
    <3>1. pc'[q] = "idle"  BY <1>1, <2>4 DEF Return, GotoWith, TypeOK
    <3>2. QED  BY <2>4, <3>1
  <2>5. CASE /\ held' = Stored(Min(c.todo), c.phrase, Bundle(c.bundle).blob)
             /\ Bundle(c.bundle).blob # None
    <3>1. CASE Bundle(c.bundle).blob = c.phrase
      BY <1>1, <2>2, <2>5, <3>1 DEF Stored, TypeOK
    <3>2. CASE Bundle(c.bundle).blob # c.phrase
      <4>1. c.phrase \in mixed'  BY <2>0, <2>3, <2>5, <3>2
      <4>2. \A p \in Providers : \A ph \in held[p] : ph # c.phrase => ph \in held'[p]
        BY <1>1, <2>2, <2>5, <3>2 DEF Stored, TypeOK
      <4>3. QED  BY <4>1, <4>2
    <3>3. QED  BY <3>1, <3>2
  <2>6. QED  BY <1>2, <2>4, <2>5 DEF ProviderWrite
<1>3. CASE held' = held /\ ~ProviderWrite(q)  BY <1>3
<1>4. CASE Calls(q)
  <2>1. held' = held
    BY <1>4 DEF Calls, CallsAt, Enable, ProviderAdd, Generate, Rotate, RotateAll, Restore, Call
  <2>2. ~ProviderWrite(q)  BY <1>1, <1>4, CallStart DEF ProviderWrite
  <2>3. QED  BY <2>1, <2>2
<1>5. QED
  BY <1>2, <1>3, <1>4
  DEF ProcStep, WriteSteps, LaterSteps, DrawPhrase, WriteFirstManifest, WriteDescriptor,
      WriteStateFile, UpsertV2, UpsertV3, AppendEvent, RestoreWrite, Abort

(* Kept: bundles stay; one that nobody is writing keeps its manifest, and  *)
(* none but a draw changes that; providers keep what is not mixed up.      *)
Kept ==
  /\ drawn' >= drawn /\ mixed \subseteq mixed' /\ DOMAIN bundles \subseteq DOMAIN bundles'
  /\ \A b \in DOMAIN bundles :
       \/ latest'[b] = drawn + 1
       \/ /\ latest'[b] = latest[b] /\ Writers(b)' \subseteq Writers(b)
          /\ Writers(b) = {} => bundles'[b].manifest = bundles[b].manifest
  /\ \A p \in Providers : \A ph \in held[p] : ph \notin mixed' => ph \in held'[p]

(* StepKeeps: a step of a process keeps them.                              *)
LEMMA StepKeeps ==
  ASSUME IInv, NEW q \in Procs, ProcStep(q)
  PROVE  Kept
<1>0. TypeOK /\ drawn \in Nat  BY DEF IInv, TypeOK
<1>1. \A p \in Providers : \A ph \in held[p] : ph \notin mixed' => ph \in held'[p]  BY ProvidersKeep
<1>2. CASE Drawing(q)
  <2> DEFINE b == Target(q)
  <2>1. /\ drawn' = drawn + 1 /\ mixed \subseteq mixed' /\ bundles' = WithBlob(b, drawn + 1)
        /\ latest' = [x \in DOMAIN latest \cup {b} |-> IF x = b THEN drawn + 1 ELSE latest[x]]
    BY <1>2 DEF Drawing
  <2>2. DOMAIN latest = DOMAIN bundles  BY <1>0 DEF TypeOK
  <2>3. ASSUME NEW a \in DOMAIN bundles, a # b
        PROVE  /\ latest'[a] = latest[a] /\ Writers(a)' \subseteq Writers(a)
               /\ bundles'[a].manifest = bundles[a].manifest
    <3>1. Writers(a)' \subseteq Writers(a)  BY <2>3, WritersStay
    <3> HIDE DEF b
    <3>2. QED  BY <2>1, <2>2, <2>3, <3>1, BlobAt
  <2> HIDE DEF b
  <2>4. latest'[b] = drawn + 1 /\ DOMAIN bundles \subseteq DOMAIN bundles'  BY <2>1, BlobAt
  <2>5. \A a \in DOMAIN bundles :
          \/ latest'[a] = drawn + 1
          \/ /\ latest'[a] = latest[a] /\ Writers(a)' \subseteq Writers(a)
             /\ Writers(a) = {} => bundles'[a].manifest = bundles[a].manifest
    BY <2>3, <2>4
  <2>6. QED  BY <1>0, <1>1, <2>1, <2>4, <2>5 DEF Kept
<1>3. CASE ~Drawing(q)
  <2>1. Beside(q)  BY <1>0, <1>3, FilesStep
  <2>2. \A a \in DOMAIN bundles : Writers(a)' \subseteq Writers(a)  BY <1>3, WritersStay
  <2>3. /\ DOMAIN bundles \subseteq DOMAIN bundles'
        /\ \A a \in DOMAIN bundles : Writers(a) = {} => bundles'[a].manifest = bundles[a].manifest
    <3>1. CASE bundles' = bundles  BY <3>1
    <3>2. CASE Tearing(q)  BY <3>2, BlobAt DEF Tearing
    <3>3. ASSUME NEW m, Describing(q, m)
          PROVE  /\ DOMAIN bundles \subseteq DOMAIN bundles'
                 /\ \A a \in DOMAIN bundles : Writers(a) = {} => bundles'[a].manifest = bundles[a].manifest
      <4>1. q \in Writers(ctx[q].bundle) /\ ctx[q].bundle \in DOMAIN bundles
        BY <3>3, OwnFile DEF Describing, Writers
      <4>2. QED  BY <3>3, <4>1, ManifestAt DEF Describing
    <3>4. ASSUME NEW x, Restoring(q, x)
          PROVE  /\ DOMAIN bundles \subseteq DOMAIN bundles'
                 /\ \A a \in DOMAIN bundles : Writers(a) = {} => bundles'[a].manifest = bundles[a].manifest
      BY <3>4, BlobAt DEF Restoring
    <3>5. QED  BY <1>0, <1>3, <3>1, <3>2, <3>3, <3>4, FilesStep
  <2>4. QED  BY <1>0, <1>1, <2>1, <2>2, <2>3 DEF Kept, Beside
<1>4. QED  BY <1>2, <1>3

(* AnsweredStays: so what has been answered stays good.                    *)
LEMMA AnsweredStays ==
  ASSUME TypeOK, TypeOK', Kept, NEW x \in Phrases \X BundlePaths, Answered(x)
  PROVE  Answered(x)'
<1> DEFINE ph == x[1]
           b == x[2]
<1>0. ph \in Nat /\ drawn \in Nat /\ drawn' \in Nat  BY DEF TypeOK, Phrases
<1>1. ph <= drawn' /\ b \in DOMAIN bundles /\ b \in DOMAIN bundles'  BY <1>0 DEF Answered, Kept
<1>2. ASSUME latest'[b] = ph, ph \notin mixed' PROVE Settled(b, ph)'
  <2>1. /\ latest'[b] = latest[b] /\ Writers(b)' \subseteq Writers(b)
        /\ Writers(b) = {} => bundles'[b].manifest = bundles[b].manifest
    <3>1. latest'[b] # drawn + 1  BY <1>0, <1>2 DEF Answered
    <3>2. QED  BY <1>1, <3>1 DEF Kept
  <2>2. Settled(b, ph)  BY <1>2, <2>1 DEF Answered, Kept
  <2>3. QED  BY <2>1, <2>2 DEF Settled
<1>3. QED  BY <1>1, <1>2 DEF Answered

(* HeldTrue: what a step adds to a manifest is true.                       *)
LEMMA HeldTrue ==
  ASSUME IInv, NEW q \in Procs, ProcStep(q)
  PROVE  DescriptorHasBlob'
<1>0. TypeOK /\ DescriptorHasBlob /\ Kept  BY StepKeeps DEF IInv
<1> DEFINE True(m) == m # None /\ m.escrow # None /\ m.phrase \notin mixed' => m.phrase \in held'[m.escrow]
<1>1. ASSUME NEW a \in DOMAIN bundles PROVE True(bundles[a].manifest)
  <2> DEFINE m == bundles[a].manifest
  <2>1. SUFFICES ASSUME m # None, m.escrow # None, m.phrase \notin mixed' PROVE m.phrase \in held'[m.escrow]
    OBVIOUS
  <2>2. m.phrase \in held[m.escrow]  BY <1>0, <2>1 DEF DescriptorHasBlob, Escrowed, Kept
  <2>3. m \in Manifests  BY <1>0, <2>1 DEF TypeOK, Bundles
  <2>4. m.escrow \in Providers  BY <2>1, <2>3 DEF Manifests
  <2>5. QED  BY <1>0, <2>1, <2>2, <2>4 DEF Kept
<1>2. \A a \in DOMAIN bundles' : True(bundles'[a].manifest)
  <2>1. ASSUME NEW b, NEW x, bundles' = WithBlob(b, x)
        PROVE  \A a \in DOMAIN bundles' : True(bundles'[a].manifest)
    <3>1. /\ DOMAIN bundles' = DOMAIN bundles \cup {b}
          /\ \A a \in DOMAIN bundles : bundles'[a].manifest = bundles[a].manifest
          /\ b \notin DOMAIN bundles => bundles'[b].manifest = None
      BY <2>1, BlobAt
    <3>2. QED  BY <1>1, <3>1
  <2>2. CASE bundles' = bundles  BY <1>1, <2>2
  <2>3. ASSUME NEW m, Describing(q, m) PROVE \A a \in DOMAIN bundles' : True(bundles'[a].manifest)
    <3>1. ctx[q].bundle \in DOMAIN bundles  BY <2>3, OwnFile DEF Describing
    <3>2. /\ DOMAIN bundles' = DOMAIN bundles /\ bundles'[ctx[q].bundle].manifest = m
          /\ \A a \in DOMAIN bundles : a # ctx[q].bundle => bundles'[a] = bundles[a]
      BY <2>3, <3>1, ManifestAt DEF Describing
    <3>3. True(m)
      <4>1. SUFFICES ASSUME m # None, m.escrow # None, m.phrase \notin mixed'
                     PROVE  m.phrase \in held'[m.escrow]
        OBVIOUS
      <4>2. pc[q] = "descriptor" /\ m = [phrase |-> ctx[q].phrase, escrow |-> Min(ctx[q].todo)]
        BY <2>3, <4>1 DEF Describing
      <4>3. ctx[q].phrase \in held[Min(ctx[q].todo)]
        BY <1>0, <4>1, <4>2 DEF IInv, Achieved, Kept
      <4>4. Min(ctx[q].todo) \in Providers  BY <1>0, <4>2, FrameAt, ProviderAt DEF FrameFits
      <4>5. QED  BY <1>0, <4>1, <4>2, <4>3, <4>4 DEF Kept
    <3>4. QED  BY <1>1, <3>2, <3>3
  <2>4. QED
    BY <1>0, <2>1, <2>2, <2>3, FilesStep DEF Drawing, Tearing, Restoring
<1>3. QED  BY <1>2 DEF DescriptorHasBlob, Escrowed

-----------------------------------------------------------------------------
(* A call is alone with the bundle it is writing, unless it is shared.     *)

(* OwnedByOther: OwnBundle for a process that does not move.               *)
LEMMA OwnedByOther ==
  ASSUME IInv, NEW q \in Procs, ProcStep(q), NEW r \in Procs, r # q
  PROVE  OwnBundle(r)'
<1>0. TypeOK /\ TypeOK' /\ Kept /\ OwnBundle(r)  BY StepTypes, StepKeeps DEF IInv
<1>1. pc'[r] = pc[r] /\ ctx'[r] = ctx[r] /\ Others(q)  BY StepTypes DEF Others
<1>2. pc[r] \in Writing => ctx[r].phrase <= drawn'
  <2>1. ASSUME pc[r] \in Writing PROVE ctx[r].phrase \in Phrases
    BY <1>0, <2>1, FrameAt DEF FrameFits, Writing
  <2>2. QED  BY <1>0, <2>1 DEF OwnBundle, Kept, TypeOK, Phrases
<1>7. PICK b : b = ctx[r].bundle /\ b = ctx'[r].bundle  BY <1>1
<1>3. ASSUME pc[r] \in Writing, ctx[r].phrase \notin mixed'
      PROVE  /\ bundles'[b].blob \in {ctx[r].phrase, None}
             /\ Writers(b)' \cup Restorers(b)' \subseteq {r}
  <2>1. b \in DOMAIN bundles /\ r \in Writers(b)  BY <1>3, <1>7, OwnFile DEF Writers
  <2>2. /\ bundles[b].blob \in {ctx[r].phrase, None}
        /\ Writers(b) \cup Restorers(b) \subseteq {r}
    BY <1>0, <1>3, <1>7 DEF OwnBundle, Kept
  <2>3. ~ (PhrasesOf(Writers(b)) \subseteq mixed')  BY <1>3, <2>1 DEF PhrasesOf
  <2>4. Drawing(q) => Target(q) # b  BY <2>3 DEF Drawing
  <2>5. Writers(b)' \subseteq {r}  BY <2>2, <2>4, WritersStay
  <2>6. Restorers(b)' \subseteq {r}
    <3>1. ASSUME NEW s \in Procs, s # r, pc'[s] = "restore", ctx'[s].bundle = b PROVE FALSE
      <4>1. CASE s # q  BY <1>1, <2>2, <3>1, <4>1 DEF Others, Restorers
      <4>2. CASE s = q
        <5>1. CASE Calls(q)  BY <1>0, <2>3, <3>1, <4>2, <5>1, CallStart
        <5>2. CASE ~Calls(q)
          <6>1. pc'[q] \notin {"idle", "manifest", "draw"}  BY <3>1, <4>2
          <6>2. Moves(q)  BY <5>2, <6>1, MoveStep DEF ProcStep, Drawing, NextOne
          <6>3. QED  BY <3>1, <4>2, <6>2 DEF Moves
        <5>3. QED  BY <5>1, <5>2
      <4>3. QED  BY <4>1, <4>2
    <3>2. QED  BY <3>1 DEF Restorers
  <2>7. bundles'[b] = bundles[b]
    <3>1. q \notin Writers(b) \cup Restorers(b)  BY <2>2
    <3>2. ASSUME Drawing(q) \/ Tearing(q) PROVE bundles'[b] = bundles[b]
      <4>0. PICK a : a = Target(q)  OBVIOUS
      <4>1. PICK x : bundles' = WithBlob(a, x)  BY <3>2, <4>0 DEF Drawing, Tearing
      <4>2. a # b  BY <2>3, <2>4, <3>2, <4>0 DEF Tearing
      <4>3. QED  BY <2>1, <4>1, <4>2 DEF WithBlob, With
    <3>3. ASSUME NEW m, Describing(q, m) PROVE bundles'[b] = bundles[b]
      <4>1. ctx[q].bundle # b  BY <3>1, <3>3 DEF Describing, Writers
      <4>2. ctx[q].bundle \in DOMAIN bundles  BY <3>3, OwnFile DEF Describing
      <4>3. QED  BY <2>1, <3>3, <4>1, <4>2, ManifestAt DEF Describing
    <3>4. ASSUME NEW x, Restoring(q, x) PROVE bundles'[b] = bundles[b]
      <4>1. ctx[q].bundle # b  BY <3>1, <3>4 DEF Restoring, Restorers
      <4>2. QED  BY <2>1, <3>4, <4>1, BlobAt DEF Restoring
    <3>5. CASE bundles' = bundles  BY <3>5
    <3>6. QED  BY <1>0, <3>2, <3>3, <3>4, <3>5, FilesStep
  <2>8. QED  BY <2>2, <2>5, <2>6, <2>7
<1>4. ctx[r] # None /\ ctx[r].bundle # None => ctx[r].bundle \in DOMAIN bundles'
  BY <1>0 DEF OwnBundle, Kept
<1>6. QED  BY <1>1, <1>2, <1>3, <1>4, <1>7 DEF OwnBundle, Writers, Restorers

(* OwnedBySelf: OwnBundle for the process that moves.                      *)
LEMMA OwnedBySelf ==
  ASSUME IInv, NEW q \in Procs, ProcStep(q)
  PROVE  OwnBundle(q)'
<1>0. TypeOK /\ TypeOK' /\ Others(q) /\ Kept /\ OwnBundle(q)  BY StepTypes, StepKeeps DEF IInv
<1>2. CASE pc'[q] = "idle" /\ ctx'[q] = None  BY <1>2 DEF OwnBundle, Writing
<1>3. CASE Calls(q)  BY <1>0, <1>3, CallStart DEF OwnBundle, Kept
<1>4. CASE Drawing(q)
  <2>0. PICK b : b = Target(q)  OBVIOUS
  <2>1. ctx[q] \in Frames  BY <1>0, <1>4, FrameAt DEF Drawing
  <2>2. ctx'[q].bundle = b /\ ctx'[q].phrase = drawn + 1  BY <1>4, <2>0, <2>1 DEF Drawing, Frames
  <2>3. /\ bundles' = WithBlob(b, drawn + 1) /\ drawn' = drawn + 1
        /\ Writers(b) \cup Restorers(b) # {} => drawn + 1 \in mixed'
    BY <1>4, <2>0 DEF Drawing
  <2>4. b \in DOMAIN bundles' /\ bundles'[b].blob = drawn + 1  BY <2>3, BlobAt
  <2>5. ASSUME drawn + 1 \notin mixed' PROVE Writers(b)' \cup Restorers(b)' \subseteq {q}
    <3>1. Writers(b) = {} /\ Restorers(b) = {}  BY <2>3, <2>5
    <3>2. QED  BY <1>0, <3>1 DEF Others, Writers, Restorers
  <2>6. drawn + 1 <= drawn'  BY <1>0, <2>3 DEF TypeOK
  <2>7. QED  BY <2>2, <2>4, <2>5, <2>6 DEF OwnBundle, Writers, Restorers
<1>5. CASE NextOne(q)
  <2>1. pc[q] = "stateFile" /\ pc'[q] = "draw" /\ ctx'[q].bundle = ctx[q].bundle
    BY <1>5 DEF NextOne
  <2>2. ctx[q] # None  BY <1>0, <2>1, FrameAt
  <2>3. QED  BY <1>0, <2>1, <2>2 DEF OwnBundle, Writing, Kept
<1>6. CASE Moves(q)
  <2>0. PICK b : b = ctx[q].bundle  OBVIOUS
  <2>1. pc[q] # "idle" /\ ctx'[q] = ctx[q] /\ (pc'[q] \in Writing => pc[q] \in Writing \ {"descriptor"})
    BY <1>6 DEF Moves
  <2>2. ctx[q] # None  BY <1>0, <2>1, FrameAt
  <2>3. ASSUME pc'[q] \in Writing PROVE ctx[q].phrase <= drawn'
    <3>1. ctx[q].phrase \in Phrases  BY <1>0, <2>1, <2>3, FrameAt DEF FrameFits, Writing
    <3>2. QED  BY <1>0, <2>1, <2>3, <3>1 DEF OwnBundle, Kept, TypeOK, Phrases
  <2>4. ASSUME pc'[q] \in Writing, ctx[q].phrase \notin mixed'
        PROVE  /\ bundles'[b].blob \in {ctx[q].phrase, None}
               /\ Writers(b)' \cup Restorers(b)' \subseteq {q}
    <3>1. /\ b \in DOMAIN bundles /\ bundles[b].blob \in {ctx[q].phrase, None}
          /\ Writers(b) \cup Restorers(b) \subseteq {q}
      BY <1>0, <2>0, <2>1, <2>4, OwnFile DEF OwnBundle, Kept
    <3>2. Writers(b)' \cup Restorers(b)' \subseteq {q}
      BY <1>0, <3>1 DEF Others, Writers, Restorers
    <3>3. CASE bundles' = bundles  BY <3>1, <3>2, <3>3
    <3>4. ASSUME NEW m, Describing(q, m) PROVE bundles'[b].blob = bundles[b].blob
      BY <2>0, <3>1, <3>4, ManifestAt DEF Describing
    <3>5. ~Drawing(q) /\ ~Tearing(q) /\ \A x : ~Restoring(q, x)
      BY <2>1, <2>4 DEF Drawing, Tearing, Restoring, Writing
    <3>6. QED  BY <1>0, <3>1, <3>2, <3>3, <3>4, <3>5, FilesStep
  <2>5. QED  BY <1>0, <2>0, <2>1, <2>2, <2>3, <2>4 DEF OwnBundle, Writers, Restorers, Kept
<1>7. QED  BY <1>2, <1>3, <1>4, <1>5, <1>6, MoveStep DEF ProcStep

-----------------------------------------------------------------------------
(* What a rotation has achieved.                                           *)

(* AnswerTyped: what a rotation is going to return, and has returned.      *)
LEMMA AnswerTyped ==
  ASSUME TypeOK, NEW q \in Procs
  PROVE  /\ pc[q] \in Later /\ ctx[q].op \in Rotations => <<ctx[q].phrase, ctx[q].bundle>> \in Phrases \X BundlePaths
         /\ ctx[q] # None => ctx[q].phrases \subseteq Phrases \X BundlePaths
<1>1. ASSUME pc[q] \in Later, ctx[q].op \in Rotations
      PROVE  ctx[q].phrase \in Phrases /\ ctx[q].bundle \in BundlePaths
  BY <1>1, FrameAt DEF FrameFits, Later, Rotations
<1>2. ctx[q] # None => ctx[q] \in Frames  BY DEF TypeOK
<1>3. QED  BY <1>1, <1>2 DEF Frames

(* AchievedByOther: it stays achieved whatever others do.                  *)
LEMMA AchievedByOther ==
  ASSUME IInv, TypeOK', NEW r \in Procs, pc'[r] = pc[r], ctx'[r] = ctx[r], Kept
  PROVE  Achieved(r)'
<1>0. TypeOK /\ Achieved(r)  BY DEF IInv
<1>1. ASSUME pc[r] = "descriptor", ctx[r].phrase \notin mixed'
      PROVE  ctx[r].phrase \in held'[Min(ctx[r].todo)]
  <2>1. Min(ctx[r].todo) \in Providers  BY <1>0, <1>1, FrameAt, ProviderAt DEF FrameFits
  <2>2. QED  BY <1>0, <1>1, <2>1 DEF Achieved, Kept
<1>2. ASSUME pc[r] \in Later, ctx[r].op \in Rotations PROVE Answered(<<ctx[r].phrase, ctx[r].bundle>>)'
  <2>1. PICK x : x = <<ctx[r].phrase, ctx[r].bundle>>  OBVIOUS
  <2>2. x \in Phrases \X BundlePaths /\ Answered(x)  BY <1>0, <1>2, <2>1, AnswerTyped DEF Achieved
  <2>3. Answered(x)'  BY <1>0, <2>2, AnsweredStays
  <2>4. <<ctx'[r].phrase, ctx'[r].bundle>> = x  BY <2>1
  <2>5. QED  BY <2>3, <2>4
<1>3. ASSUME ctx[r] # None, NEW x \in ctx[r].phrases PROVE Answered(x)'
  <2>1. Answered(x) /\ x \in Phrases \X BundlePaths  BY <1>0, <1>3, AnswerTyped DEF Achieved
  <2>2. QED  BY <1>0, <2>1, AnsweredStays
<1>4. QED  BY <1>1, <1>2, <1>3 DEF Achieved

(* DescriptorSettles: WriteDescriptor answers for its phrase.              *)
LEMMA DescriptorSettles ==
  ASSUME IInv, NEW q \in Procs, WriteDescriptor(q)
  PROVE  Answered(<<ctx[q].phrase, ctx[q].bundle>>)'
<1>0. ProcStep(q)  BY DEF ProcStep, WriteSteps
<1>1. TypeOK /\ TypeOK' /\ Others(q) /\ Kept /\ OwnBundle(q)  BY <1>0, StepTypes, StepKeeps DEF IInv
<1>2. pc[q] = "descriptor" /\ pc'[q] \notin Writing /\ ctx'[q] = ctx[q] /\ drawn' = drawn
  BY <1>1 DEF WriteDescriptor, Goto, GotoWith, Writing, TypeOK
<1>3. PICK b, ph : b = ctx[q].bundle /\ ph = ctx[q].phrase  OBVIOUS
<1>4. b \in DOMAIN bundles /\ ph \in Phrases /\ Min(ctx[q].todo) \in Providers
  BY <1>1, <1>2, <1>3, OwnFile, FrameAt, ProviderAt DEF Writing, FrameFits
<1>5. PICK m : m = [phrase |-> ph, escrow |-> Min(ctx[q].todo)]  OBVIOUS
<1>6. DOMAIN bundles' = DOMAIN bundles /\ bundles'[b].manifest = m
  BY <1>3, <1>4, <1>5, ManifestAt DEF WriteDescriptor
<1>7. m # None /\ m.escrow # None /\ m.phrase = ph
  <2>1. m \in Manifests  BY <1>4, <1>5 DEF Manifests
  <2>2. QED  BY <1>4, <1>5, <2>1, NoneIsNoRow, DirParts
<1>8. ph <= drawn'  BY <1>1, <1>2, <1>3 DEF OwnBundle, Writing
<1>9. ASSUME ph \notin mixed' PROVE Writers(b)' = {}
  <2>1. Writers(b) \subseteq {q}  BY <1>1, <1>2, <1>3, <1>9 DEF OwnBundle, Writing, Kept
  <2>2. QED  BY <1>1, <1>2, <2>1 DEF Others, Writers
<1>10. Answered(<<ph, b>>)'  BY <1>4, <1>6, <1>7, <1>8, <1>9 DEF Answered, Settled
<1>11. <<ctx'[q].phrase, ctx'[q].bundle>> = <<ph, b>>  BY <1>2, <1>3
<1>12. QED  BY <1>10, <1>11

(* AchievedBySelf: each step of a rotation adds its part.                  *)
LEMMA AchievedBySelf ==
  ASSUME IInv, NEW q \in Procs, ProcStep(q)
  PROVE  Achieved(q)'
<1>0. TypeOK /\ TypeOK' /\ Achieved(q) /\ Kept  BY StepTypes, StepKeeps DEF IInv
<1>1. ASSUME ctx[q] # None, NEW x \in ctx[q].phrases PROVE Answered(x)'
  BY <1>0, <1>1, AnswerTyped, AnsweredStays DEF Achieved
<1>2. CASE pc'[q] = "idle" /\ ctx'[q] = None  BY <1>2 DEF Achieved, Later
<1>3. CASE Calls(q)
  <2>1. pc'[q] # "descriptor" /\ ctx'[q].phrases = {}
    BY <1>0, <1>3, CallStart DEF Writing
  <2>2. pc'[q] # "draw" => ctx'[q].op \notin Rotations  BY <1>0, <1>3, CallStart
  <2>3. QED  BY <2>1, <2>2 DEF Achieved, Later
<1>4. CASE Drawing(q)
  <2>1. ctx[q] \in Frames /\ ctx[q] # None  BY <1>0, <1>4, FrameAt DEF Drawing
  <2>2. pc'[q] = "manifest" /\ ctx'[q].phrases = ctx[q].phrases
    BY <1>4, <2>1 DEF Drawing, Frames
  <2>3. QED  BY <1>1, <2>1, <2>2 DEF Achieved, Later
<1>5. CASE NextOne(q)
  <2>1. /\ pc[q] = "stateFile" /\ ctx[q].op = "rotateAll" /\ pc'[q] = "draw"
        /\ ctx'[q].phrases = ctx[q].phrases \cup {<<ctx[q].phrase, ctx[q].bundle>>}
    BY <1>5 DEF NextOne
  <2>2. ctx[q] # None  BY <1>0, <2>1, FrameAt
  <2>3. PICK x : x = <<ctx[q].phrase, ctx[q].bundle>>  OBVIOUS
  <2>4. x \in Phrases \X BundlePaths /\ Answered(x)
    BY <1>0, <2>1, <2>3, AnswerTyped DEF Achieved, Later, Rotations
  <2>5. Answered(x)'  BY <1>0, <2>4, AnsweredStays
  <2>6. \A y \in ctx'[q].phrases : Answered(y)'  BY <1>1, <2>1, <2>2, <2>3, <2>5
  <2>7. QED  BY <2>1, <2>6 DEF Achieved, Later
<1>6. CASE Moves(q)
  <2>1. pc[q] # "idle" /\ ctx'[q] = ctx[q]  BY <1>6 DEF Moves
  <2>2. ctx[q] # None  BY <1>0, <2>1, FrameAt
  <2>3. \A x \in ctx[q].phrases : Answered(x)'  BY <1>1, <2>2
  <2>4. pc'[q] = "descriptor" /\ ctx[q].phrase \notin mixed' => ctx[q].phrase \in held'[Min(ctx[q].todo)]
    BY <1>6, ProvidersKeep DEF Moves
  <2>5. ASSUME pc'[q] \in Later, ctx[q].op \in Rotations PROVE Answered(<<ctx[q].phrase, ctx[q].bundle>>)'
    <3>1. CASE WriteDescriptor(q)  BY <3>1, DescriptorSettles
    <3>2. CASE pc[q] \in Later
      <4>1. PICK x : x = <<ctx[q].phrase, ctx[q].bundle>>  OBVIOUS
      <4>2. x \in Phrases \X BundlePaths /\ Answered(x)
        BY <1>0, <2>5, <3>2, <4>1, AnswerTyped DEF Achieved
      <4>3. Answered(x)'  BY <1>0, <4>2, AnsweredStays
      <4>4. <<ctx'[q].phrase, ctx'[q].bundle>> = x  BY <2>1, <4>1
      <4>5. QED  BY <4>3, <4>4
    <3>3. pc[q] \in Writing \cup Later
      <4>1. pc[q] \in Pcs \ {"idle", "draw"}  BY <1>0, <1>6 DEF Moves, TypeOK
      <4>2. pc[q] # "restore"  BY <1>0, <2>5 DEF TypeOK, FrameFits, Rotations
      <4>3. QED  BY <4>1, <4>2 DEF Pcs, Writing, Later
    <3>4. QED  BY <1>6, <2>5, <3>1, <3>2, <3>3 DEF Moves, Writing, Later, Rotations
  <2>6. QED  BY <2>1, <2>3, <2>4, <2>5 DEF Achieved
<1>7. QED  BY <1>2, <1>3, <1>4, <1>5, <1>6, MoveStep DEF ProcStep

(* ToldStep: what a rotation returns is answered for.                      *)
LEMMA ToldStep ==
  ASSUME IInv, NEW q \in Procs, ProcStep(q), NEW x \in told'
  PROVE  Answered(x)'
<1>0. TypeOK /\ TypeOK' /\ Kept  BY StepTypes, StepKeeps
<1>1. x \in Phrases \X BundlePaths  BY <1>0 DEF TypeOK
<1>2. SUFFICES Answered(x)  BY <1>0, <1>1, AnsweredStays
<1>3. CASE told' = told  BY <1>3 DEF IInv
<1>4. CASE AppendEvent(q)
  <2>1. CASE ctx[q].op = "rotate" /\ told' = told \cup {<<ctx[q].phrase, ctx[q].bundle>>}
    <3>1. Answered(<<ctx[q].phrase, ctx[q].bundle>>)
      BY <1>4, <2>1 DEF IInv, Achieved, AppendEvent, Later, Rotations
    <3>2. QED  BY <2>1, <3>1 DEF IInv
  <2>2. QED  BY <1>3, <1>4, <2>1 DEF AppendEvent
<1>5. CASE WriteStateFile(q)
  <2>1. CASE ctx[q].op # "rotateAll"  BY <1>3, <1>5, <2>1 DEF WriteStateFile
  <2>2. CASE ctx[q].op = "rotateAll" /\ told' = told \cup ctx[q].phrases \cup {<<ctx[q].phrase, ctx[q].bundle>>}
    <3>1. Answered(<<ctx[q].phrase, ctx[q].bundle>>)
      BY <1>5, <2>2 DEF IInv, Achieved, WriteStateFile, Later, Rotations
    <3>2. ctx[q] # None  BY <1>0, <1>5, FrameAt DEF WriteStateFile
    <3>3. QED  BY <2>2, <3>1, <3>2 DEF IInv, Achieved
  <2>3. QED  BY <1>0, <1>3, <1>5, <2>1, <2>2, NextOneStep
<1>6. CASE Calls(q)  BY <1>0, <1>3, <1>6, CallStart
<1>7. QED
  BY <1>3, <1>4, <1>5, <1>6
  DEF ProcStep, WriteSteps, LaterSteps, DrawPhrase, WriteFirstManifest, ProviderWrite,
      WriteDescriptor, UpsertV2, UpsertV3, RestoreWrite, Abort, Fault

(* EnvStep: outages and lost blobs.                                        *)
LEMMA EnvStep ==
  ASSUME IInv, EnvSteps
  PROVE  IInv'
<1>0. TypeOK /\ Timely /\ DescriptorHasBlob  BY DEF IInv
<1>1. TypeOK' /\ UNCHANGED <<drawn, told, held, latest, mixed, pc, ctx>>  BY <1>0, EnvTypes
<1>2. /\ DOMAIN bundles' = DOMAIN bundles
      /\ \A b \in DOMAIN bundles : bundles'[b].manifest = bundles[b].manifest
                                   /\ bundles'[b].blob \in {bundles[b].blob, None}
  <2>1. CASE bundles' = bundles  BY <2>1
  <2>2. ASSUME NEW a \in DOMAIN bundles, LoseBlob(a)
        PROVE  /\ DOMAIN bundles' = DOMAIN bundles
               /\ \A b \in DOMAIN bundles : bundles'[b].manifest = bundles[b].manifest
                                            /\ bundles'[b].blob \in {bundles[b].blob, None}
    BY <2>2 DEF LoseBlob, WithBlob, With, Bundle
  <2>3. QED  BY <2>1, <2>2 DEF EnvSteps, Outage, files
<1>3. Kept
  <2>1. drawn \in Nat  BY <1>0 DEF TypeOK
  <2>2. \A b : Writers(b)' = Writers(b)  BY <1>1 DEF Writers
  <2>3. QED  BY <1>1, <1>2, <2>1, <2>2 DEF Kept
<1>4. Timely'  BY <1>0, <1>1 DEF Timely, TimeFits
<1>5. DescriptorHasBlob'  BY <1>0, <1>1, <1>2 DEF DescriptorHasBlob, Escrowed
<1>6. \A x \in told' : Answered(x)'
  BY <1>0, <1>1, <1>3, AnsweredStays DEF IInv, TypeOK
<1>7. \A q \in Procs : Achieved(q)'  BY <1>1, <1>3, AchievedByOther
<1>8. ASSUME NEW q \in Procs PROVE OwnBundle(q)'
  <2>1. OwnBundle(q)  BY DEF IInv
  <2>2. pc[q] \in Writing => ctx[q].bundle \in DOMAIN bundles  BY OwnFile
  <2>3. QED  BY <1>1, <1>2, <2>1, <2>2 DEF OwnBundle, Writers, Restorers
<1>9. QED  BY <1>1, <1>4, <1>5, <1>6, <1>7, <1>8 DEF IInv

(* Inductive: every step preserves the invariant.                          *)
LEMMA Inductive == IInv /\ [Next]_vars => IInv'
<1>1. ASSUME IInv, UNCHANGED vars PROVE IInv'
  BY <1>1
  DEF vars, files, config, sharing, IInv, TypeOK, Timely, TimeFits, DescriptorHasBlob, Escrowed,
      Answered, Settled, OwnBundle, Writers, Restorers, Achieved
<1>2. ASSUME IInv, NEW q \in Procs, ProcStep(q) PROVE IInv'
  <2>1. TypeOK' /\ Others(q) /\ Kept  BY <1>2, StepTypes, StepKeeps
  <2>2. Timely'  BY <1>2, TimeStep
  <2>3. DescriptorHasBlob'  BY <1>2, HeldTrue
  <2>4. \A x \in told' : Answered(x)'  BY <1>2, ToldStep
  <2>5. ASSUME NEW r \in Procs PROVE OwnBundle(r)' /\ Achieved(r)'
    <3>1. CASE r = q  BY <1>2, <3>1, OwnedBySelf, AchievedBySelf
    <3>2. CASE r # q
      <4>1. pc'[r] = pc[r] /\ ctx'[r] = ctx[r]  BY <2>1, <3>2 DEF Others
      <4>2. QED  BY <1>2, <2>1, <3>2, <4>1, OwnedByOther, AchievedByOther
    <3>3. QED  BY <3>1, <3>2
  <2>6. QED  BY <2>1, <2>2, <2>3, <2>4, <2>5 DEF IInv
<1>3. Next => EnvSteps \/ \E q \in Procs : ProcStep(q)
  BY DEF Next, EnvSteps, ProcStep, Calls, CallsAt, WriteSteps, LaterSteps
<1>4. QED  BY <1>1, <1>2, <1>3, EnvStep

(* Initially: before the first call.                                       *)
LEMMA Initially == Init => IInv
<1> SUFFICES ASSUME Init PROVE IInv  OBVIOUS
<1>1. DOMAIN bundles = {} /\ told = {} /\ \A q \in Procs : pc[q] = "idle" /\ ctx[q] = None
  BY DEF Init
<1>2. TypeOK
  <2>1. bundles \in [DOMAIN bundles -> Bundles] /\ latest \in [DOMAIN bundles -> Phrases]
    BY <1>1 DEF Init
  <2>2. \A q \in Procs : FrameFits(pc[q], ctx[q])  BY <1>1 DEF FrameFits
  <2>3. QED  BY <1>1, <2>1, <2>2, BoundsAssumption DEF Init, TypeOK, Pcs
<1>3. Timely  BY <1>1 DEF Timely, TimeFits
<1>4. \A q \in Procs : OwnBundle(q) /\ Achieved(q)  BY <1>1 DEF OwnBundle, Achieved, Writing, Later
<1>5. QED  BY <1>1, <1>2, <1>3, <1>4 DEF IInv, DescriptorHasBlob

-----------------------------------------------------------------------------
(* Invariance: the invariant always holds.                                 *)
LEMMA Invariance == Spec => []IInv
<1>1. QED  BY Initially, Inductive, PTL DEF Spec

(* TypeCorrect: bundles, tables and frames are always well typed; in       *)
(* particular the times that rotate_all counts up stay below the bound.    *)
THEOREM TypeCorrect == Spec => []TypeOK
<1>1. IInv => TypeOK  BY DEF IInv
<1>2. QED  BY <1>1, Invariance, PTL

(* EscrowIsThere: a manifest that write_recovery_manifest left on disk     *)
(* never names a provider that does not have the complete blob, also where *)
(* calls with one now_ms followed each other, unless two calls were        *)
(* writing its bundle at once.                                             *)
THEOREM EscrowIsThere == Spec => []DescriptorHasBlob
<1>1. IInv => DescriptorHasBlob  BY DEF IInv
<1>2. QED  BY <1>1, Invariance, PTL

(* ReturnedPhraseRecovers: a phrase that the rotate or rotate_all service  *)
(* returned can be restored and verified, whatever fails later, until a    *)
(* call with the same now_ms draws over its bundle, unless another call    *)
(* was writing the bundle together with it.                                *)
THEOREM ReturnedPhraseRecovers == Spec => []ToldPhraseRecovers
<1>1. ASSUME IInv PROVE ToldPhraseRecovers
  <2>1. ASSUME NEW ph \in Phrases, NEW b \in DOMAIN bundles,
               <<ph, b>> \in told, latest[b] = ph, ph \notin mixed
        PROVE  /\ Escrowed(bundles[b].manifest)
               /\ Verifies([bundles[b] EXCEPT !.blob = bundles[b].manifest.phrase], ph)
    <3>1. Answered(<<ph, b>>)  BY <1>1, <2>1 DEF IInv
    <3>2. Settled(b, ph)  BY <2>1, <3>1 DEF Answered
    <3>3. Escrowed(bundles[b].manifest)
      BY <1>1, <2>1, <3>2 DEF IInv, DescriptorHasBlob, Settled
    <3>4. bundles[b] \in Bundles  BY <1>1 DEF IInv, TypeOK
    <3>5. Verifies([bundles[b] EXCEPT !.blob = bundles[b].manifest.phrase], ph)
      BY <3>2, <3>4 DEF Verifies, Bundles, Settled
    <3>6. QED  BY <3>3, <3>5
  <2>2. QED  BY <2>1 DEF ToldPhraseRecovers
<1>2. QED  BY <1>1, Invariance, PTL
=============================================================================
