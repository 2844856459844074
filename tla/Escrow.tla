------------------------------- MODULE Escrow -------------------------------
(***************************************************************************)
(* Recovery bundles and their escrow: the vault passphrase, encrypted      *)
(* under a random phrase, is kept in a bundle on disk and at one or more   *)
(* providers.  Every file, provider and table operation is a step; a call  *)
(* may fail or die between any two, a file it was writing may be left      *)
(* incomplete, providers become unavailable and bundles lose their blob.   *)
(* A blob is known by the phrase that decrypts it: each call draws its own,*)
(* so the payload hash and the phrase checksum name the phrase too.  The   *)
(* time of a call is its caller's now_ms: calls may share one, and then    *)
(* they may share a bundle.                                                *)
(***************************************************************************)
EXTENDS Naturals, FiniteSets, FiniteSetsExt

CONSTANTS
  Procs,
  Providers,        \* the providers, in the order of their priority
  IdOrder,          \* their places in the order of the provider ids
  None,
  MaxCalls,         \* bound: calls
  MaxTime,          \* bound: now_ms
  MaxPhrases,       \* bound: phrases drawn
  MaxFaults         \* bound: failed or interrupted calls, outages, lost blobs

ASSUME ProvidersAssumption == Providers \subseteq Nat /\ IsFiniteSet(Providers)
ASSUME NoneAssumption == None \notin Nat
ASSUME IdOrderAssumption == IdOrder \in [Providers -> Nat]
ASSUME BoundsAssumption ==
  MaxCalls \in Nat /\ MaxTime \in Nat /\ MaxPhrases \in Nat /\ MaxFaults \in Nat

Phrases == 1..MaxPhrases
(* rotate_all counts the time up from one provider to the next.            *)
Times == 1..(MaxTime + Cardinality(Providers))
(* The output directory, and the one for escrowed bundles with a directory *)
(* per provider in it.                                                     *)
Dirs == ({"output", "escrow"} \X {None}) \cup ({"escrow"} \X Providers)
BundlePaths == Dirs \X Times

VARIABLES
  calls,     \* how many calls have begun
  drawn,     \* how many phrases have been drawn
  bundles,   \* bundles[b]: blob and manifest of the bundle at path b, if any
  held,      \* held[p]: the blobs that p has complete, under their own hash
  up,        \* up[p]: is p available
  v2,        \* recovery_escrow_configs: updated_at_ms, or None
  v3,        \* recovery_escrow_provider_configs: the enabled providers
  events,    \* recovery_escrow_events
  last,      \* .kc_recovery_last_path
  told,      \* history: phrases and bundle paths that rotations have returned
  latest,    \* history: latest[b] is the phrase drawn last for the bundle at b
  mixed,     \* history: phrases whose bundle two calls were writing at once
  pc, ctx, faults

files == <<bundles, last>>
config == <<v2, v3, events>>
sharing == <<latest, mixed>>
vars == <<calls, drawn, files, held, up, config, told, sharing, pc, ctx, faults>>

Manifests == [phrase: Phrases, escrow: Providers \cup {None}]
Torn == 0          \* a blob that was cut off; no phrase decrypts it
Bundles == [blob: Phrases \cup {Torn, None}, manifest: Manifests \cup {None}]
NoBundle == [blob |-> None, manifest |-> None]

Bundle(b) == IF b \in DOMAIN bundles THEN bundles[b] ELSE NoBundle
With(b, bundle) ==
  [x \in DOMAIN bundles \cup {b} |-> IF x = b THEN bundle ELSE bundles[x]]
WithBlob(b, blob) == With(b, [blob |-> blob, manifest |-> Bundle(b).manifest])
WithManifest(b, m) == With(b, [blob |-> Bundle(b).blob, manifest |-> m])

(* verify_recovery_bundle: the checksum names the phrase, and the blob has *)
(* the hash of the manifest and decrypts under the phrase.                 *)
Verifies(bundle, ph) ==
  bundle.manifest # None /\ bundle.manifest.phrase = ph /\ bundle.blob = ph

(* RecoveryEscrowProvider::read for a manifest: a blob with another hash   *)
(* is refused.                                                             *)
Escrowed(m) == m # None /\ m.escrow # None /\ m.phrase \in held[m.escrow]

-----------------------------------------------------------------------------
Init ==
  /\ calls = 0 /\ drawn = 0
  /\ bundles = <<>> /\ last = None
  /\ held = [p \in Providers |-> {}] /\ up = [p \in Providers |-> TRUE]
  /\ v2 = [p \in Providers |-> None] /\ v3 = {} /\ events = {}
  /\ told = {} /\ latest = <<>> /\ mixed = {} /\ faults = 0
  /\ pc = [q \in Procs |-> "idle"] /\ ctx = [q \in Procs |-> None]

(* read_recovery_escrow_config: the row updated last, and of two updated   *)
(* at one time the one with the greater provider id.                       *)
Configured == {p \in Providers : v2[p] # None}
Current ==
  CHOOSE p \in Configured :
    \A r \in Configured : v2[r] < v2[p] \/ (v2[r] = v2[p] /\ IdOrder[r] <= IdOrder[p])

(* Where generate_recovery_bundle puts a bundle.                           *)
BundlePath(dir, t) == <<dir, t>>

(* The frame of a call: the providers to go through in their order, its    *)
(* time, and for the provider at hand its bundle and phrase; then the      *)
(* phrases to return, each with the path of its bundle.                    *)
Frames == [op: {"enable", "providerAdd", "generate", "rotate", "rotateAll", "restore"},
           todo: SUBSET Providers, time: Times, bundle: BundlePaths \cup {None},
           phrase: Phrases \cup {None}, phrases: SUBSET (Phrases \X BundlePaths)]

(* None is not a value of any of these.                                    *)
ASSUME NoneIsNoRow == None \notin Manifests \cup Frames \cup BundlePaths

Frame(op, todo, t) ==
  [op |-> op, todo |-> todo, time |-> t, bundle |-> None, phrase |-> None, phrases |-> {}]

Dir(c) == CASE c.op = "generate" -> <<"output", None>>
            [] c.op = "rotate" -> <<"escrow", None>>
            [] OTHER -> <<"escrow", Min(c.todo)>>

Call(q, l, c) ==
  /\ pc[q] = "idle" /\ calls < MaxCalls /\ calls' = calls + 1
  /\ pc' = [pc EXCEPT ![q] = l] /\ ctx' = [ctx EXCEPT ![q] = c]
  /\ UNCHANGED <<drawn, held, up, told, faults>>

(* A step of a call that goes on at l with frame c.                        *)
GotoWith(q, l, c) ==
  /\ pc' = [pc EXCEPT ![q] = l] /\ ctx' = [ctx EXCEPT ![q] = c]
  /\ UNCHANGED <<calls, up, faults>>
Goto(q, l) == GotoWith(q, l, ctx[q])
(* Faulty variant: the frame of the call survives it.                      *)
ReturnKeepingFrame(q) == GotoWith(q, "idle", ctx[q])
Return(q) == GotoWith(q, "idle", None)

-----------------------------------------------------------------------------
(* vault_recovery_escrow_enable_service.                                   *)
Enable(q, p, t) ==
  /\ Call(q, "event", Frame("enable", {p}, t))
  /\ v2' = [v2 EXCEPT ![p] = t]
  /\ UNCHANGED <<files, v3, events, sharing>>

(* vault_recovery_escrow_provider_add_service.                             *)
ProviderAdd(q, p, t) ==
  /\ Call(q, "upsertV2", Frame("providerAdd", {p}, t))
  /\ v3' = v3 \cup {p}
  /\ UNCHANGED <<files, v2, events, sharing>>

(* vault_recovery_generate_service.                                        *)
Generate(q, t) ==
  /\ drawn < MaxPhrases
  /\ Call(q, "draw", Frame("generate", {}, t))
  /\ UNCHANGED <<files, config, sharing>>

(* vault_recovery_escrow_rotate_service.                                   *)
Rotate(q, t) ==
  /\ drawn < MaxPhrases /\ Configured # {} /\ up[Current]
  /\ Call(q, "draw", Frame("rotate", {Current}, t))
  /\ UNCHANGED <<files, config, sharing>>

(* vault_recovery_escrow_rotate_all_service: each provider in turn.        *)
RotateAll(q, t) ==
  /\ v3 # {}
  /\ Call(q, "draw", Frame("rotateAll", v3, t))
  /\ UNCHANGED <<files, config, sharing>>

(* The end of the part for one provider.  The phrases are returned with    *)
(* the answer, at the very end.                                            *)
NextProvider(q, c) ==
  LET rest == c.todo \ {Min(c.todo)}
  IN IF rest # {}
     THEN /\ GotoWith(q, "draw", [c EXCEPT !.todo = rest, !.time = @ + 1])
          /\ UNCHANGED told
     ELSE told' = told \cup c.phrases /\ Return(q)

-----------------------------------------------------------------------------
(* The steps at which a call is still writing the bundle it draws, and the *)
(* phrases of the calls that are writing the one at b.                     *)
Writing == {"manifest", "provider", "descriptor"}
Writers(b) == {q \in Procs : pc[q] \in Writing /\ ctx[q].bundle = b}
Restorers(b) == {q \in Procs : pc[q] = "restore" /\ ctx[q].bundle = b}
PhrasesOf(S) == {ctx[q].phrase : q \in S}

(* generate_recovery_bundle: the blob, then a manifest without escrow.  A  *)
(* bundle that is at the path already is written over.  A provider that is *)
(* unavailable ends a rotate_all.                                          *)
DrawPhrase(q) ==
  LET c == ctx[q]
      b == BundlePath(Dir(c), c.time)
  IN /\ pc[q] = "draw" /\ drawn < MaxPhrases
     /\ IF c.op = "rotateAll" /\ ~up[Min(c.todo)]
        THEN Return(q) /\ UNCHANGED <<drawn, bundles, sharing>>
        ELSE /\ drawn' = drawn + 1
             /\ bundles' = WithBlob(b, drawn + 1)
             /\ latest' = [x \in DOMAIN latest \cup {b} |-> IF x = b THEN drawn + 1 ELSE latest[x]]
             /\ mixed' = mixed \cup PhrasesOf(Writers(b))
                              \cup {ph \in {drawn + 1} : Writers(b) \cup Restorers(b) # {}}
             /\ GotoWith(q, "manifest", [c EXCEPT !.bundle = b, !.phrase = drawn + 1])
     /\ UNCHANGED <<last, held, config, told>>

WriteFirstManifest(q) ==
  LET c == ctx[q]
  IN /\ pc[q] = "manifest"
     /\ bundles' = WithManifest(c.bundle, [phrase |-> c.phrase, escrow |-> None])
     /\ Goto(q, IF c.op = "generate" THEN "stateFile" ELSE "provider")
     /\ UNCHANGED <<drawn, last, held, config, told, sharing>>

(* What p has under the hash of ph once it stored the blob.                *)
Stored(p, ph, blob) == [held EXCEPT ![p] = IF blob = ph THEN @ \cup {ph} ELSE @ \ {ph}]

(* Faulty variant: an unavailable provider is skipped.                     *)
ProviderWriteOptional(q) ==
  LET c == ctx[q]
      p == Min(c.todo)
  IN /\ pc[q] = "provider"
     /\ held' = IF up[p] THEN Stored(p, c.phrase, Bundle(c.bundle).blob) ELSE held
     /\ Goto(q, "descriptor")
     /\ UNCHANGED <<drawn, files, config, told, sharing>>
(* RecoveryEscrowProvider::write of the blob as it is on disk.             *)
ProviderWrite(q) ==
  LET c == ctx[q]
      p == Min(c.todo)
  IN /\ pc[q] = "provider"
     /\ IF up[p] /\ Bundle(c.bundle).blob # None
        THEN held' = Stored(p, c.phrase, Bundle(c.bundle).blob) /\ Goto(q, "descriptor")
        ELSE UNCHANGED held /\ Return(q)
     /\ UNCHANGED <<drawn, files, config, told, sharing>>

(* Faulty variant: the manifest is written as it was generated.            *)
WriteDescriptorUnset(q) ==
  LET c == ctx[q]
  IN /\ pc[q] = "descriptor"
     /\ bundles' = WithManifest(c.bundle, [phrase |-> c.phrase, escrow |-> None])
     /\ Goto(q, IF c.op = "rotate" THEN "stateFile" ELSE "upsertV2")
     /\ UNCHANGED <<drawn, last, held, config, told, sharing>>
(* write_recovery_manifest with the descriptor.                            *)
WriteDescriptor(q) ==
  LET c == ctx[q]
  IN /\ pc[q] = "descriptor"
     /\ bundles' = WithManifest(c.bundle, [phrase |-> c.phrase, escrow |-> Min(c.todo)])
     /\ Goto(q, IF c.op = "rotate" THEN "stateFile" ELSE "upsertV2")
     /\ UNCHANGED <<drawn, last, held, config, told, sharing>>

(* write_recovery_state_file comes at three different places.              *)
WriteStateFile(q) ==
  LET c == ctx[q]
  IN /\ pc[q] = "stateFile"
     /\ last' = c.bundle
     /\ \/ c.op = "generate" /\ Return(q) /\ UNCHANGED told
        \/ c.op = "rotate" /\ Goto(q, "upsertV2") /\ UNCHANGED told
        \/ c.op = "rotateAll" /\ NextProvider(q, [c EXCEPT !.phrases = @ \cup {<<c.phrase, c.bundle>>}])
     /\ UNCHANGED <<drawn, bundles, held, config, sharing>>

UpsertV2(q) ==
  LET c == ctx[q]
  IN /\ pc[q] = "upsertV2"
     /\ v2' = [v2 EXCEPT ![Min(c.todo)] = c.time]
     /\ Goto(q, IF c.op = "rotateAll" THEN "upsertV3" ELSE "event")
     /\ UNCHANGED <<drawn, files, held, v3, events, told, sharing>>

UpsertV3(q) ==
  /\ pc[q] = "upsertV3"
  /\ v3' = v3 \cup {Min(ctx[q].todo)}
  /\ Goto(q, "event")
  /\ UNCHANGED <<drawn, files, held, v2, events, told, sharing>>

(* append_recovery_escrow_event.                                           *)
AppendEvent(q) ==
  LET c == ctx[q]
  IN /\ pc[q] = "event"
     /\ events' = events \cup {<<Min(c.todo), c.op>>}
     /\ \/ c.op = "rotateAll" /\ Goto(q, "stateFile") /\ UNCHANGED told
        \/ c.op = "rotate" /\ told' = told \cup {<<c.phrase, c.bundle>>} /\ Return(q)
        \/ c.op \notin {"rotate", "rotateAll"} /\ Return(q) /\ UNCHANGED told
     /\ UNCHANGED <<drawn, files, held, v2, v3, sharing>>

-----------------------------------------------------------------------------
(* vault_recovery_escrow_restore_service: the provider of the manifest is  *)
(* asked, whichever is configured; the event names the configured one.     *)
Restore(q, b, t) ==
  LET m == Bundle(b).manifest
  IN /\ Configured # {} /\ Escrowed(m) /\ up[m.escrow]
     /\ Call(q, "restore",
             [Frame("restore", {Current}, t) EXCEPT !.bundle = b, !.phrase = m.phrase])
     /\ mixed' = mixed \cup PhrasesOf(Writers(b))
     /\ UNCHANGED <<files, config, latest>>

RestoreWrite(q) ==
  /\ pc[q] = "restore"
  /\ bundles' = WithBlob(ctx[q].bundle, ctx[q].phrase)
  /\ Goto(q, "event")
  /\ UNCHANGED <<drawn, last, held, config, told, sharing>>

-----------------------------------------------------------------------------
Fault == faults < MaxFaults /\ faults' = faults + 1 /\ UNCHANGED <<calls, drawn, told>>

(* A call fails or dies: no phrase is returned and nothing is undone.  The *)
(* file it was writing is untouched, or incomplete.  (An incomplete blob   *)
(* where there was no bundle yet is of no use to any call and left out.)   *)
Abort(q) ==
  LET c == ctx[q]
      b == BundlePath(Dir(c), c.time)
  IN /\ pc[q] # "idle" /\ Fault
     /\ pc' = [pc EXCEPT ![q] = "idle"] /\ ctx' = [ctx EXCEPT ![q] = None]
     /\ \/ UNCHANGED <<files, sharing>>
        \/ /\ pc[q] = "draw" /\ b \in DOMAIN bundles /\ UNCHANGED <<last, latest>>
           /\ bundles' = WithBlob(b, Torn) /\ mixed' = mixed \cup PhrasesOf(Writers(b))
        \/ /\ pc[q] = "restore" /\ UNCHANGED <<last, sharing>>
           /\ bundles' = WithBlob(c.bundle, Torn)
        \/ /\ pc[q] \in {"manifest", "descriptor"} /\ UNCHANGED <<last, sharing>>
           /\ bundles' = WithManifest(c.bundle, None)
        \/ pc[q] = "stateFile" /\ last' = None /\ UNCHANGED <<bundles, sharing>>
     /\ UNCHANGED <<held, up, config>>

(* The environment: a provider goes away or comes back, a blob is lost.    *)
Outage(p) ==
  /\ Fault /\ up' = [up EXCEPT ![p] = ~@]
  /\ UNCHANGED <<files, sharing, held, config, pc, ctx>>

LoseBlob(b) ==
  /\ bundles[b].blob # None /\ Fault
  /\ bundles' = WithBlob(b, None)
  /\ UNCHANGED <<last, sharing, held, up, config, pc, ctx>>

Next ==
  \/ \E q \in Procs :
       \/ \E t \in 1..MaxTime :
            \/ \E p \in Providers : Enable(q, p, t) \/ ProviderAdd(q, p, t)
            \/ Generate(q, t) \/ Rotate(q, t) \/ RotateAll(q, t)
            \/ \E b \in DOMAIN bundles : Restore(q, b, t)
       \/ DrawPhrase(q) \/ WriteFirstManifest(q) \/ ProviderWrite(q) \/ WriteDescriptor(q)
       \/ WriteStateFile(q) \/ UpsertV2(q) \/ UpsertV3(q) \/ AppendEvent(q)
       \/ RestoreWrite(q) \/ Abort(q)
  \/ \E p \in Providers : Outage(p)
  \/ \E b \in DOMAIN bundles : LoseBlob(b)

Spec == Init /\ [][Next]_vars

-----------------------------------------------------------------------------
Pcs == {"idle", "draw", "manifest", "provider", "descriptor", "stateFile",
        "upsertV2", "upsertV3", "event", "restore"}

FrameFits(l, c) ==
  /\ l = "idle" <=> c = None
  /\ l \in {"draw", "manifest", "stateFile"} => c.op \in {"generate", "rotate", "rotateAll"}
  /\ l \in {"provider", "descriptor"} => c.op \in {"rotate", "rotateAll"}
  /\ l = "upsertV2" => c.op \in {"providerAdd", "rotate", "rotateAll"}
  /\ l = "upsertV3" => c.op = "rotateAll"
  /\ l = "restore" => c.op = "restore"
  /\ l # "idle" /\ c.op # "generate" => c.todo # {}
  /\ l \in {"manifest", "provider", "descriptor", "stateFile", "restore"} \/
     (l # "idle" /\ l # "draw" /\ c.op \in {"rotate", "rotateAll"}) =>
       c.bundle # None /\ c.phrase # None

(* Bundles, provider contents and tables have their shapes; each step has  *)
(* the frame that it works with.                                           *)
TypeOK ==
  /\ calls \in 0..MaxCalls /\ drawn \in 0..MaxPhrases
  /\ DOMAIN bundles \subseteq BundlePaths /\ bundles \in [DOMAIN bundles -> Bundles]
  /\ last \in BundlePaths \cup {None}
  /\ held \in [Providers -> SUBSET Phrases] /\ up \in [Providers -> BOOLEAN]
  /\ v2 \in [Providers -> Times \cup {None}] /\ v3 \subseteq Providers
  /\ told \subseteq Phrases \X BundlePaths /\ mixed \subseteq Phrases
  /\ latest \in [DOMAIN bundles -> Phrases]
  /\ pc \in [Procs -> Pcs] /\ ctx \in [Procs -> Frames \cup {None}]
  /\ \A q \in Procs : FrameFits(pc[q], ctx[q])

(* A manifest never promises an escrow that is not there: the provider it  *)
(* names has the complete blob under the manifest's hash, whichever writes *)
(* failed, were cut off or met an unavailable provider, and although a     *)
(* repeated call writes over the bundle of an earlier one.  Only where two *)
(* calls were writing one bundle at once may the provider have been given  *)
(* the other one's blob.                                                   *)
DescriptorHasBlob ==
  \A b \in DOMAIN bundles :
    LET m == bundles[b].manifest
    IN m # None /\ m.escrow # None /\ m.phrase \notin mixed => Escrowed(m)

(* A phrase that a rotation has returned stays good until a call with the  *)
(* same now_ms draws another for the same path: the bundle it was returned *)
(* with has its checksum and names a provider that has its blob, so        *)
(* restoring and verifying succeed, although later rotations fail half     *)
(* way, bundles lose their blob and restores are interrupted.  As above, no*)
(* other call was writing the bundle together with the rotation.           *)
ToldPhraseRecovers ==
  \A ph \in Phrases, b \in DOMAIN bundles :
    <<ph, b>> \in told /\ latest[b] = ph /\ ph \notin mixed =>
      LET m == bundles[b].manifest
      IN Escrowed(m) /\ Verifies([bundles[b] EXCEPT !.blob = m.phrase], ph)
=============================================================================
