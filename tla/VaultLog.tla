------------------------------ MODULE VaultLog ------------------------------
(***************************************************************************)
(* What one vault records: the hash-linked owner event chain, the object   *)
(* store (rows and files), documents, their canonical text, and document   *)
(* lifecycle events.  Several processes (kc_cli commands, the desktop app) *)
(* work on the vault at the same time, every SQL statement being its own   *)
(* transaction: ingest_bytes and run_gc hold none.  A lifecycle mutation   *)
(* is one transaction that writes its policy audit before it reads the     *)
(* chain, so no other writer can commit in between: it is one step here.   *)
(***************************************************************************)
EXTENDS Naturals, Sequences, FiniteSets

CONSTANTS
  Procs,            \* processes working on the vault
  Blobs,            \* byte strings, each named by its hash
  Seed,             \* documents ingested and canonicalised before the start
  None,
  MAX_CHAIN_DEPTH,
  MaxOps,           \* bound: operations started, of each kind
  MaxTotal,         \* bound: operations started
  MaxCrashes        \* bound: crashes

OpKinds == {"ingest", "canonical", "lifecycle", "gc"}

ASSUME BlobsAssumption == Seed \in Seq(Blobs) /\ None \notin Blobs
ASSUME BoundsAssumption ==
  /\ MAX_CHAIN_DEPTH \in Nat /\ MaxOps \in [OpKinds -> Nat]
  /\ MaxTotal \in Nat /\ MaxCrashes \in Nat

VARIABLES
  events,       \* the events table, in event_id order
  objects,      \* object hashes with a row in the objects table
  files,        \* store/objects: the state of each object file
  docs,         \* docs: doc_id |-> ingested_event_id
  canonical,    \* canonical_text: doc_id |-> canonical_hash
  pc, ctx,      \* next step and frame of each process
  ops, crashes  \* bounded counters

tables == <<events, objects, docs, canonical>>
vars == <<tables, files, pc, ctx, ops, crashes>>

-----------------------------------------------------------------------------
(* The event chain.  A hash stands for everything that is hashed.          *)
EventHash(body, prev) == [body |-> body, prev |-> prev]

Event(body, prev) == [body |-> body, prev |-> prev, hash |-> EventHash(body, prev)]

LastHash(log) == IF log = <<>> THEN None ELSE log[Len(log)].hash

IngestBody(b) == [type |-> "ingest.bytes", doc |-> b]

(* A lifecycle payload pins the canonical hashes of source and             *)
(* replacement; a tombstone has no replacement.                            *)
LifecycleBody(doc, repl) ==
  [type |-> "document.lifecycle", doc |-> doc, repl |-> repl,
   pin |-> canonical[doc], replPin |-> IF repl = None THEN None ELSE canonical[repl]]

IsLifecycle(n) == events[n].body.type = "document.lifecycle"

(* read_verified_event_chain, up to event n.                               *)
VerifiedUpTo(n) ==
  \A m \in 1..n : events[m].prev = IF m = 1 THEN None ELSE events[m - 1].hash
(* Faulty variant: only the newest link is verified.                       *)
ReadNewestLink ==
  Len(events) < 2 \/ events[Len(events)].prev = events[Len(events) - 1].hash
ReadVerifiedEventChain == VerifiedUpTo(Len(events))

(* load_document_lifecycle_events: the pinned hashes are still current.    *)
PinCurrent(doc, pin) == doc \in DOMAIN canonical /\ canonical[doc] = pin
PinsCurrent ==
  \A n \in DOMAIN events :
    IsLifecycle(n) =>
      LET e == events[n].body
      IN /\ PinCurrent(e.doc, e.pin)
         /\ e.repl # None => PinCurrent(e.repl, e.replPin)

LifecycleEventsOf(doc) == {n \in DOMAIN events : IsLifecycle(n) /\ events[n].body.doc = doc}

(* The documents that have a lifecycle event.                              *)
Retired == {events[n].body.doc : n \in {m \in DOMAIN events : IsLifecycle(m)}}

(* The document that supersedes x; None if x has no transition, several,   *)
(* or is a tombstone.                                                      *)
HasOneTransition(x) == Cardinality(LifecycleEventsOf(x)) = 1
Successor(x) ==
  IF x # None /\ HasOneTransition(x)
  THEN events[CHOOSE n \in LifecycleEventsOf(x) : TRUE].body.repl ELSE None

(* resolve_document_lifecycle: follow supersessions from doc.  Walk(doc)[n]*)
(* is the document reached after n of them, None when the walk ends before.*)
Walk(doc) ==
  LET walk[n \in 0..MAX_CHAIN_DEPTH] == IF n = 0 THEN doc ELSE Successor(walk[n - 1])
  IN walk
WalkLength(doc) ==
  CHOOSE n \in 0..MAX_CHAIN_DEPTH :
    Walk(doc)[n] # None /\ (n < MAX_CHAIN_DEPTH => Walk(doc)[n + 1] = None)
Resolve(doc) ==
  LET walk == Walk(doc)
      len == WalkLength(doc)
  IN IF \E m, n \in 0..len : m < n /\ walk[m] = walk[n] THEN "corrupt"
     ELSE IF LifecycleEventsOf(walk[len]) = {} THEN "active"
     ELSE IF len = MAX_CHAIN_DEPTH THEN "corrupt"
     ELSE IF HasOneTransition(walk[len]) THEN "tombstoned" ELSE "conflicted"

-----------------------------------------------------------------------------
(* Seed documents were ingested one after the other, each its own          *)
(* canonical text.                                                         *)
SeedChain ==
  LET chain[n \in 0..Len(Seed)] ==
        IF n = 0 THEN <<>>
        ELSE Append(chain[n - 1], Event(IngestBody(Seed[n]), LastHash(chain[n - 1])))
  IN chain
SeedEvents == SeedChain[Len(Seed)]

SeedDocs == {Seed[n] : n \in DOMAIN Seed}

Init ==
  /\ events = SeedEvents
  /\ objects = SeedDocs
  /\ files = [b \in SeedDocs |-> "whole"]
  /\ docs = [b \in SeedDocs |-> CHOOSE n \in DOMAIN Seed : Seed[n] = b]
  /\ canonical = [b \in SeedDocs |-> b]
  /\ pc = [p \in Procs |-> "idle"] /\ ctx = [p \in Procs |-> None]
  /\ ops = [k \in OpKinds |-> 0] /\ crashes = 0

Goto(p, l) == pc' = [pc EXCEPT ![p] = l] /\ UNCHANGED <<ctx, ops, crashes>>
Return(p) == /\ pc' = [pc EXCEPT ![p] = "idle"] /\ ctx' = [ctx EXCEPT ![p] = None]
             /\ UNCHANGED <<ops, crashes>>
Start(kind) ==
  /\ ops[kind] < MaxOps[kind]
  /\ ops["ingest"] + ops["canonical"] + ops["lifecycle"] + ops["gc"] < MaxTotal
  /\ ops' = [ops EXCEPT ![kind] = @ + 1]
Call(p, kind, l, c) ==
  /\ pc[p] = "idle" /\ Start(kind)
  /\ pc' = [pc EXCEPT ![p] = l] /\ ctx' = [ctx EXCEPT ![p] = c]
  /\ UNCHANGED crashes

-----------------------------------------------------------------------------
(* ingest_bytes.  append_event reads the last hash ...                     *)
IngestStart(p, b) ==
  /\ Call(p, "ingest", "insertEvent",
          [op |-> "ingest", blob |-> b, doc |-> b, prev |-> LastHash(events), event |-> 0])
  /\ UNCHANGED <<tables, files>>

(* ... and inserts the event that links to it, whatever came in between.   *)
InsertEvent(p) ==
  /\ pc[p] = "insertEvent"
  /\ events' = Append(events, Event(IngestBody(ctx[p].blob), ctx[p].prev))
  /\ pc' = [pc EXCEPT ![p] = "checkFile"]
  /\ ctx' = [ctx EXCEPT ![p].event = Len(events) + 1]
  /\ UNCHANGED <<objects, docs, canonical, files, ops, crashes>>

(* Faulty variant: an existing file is taken to have a row.                *)
CheckFileForRow(p) ==
  /\ pc[p] = "checkFile"
  /\ Goto(p, CASE ctx[p].blob \notin DOMAIN files -> "createFile"
              [] ctx[p].op = "ingest" /\ ctx[p].blob \in DOMAIN files -> "insertDoc"
              [] OTHER -> "upsertCanonical")
  /\ UNCHANGED <<tables, files>>

(* put_bytes: an existing file is left as it is; fs::write creates or      *)
(* truncates the file and then fills it; the row follows.                  *)
CheckFile(p) ==
  /\ pc[p] = "checkFile"
  /\ Goto(p, IF ctx[p].blob \in DOMAIN files THEN "insertObject" ELSE "createFile")
  /\ UNCHANGED <<tables, files>>

SetFile(b, s) == files' = [x \in DOMAIN files \cup {b} |-> IF x = b THEN s ELSE files[x]]

CreateFile(p) ==
  /\ pc[p] = "createFile"
  /\ SetFile(ctx[p].blob, "partial")
  /\ Goto(p, "writeFile")
  /\ UNCHANGED tables

(* Faulty variant: the bytes are not flushed before the row is inserted.   *)
WriteFileUnflushed(p) ==
  /\ pc[p] = "writeFile"
  /\ Goto(p, "insertObject")
  /\ UNCHANGED <<tables, files>>

(* A file unlinked in the meantime takes the bytes with it.                *)
WriteFile(p) ==
  /\ pc[p] = "writeFile"
  /\ \/ ctx[p].blob \in DOMAIN files /\ SetFile(ctx[p].blob, "whole")
     \/ ctx[p].blob \notin DOMAIN files /\ UNCHANGED files
  /\ Goto(p, "insertObject")
  /\ UNCHANGED tables

InsertObject(p) ==
  /\ pc[p] = "insertObject"
  /\ objects' = objects \cup {ctx[p].blob}
  /\ Goto(p, IF ctx[p].op = "ingest" THEN "insertDoc" ELSE "upsertCanonical")
  /\ UNCHANGED <<events, docs, canonical, files>>

(* INSERT OR IGNORE: the first ingest of these bytes names the document.   *)
InsertDoc(p) ==
  /\ pc[p] = "insertDoc"
  /\ docs' = [x \in DOMAIN docs \cup {ctx[p].doc} |->
                IF x \in DOMAIN docs THEN docs[x] ELSE ctx[p].event]
  /\ Return(p)
  /\ UNCHANGED <<events, objects, canonical, files>>

(* persist_canonical_text: store the text, then upsert the row.            *)
CanonicalStart(p, doc, b) ==
  /\ doc \in DOMAIN docs
  /\ Call(p, "canonical", "checkFile",
          [op |-> "canonical", blob |-> b, doc |-> doc, prev |-> None, event |-> docs[doc]])
  /\ UNCHANGED <<tables, files>>

UpsertCanonical(p) ==
  /\ pc[p] = "upsertCanonical"
  /\ canonical' = [x \in DOMAIN canonical \cup {ctx[p].doc} |->
                     IF x = ctx[p].doc THEN ctx[p].blob ELSE canonical[x]]
  /\ Return(p)
  /\ UNCHANGED <<events, objects, docs, files>>

-----------------------------------------------------------------------------
(* Faulty variants: the replacement, or the source, may already have a     *)
(* transition.                                                             *)
LifecycleMutateAnyReplacement(doc, repl) ==
  /\ Start("lifecycle") /\ doc # repl
  /\ ReadVerifiedEventChain /\ PinsCurrent
  /\ LifecycleEventsOf(doc) = {} /\ doc \in DOMAIN canonical
  /\ repl # None => repl \in DOMAIN canonical
  /\ events' = Append(events, Event(LifecycleBody(doc, repl), LastHash(events)))
  /\ UNCHANGED <<objects, docs, canonical, files, pc, ctx, crashes>>

LifecycleMutateTwice(doc, repl) ==
  /\ Start("lifecycle") /\ doc # repl
  /\ ReadVerifiedEventChain /\ PinsCurrent
  /\ doc \in DOMAIN canonical
  /\ repl # None => LifecycleEventsOf(repl) = {} /\ repl \in DOMAIN canonical
  /\ events' = Append(events, Event(LifecycleBody(doc, repl), LastHash(events)))
  /\ UNCHANGED <<objects, docs, canonical, files, pc, ctx, crashes>>

(* append_document_lifecycle_event by an authorised session; a refused one *)
(* leaves these tables alone.                                              *)
LifecycleMutate(doc, repl) ==
  /\ Start("lifecycle")
  /\ doc # repl
  /\ ReadVerifiedEventChain /\ PinsCurrent
  /\ LifecycleEventsOf(doc) = {} /\ doc \in DOMAIN canonical
  /\ repl # None => LifecycleEventsOf(repl) = {} /\ repl \in DOMAIN canonical
  /\ events' = Append(events, Event(LifecycleBody(doc, repl), LastHash(events)))
  /\ UNCHANGED <<objects, docs, canonical, files, pc, ctx, crashes>>

-----------------------------------------------------------------------------
(* run_gc reads the referenced hashes, then walks the files and removes    *)
(* each one not among them.  Files that appear during the walk may be met  *)
(* or missed; the ones there from the start are met.                       *)
GcStart(p) ==
  /\ Call(p, "gc", "gcSweep",
          [op |-> "gc", existing |-> objects, found |-> DOMAIN files])
  /\ UNCHANGED <<tables, files>>

GcRemove(p) ==
  /\ pc[p] = "gcSweep"
  /\ \E b \in DOMAIN files \ ctx[p].existing :
       files' = [x \in DOMAIN files \ {b} |-> files[x]]
  /\ UNCHANGED <<tables, pc, ctx, ops, crashes>>

GcEnd(p) ==
  /\ pc[p] = "gcSweep"
  /\ ctx[p].found \cap DOMAIN files \subseteq ctx[p].existing
  /\ Return(p)
  /\ UNCHANGED <<tables, files>>

Crash(p) ==
  /\ pc[p] # "idle" /\ crashes < MaxCrashes
  /\ pc' = [pc EXCEPT ![p] = "idle"] /\ ctx' = [ctx EXCEPT ![p] = None]
  /\ crashes' = crashes + 1
  /\ UNCHANGED <<tables, files, ops>>

Next ==
  \/ \E p \in Procs :
       \/ \E b \in Blobs : IngestStart(p, b)
       \/ InsertEvent(p) \/ CheckFile(p) \/ CreateFile(p) \/ WriteFile(p)
       \/ InsertObject(p) \/ InsertDoc(p)
       \/ \E doc, b \in Blobs : CanonicalStart(p, doc, b)
       \/ UpsertCanonical(p)
       \/ GcStart(p) \/ GcRemove(p) \/ GcEnd(p)
       \/ Crash(p)
  \/ \E doc \in Blobs, repl \in Blobs \cup {None} : LifecycleMutate(doc, repl)

Spec == Init /\ [][Next]_vars

-----------------------------------------------------------------------------
FileSteps == {"checkFile", "createFile", "writeFile", "insertObject"}
Pcs == FileSteps \cup {"idle", "insertEvent", "insertDoc", "upsertCanonical", "gcSweep"}

(* Rows of the events table: every link is none or the hash of an event.   *)
Bodies ==
  [type: {"ingest.bytes"}, doc: Blobs] \cup
  [type: {"document.lifecycle"}, doc: Blobs, repl: Blobs \cup {None}, pin: Blobs,
   replPin: Blobs \cup {None}]
Hashes(log) == {log[n].hash : n \in DOMAIN log}
IsLog(log) ==
  /\ log \in Seq([body: Bodies, prev: Hashes(log) \cup {None}, hash: Hashes(log)])
  /\ \A n \in DOMAIN log : log[n].hash = EventHash(log[n].body, log[n].prev)

(* The frame of a call at step l.                                          *)
StoreFrames == [op: {"ingest", "canonical"}, blob: Blobs, doc: Blobs,
                prev: Hashes(events) \cup {None}, event: Nat]
GcFrames == [op: {"gc"}, existing: SUBSET Blobs, found: SUBSET Blobs]
FrameFits(l, f) ==
  /\ l = "idle" => f = None
  /\ l \in Pcs \ {"idle", "gcSweep"} => f \in StoreFrames
  /\ l = "insertEvent" => f.op = "ingest" /\ f.doc = f.blob
  /\ l \in FileSteps \cup {"insertDoc", "upsertCanonical"} =>
       /\ f.event \in DOMAIN events
       /\ f.op = "ingest" => f.doc = f.blob
       /\ f.op = "canonical" => f.doc \in DOMAIN docs
  /\ l \in {"insertDoc", "upsertCanonical"} =>
       f.blob \in objects /\ f.op = IF l = "insertDoc" THEN "ingest" ELSE "canonical"
  /\ l = "gcSweep" => f \in GcFrames

(* Every document has an object row and its ingest event, every canonical  *)
(* text its document and its object row; each step has the frame that it   *)
(* works with.                                                             *)
TypeOK ==
  /\ IsLog(events)
  /\ objects \subseteq Blobs /\ DOMAIN files \subseteq Blobs
  /\ files \in [DOMAIN files -> {"partial", "whole"}]
  /\ DOMAIN docs \subseteq objects /\ docs \in [DOMAIN docs -> DOMAIN events]
  /\ DOMAIN canonical \subseteq DOMAIN docs /\ canonical \in [DOMAIN canonical -> objects]
  /\ pc \in [Procs -> Pcs] /\ DOMAIN ctx = Procs
  /\ \A p \in Procs : FrameFits(pc[p], ctx[p])
  /\ ops \in [OpKinds -> Nat] /\ crashes \in Nat

(* LifecycleOnVerifiedPrefix: no lifecycle decision is ever recorded on    *)
(* top of a forked chain, whichever ingests were running around the        *)
(* transaction of append_document_lifecycle_event.                         *)
LifecycleOnVerifiedPrefix ==
  \A n \in DOMAIN events : IsLifecycle(n) => VerifiedUpTo(n)

(* ResolutionSettles: over any sequence of mutations no document gets two  *)
(* transitions and supersessions form no cycle: resolve_document_lifecycle *)
(* reports no conflict, and corruption only for a chain over the depth     *)
(* bound; a replacement's own transition always comes later.               *)
ResolutionSettles ==
  \A doc \in Retired :
    /\ Resolve(doc) # "conflicted"
    /\ Resolve(doc) = "corrupt" =>
         Cardinality({n \in DOMAIN events : IsLifecycle(n)}) > MAX_CHAIN_DEPTH
    /\ \A n \in LifecycleEventsOf(doc), m \in DOMAIN events :
         IsLifecycle(m) /\ events[m].body.doc = events[n].body.repl => n < m

(* TombstoneFinal: once a document resolves to a tombstone it always does: *)
(* a later supersession, ingest or new canonical text never revives it.    *)
TombstoneFinal ==
  [][\A doc \in Retired : Resolve(doc) = "tombstoned" => Resolve(doc)' = "tombstoned"]_vars

(* RowsHaveBytes: without a crash and without gc, when all operations have *)
(* returned every object row has its complete file, also when processes    *)
(* stored the same bytes at the same time and one found the file of the    *)
(* other half written.                                                     *)
RowsHaveBytes ==
  (\A p \in Procs : pc[p] = "idle") /\ crashes = 0 /\ ops["gc"] = 0
    => \A b \in objects : b \in DOMAIN files /\ files[b] = "whole"

-----------------------------------------------------------------------------
(* GcRemovesOnlyOrphans: spec/20 says that gc "removes only orphan object  *)
(* files not referenced by the SQLite `objects` table".                    *)
GcRemovesOnlyOrphans ==
  [][\A b \in DOMAIN files \ DOMAIN files' : b \notin objects]_vars
=============================================================================
