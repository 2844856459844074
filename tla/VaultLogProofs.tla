--------------------------- MODULE VaultLogProofs ---------------------------
(***************************************************************************)
(* Theorems about VaultLog, for every set of processes and blobs, every    *)
(* seed of documents, every depth bound and every number of operations,    *)
(* and (second half) about Federation, for every set of matches, every     *)
(* limit that a request asks for and both bounds of the code.              *)
(***************************************************************************)
EXTENDS Federation, SequenceTheorems, FiniteSetTheorems, WellFoundedInduction, TLAPS

-----------------------------------------------------------------------------
(* The inductive invariant.                                                *)

(* No document has two transitions, and a document that supersedes another *)
(* has its own transition later.                                           *)
TransitionsOrdered ==
  \A n, m \in DOMAIN events :
    IsLifecycle(n) /\ IsLifecycle(m) =>
      /\ events[n].body.doc = events[m].body.doc => n = m
      /\ events[m].body.doc = events[n].body.repl => n < m

(* A row follows its file, and a file that is not whole is being written.  *)
Follow ==
  /\ objects \subseteq DOMAIN files
  /\ \A p \in Procs : pc[p] \in {"writeFile", "insertObject"} => ctx[p].blob \in DOMAIN files
  /\ \A b \in DOMAIN files :
       files[b] # "whole" => \E p \in Procs : pc[p] = "writeFile" /\ ctx[p].blob = b

(* So it is without crashes and gc.                                        *)
Sound == crashes = 0 /\ ops["gc"] = 0
FilesFollow == Sound => Follow /\ \A p \in Procs : pc[p] # "gcSweep"

IInv == TypeOK /\ LifecycleOnVerifiedPrefix /\ TransitionsOrdered /\ FilesFollow

-----------------------------------------------------------------------------
(* Sequences that are built step by step.                                  *)

(* NatLeast: a set of numbers that is not empty has a least element.       *)
LEMMA NatLeast ==
  ASSUME NEW S \in SUBSET Nat, S # {}
  PROVE  \E x \in S : \A y \in S : x <= y
<1>1. \E x \in S : \A y \in S : ~ (<<y, x>> \in OpToRel(<, Nat))
  BY NatLessThanWellFounded, WFMin
<1>2. \A x, y \in Nat : ~ (<<y, x>> \in OpToRel(<, Nat)) => x <= y  BY DEF OpToRel
<1>3. QED  BY <1>1, <1>2

(* StepByStep: what holds at 0 and goes from each number to the next holds *)
(* up to N; Good is the set of numbers at which it holds.                  *)
LEMMA StepByStep ==
  ASSUME NEW N \in Nat, NEW Good, 0 \in Good, \A n \in 0..N : n \in Good /\ n < N => n + 1 \in Good
  PROVE  \A n \in 0..N : n \in Good
<1> DEFINE Bad == {n \in 0..N : n \notin Good}
<1>1. SUFFICES ASSUME Bad # {} PROVE FALSE  OBVIOUS
<1>2. Bad \in SUBSET Nat  OBVIOUS
<1>3. PICK n \in Bad : \A m \in Bad : n <= m  BY <1>1, <1>2, NatLeast
<1>4. n # 0 /\ n - 1 \in 0..N /\ n - 1 < N /\ (n - 1) + 1 = n  OBVIOUS
<1>5. n - 1 \in Good  BY <1>3, <1>4
<1>6. QED  BY <1>4, <1>5

-----------------------------------------------------------------------------
(* The events table.                                                       *)

(* LogParts: a log by its elements.                                        *)
LEMMA LogParts ==
  ASSUME NEW log, IsLog(log)
  PROVE  /\ Len(log) \in Nat /\ DOMAIN log = 1..Len(log)
         /\ \A n \in 1..Len(log) :
              /\ log[n].body \in Bodies /\ log[n].prev \in Hashes(log) \cup {None}
              /\ log[n].hash \in Hashes(log) /\ log[n].hash = EventHash(log[n].body, log[n].prev)
         /\ LastHash(log) \in Hashes(log) \cup {None}
<1> DEFINE E == [body: Bodies, prev: Hashes(log) \cup {None}, hash: Hashes(log)]
<1>1. log \in Seq(E)  BY DEF IsLog
<1>2. Len(log) \in Nat /\ DOMAIN log = 1..Len(log)  BY <1>1, LenProperties
<1>3. \A n \in 1..Len(log) : log[n] \in E  BY <1>1, ElementOfSeq
<1>4. LastHash(log) \in Hashes(log) \cup {None}
  <2>1. CASE log = <<>>  BY <2>1 DEF LastHash
  <2>2. CASE log # <<>>
    <3>1. Len(log) \in DOMAIN log  BY <1>1, <1>2, <2>2, EmptySeq
    <3>2. QED  BY <2>2, <3>1 DEF LastHash, Hashes
  <2>3. QED  BY <2>1, <2>2
<1>5. QED  BY <1>2, <1>3, <1>4 DEF IsLog

(* AppendLog: an event whose link is none or the hash of an event.         *)
LEMMA AppendLog ==
  ASSUME NEW log, IsLog(log), NEW body \in Bodies, NEW prev \in Hashes(log) \cup {None}
  PROVE  LET new == Append(log, Event(body, prev))
         IN /\ IsLog(new) /\ Hashes(log) \subseteq Hashes(new)
            /\ Len(new) = Len(log) + 1 /\ DOMAIN new = 1..(Len(log) + 1)
            /\ \A n \in 1..Len(log) : new[n] = log[n]
            /\ new[Len(log) + 1] = Event(body, prev)
<1> DEFINE e == Event(body, prev)
           new == Append(log, e)
           E == [body: Bodies, prev: Hashes(log) \cup {None}, hash: Hashes(log)]
           F == [body: Bodies, prev: Hashes(new) \cup {None}, hash: Hashes(new)]
<1>1. /\ e.body = body /\ e.prev = prev /\ e.hash = EventHash(body, prev)
      /\ DOMAIN e = {"body", "prev", "hash"} /\ e = [body |-> e.body, prev |-> e.prev, hash |-> e.hash]
  BY DEF Event
<1> HIDE DEF e
<1>2. log \in Seq(E) /\ Len(log) \in Nat /\ DOMAIN log = 1..Len(log)  BY LogParts DEF IsLog
<1>3. log \in Seq(E \cup {e})
  <2>1. E \subseteq E \cup {e}  OBVIOUS
  <2> HIDE DEF E
  <2>2. QED  BY <1>2, <2>1, SeqMonotonic
<1>4. /\ new \in Seq(E \cup {e}) /\ Len(new) = Len(log) + 1
      /\ \A n \in 1..Len(log) : new[n] = log[n]
      /\ new[Len(log) + 1] = e
  BY <1>3, AppendProperties
<1>5. DOMAIN new = 1..(Len(log) + 1)  BY <1>4, LenProperties
<1> HIDE DEF new
<1>6. Hashes(log) \subseteq Hashes(new)  BY <1>2, <1>4, <1>5 DEF Hashes
<1>7. e.hash \in Hashes(new)
  <2>1. Len(log) + 1 \in DOMAIN new  BY <1>2, <1>5
  <2>2. QED  BY <1>4, <2>1 DEF Hashes
<1>8. E \cup {e} \subseteq F  BY <1>1, <1>6, <1>7
<1>9. new \in Seq(F)
  <2> HIDE DEF E, F
  <2>1. QED  BY <1>4, <1>8, SeqMonotonic
<1>10. \A n \in DOMAIN new : new[n].hash = EventHash(new[n].body, new[n].prev)
  <2>1. ASSUME NEW n \in 1..(Len(log) + 1) PROVE new[n].hash = EventHash(new[n].body, new[n].prev)
    <3>1. CASE n = Len(log) + 1  BY <1>1, <1>4, <3>1
    <3>2. CASE n # Len(log) + 1
      <4>1. n \in 1..Len(log)  BY <1>2, <3>2
      <4>2. QED  BY <1>4, <4>1, LogParts
    <3>3. QED  BY <3>1, <3>2
  <2>2. QED  BY <1>5, <2>1
<1>11. IsLog(new)  BY <1>9, <1>10 DEF IsLog
<1>12. QED  BY <1>4, <1>5, <1>6, <1>11 DEF new, e

(* SeedDef: the seed documents are ingested one after the other.           *)
LEMMA SeedDef ==
  /\ SeedChain[0] = <<>>
  /\ \A n \in 1..Len(Seed) :
       SeedChain[n] = Append(SeedChain[n - 1], Event(IngestBody(Seed[n]), LastHash(SeedChain[n - 1])))
<1> DEFINE N == Len(Seed)
           Grown(c, n) == Append(c[n - 1], Event(IngestBody(Seed[n]), LastHash(c[n - 1])))
           Def(c, k) == c = [n \in 0..k |-> IF n = 0 THEN <<>> ELSE Grown(c, n)]
           Good == {k \in Nat : \E c : Def(c, k)}
<1>1. N \in Nat  BY BlobsAssumption, LenProperties
<1>2. 0 \in Good
  <2>1. Def([n \in 0..0 |-> <<>>], 0)  OBVIOUS
  <2>2. QED  BY <2>1
<1>3. ASSUME NEW k \in Nat, k \in Good PROVE k + 1 \in Good
  <2>1. PICK c : Def(c, k)  BY <1>3
  <2> DEFINE d == [n \in 0..(k + 1) |-> IF n = k + 1 THEN Grown(c, k + 1) ELSE c[n]]
  <2>2. \A n \in 0..k : d[n] = c[n]  OBVIOUS
  <2>3. ASSUME NEW n \in 0..(k + 1) PROVE d[n] = IF n = 0 THEN <<>> ELSE Grown(d, n)
    <3>1. CASE n = 0  BY <2>1, <2>2, <3>1
    <3>2. CASE n \in 1..k
      <4>1. n - 1 \in 0..k /\ n \in 0..k /\ n # 0  BY <3>2
      <4>2. d[n] = c[n] /\ d[n - 1] = c[n - 1]  BY <2>2, <4>1
      <4>3. c[n] = Grown(c, n)  BY <2>1, <4>1
      <4> HIDE DEF d
      <4>4. QED  BY <4>1, <4>2, <4>3
    <3>3. CASE n = k + 1
      <4>1. (k + 1) - 1 = k /\ k \in 0..k /\ k + 1 # 0 /\ k + 1 \in 0..(k + 1)  OBVIOUS
      <4>2. d[k + 1] = Grown(c, k + 1) /\ d[k] = c[k]  BY <2>2, <4>1
      <4> HIDE DEF d
      <4>3. QED  BY <3>3, <4>1, <4>2
    <3>4. QED  BY <3>1, <3>2, <3>3
  <2>4. d = [n \in 0..(k + 1) |-> d[n]]  OBVIOUS
  <2> HIDE DEF d
  <2>5. Def(d, k + 1)  BY <2>3, <2>4
  <2> HIDE DEF Def
  <2>6. QED  BY <2>5
<1> HIDE DEF N, Def
<1>4. \E c : Def(c, N)
  <2> HIDE DEF Good
  <2>1. \A n \in 0..N : n \in Good  BY <1>1, <1>2, <1>3, StepByStep
  <2>2. N \in Good  BY <1>1, <2>1
  <2>3. QED  BY <2>2 DEF Good
<1>5. SeedChain = CHOOSE c : Def(c, N)  BY DEF SeedChain, Def, N
<1>6. Def(SeedChain, N)  BY <1>4, <1>5
<1>7. \A n \in 0..N : SeedChain[n] = IF n = 0 THEN <<>> ELSE Grown(SeedChain, n)  BY <1>6 DEF Def
<1>8. SeedChain[0] = <<>>  BY <1>1, <1>7
<1>9. ASSUME NEW n \in 1..N PROVE SeedChain[n] = Grown(SeedChain, n)
  <2>1. n \in 0..N /\ n # 0  BY <1>1
  <2>2. QED  BY <1>7, <2>1
<1>10. QED  BY <1>8, <1>9 DEF N

(* SeedLog: they give a log of ingests, one for each document.             *)
LEMMA SeedLog ==
  /\ IsLog(SeedEvents) /\ DOMAIN SeedEvents = DOMAIN Seed
  /\ \A n \in DOMAIN SeedEvents : SeedEvents[n].body.type = "ingest.bytes"
<1> DEFINE N == Len(Seed)
           Good == {n \in Nat : /\ IsLog(SeedChain[n]) /\ Len(SeedChain[n]) = n
                                /\ \A m \in 1..n : SeedChain[n][m].body.type = "ingest.bytes"}
<1>1. N \in Nat /\ DOMAIN Seed = 1..N /\ \A n \in 1..N : Seed[n] \in Blobs
  BY BlobsAssumption, LenProperties, ElementOfSeq
<1>2. 0 \in Good
  <2>1. IsLog(<<>>) /\ Len(<<>>) = 0  BY EmptySeq DEF IsLog
  <2>2. QED  BY <2>1, SeedDef
<1>3. ASSUME NEW n \in 0..N, n \in Good, n < N PROVE n + 1 \in Good
  <2> DEFINE log == SeedChain[n]
             body == IngestBody(Seed[n + 1])
  <2>1. IsLog(log) /\ Len(log) = n /\ \A m \in 1..n : log[m].body.type = "ingest.bytes"  BY <1>3
  <2>2. body \in Bodies /\ body.type = "ingest.bytes"
    <3>1. Seed[n + 1] \in Blobs  BY <1>1, <1>3
    <3>2. QED  BY <3>1 DEF IngestBody, Bodies
  <2>3. LastHash(log) \in Hashes(log) \cup {None}  BY <2>1, LogParts
  <2>4. SeedChain[n + 1] = Append(log, Event(body, LastHash(log)))
    <3>1. n + 1 \in 1..Len(Seed) /\ (n + 1) - 1 = n  BY <1>1, <1>3
    <3>2. QED  BY <3>1, SeedDef
  <2> HIDE DEF log, body
  <2>5. /\ IsLog(SeedChain[n + 1]) /\ Len(SeedChain[n + 1]) = n + 1
        /\ \A m \in 1..n : SeedChain[n + 1][m] = log[m]
        /\ SeedChain[n + 1][n + 1] = Event(body, LastHash(log))
    BY <2>1, <2>2, <2>3, <2>4, AppendLog
  <2>6. SeedChain[n + 1][n + 1].body = body  BY <2>5 DEF Event
  <2>7. ASSUME NEW m \in 1..(n + 1) PROVE SeedChain[n + 1][m].body.type = "ingest.bytes"
    <3>1. CASE m = n + 1  BY <2>2, <2>6, <3>1
    <3>2. CASE m # n + 1
      <4>1. m \in 1..n  BY <3>2
      <4>2. QED  BY <2>1, <2>5, <4>1
    <3>3. QED  BY <3>1, <3>2
  <2>8. QED  BY <1>1, <2>5, <2>7
<1> HIDE DEF Good, N
<1>4. N \in Good
  <2>1. \A n \in 0..N : n \in Good  BY <1>1, <1>2, <1>3, StepByStep
  <2>2. QED  BY <1>1, <2>1
<1>5. IsLog(SeedEvents) /\ Len(SeedEvents) = N /\ \A m \in 1..N : SeedEvents[m].body.type = "ingest.bytes"
  BY <1>4 DEF Good, N, SeedEvents
<1>6. QED  BY <1>1, <1>5, LogParts

-----------------------------------------------------------------------------
(* Types.                                                                  *)

(* What the tables hold stays; files may go.                               *)
Grows ==
  /\ Hashes(events) \subseteq Hashes(events') /\ DOMAIN events \subseteq DOMAIN events'
  /\ objects \subseteq objects' /\ DOMAIN docs \subseteq DOMAIN docs'

(* FrameStays: then a frame that fits its step fits it still.              *)
LEMMA FrameStays ==
  ASSUME Grows
  PROVE  \A l, f : FrameFits(l, f) => FrameFits(l, f)'
BY DEF Grows, FrameFits, StoreFrames, GcFrames

ControlTyped == pc \in [Procs -> Pcs] /\ DOMAIN ctx = Procs /\ \A p \in Procs : FrameFits(pc[p], ctx[p])

(* OneMoves: a process moves to a step with a frame that fits it.          *)
LEMMA OneMoves ==
  ASSUME TypeOK, Grows, NEW p \in Procs, NEW l \in Pcs,
         pc' = [pc EXCEPT ![p] = l], DOMAIN ctx' = Procs, FrameFits(l, ctx[p])'
         , \A r \in Procs : r # p => ctx'[r] = ctx[r]
  PROVE  ControlTyped' /\ pc'[p] = l /\ \A r \in Procs : r # p => pc'[r] = pc[r]
<1>1. pc' \in [Procs -> Pcs] /\ pc'[p] = l /\ \A r \in Procs : r # p => pc'[r] = pc[r]
  BY DEF TypeOK
<1>2. ASSUME NEW r \in Procs PROVE FrameFits(pc[r], ctx[r])'
  <2>1. CASE r = p  BY <1>1, <2>1
  <2>2. CASE r # p
    <3>1. FrameFits(pc[r], ctx[r])  BY DEF TypeOK
    <3>2. QED  BY <1>1, <2>2, <3>1, FrameStays
  <2>3. QED  BY <2>1, <2>2
<1>3. QED  BY <1>1, <1>2 DEF ControlTyped

TablesTyped ==
  /\ IsLog(events) /\ objects \subseteq Blobs
  /\ DOMAIN docs \subseteq objects /\ docs \in [DOMAIN docs -> DOMAIN events]
  /\ DOMAIN canonical \subseteq DOMAIN docs /\ canonical \in [DOMAIN canonical -> objects]
FilesTyped == DOMAIN files \subseteq Blobs /\ files \in [DOMAIN files -> {"partial", "whole"}]
CountsTyped == ops \in [OpKinds -> Nat] /\ crashes \in Nat

(* TypeParts: TypeOK by its parts.                                         *)
LEMMA TypeParts ==
  ASSUME TablesTyped', FilesTyped', CountsTyped', ControlTyped'
  PROVE  TypeOK'
BY DEF TypeOK, TablesTyped, FilesTyped, CountsTyped, ControlTyped

(* SameTables: a step that leaves the tables alone.                        *)
LEMMA SameTables ==
  ASSUME TypeOK, UNCHANGED tables
  PROVE  TablesTyped' /\ Grows
BY DEF TypeOK, TablesTyped, Grows, tables, Hashes

(* StoreAt: the frame of a call that stores bytes.                         *)
LEMMA StoreAt ==
  ASSUME TypeOK, NEW p \in Procs, pc[p] \in Pcs \ {"idle", "gcSweep"}
  PROVE  /\ ctx[p] \in StoreFrames /\ ctx[p].blob \in Blobs /\ ctx[p].doc \in Blobs
         /\ ctx[p].prev \in Hashes(events) \cup {None} /\ ctx[p].event \in Nat
         /\ ctx[p].op \in {"ingest", "canonical"}
         /\ pc[p] \in FileSteps \cup {"insertDoc", "upsertCanonical"} => ctx[p].event \in DOMAIN events
         /\ ctx[p].op = "ingest" => ctx[p].doc = ctx[p].blob
         /\ pc[p] # "insertEvent" /\ ctx[p].op = "canonical" => ctx[p].doc \in DOMAIN docs
         /\ pc[p] = "insertEvent" => ctx[p].op = "ingest"
         /\ pc[p] \in {"insertDoc", "upsertCanonical"} =>
              ctx[p].blob \in objects /\ ctx[p].op = IF pc[p] = "insertDoc" THEN "ingest" ELSE "canonical"
<1>1. FrameFits(pc[p], ctx[p])  BY DEF TypeOK
<1>2. ctx[p] \in StoreFrames  BY <1>1 DEF FrameFits
<1>3. QED  BY <1>1, <1>2 DEF FrameFits, StoreFrames, Pcs, FileSteps

(* GoesOn: a store call moves on with the frame it has.                    *)
LEMMA GoesOn ==
  ASSUME TypeOK, Grows, NEW p \in Procs, pc[p] \in FileSteps, NEW l,
         l \in FileSteps \/ (l = "insertDoc" /\ ctx[p].op = "ingest" /\ ctx[p].blob \in objects')
           \/ (l = "upsertCanonical" /\ ctx[p].op = "canonical" /\ ctx[p].blob \in objects'),
         Goto(p, l)
  PROVE  /\ ControlTyped' /\ CountsTyped' /\ UNCHANGED <<ctx, ops, crashes>>
         /\ pc'[p] = l /\ \A r \in Procs : r # p => pc'[r] = pc[r]
<1>1. UNCHANGED <<ctx, ops, crashes>> /\ pc' = [pc EXCEPT ![p] = l] /\ l \in Pcs
  BY DEF Goto, Pcs, FileSteps
<1>2. FrameFits(l, ctx[p])'
  <2>1. FrameFits(pc[p], ctx[p]) /\ pc[p] \notin {"idle", "gcSweep"} /\ pc[p] \in Pcs
    BY DEF TypeOK, FileSteps
  <2>2. ctx[p] \in StoreFrames /\ ctx[p].event \in DOMAIN events
        /\ (ctx[p].op = "ingest" => ctx[p].doc = ctx[p].blob)
        /\ (ctx[p].op = "canonical" => ctx[p].doc \in DOMAIN docs)
    BY <2>1, StoreAt DEF FileSteps
  <2>3. ctx[p] \in StoreFrames' /\ ctx[p].event \in DOMAIN events'
        /\ (ctx[p].op = "canonical" => ctx[p].doc \in DOMAIN docs')
    BY <2>2 DEF Grows, StoreFrames
  <2>4. QED  BY <1>1, <2>2, <2>3 DEF FrameFits, FileSteps
<1>3. QED  BY <1>1, <1>2, OneMoves DEF TypeOK, CountsTyped

(* Returns: a call that ends, or dies.                                     *)
LEMMA Returns ==
  ASSUME TypeOK, Grows, NEW p \in Procs, pc' = [pc EXCEPT ![p] = "idle"], ctx' = [ctx EXCEPT ![p] = None]
  PROVE  ControlTyped' /\ pc'[p] = "idle" /\ \A r \in Procs : r # p => pc'[r] = pc[r] /\ ctx'[r] = ctx[r]
<1>1. "idle" \in Pcs  BY DEF Pcs
<1>2. DOMAIN ctx' = Procs /\ ctx'[p] = None /\ \A r \in Procs : r # p => ctx'[r] = ctx[r]  BY DEF TypeOK
<1>3. FrameFits("idle", ctx[p])'  BY <1>2 DEF FrameFits, FileSteps
<1>4. ControlTyped' /\ pc'[p] = "idle" /\ \A r \in Procs : r # p => pc'[r] = pc[r]
  BY <1>1, <1>2, <1>3, OneMoves
<1>5. QED  BY <1>2, <1>4

(* Begins: a call that starts with a frame that fits its first step.       *)
LEMMA Begins ==
  ASSUME TypeOK, Grows, NEW p \in Procs, NEW kind \in OpKinds, NEW l \in Pcs, NEW c,
         Call(p, kind, l, c), FrameFits(l, c)'
  PROVE  /\ ControlTyped' /\ CountsTyped' /\ UNCHANGED crashes /\ pc[p] = "idle"
         /\ pc'[p] = l /\ ctx'[p] = c /\ ops' = [ops EXCEPT ![kind] = @ + 1]
         /\ \A r \in Procs : r # p => pc'[r] = pc[r] /\ ctx'[r] = ctx[r]
<1>1. /\ pc[p] = "idle" /\ pc' = [pc EXCEPT ![p] = l] /\ ctx' = [ctx EXCEPT ![p] = c]
      /\ ops' = [ops EXCEPT ![kind] = @ + 1] /\ UNCHANGED crashes
  BY DEF Call, Start
<1>2. DOMAIN ctx' = Procs /\ ctx'[p] = c /\ \A r \in Procs : r # p => ctx'[r] = ctx[r]
  BY <1>1 DEF TypeOK
<1>3. FrameFits(l, ctx[p])'  BY <1>2
<1>4. ControlTyped' /\ pc'[p] = l /\ \A r \in Procs : r # p => pc'[r] = pc[r]
  BY <1>1, <1>2, <1>3, OneMoves
<1>5. CountsTyped'  BY <1>1 DEF TypeOK, CountsTyped
<1>6. QED  BY <1>1, <1>2, <1>4, <1>5

(* AppendGrows: an event is appended and the other tables stay.            *)
LEMMA AppendGrows ==
  ASSUME TypeOK, NEW body \in Bodies, NEW prev \in Hashes(events) \cup {None},
         events' = Append(events, Event(body, prev)), UNCHANGED <<objects, docs, canonical>>
  PROVE  /\ TablesTyped' /\ Grows /\ Len(events) \in Nat /\ DOMAIN events = 1..Len(events)
         /\ DOMAIN events' = 1..(Len(events) + 1) /\ \A n \in 1..Len(events) : events'[n] = events[n]
         /\ events'[Len(events) + 1].body = body /\ events'[Len(events) + 1].prev = prev
<1>1. IsLog(events)  BY DEF TypeOK
<1>2. Len(events) \in Nat /\ DOMAIN events = 1..Len(events)  BY <1>1, LogParts
<1>3. /\ IsLog(events') /\ Hashes(events) \subseteq Hashes(events')
      /\ DOMAIN events' = 1..(Len(events) + 1) /\ \A n \in 1..Len(events) : events'[n] = events[n]
      /\ events'[Len(events) + 1] = Event(body, prev)
  BY <1>1, AppendLog
<1>4. DOMAIN events \subseteq DOMAIN events'  BY <1>2, <1>3
<1>5. Grows  BY <1>3, <1>4 DEF Grows
<1>6. TablesTyped'  BY <1>3, <1>4 DEF TypeOK, TablesTyped
<1>7. QED  BY <1>2, <1>3, <1>5, <1>6 DEF Event

(* IngestEventTypes: append_event of ingest_bytes, in its two statements.  *)
LEMMA IngestEventTypes ==
  ASSUME TypeOK, NEW p \in Procs
  PROVE  /\ \A b \in Blobs : IngestStart(p, b) => TypeOK' /\ Grows
         /\ InsertEvent(p) => TypeOK' /\ Grows
<1>1. ASSUME NEW b \in Blobs, IngestStart(p, b) PROVE TypeOK' /\ Grows
  <2>0. PICK f : f = [op |-> "ingest", blob |-> b, doc |-> b, prev |-> LastHash(events), event |-> 0]
    OBVIOUS
  <2>1. Call(p, "ingest", "insertEvent", f) /\ UNCHANGED <<tables, files>>  BY <1>1, <2>0 DEF IngestStart
  <2>2. TablesTyped' /\ Grows /\ FilesTyped'  BY <2>1, SameTables DEF TypeOK, FilesTyped
  <2>3. f \in StoreFrames' /\ f.op = "ingest" /\ f.doc = f.blob
    <3>1. LastHash(events) \in Hashes(events) \cup {None}  BY LogParts DEF TypeOK
    <3>2. QED  BY <2>0, <2>1, <3>1 DEF StoreFrames, tables
  <2>4. FrameFits("insertEvent", f)'  BY <2>3 DEF FrameFits, FileSteps
  <2>5. "insertEvent" \in Pcs /\ "ingest" \in OpKinds  BY DEF Pcs, OpKinds
  <2>6. ControlTyped' /\ CountsTyped'  BY <2>1, <2>2, <2>4, <2>5, Begins
  <2>7. QED  BY <2>2, <2>6, TypeParts
<1>2. ASSUME InsertEvent(p) PROVE TypeOK' /\ Grows
  <2> DEFINE body == IngestBody(ctx[p].blob)
  <2>1. /\ pc[p] = "insertEvent" /\ events' = Append(events, Event(body, ctx[p].prev))
        /\ pc' = [pc EXCEPT ![p] = "checkFile"] /\ ctx' = [ctx EXCEPT ![p].event = Len(events) + 1]
        /\ UNCHANGED <<objects, docs, canonical, files, ops, crashes>>
    BY <1>2 DEF InsertEvent
  <2>2. pc[p] \in Pcs \ {"idle", "gcSweep"}  BY <2>1 DEF TypeOK
  <2>3. /\ ctx[p] \in StoreFrames /\ ctx[p].blob \in Blobs /\ ctx[p].prev \in Hashes(events) \cup {None}
        /\ ctx[p].op = "ingest" /\ ctx[p].doc = ctx[p].blob
    BY <2>1, <2>2, StoreAt
  <2>4. body \in Bodies  BY <2>3 DEF IngestBody, Bodies
  <2> HIDE DEF body
  <2>5. TablesTyped' /\ Grows /\ Len(events) + 1 \in Nat /\ Len(events) + 1 \in DOMAIN events'
    <3>1. /\ TablesTyped' /\ Grows /\ Len(events) \in Nat /\ DOMAIN events' = 1..(Len(events) + 1)
      BY <2>1, <2>3, <2>4, AppendGrows
    <3>2. QED  BY <3>1
  <2> DEFINE f == [ctx[p] EXCEPT !.event = Len(events) + 1]
  <2>6. f \in StoreFrames' /\ f.op = "ingest" /\ f.doc = f.blob /\ f.event \in DOMAIN events'
    BY <2>3, <2>5 DEF StoreFrames, Grows
  <2>7. ctx'[p] = f /\ DOMAIN ctx' = Procs /\ \A r \in Procs : r # p => ctx'[r] = ctx[r]
    BY <2>1 DEF TypeOK
  <2> HIDE DEF f
  <2>8. FrameFits("checkFile", ctx[p])'  BY <2>6, <2>7 DEF FrameFits, FileSteps
  <2>9. "checkFile" \in Pcs  BY DEF Pcs, FileSteps
  <2>10. ControlTyped'  BY <2>1, <2>5, <2>7, <2>8, <2>9, OneMoves
  <2>11. FilesTyped' /\ CountsTyped'  BY <2>1 DEF TypeOK, FilesTyped, CountsTyped
  <2>12. QED  BY <2>5, <2>10, <2>11, TypeParts
<1>3. QED  BY <1>1, <1>2

StoreSteps(p) == CheckFile(p) \/ CreateFile(p) \/ WriteFile(p) \/ InsertObject(p)

(* StoreTypes: put_bytes, statement by statement.                          *)
LEMMA StoreTypes ==
  ASSUME TypeOK, NEW p \in Procs, StoreSteps(p)
  PROVE  /\ TypeOK' /\ Grows /\ UNCHANGED <<events, docs, canonical, ctx, ops, crashes>>
         /\ \A r \in Procs : r # p => pc'[r] = pc[r]
<1>1. /\ pc[p] \in FileSteps /\ UNCHANGED <<events, docs, canonical>>
  BY DEF StoreSteps, CheckFile, CreateFile, WriteFile, InsertObject, FileSteps, tables
<1>2. pc[p] \in Pcs \ {"idle", "gcSweep"}  BY <1>1 DEF TypeOK, FileSteps
<1>3. ctx[p].blob \in Blobs /\ ctx[p].op \in {"ingest", "canonical"}  BY <1>2, StoreAt
<1>4. UNCHANGED objects \/ objects' = objects \cup {ctx[p].blob}
  BY DEF StoreSteps, CheckFile, CreateFile, WriteFile, InsertObject, tables
<1>5. Grows  BY <1>1, <1>4 DEF Grows
<1>6. TablesTyped'  BY <1>1, <1>3, <1>4 DEF TypeOK, TablesTyped
<1>7. FilesTyped'
  <2>1. ASSUME NEW s \in {"partial", "whole"}, SetFile(ctx[p].blob, s) PROVE FilesTyped'
    BY <1>3, <2>1 DEF SetFile, TypeOK, FilesTyped
  <2>2. CASE UNCHANGED files  BY <2>2 DEF TypeOK, FilesTyped
  <2>3. QED
    BY <2>1, <2>2 DEF StoreSteps, CheckFile, CreateFile, WriteFile, InsertObject
<1>8. \E l : /\ Goto(p, l)
             /\ \/ l \in FileSteps
                \/ l = "insertDoc" /\ ctx[p].op = "ingest" /\ ctx[p].blob \in objects'
                \/ l = "upsertCanonical" /\ ctx[p].op = "canonical" /\ ctx[p].blob \in objects'
  <2>1. CASE CheckFile(p)  BY <2>1 DEF CheckFile, FileSteps
  <2>2. CASE CreateFile(p)  BY <2>2 DEF CreateFile, FileSteps
  <2>3. CASE WriteFile(p)  BY <2>3 DEF WriteFile, FileSteps
  <2>4. CASE InsertObject(p)  BY <1>3, <2>4 DEF InsertObject
  <2>5. QED  BY <2>1, <2>2, <2>3, <2>4 DEF StoreSteps
<1>9. ControlTyped' /\ CountsTyped' /\ UNCHANGED <<ctx, ops, crashes>> /\ \A r \in Procs : r # p => pc'[r] = pc[r]
  BY <1>1, <1>5, <1>8, GoesOn
<1>10. QED  BY <1>1, <1>5, <1>6, <1>7, <1>9, TypeParts

(* DocTypes: the rows of documents and canonical texts.                    *)
LEMMA DocTypes ==
  ASSUME TypeOK, NEW p \in Procs
  PROVE  /\ InsertDoc(p) => TypeOK' /\ Grows
         /\ \A doc, b \in Blobs : CanonicalStart(p, doc, b) => TypeOK' /\ Grows
         /\ UpsertCanonical(p) => TypeOK' /\ Grows
<1>1. ASSUME InsertDoc(p) PROVE TypeOK' /\ Grows
  <2>1. pc[p] \in Pcs \ {"idle", "gcSweep"} /\ pc[p] = "insertDoc"  BY <1>1 DEF InsertDoc, TypeOK
  <2>2. ctx[p].event \in DOMAIN events /\ ctx[p].blob \in objects /\ ctx[p].doc = ctx[p].blob
    BY <2>1, StoreAt
  <2>3. /\ docs' = [x \in DOMAIN docs \cup {ctx[p].doc} |->
                      IF x \in DOMAIN docs THEN docs[x] ELSE ctx[p].event]
        /\ UNCHANGED <<events, objects, canonical, files, ops, crashes>>
        /\ pc' = [pc EXCEPT ![p] = "idle"] /\ ctx' = [ctx EXCEPT ![p] = None]
    BY <1>1 DEF InsertDoc, Return
  <2>4. Grows  BY <2>3 DEF Grows
  <2>5. TablesTyped'  BY <2>2, <2>3 DEF TypeOK, TablesTyped
  <2>6. FilesTyped' /\ CountsTyped'  BY <2>3 DEF TypeOK, FilesTyped, CountsTyped
  <2>7. ControlTyped'  BY <2>3, <2>4, Returns
  <2>8. QED  BY <2>4, <2>5, <2>6, <2>7, TypeParts
<1>2. ASSUME NEW doc \in Blobs, NEW b \in Blobs, CanonicalStart(p, doc, b) PROVE TypeOK' /\ Grows
  <2>1. PICK f : f = [op |-> "canonical", blob |-> b, doc |-> doc, prev |-> None, event |-> docs[doc]]
    OBVIOUS
  <2>2. Call(p, "canonical", "checkFile", f) /\ UNCHANGED <<tables, files>> /\ doc \in DOMAIN docs
    BY <1>2, <2>1 DEF CanonicalStart
  <2>3. TablesTyped' /\ Grows /\ FilesTyped'  BY <2>2, SameTables DEF TypeOK, FilesTyped
  <2>4. docs[doc] \in DOMAIN events /\ docs[doc] \in Nat
    <3>1. docs[doc] \in DOMAIN events  BY <2>2 DEF TypeOK
    <3>2. DOMAIN events = 1..Len(events) /\ Len(events) \in Nat  BY LogParts DEF TypeOK
    <3>3. QED  BY <3>1, <3>2
  <2>5. f \in StoreFrames' /\ f.op = "canonical" /\ f.doc \in DOMAIN docs' /\ f.event \in DOMAIN events'
    BY <2>1, <2>2, <2>4 DEF StoreFrames, tables
  <2>6. FrameFits("checkFile", f)'  BY <2>5 DEF FrameFits, FileSteps
  <2>7. "checkFile" \in Pcs /\ "canonical" \in OpKinds  BY DEF Pcs, FileSteps, OpKinds
  <2>8. ControlTyped' /\ CountsTyped'  BY <2>2, <2>3, <2>6, <2>7, Begins
  <2>9. QED  BY <2>3, <2>8, TypeParts
<1>3. ASSUME UpsertCanonical(p) PROVE TypeOK' /\ Grows
  <2>1. pc[p] \in Pcs \ {"idle", "gcSweep"} /\ pc[p] = "upsertCanonical"  BY <1>3 DEF UpsertCanonical, TypeOK
  <2>2. ctx[p].blob \in objects /\ ctx[p].doc \in DOMAIN docs  BY <2>1, StoreAt
  <2>3. /\ canonical' = [x \in DOMAIN canonical \cup {ctx[p].doc} |->
                           IF x = ctx[p].doc THEN ctx[p].blob ELSE canonical[x]]
        /\ UNCHANGED <<events, objects, docs, files, ops, crashes>>
        /\ pc' = [pc EXCEPT ![p] = "idle"] /\ ctx' = [ctx EXCEPT ![p] = None]
    BY <1>3 DEF UpsertCanonical, Return
  <2>4. Grows  BY <2>3 DEF Grows
  <2>5. TablesTyped'  BY <2>2, <2>3 DEF TypeOK, TablesTyped
  <2>6. FilesTyped' /\ CountsTyped'  BY <2>3 DEF TypeOK, FilesTyped, CountsTyped
  <2>7. ControlTyped'  BY <2>3, <2>4, Returns
  <2>8. QED  BY <2>4, <2>5, <2>6, <2>7, TypeParts
<1>4. QED  BY <1>1, <1>2, <1>3

(* GcTypes: run_gc, and crashes.                                           *)
LEMMA GcTypes ==
  ASSUME TypeOK, NEW p \in Procs, GcStart(p) \/ GcRemove(p) \/ GcEnd(p) \/ Crash(p)
  PROVE  TypeOK' /\ Grows /\ UNCHANGED tables
<1>1. UNCHANGED tables  BY DEF GcStart, GcRemove, GcEnd, Crash
<1>2. TablesTyped' /\ Grows  BY <1>1, SameTables
<1>3. CASE GcStart(p)
  <2>1. PICK f : f = [op |-> "gc", existing |-> objects, found |-> DOMAIN files]  OBVIOUS
  <2>2. Call(p, "gc", "gcSweep", f) /\ UNCHANGED files  BY <1>3, <2>1 DEF GcStart
  <2>3. f \in GcFrames  BY <2>1 DEF GcFrames, TypeOK
  <2>4. FrameFits("gcSweep", f)'  BY <2>3 DEF FrameFits, FileSteps, GcFrames
  <2>5. "gcSweep" \in Pcs /\ "gc" \in OpKinds  BY DEF Pcs, OpKinds
  <2>6. ControlTyped' /\ CountsTyped'  BY <1>2, <2>2, <2>4, <2>5, Begins
  <2>7. QED  BY <1>1, <1>2, <2>2, <2>6, TypeParts DEF TypeOK, FilesTyped
<1>4. CASE GcRemove(p)
  <2>1. PICK b \in DOMAIN files : files' = [x \in DOMAIN files \ {b} |-> files[x]]  BY <1>4 DEF GcRemove
  <2>2. FilesTyped'  BY <2>1 DEF TypeOK, FilesTyped
  <2>3. UNCHANGED <<pc, ctx, ops, crashes>>  BY <1>4 DEF GcRemove
  <2>4. ASSUME NEW r \in Procs PROVE FrameFits(pc[r], ctx[r])'
    <3>1. FrameFits(pc[r], ctx[r])  BY DEF TypeOK
    <3>2. QED  BY <1>2, <2>3, <3>1, FrameStays
  <2>5. ControlTyped' /\ CountsTyped'  BY <2>3, <2>4 DEF TypeOK, ControlTyped, CountsTyped
  <2>6. QED  BY <1>1, <1>2, <2>2, <2>5, TypeParts
<1>5. CASE GcEnd(p)
  <2>1. ControlTyped'  BY <1>2, <1>5, Returns DEF GcEnd, Return
  <2>2. FilesTyped' /\ CountsTyped'  BY <1>5 DEF GcEnd, Return, TypeOK, FilesTyped, CountsTyped
  <2>3. QED  BY <1>1, <1>2, <2>1, <2>2, TypeParts
<1>6. CASE Crash(p)
  <2>1. ControlTyped'  BY <1>2, <1>6, Returns DEF Crash
  <2>2. FilesTyped' /\ CountsTyped'  BY <1>6 DEF Crash, TypeOK, FilesTyped, CountsTyped
  <2>3. QED  BY <1>1, <1>2, <2>1, <2>2, TypeParts
<1>7. QED  BY <1>3, <1>4, <1>5, <1>6

(* LifecycleTypes: a transition pins texts that there are.                 *)
LEMMA LifecycleTypes ==
  ASSUME TypeOK, NEW doc \in Blobs, NEW repl \in Blobs \cup {None}, LifecycleMutate(doc, repl)
  PROVE  TypeOK' /\ Grows /\ LifecycleBody(doc, repl) \in Bodies
<1>1. /\ doc \in DOMAIN canonical /\ (repl # None => repl \in DOMAIN canonical)
      /\ events' = Append(events, Event(LifecycleBody(doc, repl), LastHash(events)))
      /\ UNCHANGED <<objects, docs, canonical, files, pc, ctx, crashes>>
      /\ ops' = [ops EXCEPT !["lifecycle"] = @ + 1]
  BY DEF LifecycleMutate, Start
<1>2. \A x \in DOMAIN canonical : canonical[x] \in Blobs  BY DEF TypeOK
<1>3. LifecycleBody(doc, repl) \in Bodies  BY <1>1, <1>2 DEF LifecycleBody, Bodies
<1>4. LastHash(events) \in Hashes(events) \cup {None}  BY LogParts DEF TypeOK
<1>5. TablesTyped' /\ Grows  BY <1>1, <1>3, <1>4, AppendGrows
<1>6. ASSUME NEW r \in Procs PROVE FrameFits(pc[r], ctx[r])'
  <2>1. FrameFits(pc[r], ctx[r])  BY DEF TypeOK
  <2>2. QED  BY <1>1, <1>5, <2>1, FrameStays
<1>7. ControlTyped' /\ FilesTyped'  BY <1>1, <1>6 DEF TypeOK, ControlTyped, FilesTyped
<1>8. CountsTyped'  BY <1>1 DEF TypeOK, CountsTyped, OpKinds
<1>9. QED  BY <1>3, <1>5, <1>7, <1>8, TypeParts

-----------------------------------------------------------------------------
(* Transitions.                                                            *)

(* PrefixVerified: what was verified stays so.                             *)
LEMMA PrefixVerified ==
  ASSUME NEW k \in Nat, NEW n \in 0..k, VerifiedUpTo(n), \A m \in 1..k : events'[m] = events[m]
  PROVE  VerifiedUpTo(n)'
<1>1. ASSUME NEW m \in 1..n
      PROVE  events'[m].prev = IF m = 1 THEN None ELSE events'[m - 1].hash
  <2>1. m \in 1..k /\ (m # 1 => m - 1 \in 1..k)  OBVIOUS
  <2>2. events[m].prev = IF m = 1 THEN None ELSE events[m - 1].hash  BY DEF VerifiedUpTo
  <2>3. QED  BY <2>1, <2>2
<1>2. QED  BY <1>1 DEF VerifiedUpTo

(* InsertKeeps: an ingest event, wherever it links, decides nothing.       *)
LEMMA InsertKeeps ==
  ASSUME TypeOK, NEW p \in Procs, InsertEvent(p), LifecycleOnVerifiedPrefix, TransitionsOrdered
  PROVE  /\ LifecycleOnVerifiedPrefix' /\ TransitionsOrdered'
         /\ \A n \in DOMAIN events' : IsLifecycle(n)' => n \in DOMAIN events
         /\ \A n \in DOMAIN events : n \in DOMAIN events' /\ events'[n] = events[n]
<1> DEFINE body == IngestBody(ctx[p].blob)
           N == Len(events)
<1>1. pc[p] \in Pcs \ {"idle", "gcSweep"} /\ pc[p] = "insertEvent"  BY DEF InsertEvent, TypeOK
<1>2. ctx[p].blob \in Blobs /\ ctx[p].prev \in Hashes(events) \cup {None}  BY <1>1, StoreAt
<1>3. body \in Bodies /\ body.type # "document.lifecycle"  BY <1>2 DEF IngestBody, Bodies
<1>4. events' = Append(events, Event(body, ctx[p].prev)) /\ UNCHANGED <<objects, docs, canonical>>
  BY DEF InsertEvent
<1> HIDE DEF body
<1>5. /\ N \in Nat /\ DOMAIN events = 1..N /\ DOMAIN events' = 1..(N + 1)
      /\ \A n \in 1..N : events'[n] = events[n]
      /\ events'[N + 1].body = body
  BY <1>2, <1>3, <1>4, AppendGrows
<1> HIDE DEF N
<1>6. ASSUME NEW n \in DOMAIN events', events'[n].body.type = "document.lifecycle" PROVE n \in 1..N
  BY <1>3, <1>5, <1>6
<1>7. ASSUME NEW n \in DOMAIN events', events'[n].body.type = "document.lifecycle"
      PROVE  VerifiedUpTo(n)'
  <2>1. n \in 1..N /\ n \in 0..N /\ events[n].body.type = "document.lifecycle"  BY <1>5, <1>6, <1>7
  <2>2. VerifiedUpTo(n)  BY <1>5, <2>1 DEF LifecycleOnVerifiedPrefix, IsLifecycle
  <2>3. QED  BY <1>5, <2>1, <2>2, PrefixVerified
<1>8. LifecycleOnVerifiedPrefix'  BY <1>7 DEF LifecycleOnVerifiedPrefix, IsLifecycle
<1>9. TransitionsOrdered'
  <2>1. ASSUME NEW n \in DOMAIN events', NEW m \in DOMAIN events',
               events'[n].body.type = "document.lifecycle", events'[m].body.type = "document.lifecycle"
        PROVE  /\ events'[n].body.doc = events'[m].body.doc => n = m
               /\ events'[m].body.doc = events'[n].body.repl => n < m
    <3>1. n \in 1..N /\ m \in 1..N  BY <1>6, <2>1
    <3>2. events'[n] = events[n] /\ events'[m] = events[m]  BY <1>5, <3>1
    <3>3. QED  BY <1>5, <2>1, <3>1, <3>2 DEF TransitionsOrdered, IsLifecycle
  <2>2. QED  BY <2>1 DEF TransitionsOrdered, IsLifecycle
<1>10. \A n \in DOMAIN events' : IsLifecycle(n)' => n \in DOMAIN events
  BY <1>5, <1>6 DEF IsLifecycle
<1>11. \A n \in DOMAIN events : n \in DOMAIN events' /\ events'[n] = events[n]  BY <1>5
<1>12. QED  BY <1>8, <1>9, <1>10, <1>11

(* MutateEffect: the new event is the only transition of its document, and *)
(* its replacement has none.                                               *)
LEMMA MutateEffect ==
  ASSUME TypeOK, NEW doc \in Blobs, NEW repl \in Blobs \cup {None}, LifecycleMutate(doc, repl)
  PROVE  LET N == Len(events)
         IN /\ N \in Nat /\ DOMAIN events = 1..N /\ DOMAIN events' = 1..(N + 1)
            /\ \A n \in 1..N : events'[n] = events[n]
            /\ events'[N + 1].body.type = "document.lifecycle"
            /\ events'[N + 1].body.doc = doc /\ events'[N + 1].body.repl = repl /\ doc # repl
            /\ events'[N + 1].prev = LastHash(events)
            /\ VerifiedUpTo(N)
            /\ \A n \in 1..N : IsLifecycle(n) => events[n].body.doc # doc /\ events[n].body.doc # repl
<1> DEFINE body == LifecycleBody(doc, repl)
           N == Len(events)
<1>1. body \in Bodies /\ LastHash(events) \in Hashes(events) \cup {None}
  BY LifecycleTypes, LogParts DEF TypeOK
<1>2. body.type = "document.lifecycle" /\ body.doc = doc /\ body.repl = repl  BY DEF LifecycleBody
<1>3. /\ events' = Append(events, Event(body, LastHash(events))) /\ UNCHANGED <<objects, docs, canonical>>
      /\ doc # repl /\ VerifiedUpTo(N) /\ LifecycleEventsOf(doc) = {}
      /\ repl # None => LifecycleEventsOf(repl) = {}
  BY DEF LifecycleMutate, ReadVerifiedEventChain
<1> HIDE DEF body
<1>4. /\ N \in Nat /\ DOMAIN events = 1..N /\ DOMAIN events' = 1..(N + 1)
      /\ \A n \in 1..N : events'[n] = events[n]
      /\ events'[N + 1].body = body /\ events'[N + 1].prev = LastHash(events)
  BY <1>1, <1>3, AppendGrows
<1>5. ASSUME NEW n \in 1..N, IsLifecycle(n) PROVE events[n].body.doc # doc /\ events[n].body.doc # repl
  <2>1. events[n].body.doc \in Blobs
    <3>1. events[n].body \in Bodies  BY LogParts DEF TypeOK
    <3>2. QED  BY <3>1 DEF Bodies
  <2>2. n \in LifecycleEventsOf(events[n].body.doc)  BY <1>4, <1>5 DEF LifecycleEventsOf
  <2>3. events[n].body.doc # None  BY <2>1, BlobsAssumption
  <2>4. QED  BY <1>3, <2>2, <2>3
<1>6. QED  BY <1>2, <1>3, <1>4, <1>5

(* MutateKeeps: a transition is recorded on a verified chain, for a        *)
(* document and with a replacement that have none.                         *)
LEMMA MutateKeeps ==
  ASSUME TypeOK, NEW doc \in Blobs, NEW repl \in Blobs \cup {None}, LifecycleMutate(doc, repl),
         LifecycleOnVerifiedPrefix, TransitionsOrdered
  PROVE  LifecycleOnVerifiedPrefix' /\ TransitionsOrdered'
<1>0. PICK N : N = Len(events)  OBVIOUS
<1>1. /\ N \in Nat /\ DOMAIN events = 1..N /\ DOMAIN events' = 1..(N + 1)
      /\ \A n \in 1..N : events'[n] = events[n]
      /\ events'[N + 1].body.doc = doc /\ events'[N + 1].body.repl = repl /\ doc # repl
      /\ events'[N + 1].prev = LastHash(events)
      /\ VerifiedUpTo(N)
      /\ \A n \in 1..N : IsLifecycle(n) => events[n].body.doc # doc /\ events[n].body.doc # repl
  BY <1>0, MutateEffect
<1>2. LastHash(events) = IF N = 0 THEN None ELSE events[N].hash
  <2>1. events = <<>> <=> N = 0
    <3>1. PICK S : events \in Seq(S)  BY DEF TypeOK, IsLog
    <3>2. QED  BY <1>0, <3>1, EmptySeq
  <2>2. QED  BY <1>0, <2>1 DEF LastHash
<1>3. VerifiedUpTo(N)'
  <2>1. N \in 0..N  BY <1>1
  <2>2. QED  BY <1>1, <2>1, PrefixVerified
<1>4. VerifiedUpTo(N + 1)'
  <2>1. ASSUME NEW m \in 1..(N + 1)
        PROVE  events'[m].prev = IF m = 1 THEN None ELSE events'[m - 1].hash
    <3>1. CASE m = N + 1
      <4>1. N # 0 => N \in 1..N  BY <1>1
      <4>2. QED  BY <1>1, <1>2, <3>1, <4>1
    <3>2. CASE m # N + 1
      <4>1. m \in 1..N  BY <1>1, <3>2
      <4>2. QED  BY <1>3, <4>1 DEF VerifiedUpTo
    <3>3. QED  BY <3>1, <3>2
  <2>2. QED  BY <2>1 DEF VerifiedUpTo
<1>5. LifecycleOnVerifiedPrefix'
  <2>1. ASSUME NEW n \in DOMAIN events', events'[n].body.type = "document.lifecycle"
        PROVE  VerifiedUpTo(n)'
    <3>1. CASE n = N + 1  BY <1>4, <3>1
    <3>2. CASE n # N + 1
      <4>1. n \in 1..N /\ n \in 0..N  BY <1>1, <2>1, <3>2
      <4>2. VerifiedUpTo(n)  BY <1>1, <2>1, <4>1 DEF LifecycleOnVerifiedPrefix, IsLifecycle
      <4>3. QED  BY <1>1, <4>1, <4>2, PrefixVerified
    <3>3. QED  BY <3>1, <3>2
  <2>2. QED  BY <2>1 DEF LifecycleOnVerifiedPrefix, IsLifecycle
<1>6. TransitionsOrdered'
  <2>1. ASSUME NEW n \in DOMAIN events', NEW m \in DOMAIN events',
               events'[n].body.type = "document.lifecycle", events'[m].body.type = "document.lifecycle"
        PROVE  /\ events'[n].body.doc = events'[m].body.doc => n = m
               /\ events'[m].body.doc = events'[n].body.repl => n < m
    <3>1. CASE n \in 1..N /\ m \in 1..N
      <4>1. events'[n] = events[n] /\ events'[m] = events[m]  BY <1>1, <3>1
      <4>2. QED  BY <1>1, <2>1, <3>1, <4>1 DEF TransitionsOrdered, IsLifecycle
    <3>2. CASE n = N + 1 /\ m = N + 1  BY <1>1, <3>2
    <3>3. CASE n = N + 1 /\ m \in 1..N
      <4>1. events'[m] = events[m]  BY <1>1, <3>3
      <4>2. QED  BY <1>1, <2>1, <3>3, <4>1 DEF IsLifecycle
    <3>4. CASE n \in 1..N /\ m = N + 1
      <4>1. events'[n] = events[n] /\ n < m  BY <1>1, <3>4
      <4>2. QED  BY <1>1, <2>1, <3>4, <4>1 DEF IsLifecycle
    <3>5. QED  BY <1>1, <3>1, <3>2, <3>3, <3>4
  <2>2. QED  BY <2>1 DEF TransitionsOrdered, IsLifecycle
<1>7. QED  BY <1>5, <1>6

-----------------------------------------------------------------------------
(* Rows and files.                                                         *)

(* QuietFiles: a step that changes neither rows nor files, of a process    *)
(* that writes no file before or after it.                                 *)
LEMMA QuietFiles ==
  ASSUME Follow, UNCHANGED <<objects, files>>,
         \A r \in Procs :
           \/ pc'[r] = pc[r] /\ ctx'[r] = ctx[r]
           \/ pc[r] # "writeFile" /\ pc'[r] \notin {"writeFile", "insertObject"}
  PROVE  Follow'
<1>1. \A b \in DOMAIN files' :
        files'[b] # "whole" => \E p \in Procs : pc'[p] = "writeFile" /\ ctx'[p].blob = b
  <2>1. SUFFICES ASSUME NEW b \in DOMAIN files, files[b] # "whole"
                 PROVE  \E p \in Procs : pc'[p] = "writeFile" /\ ctx'[p].blob = b
    OBVIOUS
  <2>2. PICK p \in Procs : pc[p] = "writeFile" /\ ctx[p].blob = b  BY <2>1 DEF Follow
  <2>3. pc'[p] = "writeFile" /\ ctx'[p].blob = b  BY <2>2
  <2>4. QED  BY <2>3
<1>2. QED  BY <1>1 DEF Follow

(* StoreKeepsFiles: put_bytes, however many processes store the same       *)
(* bytes.                                                                  *)
LEMMA StoreKeepsFiles ==
  ASSUME TypeOK, Follow, NEW p \in Procs, StoreSteps(p)
  PROVE  Follow'
<1> DEFINE b == ctx[p].blob
<1>1. UNCHANGED <<ctx, ops, crashes>> /\ \A r \in Procs : r # p => pc'[r] = pc[r]  BY StoreTypes
<1>2. SUFFICES /\ objects' \subseteq DOMAIN files'
               /\ \A r \in Procs : pc'[r] \in {"writeFile", "insertObject"} => ctx[r].blob \in DOMAIN files'
               /\ \A x \in DOMAIN files' :
                    files'[x] # "whole" => \E r \in Procs : pc'[r] = "writeFile" /\ ctx[r].blob = x
  BY <1>1 DEF Follow
<1>3. /\ objects \subseteq DOMAIN files
      /\ \A r \in Procs : pc[r] \in {"writeFile", "insertObject"} => ctx[r].blob \in DOMAIN files
      /\ \A x \in DOMAIN files :
           files[x] # "whole" => \E r \in Procs : pc[r] = "writeFile" /\ ctx[r].blob = x
  BY DEF Follow
<1> HIDE DEF b
<1>4. CASE CheckFile(p)
  <2>1. UNCHANGED <<files, objects>> /\ pc[p] = "checkFile"
        /\ pc'[p] = IF b \in DOMAIN files THEN "insertObject" ELSE "createFile"
    BY <1>4 DEF CheckFile, Goto, tables, TypeOK, b
  <2>2. \A r \in Procs : pc'[r] \in {"writeFile", "insertObject"} => ctx[r].blob \in DOMAIN files'
    BY <1>1, <1>3, <2>1 DEF b
  <2>3. \A r \in Procs : pc[r] = "writeFile" => pc'[r] = "writeFile"  BY <1>1, <2>1
  <2>4. QED  BY <1>3, <2>1, <2>2, <2>3
<1>5. CASE CreateFile(p)
  <2>1. /\ files' = [x \in DOMAIN files \cup {b} |-> IF x = b THEN "partial" ELSE files[x]]
        /\ UNCHANGED objects /\ pc[p] = "createFile" /\ pc'[p] = "writeFile"
    BY <1>5 DEF CreateFile, SetFile, Goto, tables, TypeOK, b
  <2>2. DOMAIN files' = DOMAIN files \cup {b} /\ \A x \in DOMAIN files : x # b => files'[x] = files[x]
    BY <2>1
  <2>3. \A r \in Procs : pc'[r] \in {"writeFile", "insertObject"} => ctx[r].blob \in DOMAIN files'
    BY <1>1, <1>3, <2>1, <2>2 DEF b
  <2>4. ASSUME NEW x \in DOMAIN files', files'[x] # "whole"
        PROVE  \E r \in Procs : pc'[r] = "writeFile" /\ ctx[r].blob = x
    <3>1. CASE x = b  BY <2>1, <3>1 DEF b
    <3>2. CASE x # b
      <4>1. PICK r \in Procs : pc[r] = "writeFile" /\ ctx[r].blob = x  BY <1>3, <2>2, <2>4, <3>2
      <4>2. pc'[r] = "writeFile"  BY <1>1, <2>1, <4>1
      <4>3. QED  BY <4>1, <4>2
    <3>3. QED  BY <3>1, <3>2
  <2>5. QED  BY <1>3, <2>1, <2>2, <2>3, <2>4
<1>6. CASE WriteFile(p)
  <2>1. pc[p] = "writeFile" /\ pc'[p] = "insertObject" /\ UNCHANGED objects /\ b \in DOMAIN files
    BY <1>3, <1>6 DEF WriteFile, Goto, tables, TypeOK, b
  <2>2. files' = [x \in DOMAIN files \cup {b} |-> IF x = b THEN "whole" ELSE files[x]]
    BY <1>6, <2>1 DEF WriteFile, SetFile, b
  <2>3. DOMAIN files' = DOMAIN files /\ files'[b] = "whole" /\ \A x \in DOMAIN files : x # b => files'[x] = files[x]
    BY <2>1, <2>2
  <2>4. \A r \in Procs : pc'[r] \in {"writeFile", "insertObject"} => ctx[r].blob \in DOMAIN files'
    BY <1>1, <1>3, <2>1, <2>3 DEF b
  <2>5. ASSUME NEW x \in DOMAIN files', files'[x] # "whole"
        PROVE  \E r \in Procs : pc'[r] = "writeFile" /\ ctx[r].blob = x
    <3>1. x # b /\ x \in DOMAIN files /\ files[x] # "whole"  BY <2>3, <2>5
    <3>2. PICK r \in Procs : pc[r] = "writeFile" /\ ctx[r].blob = x  BY <1>3, <3>1
    <3>3. r # p  BY <3>1, <3>2 DEF b
    <3>4. QED  BY <1>1, <3>2, <3>3
  <2>6. QED  BY <1>3, <2>1, <2>3, <2>4, <2>5
<1>7. CASE InsertObject(p)
  <2>1. /\ pc[p] = "insertObject" /\ pc'[p] \in {"insertDoc", "upsertCanonical"}
        /\ objects' = objects \cup {b} /\ UNCHANGED files
    BY <1>7 DEF InsertObject, Goto, TypeOK, b
  <2>2. objects' \subseteq DOMAIN files'  BY <1>3, <2>1 DEF b
  <2>3. \A r \in Procs : pc'[r] \in {"writeFile", "insertObject"} => ctx[r].blob \in DOMAIN files'
    BY <1>1, <1>3, <2>1
  <2>4. \A r \in Procs : pc[r] = "writeFile" => pc'[r] = "writeFile"  BY <1>1, <2>1
  <2>5. QED  BY <1>3, <2>1, <2>2, <2>3, <2>4
<1>8. QED  BY <1>4, <1>5, <1>6, <1>7 DEF StoreSteps

(* One process moves between steps that write no file.                     *)
Moves(p) ==
  /\ UNCHANGED <<objects, files>> /\ pc[p] # "writeFile"
  /\ pc'[p] \in Pcs \ {"createFile", "writeFile", "insertObject"}
  /\ \A r \in Procs : r # p => pc'[r] = pc[r] /\ ctx'[r] = ctx[r]

(* OthersMove: so do the steps that neither store bytes nor remove files,  *)
(* and only gc_start enters the sweep.                                     *)
LEMMA OthersMove ==
  ASSUME TypeOK, NEW p \in Procs,
         \/ \E b \in Blobs : IngestStart(p, b)
         \/ \E doc, b \in Blobs : CanonicalStart(p, doc, b)
         \/ InsertEvent(p) \/ InsertDoc(p) \/ UpsertCanonical(p) \/ GcStart(p) \/ GcEnd(p)
  PROVE  Moves(p) /\ UNCHANGED crashes /\ (pc'[p] = "gcSweep" => GcStart(p))
<1>1. ASSUME NEW kind, NEW l \in {"insertEvent", "checkFile", "gcSweep"}, NEW c,
             Call(p, kind, l, c), UNCHANGED <<objects, files>>
      PROVE  Moves(p) /\ UNCHANGED crashes /\ pc'[p] = l
  <2>1. /\ pc[p] = "idle" /\ pc' = [pc EXCEPT ![p] = l] /\ ctx' = [ctx EXCEPT ![p] = c]
        /\ UNCHANGED crashes
    BY <1>1 DEF Call
  <2>2. QED  BY <1>1, <2>1 DEF Moves, TypeOK, Pcs, FileSteps
<1>2. ASSUME pc[p] \in {"insertDoc", "upsertCanonical", "gcSweep"}, Return(p), UNCHANGED <<objects, files>>
      PROVE  Moves(p) /\ UNCHANGED crashes /\ pc'[p] = "idle"
  BY <1>2 DEF Return, Moves, TypeOK, Pcs, FileSteps
<1>3. CASE \E b \in Blobs : IngestStart(p, b)  BY <1>1, <1>3 DEF IngestStart, tables
<1>4. CASE \E doc, b \in Blobs : CanonicalStart(p, doc, b)  BY <1>1, <1>4 DEF CanonicalStart, tables
<1>5. CASE InsertEvent(p)
  <2>1. /\ pc[p] = "insertEvent" /\ pc'[p] = "checkFile" /\ UNCHANGED <<objects, files, crashes>>
        /\ \A r \in Procs : r # p => pc'[r] = pc[r] /\ ctx'[r] = ctx[r]
    BY <1>5 DEF InsertEvent, TypeOK
  <2>2. QED  BY <2>1 DEF Moves, Pcs, FileSteps
<1>6. CASE InsertDoc(p) \/ UpsertCanonical(p)  BY <1>2, <1>6 DEF InsertDoc, UpsertCanonical
<1>7. CASE GcStart(p)  BY <1>1, <1>7 DEF GcStart, tables
<1>8. CASE GcEnd(p)  BY <1>2, <1>8 DEF GcEnd, tables
<1>9. QED  BY <1>3, <1>4, <1>5, <1>6, <1>7, <1>8

(* NextCases: a step of the vault.                                         *)
LEMMA NextCases ==
  ASSUME TypeOK, [Next]_vars
  PROVE  \/ UNCHANGED <<objects, files, pc, ctx, crashes>>
         \/ \E p \in Procs : StoreSteps(p)
         \/ \E p \in Procs : /\ Moves(p) /\ UNCHANGED crashes
                             /\ pc'[p] = "gcSweep" => GcStart(p)
         \/ \E p \in Procs : GcRemove(p)
         \/ \E p \in Procs : Crash(p)
<1>1. CASE UNCHANGED vars  BY <1>1 DEF vars, tables
<1>2. CASE \E doc \in Blobs, repl \in Blobs \cup {None} : LifecycleMutate(doc, repl)
  BY <1>2 DEF LifecycleMutate
<1>3. ASSUME NEW p \in Procs, StoreSteps(p) \/ GcRemove(p) \/ Crash(p)
      PROVE  \E r \in Procs : StoreSteps(r) \/ GcRemove(r) \/ Crash(r)
  BY <1>3
<1>4. ASSUME NEW p \in Procs,
             \/ \E b \in Blobs : IngestStart(p, b)
             \/ \E doc, b \in Blobs : CanonicalStart(p, doc, b)
             \/ InsertEvent(p) \/ InsertDoc(p) \/ UpsertCanonical(p) \/ GcStart(p) \/ GcEnd(p)
      PROVE  \E r \in Procs : Moves(r) /\ UNCHANGED crashes /\ (pc'[r] = "gcSweep" => GcStart(r))
  BY <1>4, OthersMove
<1>5. QED  BY <1>1, <1>2, <1>3, <1>4 DEF Next, StoreSteps

(* FollowStep: only gc and crashes leave a row without its file.           *)
LEMMA FollowStep ==
  ASSUME TypeOK, Follow, [Next]_vars, \A p \in Procs : ~GcRemove(p) /\ ~Crash(p)
  PROVE  Follow'
<1>1. CASE UNCHANGED <<objects, files, pc, ctx, crashes>>  BY <1>1 DEF Follow
<1>2. ASSUME NEW p \in Procs, Moves(p) PROVE Follow'
  <2>1. \A r \in Procs :
          \/ pc'[r] = pc[r] /\ ctx'[r] = ctx[r]
          \/ pc[r] # "writeFile" /\ pc'[r] \notin {"writeFile", "insertObject"}
    BY <1>2 DEF Moves
  <2>2. QED  BY <1>2, <2>1, QuietFiles DEF Moves
<1>3. QED  BY <1>1, <1>2, NextCases, StoreKeepsFiles

(* StaysSound: the counters only grow, and a sweep is counted.             *)
LEMMA StaysSound ==
  ASSUME TypeOK, [Next]_vars, Sound'
  PROVE  Sound /\ \A p \in Procs : ~GcStart(p) /\ ~Crash(p)
<1>1. ASSUME NEW kind \in OpKinds, Start(kind) PROVE ops'["gc"] >= ops["gc"] /\ (kind = "gc" => ops'["gc"] # 0)
  BY <1>1 DEF Start, TypeOK, OpKinds
<1>2. OpKinds = {"ingest", "canonical", "lifecycle", "gc"} /\ ops["gc"] \in Nat /\ crashes \in Nat
  BY DEF OpKinds, TypeOK
<1>3. CASE UNCHANGED <<ops, crashes>>
  <2>1. ASSUME NEW p \in Procs, GcStart(p) \/ Crash(p) PROVE FALSE
    BY <1>1, <1>2, <1>3, <2>1 DEF GcStart, Crash, Call, Sound
  <2>2. QED  BY <1>3, <2>1 DEF Sound
<1>4. ASSUME NEW kind \in OpKinds, Start(kind), UNCHANGED crashes
      PROVE  Sound /\ \A p \in Procs : ~GcStart(p) /\ ~Crash(p)
  <2>1. Sound  BY <1>1, <1>2, <1>4 DEF Sound
  <2>2. ASSUME NEW p \in Procs, GcStart(p) \/ Crash(p) PROVE FALSE
    BY <1>1, <1>2, <1>4, <2>2 DEF GcStart, Crash, Call, Sound
  <2>3. QED  BY <2>1, <2>2
<1>5. ASSUME NEW p \in Procs, Crash(p) PROVE FALSE  BY <1>2, <1>5 DEF Crash, Sound
<1>6. CASE UNCHANGED vars  BY <1>3, <1>6 DEF vars
<1>7. CASE \E doc \in Blobs, repl \in Blobs \cup {None} : LifecycleMutate(doc, repl)
  BY <1>2, <1>4, <1>7 DEF LifecycleMutate
<1>8. ASSUME NEW p \in Procs,
             \/ \E b \in Blobs : IngestStart(p, b)
             \/ \E doc, b \in Blobs : CanonicalStart(p, doc, b)
             \/ GcStart(p)
      PROVE  \E kind \in OpKinds : Start(kind) /\ UNCHANGED crashes
  BY <1>2, <1>8 DEF IngestStart, CanonicalStart, GcStart, Call
<1>9. ASSUME NEW p \in Procs,
             \/ InsertEvent(p) \/ CheckFile(p) \/ CreateFile(p) \/ WriteFile(p)
             \/ InsertObject(p) \/ InsertDoc(p) \/ UpsertCanonical(p) \/ GcRemove(p) \/ GcEnd(p)
      PROVE  UNCHANGED <<ops, crashes>>
  BY <1>9 DEF InsertEvent, CheckFile, CreateFile, WriteFile, InsertObject, InsertDoc, UpsertCanonical,
              GcRemove, GcEnd, Goto, Return
<1>10. QED  BY <1>3, <1>4, <1>5, <1>6, <1>7, <1>8, <1>9 DEF Next

(* SweepGoesOn: who sweeps has just started or was sweeping with the same  *)
(* frame.                                                                  *)
LEMMA SweepGoesOn ==
  ASSUME TypeOK, [Next]_vars, NEW q \in Procs, pc'[q] = "gcSweep"
  PROVE  GcStart(q) \/ (pc[q] = "gcSweep" /\ ctx'[q] = ctx[q])
<1>1. CASE UNCHANGED <<objects, files, pc, ctx, crashes>>  BY <1>1
<1>2. ASSUME NEW p \in Procs, StoreSteps(p) PROVE pc[q] = "gcSweep" /\ ctx'[q] = ctx[q]
  <2>1. UNCHANGED ctx /\ \A r \in Procs : r # p => pc'[r] = pc[r]  BY <1>2, StoreTypes
  <2>2. pc'[p] # "gcSweep"
    BY <1>2 DEF StoreSteps, CheckFile, CreateFile, WriteFile, InsertObject, Goto, TypeOK
  <2>3. QED  BY <2>1, <2>2
<1>3. ASSUME NEW p \in Procs, Moves(p), pc'[p] = "gcSweep" => GcStart(p)
      PROVE  GcStart(q) \/ (pc[q] = "gcSweep" /\ ctx'[q] = ctx[q])
  BY <1>3 DEF Moves
<1>4. ASSUME NEW p \in Procs, GcRemove(p) PROVE pc[q] = "gcSweep" /\ ctx'[q] = ctx[q]
  BY <1>4 DEF GcRemove
<1>5. ASSUME NEW p \in Procs, Crash(p) PROVE pc[q] = "gcSweep" /\ ctx'[q] = ctx[q]
  BY <1>5 DEF Crash, TypeOK
<1>6. QED  BY <1>1, <1>2, <1>3, <1>4, <1>5, NextCases

(* FilesStayFollowed: without crashes and gc rows keep their files.        *)
LEMMA FilesStayFollowed ==
  ASSUME TypeOK, FilesFollow, [Next]_vars
  PROVE  FilesFollow'
<1> SUFFICES ASSUME Sound' PROVE Follow' /\ \A p \in Procs : pc'[p] # "gcSweep"
  BY DEF FilesFollow
<1>1. Sound /\ \A p \in Procs : ~GcStart(p) /\ ~Crash(p)  BY StaysSound
<1>2. Follow /\ \A p \in Procs : pc[p] # "gcSweep"  BY <1>1 DEF FilesFollow
<1>3. \A p \in Procs : pc'[p] # "gcSweep"  BY <1>1, <1>2, SweepGoesOn
<1>4. \A p \in Procs : ~GcRemove(p)  BY <1>2 DEF GcRemove
<1>5. QED  BY <1>1, <1>2, <1>3, <1>4, FollowStep

-----------------------------------------------------------------------------
(* The invariant.                                                          *)

(* Initially: the invariant holds of the seed documents.                   *)
LEMMA Initially == Init => IInv
<1> SUFFICES ASSUME Init PROVE IInv  OBVIOUS
<1>1. DOMAIN Seed = 1..Len(Seed) /\ \A n \in DOMAIN Seed : Seed[n] \in Blobs
  BY BlobsAssumption, LenProperties, ElementOfSeq
<1>2. TypeOK
  <2>1. SeedDocs \subseteq Blobs  BY <1>1 DEF SeedDocs
  <2>2. IsLog(events) /\ DOMAIN events = DOMAIN Seed  BY SeedLog DEF Init
  <2>3. \A b \in SeedDocs : docs[b] \in DOMAIN events  BY <2>2 DEF Init, SeedDocs
  <2>4. DOMAIN docs = SeedDocs /\ docs \in [DOMAIN docs -> DOMAIN events]  BY <2>3 DEF Init
  <2>5. FrameFits("idle", None)  BY DEF FrameFits, FileSteps
  <2>6. pc \in [Procs -> Pcs] /\ DOMAIN ctx = Procs /\ \A p \in Procs : pc[p] = "idle" /\ ctx[p] = None
    BY DEF Init, Pcs
  <2>7. ops \in [OpKinds -> Nat] /\ crashes \in Nat  BY DEF Init
  <2>8. /\ objects = SeedDocs /\ DOMAIN files = SeedDocs /\ files \in [DOMAIN files -> {"partial", "whole"}]
        /\ DOMAIN canonical = SeedDocs /\ canonical \in [DOMAIN canonical -> objects]
    BY DEF Init
  <2>9. QED  BY <2>1, <2>2, <2>4, <2>5, <2>6, <2>7, <2>8 DEF TypeOK
<1>3. LifecycleOnVerifiedPrefix /\ TransitionsOrdered
  <2>1. \A n \in DOMAIN events : ~IsLifecycle(n)  BY SeedLog DEF Init, IsLifecycle
  <2>2. QED  BY <2>1 DEF LifecycleOnVerifiedPrefix, TransitionsOrdered
<1>4. FilesFollow  BY DEF Init, FilesFollow, Follow
<1>5. QED  BY <1>2, <1>3, <1>4 DEF IInv

(* Inductive: every step keeps the invariant.                              *)
LEMMA Inductive == IInv /\ [Next]_vars => IInv'
<1> SUFFICES ASSUME IInv, [Next]_vars PROVE IInv'  OBVIOUS
<1>1. TypeOK /\ LifecycleOnVerifiedPrefix /\ TransitionsOrdered /\ FilesFollow  BY DEF IInv
<1>2. ASSUME UNCHANGED events PROVE LifecycleOnVerifiedPrefix' /\ TransitionsOrdered'
  BY <1>1, <1>2 DEF LifecycleOnVerifiedPrefix, TransitionsOrdered, IsLifecycle, VerifiedUpTo
<1>3. CASE UNCHANGED vars
  <2>1. TypeOK'
    BY <1>1, <1>3 DEF vars, tables, TypeOK, FrameFits, StoreFrames, GcFrames
  <2>2. FilesFollow'  BY <1>1, FilesStayFollowed
  <2>3. QED  BY <1>2, <1>3, <2>1, <2>2 DEF IInv, vars, tables
<1>4. ASSUME NEW p \in Procs, StoreSteps(p) PROVE IInv'
  BY <1>1, <1>2, <1>4, StoreTypes, FilesStayFollowed DEF IInv
<1>5. ASSUME NEW p \in Procs, NEW b \in Blobs, IngestStart(p, b) PROVE IInv'
  BY <1>1, <1>2, <1>5, IngestEventTypes, FilesStayFollowed DEF IInv, IngestStart, tables
<1>6. ASSUME NEW p \in Procs, InsertEvent(p) PROVE IInv'
  BY <1>1, <1>6, IngestEventTypes, InsertKeeps, FilesStayFollowed DEF IInv
<1>7. ASSUME NEW p \in Procs, InsertDoc(p) \/ UpsertCanonical(p) PROVE IInv'
  BY <1>1, <1>2, <1>7, DocTypes, FilesStayFollowed DEF IInv, InsertDoc, UpsertCanonical
<1>8. ASSUME NEW p \in Procs, NEW doc \in Blobs, NEW b \in Blobs, CanonicalStart(p, doc, b) PROVE IInv'
  BY <1>1, <1>2, <1>8, DocTypes, FilesStayFollowed DEF IInv, CanonicalStart, tables
<1>9. ASSUME NEW p \in Procs, GcStart(p) \/ GcRemove(p) \/ GcEnd(p) \/ Crash(p) PROVE IInv'
  BY <1>1, <1>2, <1>9, GcTypes, FilesStayFollowed DEF IInv, tables
<1>10. ASSUME NEW doc \in Blobs, NEW repl \in Blobs \cup {None}, LifecycleMutate(doc, repl) PROVE IInv'
  BY <1>1, <1>10, LifecycleTypes, MutateKeeps, FilesStayFollowed DEF IInv
<1>11. QED
  BY <1>3, <1>4, <1>5, <1>6, <1>7, <1>8, <1>9, <1>10 DEF Next, StoreSteps

(* Invariance: the inductive invariant holds in every reachable state.     *)
LEMMA Invariance == Spec => []IInv
BY Initially, Inductive, PTL DEF Spec

-----------------------------------------------------------------------------
(* Resolution.                                                             *)

Depth == MAX_CHAIN_DEPTH

(* WalkDef: the walk follows successors.                                   *)
LEMMA WalkDef ==
  ASSUME NEW doc
  PROVE  /\ Walk(doc)[0] = doc
         /\ \A n \in 1..Depth : Walk(doc)[n] = Successor(Walk(doc)[n - 1])
<1> DEFINE Def(w, k) == w = [n \in 0..k |-> IF n = 0 THEN doc ELSE Successor(w[n - 1])]
           Good == {k \in Nat : \E w : Def(w, k)}
<1>1. Depth \in Nat  BY BoundsAssumption DEF Depth
<1>2. 0 \in Good
  <2>1. Def([n \in 0..0 |-> doc], 0)  OBVIOUS
  <2>2. QED  BY <2>1
<1>3. ASSUME NEW k \in Nat, k \in Good PROVE k + 1 \in Good
  <2>1. PICK w : Def(w, k)  BY <1>3
  <2> DEFINE d == [n \in 0..(k + 1) |-> IF n = k + 1 THEN Successor(w[k]) ELSE w[n]]
  <2>2. \A n \in 0..k : d[n] = w[n]  OBVIOUS
  <2>3. ASSUME NEW n \in 0..(k + 1) PROVE d[n] = IF n = 0 THEN doc ELSE Successor(d[n - 1])
    <3>1. CASE n = 0  BY <2>1, <2>2, <3>1
    <3>2. CASE n \in 1..k
      <4>1. n - 1 \in 0..k /\ n \in 0..k /\ n # 0  BY <3>2
      <4>2. d[n] = w[n] /\ d[n - 1] = w[n - 1]  BY <2>2, <4>1
      <4>3. w[n] = Successor(w[n - 1])  BY <2>1, <4>1
      <4> HIDE DEF d
      <4>4. QED  BY <4>1, <4>2, <4>3
    <3>3. CASE n = k + 1
      <4>1. (k + 1) - 1 = k /\ k \in 0..k /\ k + 1 # 0 /\ k + 1 \in 0..(k + 1)  OBVIOUS
      <4>2. d[k + 1] = Successor(w[k]) /\ d[k] = w[k]  BY <2>2, <4>1
      <4> HIDE DEF d
      <4>3. QED  BY <3>3, <4>1, <4>2
    <3>4. QED  BY <3>1, <3>2, <3>3
  <2>4. d = [n \in 0..(k + 1) |-> d[n]]  OBVIOUS
  <2> HIDE DEF d
  <2>5. Def(d, k + 1)  BY <2>3, <2>4
  <2> HIDE DEF Def
  <2>6. QED  BY <2>5
<1> HIDE DEF Def
<1>4. \E w : Def(w, Depth)
  <2> HIDE DEF Good
  <2>1. \A n \in 0..Depth : n \in Good  BY <1>1, <1>2, <1>3, StepByStep
  <2>2. Depth \in Good  BY <1>1, <2>1
  <2>3. QED  BY <2>2 DEF Good
<1>5. Walk(doc) = CHOOSE w : Def(w, Depth)  BY DEF Walk, Def, Depth
<1>6. Def(Walk(doc), Depth)  BY <1>4, <1>5
<1>7. \A n \in 0..Depth : Walk(doc)[n] = IF n = 0 THEN doc ELSE Successor(Walk(doc)[n - 1])
  BY <1>6 DEF Def
<1>8. Walk(doc)[0] = doc  BY <1>1, <1>7
<1>9. ASSUME NEW n \in 1..Depth PROVE Walk(doc)[n] = Successor(Walk(doc)[n - 1])
  <2>1. n \in 0..Depth /\ n # 0  BY <1>1
  <2>2. QED  BY <1>7, <2>1
<1>10. QED  BY <1>8, <1>9

(* OneTransition: a document has one transition or none.                   *)
LEMMA OneTransition ==
  ASSUME IInv, NEW x \in Blobs
  PROVE  /\ \A n \in LifecycleEventsOf(x) :
              /\ LifecycleEventsOf(x) = {n} /\ HasOneTransition(x) /\ n \in Nat
              /\ Successor(x) = events[n].body.repl /\ Successor(x) \in Blobs \cup {None}
              /\ \A k \in LifecycleEventsOf(Successor(x)) : n < k
         /\ LifecycleEventsOf(x) = {} => Successor(x) = None /\ ~HasOneTransition(x)
<1>1. TransitionsOrdered /\ TypeOK  BY DEF IInv
<1>2. x # None  BY BlobsAssumption
<1>3. ASSUME NEW n \in LifecycleEventsOf(x)
      PROVE  /\ LifecycleEventsOf(x) = {n} /\ HasOneTransition(x) /\ n \in Nat
             /\ Successor(x) = events[n].body.repl /\ Successor(x) \in Blobs \cup {None}
             /\ \A k \in LifecycleEventsOf(Successor(x)) : n < k
  <2>1. n \in DOMAIN events /\ IsLifecycle(n) /\ events[n].body.doc = x  BY DEF LifecycleEventsOf
  <2>2. LifecycleEventsOf(x) = {n}  BY <1>1, <2>1 DEF LifecycleEventsOf, TransitionsOrdered
  <2>3. HasOneTransition(x)  BY <2>2, FS_Singleton DEF HasOneTransition
  <2>4. Successor(x) = events[n].body.repl  BY <1>2, <2>2, <2>3 DEF Successor
  <2>5. n \in Nat /\ events[n].body \in Bodies  BY <1>1, <2>1, LogParts DEF TypeOK
  <2>6. events[n].body.repl \in Blobs \cup {None}  BY <2>1, <2>5 DEF Bodies, IsLifecycle
  <2>7. ASSUME NEW k \in LifecycleEventsOf(Successor(x)) PROVE n < k
    BY <1>1, <2>1, <2>4 DEF LifecycleEventsOf, TransitionsOrdered
  <2>8. QED  BY <2>2, <2>3, <2>4, <2>5, <2>6, <2>7
<1>4. ASSUME LifecycleEventsOf(x) = {} PROVE Successor(x) = None /\ ~HasOneTransition(x)
  <2>1. ~HasOneTransition(x)  BY <1>4, FS_EmptySet DEF HasOneTransition
  <2>2. QED  BY <2>1 DEF Successor
<1>5. QED  BY <1>3, <1>4

(* WalkUp: along a walk the transitions come later and later.              *)
LEMMA WalkUp ==
  ASSUME IInv, NEW doc \in Blobs, NEW n \in 0..Depth, Walk(doc)[n] # None
  PROVE  /\ Walk(doc)[n] \in Blobs
         /\ \A m \in 0..(n - 1) :
              /\ Walk(doc)[m] \in Blobs
              /\ \E k \in LifecycleEventsOf(Walk(doc)[m]) :
                   \A j \in LifecycleEventsOf(Walk(doc)[n]) : k < j
<1> DEFINE w == Walk(doc)
           Ordered(i) ==
             w[i] # None =>
               /\ w[i] \in Blobs
               /\ \A m \in 0..(i - 1) :
                    /\ w[m] \in Blobs
                    /\ \E k \in LifecycleEventsOf(w[m]) : \A j \in LifecycleEventsOf(w[i]) : k < j
           Good == {i \in 0..Depth : Ordered(i)}
<1>1. Depth \in Nat  BY BoundsAssumption DEF Depth
<1>2. w[0] = doc /\ \A i \in 1..Depth : w[i] = Successor(w[i - 1])  BY WalkDef
<1> HIDE DEF w
<1>3. 0 \in Good
  <2>1. \A m \in 0..(0 - 1) : FALSE  OBVIOUS
  <2>2. QED  BY <1>1, <1>2, <2>1
<1>4. ASSUME NEW i \in 0..Depth, i \in Good, i < Depth PROVE i + 1 \in Good
  <2>1. i + 1 \in 0..Depth /\ w[i + 1] = Successor(w[i])
    <3>1. i + 1 \in 1..Depth /\ (i + 1) - 1 = i  BY <1>1, <1>4
    <3>2. QED  BY <1>1, <1>2, <3>1
  <2>2. SUFFICES ASSUME w[i + 1] # None
                 PROVE  /\ w[i + 1] \in Blobs
                        /\ \A m \in 0..i :
                             /\ w[m] \in Blobs
                             /\ \E k \in LifecycleEventsOf(w[m]) :
                                  \A j \in LifecycleEventsOf(w[i + 1]) : k < j
    <3>1. (i + 1) - 1 = i  BY <1>1
    <3>2. QED  BY <2>1, <2>2, <3>1
  <2>3. w[i] # None  BY <2>1, <2>2 DEF Successor
  <2>4. /\ w[i] \in Blobs
        /\ \A m \in 0..(i - 1) :
             /\ w[m] \in Blobs
             /\ \E k \in LifecycleEventsOf(w[m]) : \A j \in LifecycleEventsOf(w[i]) : k < j
    BY <1>4, <2>3
  <2>5. PICK p \in LifecycleEventsOf(w[i]) : TRUE  BY <2>1, <2>2, <2>4, OneTransition
  <2>6. /\ p \in Nat /\ w[i + 1] \in Blobs \cup {None}
        /\ \A j \in LifecycleEventsOf(w[i + 1]) : p < j
    BY <2>1, <2>4, <2>5, OneTransition
  <2>7. ASSUME NEW m \in 0..i
        PROVE  /\ w[m] \in Blobs
               /\ \E k \in LifecycleEventsOf(w[m]) : \A j \in LifecycleEventsOf(w[i + 1]) : k < j
    <3>1. CASE m = i  BY <2>4, <2>6, <3>1
    <3>2. CASE m # i
      <4>1. m \in 0..(i - 1)  BY <1>1, <3>2
      <4>2. w[m] \in Blobs  BY <2>4, <4>1
      <4>3. PICK k \in LifecycleEventsOf(w[m]) : \A j \in LifecycleEventsOf(w[i]) : k < j  BY <2>4, <4>1
      <4>4. k \in Nat /\ k < p  BY <4>2, <4>3, OneTransition
      <4>5. ASSUME NEW j \in LifecycleEventsOf(w[i + 1]) PROVE k < j
        <5>1. p < j /\ j \in Nat  BY <2>2, <2>6, OneTransition
        <5>2. QED  BY <2>6, <4>4, <5>1
      <4>6. QED  BY <4>2, <4>5
    <3>3. QED  BY <3>1, <3>2
  <2>8. QED  BY <2>2, <2>6, <2>7
<1> HIDE DEF Good
<1>5. n \in Good  BY <1>1, <1>3, <1>4, StepByStep
<1>6. QED  BY <1>5 DEF Good, w

(* What resolve_document_lifecycle finds on its way from doc.              *)
WalkFacts(doc) ==
  LET w == Walk(doc)
      len == WalkLength(doc)
  IN /\ w[0] = doc /\ \A n \in 1..Depth : w[n] = Successor(w[n - 1])
     /\ len \in 0..Depth /\ (len < Depth => w[len + 1] = None)
     /\ \A n \in 0..len : w[n] \in Blobs
     /\ \A m, n \in 0..len : m < n => w[m] # w[n] /\ LifecycleEventsOf(w[m]) # {}
     /\ \A n \in 0..Depth : w[n] # None /\ (n < Depth => w[n + 1] = None) => n = len

(* WalkEnds: a walk visits different documents and ends at its length.     *)
LEMMA WalkEnds ==
  ASSUME IInv, NEW doc \in Blobs
  PROVE  WalkFacts(doc)
<1> DEFINE w == Walk(doc)
           len == WalkLength(doc)
           Ended == {n \in 0..Depth : w[n] = None}
           IsEnd(n) == w[n] # None /\ (n < Depth => w[n + 1] = None)
<1>1. Depth \in Nat  BY BoundsAssumption DEF Depth
<1>2. w[0] = doc /\ \A n \in 1..Depth : w[n] = Successor(w[n - 1])  BY WalkDef
<1>3. \A n \in 0..Depth : w[n] # None =>
        /\ w[n] \in Blobs
        /\ \A m \in 0..(n - 1) :
             /\ w[m] \in Blobs
             /\ \E k \in LifecycleEventsOf(w[m]) : \A j \in LifecycleEventsOf(w[n]) : k < j
  BY WalkUp
<1>4. len = CHOOSE n \in 0..Depth : IsEnd(n)  BY DEF WalkLength, Depth
<1> HIDE DEF w, len
<1>5. \E n \in 0..Depth : IsEnd(n)
  <2>1. CASE Ended = {}
    <3>1. Depth \in 0..Depth /\ w[Depth] # None  BY <1>1, <2>1
    <3>2. QED  BY <1>1, <3>1
  <2>2. CASE Ended # {}
    <3>1. Ended \in SUBSET Nat  BY <1>1
    <3>2. PICK n \in Ended : \A m \in Ended : n <= m  BY <2>2, <3>1, NatLeast
    <3>3. n # 0  BY <1>2, BlobsAssumption
    <3>4. n - 1 \in 0..Depth /\ n - 1 < n /\ (n - 1) + 1 = n /\ n \in Nat  BY <1>1, <3>3
    <3>5. w[n - 1] # None  BY <1>1, <3>2, <3>4
    <3>6. IsEnd(n - 1)  BY <3>4, <3>5
    <3>7. QED  BY <3>4, <3>6
  <2>3. QED  BY <2>1, <2>2
<1>6. len \in 0..Depth /\ IsEnd(len)  BY <1>4, <1>5
<1>7. ASSUME NEW n \in 0..len PROVE w[n] \in Blobs
  <2>1. CASE n = len  BY <1>3, <1>6, <2>1
  <2>2. CASE n # len
    <3>1. n \in 0..(len - 1)  BY <1>6, <2>2
    <3>2. QED  BY <1>3, <1>6, <3>1
  <2>3. QED  BY <2>1, <2>2
<1>8. ASSUME NEW m \in 0..len, NEW n \in 0..len, m < n PROVE w[m] # w[n] /\ LifecycleEventsOf(w[m]) # {}
  <2>1. n \in 0..Depth /\ m \in 0..(n - 1)  BY <1>1, <1>6, <1>8
  <2>2. w[n] \in Blobs /\ w[n] # None  BY <1>7, BlobsAssumption
  <2>3. PICK k \in LifecycleEventsOf(w[m]) : \A j \in LifecycleEventsOf(w[n]) : k < j  BY <1>3, <2>1, <2>2
  <2>4. k \in Nat  BY <1>7, OneTransition
  <2>5. ~(k < k)  BY <2>4
  <2>6. QED  BY <2>3, <2>5
<1>9. ASSUME NEW n \in 0..Depth, IsEnd(n) PROVE n = len
  <2>1. CASE n < len
    <3>1. n + 1 \in 0..len /\ n < Depth  BY <1>1, <1>6, <2>1
    <3>2. w[n + 1] = None /\ w[n + 1] \in Blobs  BY <1>7, <1>9, <3>1
    <3>3. QED  BY <3>2, BlobsAssumption
  <2>2. CASE len < n
    <3>1. len \in 0..(n - 1) /\ len < Depth  BY <1>1, <1>6, <2>2
    <3>2. CASE n = len + 1  BY <1>6, <1>9, <3>1, <3>2
    <3>3. CASE n # len + 1
      <4>1. len + 1 \in 0..(n - 1)  BY <1>6, <2>2, <3>3
      <4>2. w[len + 1] \in Blobs  BY <1>3, <1>9, <4>1
      <4>3. QED  BY <1>6, <3>1, <4>2, BlobsAssumption
    <3>4. QED  BY <3>2, <3>3
  <2>3. QED  BY <1>1, <1>6, <2>1, <2>2
<1>10. QED  BY <1>2, <1>6, <1>7, <1>8, <1>9 DEF WalkFacts, w, len

(* Settles: resolution as ResolutionSettles states it.                     *)
LEMMA Settles == IInv => ResolutionSettles
<1> SUFFICES ASSUME IInv, NEW doc \in Retired
             PROVE  /\ Resolve(doc) # "conflicted"
                    /\ Resolve(doc) = "corrupt" =>
                         Cardinality({n \in DOMAIN events : IsLifecycle(n)}) > MAX_CHAIN_DEPTH
                    /\ \A n \in LifecycleEventsOf(doc), m \in DOMAIN events :
                         IsLifecycle(m) /\ events[m].body.doc = events[n].body.repl => n < m
  BY DEF ResolutionSettles
<1> DEFINE w == Walk(doc)
           len == WalkLength(doc)
           L == {n \in DOMAIN events : IsLifecycle(n)}
<1>1. TypeOK /\ TransitionsOrdered  BY DEF IInv
<1>2. doc \in Blobs
  <2>1. PICK n \in DOMAIN events : IsLifecycle(n) /\ events[n].body.doc = doc  BY DEF Retired
  <2>2. events[n].body \in Bodies  BY <1>1, LogParts DEF TypeOK
  <2>3. QED  BY <2>1, <2>2 DEF Bodies
<1>3. /\ len \in 0..Depth
      /\ \A n \in 0..len : w[n] \in Blobs
      /\ \A m, n \in 0..len : m < n => w[m] # w[n] /\ LifecycleEventsOf(w[m]) # {}
  BY <1>2, WalkEnds DEF WalkFacts
<1>4. Depth = MAX_CHAIN_DEPTH /\ Depth \in Nat  BY BoundsAssumption DEF Depth
<1>5. Resolve(doc) =
        IF LifecycleEventsOf(w[len]) = {} THEN "active"
        ELSE IF len = MAX_CHAIN_DEPTH THEN "corrupt"
        ELSE IF HasOneTransition(w[len]) THEN "tombstoned" ELSE "conflicted"
  BY <1>3 DEF Resolve
<1> HIDE DEF w, len
<1>6. len \in 0..len /\ w[len] \in Blobs  BY <1>3
<1>7. LifecycleEventsOf(w[len]) # {} => HasOneTransition(w[len])  BY <1>6, OneTransition
<1>8. Resolve(doc) # "conflicted"  BY <1>5, <1>7
<1>9. ASSUME Resolve(doc) = "corrupt" PROVE Cardinality(L) > MAX_CHAIN_DEPTH
  <2>1. len = Depth /\ LifecycleEventsOf(w[len]) # {}  BY <1>4, <1>5, <1>7, <1>9
  <2>2. \A n \in 0..Depth : w[n] \in Blobs /\ LifecycleEventsOf(w[n]) # {}
    BY <1>3, <1>4, <2>1
  <2> DEFINE pos == [n \in 0..Depth |-> CHOOSE k \in LifecycleEventsOf(w[n]) : TRUE]
  <2>3. \A n \in 0..Depth : pos[n] \in LifecycleEventsOf(w[n])  BY <2>2
  <2>4. \A x : \A k \in LifecycleEventsOf(x) : k \in L /\ events[k].body.doc = x
    BY DEF LifecycleEventsOf
  <2>5. pos \in [0..Depth -> L]  BY <2>3, <2>4
  <2> HIDE DEF pos
  <2>6. ASSUME NEW m \in 0..Depth, NEW n \in 0..Depth, pos[m] = pos[n] PROVE m = n
    <3>1. w[m] = w[n]  BY <2>3, <2>4, <2>6
    <3>2. ~(m < n) /\ ~(n < m)  BY <1>3, <2>1, <3>1
    <3>3. QED  BY <1>4, <3>2
  <2>7. pos \in Injection(0..Depth, L)  BY <2>5, <2>6 DEF Injection, IsInjective
  <2>8. IsFiniteSet(L)
    <3>1. Len(events) \in Nat /\ DOMAIN events = 1..Len(events)  BY <1>1, LogParts DEF TypeOK
    <3>2. L \in SUBSET Nat /\ \A n \in L : n <= Len(events)  BY <3>1
    <3>3. QED  BY <3>1, <3>2, FS_BoundedSetOfNaturals
  <2>9. Cardinality(0..Depth) = Depth + 1
    <3>1. 0 \in Int /\ Depth \in Int /\ ~(0 > Depth) /\ Depth - 0 + 1 = Depth + 1  BY <1>4
    <3>2. QED  BY <3>1, FS_Interval
  <2> HIDE DEF L
  <2>10. Cardinality(0..Depth) <= Cardinality(L) /\ Cardinality(L) \in Nat
    BY <2>7, <2>8, FS_Injection, FS_CardinalityType
  <2>11. QED  BY <1>4, <2>9, <2>10
<1>10. \A n \in LifecycleEventsOf(doc), m \in DOMAIN events :
         IsLifecycle(m) /\ events[m].body.doc = events[n].body.repl => n < m
  BY <1>1 DEF LifecycleEventsOf, TransitionsOrdered
<1>11. QED  BY <1>8, <1>9, <1>10

(* TransitionsStay: a document that has a transition keeps it, and gets no *)
(* other.                                                                  *)
LEMMA TransitionsStay ==
  ASSUME IInv, [Next]_vars, NEW x \in Blobs, LifecycleEventsOf(x) # {}
  PROVE  /\ LifecycleEventsOf(x)' = LifecycleEventsOf(x)
         /\ HasOneTransition(x)' /\ Successor(x)' = Successor(x)
<1>1. TypeOK /\ LifecycleOnVerifiedPrefix /\ TransitionsOrdered  BY DEF IInv
<1>2. ASSUME LifecycleEventsOf(x)' = LifecycleEventsOf(x),
             \A n \in LifecycleEventsOf(x) : events'[n] = events[n]
      PROVE  /\ LifecycleEventsOf(x)' = LifecycleEventsOf(x)
             /\ HasOneTransition(x)' /\ Successor(x)' = Successor(x)
  <2>1. PICK n \in LifecycleEventsOf(x) : TRUE  OBVIOUS
  <2>2. LifecycleEventsOf(x) = {n} /\ Successor(x) = events[n].body.repl  BY <2>1, OneTransition
  <2>3. HasOneTransition(x)'  BY <1>2, <2>2, FS_Singleton DEF HasOneTransition
  <2>4. x # None  BY BlobsAssumption
  <2>5. Successor(x)' = events'[n].body.repl  BY <1>2, <2>2, <2>3, <2>4 DEF Successor
  <2>6. QED  BY <1>2, <2>2, <2>3, <2>5
<1>3. CASE UNCHANGED events  BY <1>2, <1>3 DEF LifecycleEventsOf, IsLifecycle
<1>4. ASSUME NEW p \in Procs, InsertEvent(p)
      PROVE  /\ LifecycleEventsOf(x)' = LifecycleEventsOf(x)
             /\ HasOneTransition(x)' /\ Successor(x)' = Successor(x)
  <2>1. /\ \A n \in DOMAIN events' : IsLifecycle(n)' => n \in DOMAIN events
        /\ \A n \in DOMAIN events : n \in DOMAIN events' /\ events'[n] = events[n]
    BY <1>1, <1>4, InsertKeeps
  <2>2. LifecycleEventsOf(x)' = LifecycleEventsOf(x)  BY <2>1 DEF LifecycleEventsOf, IsLifecycle
  <2>3. \A n \in LifecycleEventsOf(x) : events'[n] = events[n]  BY <2>1 DEF LifecycleEventsOf
  <2>4. QED  BY <1>2, <2>2, <2>3
<1>5. ASSUME NEW doc \in Blobs, NEW repl \in Blobs \cup {None}, LifecycleMutate(doc, repl)
      PROVE  /\ LifecycleEventsOf(x)' = LifecycleEventsOf(x)
             /\ HasOneTransition(x)' /\ Successor(x)' = Successor(x)
  <2> DEFINE N == Len(events)
  <2>1. /\ N \in Nat /\ DOMAIN events = 1..N /\ DOMAIN events' = 1..(N + 1)
        /\ \A n \in 1..N : events'[n] = events[n]
        /\ events'[N + 1].body.doc = doc
        /\ \A n \in 1..N : IsLifecycle(n) => events[n].body.doc # doc
    BY <1>1, <1>5, MutateEffect
  <2> HIDE DEF N
  <2>2. doc # x  BY <2>1 DEF LifecycleEventsOf
  <2>3. ASSUME NEW n PROVE n \in LifecycleEventsOf(x)' <=> n \in LifecycleEventsOf(x)
    <3>1. CASE n \in 1..N  BY <2>1, <3>1 DEF LifecycleEventsOf, IsLifecycle
    <3>2. CASE n = N + 1  BY <2>1, <2>2, <3>2 DEF LifecycleEventsOf
    <3>3. CASE n \notin 1..(N + 1)  BY <2>1, <3>3 DEF LifecycleEventsOf
    <3>4. QED  BY <2>1, <3>1, <3>2, <3>3
  <2>4. LifecycleEventsOf(x)' = LifecycleEventsOf(x)
    <3>1. /\ \A n \in LifecycleEventsOf(x)' : n \in LifecycleEventsOf(x)
          /\ \A n \in LifecycleEventsOf(x) : n \in LifecycleEventsOf(x)'
      BY <2>3
    <3>2. QED  BY <3>1
  <2>5. \A n \in LifecycleEventsOf(x) : events'[n] = events[n]  BY <2>1 DEF LifecycleEventsOf
  <2>6. QED  BY <1>2, <2>4, <2>5
<1>6. QED
  BY <1>3, <1>4, <1>5 DEF Next, vars, tables, IngestStart, CheckFile, CreateFile, WriteFile, InsertObject,
     InsertDoc, CanonicalStart, UpsertCanonical, GcStart, GcRemove, GcEnd, Crash

Walks == \A doc \in Blobs : WalkFacts(doc)

(* WalksNext: so are the walks of the next state.                          *)
LEMMA WalksNext == IInv' => Walks'
<1>1. IInv => Walks  BY WalkEnds DEF Walks
<1>2. QED  BY <1>1, PTL

(* TombstoneStays: no step changes a walk that ends at a tombstone.        *)
LEMMA TombstoneStays ==
  ASSUME IInv, [Next]_vars, NEW doc \in Blobs, Resolve(doc) = "tombstoned"
  PROVE  Resolve(doc)' = "tombstoned"
<1>a. PICK w : w = Walk(doc)  OBVIOUS
<1>b. PICK v : v = Walk(doc)'  OBVIOUS
<1>c. PICK len : len = WalkLength(doc)  OBVIOUS
<1> DEFINE Good == {n \in Nat : v[n] = w[n]}
<1>1. IInv' /\ WalkFacts(doc)'  BY Inductive, WalksNext DEF Walks
<1>2. /\ w[0] = doc /\ \A n \in 1..Depth : w[n] = Successor(w[n - 1])
      /\ len \in 0..Depth /\ (len < Depth => w[len + 1] = None)
      /\ \A n \in 0..len : w[n] \in Blobs
      /\ \A m, n \in 0..len : m < n => w[m] # w[n] /\ LifecycleEventsOf(w[m]) # {}
  <2>1. WalkFacts(doc)  BY WalkEnds
  <2>2. QED  BY <1>a, <1>c, <2>1 DEF WalkFacts
<1>3. /\ v[0] = doc /\ \A n \in 1..Depth : v[n] = Successor(v[n - 1])'
      /\ \A m, n \in 0..WalkLength(doc)' : m < n => v[m] # v[n]
      /\ \A n \in 0..Depth : v[n] # None /\ (n < Depth => v[n + 1] = None) => n = WalkLength(doc)'
  BY <1>1, <1>b DEF WalkFacts, Depth
<1>4. Depth = MAX_CHAIN_DEPTH /\ Depth \in Nat  BY BoundsAssumption DEF Depth
<1>5. len # Depth /\ LifecycleEventsOf(w[len]) # {}  BY <1>2, <1>4, <1>a, <1>c DEF Resolve
<1>6. \A n \in 0..len : w[n] \in Blobs /\ LifecycleEventsOf(w[n]) # {}  BY <1>2, <1>4, <1>5
<1>7. \A x \in Blobs : LifecycleEventsOf(x) # {} =>
        /\ LifecycleEventsOf(x)' = LifecycleEventsOf(x)
        /\ HasOneTransition(x)' /\ Successor(x)' = Successor(x)
  BY TransitionsStay
<1>8. \A n \in 0..(len + 1) : n \in Good
  <2>1. len + 1 \in Nat /\ 0 \in Good  BY <1>2, <1>3, <1>4
  <2>2. ASSUME NEW n \in 0..(len + 1), n \in Good, n < len + 1 PROVE n + 1 \in Good
    <3>1. n \in 0..len /\ n + 1 \in 1..Depth /\ (n + 1) - 1 = n  BY <1>2, <1>4, <1>5, <2>2
    <3>2. v[n] = w[n] /\ w[n] \in Blobs /\ LifecycleEventsOf(w[n]) # {}  BY <1>6, <2>2, <3>1
    <3>3. v[n + 1] = Successor(v[n])' /\ w[n + 1] = Successor(w[n])  BY <1>2, <1>3, <3>1
    <3>4. QED  BY <1>7, <3>1, <3>2, <3>3
  <2> HIDE DEF Good
  <2>3. QED  BY <2>1, <2>2, StepByStep
<1>9. v[len] = w[len] /\ v[len + 1] = w[len + 1] /\ len + 1 \in 0..Depth /\ len < Depth
  BY <1>2, <1>4, <1>5, <1>8
<1>10. v[len] # None /\ v[len + 1] = None
  <2>1. w[len] \in Blobs  BY <1>2, <1>6
  <2>2. QED  BY <1>2, <1>9, <2>1, BlobsAssumption
<1>11. WalkLength(doc)' = len  BY <1>2, <1>3, <1>10
<1>12. v[len] \in Blobs /\ LifecycleEventsOf(v[len])' # {} /\ HasOneTransition(v[len])'
  <2>1. len \in 0..len  BY <1>2
  <2>2. QED  BY <1>6, <1>7, <1>9, <2>1
<1>13. QED  BY <1>3, <1>4, <1>5, <1>11, <1>12, <1>b DEF Resolve

-----------------------------------------------------------------------------
(* TypeCorrect: the tables of the vault stay consistent through every      *)
(* interleaving of ingests, canonical writes, lifecycle mutations, gc      *)
(* sweeps and crashes: each document row has its object row and its ingest *)
(* event, each canonical text its document, each link an earlier event.    *)
THEOREM TypeCorrect == Spec => []TypeOK
<1>1. IInv => TypeOK  BY DEF IInv
<1>2. QED  BY <1>1, Invariance, PTL

(* DecisionsOnVerifiedChain: append_document_lifecycle_event records a     *)
(* decision only after a chain that is linked from its first event to the  *)
(* decision, for any number of processes that ingest around it.            *)
THEOREM DecisionsOnVerifiedChain == Spec => []LifecycleOnVerifiedPrefix
<1>1. IInv => LifecycleOnVerifiedPrefix  BY DEF IInv
<1>2. QED  BY <1>1, Invariance, PTL

(* EveryResolutionSettles: resolve_document_lifecycle never reports a      *)
(* conflict and finds no cycle, for every number of documents and every    *)
(* depth bound.                                                            *)
THEOREM EveryResolutionSettles == Spec => []ResolutionSettles
BY Settles, Invariance, PTL

(* RowsKeepBytes: once all calls have returned, with no crash and no gc,   *)
(* every object row has its whole file.                                    *)
THEOREM RowsKeepBytes == Spec => []RowsHaveBytes
<1>1. IInv => RowsHaveBytes
  <2> SUFFICES ASSUME FilesFollow, \A p \in Procs : pc[p] = "idle", crashes = 0, ops["gc"] = 0,
                      NEW b \in objects
               PROVE  b \in DOMAIN files /\ files[b] = "whole"
    BY DEF IInv, RowsHaveBytes
  <2>1. QED  BY DEF FilesFollow, Follow, Sound
<1>2. QED  BY <1>1, Invariance, PTL

(* TombstonesAreFinal: no step of any process brings back a document that  *)
(* resolves to a tombstone.                                                *)
THEOREM TombstonesAreFinal == Spec => TombstoneFinal
<1>1. ASSUME IInv, [Next]_vars, NEW doc \in Retired, Resolve(doc) = "tombstoned"
      PROVE  Resolve(doc)' = "tombstoned"
  <2>1. PICK n \in DOMAIN events : IsLifecycle(n) /\ events[n].body.doc = doc  BY DEF Retired
  <2>2. events[n].body \in Bodies  BY <1>1, LogParts DEF IInv, TypeOK
  <2>3. doc \in Blobs  BY <2>1, <2>2 DEF Bodies
  <2>4. QED  BY <1>1, <2>3, TombstoneStays
<1>2. IInv /\ [Next]_vars =>
        [\A doc \in Retired : Resolve(doc) = "tombstoned" => Resolve(doc)' = "tombstoned"]_vars
  BY <1>1
<1>3. QED  BY <1>2, Invariance, PTL DEF Spec, TombstoneFinal

-----------------------------------------------------------------------------
(* gc with the vault to itself.                                            *)

(* While one process sweeps, every other one is between operations.        *)
GcExclusive ==
  \A p, q \in Procs : pc[p] = "gcSweep" /\ q # p => pc[q] = "idle"

(* Then the hashes that run_gc has read are those of the table, and rows   *)
(* keep their files until the first crash.                                 *)
SweepCurrent == \A p \in Procs : pc[p] = "gcSweep" => ctx[p].existing = objects
SweepInv == SweepCurrent /\ (crashes = 0 => Follow)

(* SweepInductive: every step keeps it so.                                 *)
LEMMA SweepInductive ==
  ASSUME TypeOK, GcExclusive, SweepInv, [Next]_vars
  PROVE  SweepInv'
<1>1. ASSUME NEW q \in Procs, pc'[q] = "gcSweep" PROVE ctx'[q].existing = objects'
  <2>1. CASE GcStart(q)
    <3>1. /\ UNCHANGED objects
          /\ ctx' = [ctx EXCEPT ![q] = [op |-> "gc", existing |-> objects, found |-> DOMAIN files]]
      BY <2>1 DEF GcStart, Call, tables
    <3>2. QED  BY <3>1 DEF TypeOK
  <2>2. CASE pc[q] = "gcSweep" /\ ctx'[q] = ctx[q]
    <3>1. ctx'[q].existing = objects  BY <2>2 DEF SweepInv, SweepCurrent
    <3>2. ASSUME NEW p \in Procs, StoreSteps(p) PROVE FALSE
      <4>1. pc[p] \in FileSteps
        BY <3>2 DEF StoreSteps, CheckFile, CreateFile, WriteFile, InsertObject, FileSteps
      <4>2. pc[p] # "idle" /\ p # q  BY <2>2, <4>1 DEF FileSteps
      <4>3. QED  BY <2>2, <4>2 DEF GcExclusive
    <3>3. UNCHANGED objects  BY <3>2, NextCases DEF Moves, GcRemove, Crash, tables
    <3>4. QED  BY <3>1, <3>3
  <2>3. QED  BY <1>1, <2>1, <2>2, SweepGoesOn
<1>2. ASSUME crashes' = 0 PROVE Follow'
  <2>1. \A p \in Procs : ~Crash(p)  BY <1>2 DEF Crash, TypeOK
  <2>2. crashes = 0
    <3>1. ASSUME NEW p \in Procs, StoreSteps(p) \/ GcRemove(p) PROVE UNCHANGED crashes
      BY <3>1, StoreTypes DEF GcRemove
    <3>2. QED  BY <1>2, <2>1, <3>1, NextCases
  <2>3. Follow  BY <2>2 DEF SweepInv
  <2>4. ASSUME NEW p \in Procs, GcRemove(p) PROVE Follow'
    <3>1. /\ pc[p] = "gcSweep" /\ UNCHANGED <<objects, pc, ctx>>
          /\ \E b \in DOMAIN files \ ctx[p].existing : files' = [x \in DOMAIN files \ {b} |-> files[x]]
      BY <2>4 DEF GcRemove, tables
    <3>2. PICK b \in DOMAIN files \ ctx[p].existing : files' = [x \in DOMAIN files \ {b} |-> files[x]]
      BY <3>1
    <3>3. b \notin objects  BY <3>1, <3>2 DEF SweepInv, SweepCurrent
    <3>4. \A r \in Procs : pc[r] \in {"idle", "gcSweep"}  BY <3>1 DEF GcExclusive
    <3>5. \A x \in DOMAIN files : files[x] = "whole"  BY <2>3, <3>4 DEF Follow
    <3>6. DOMAIN files' = DOMAIN files \ {b} /\ \A x \in DOMAIN files' : files'[x] = files[x]  BY <3>2
    <3>7. objects' \subseteq DOMAIN files'  BY <2>3, <3>1, <3>3, <3>6 DEF Follow
    <3>8. \A r \in Procs : pc'[r] \notin {"writeFile", "insertObject"}  BY <3>1, <3>4
    <3>9. \A x \in DOMAIN files' : files'[x] = "whole"  BY <3>5, <3>6
    <3>10. QED  BY <3>7, <3>8, <3>9 DEF Follow
  <2>5. QED  BY <2>1, <2>3, <2>4, FollowStep
<1>3. QED  BY <1>1, <1>2 DEF SweepInv, SweepCurrent

(* SweepInvariance: so it is in every reachable state.                     *)
LEMMA SweepInvariance == Spec /\ []GcExclusive => []SweepInv
<1>1. Init => SweepInv  BY DEF Init, SweepInv, SweepCurrent, Follow
<1>2. IInv /\ GcExclusive /\ SweepInv /\ [Next]_vars => SweepInv'  BY SweepInductive DEF IInv
<1>3. QED  BY <1>1, <1>2, Invariance, PTL DEF Spec

(* OrphanStep: in such a state run_gc removes no file that has a row, and  *)
(* no other step removes a file.                                           *)
LEMMA OrphanStep ==
  ASSUME TypeOK, SweepInv, [Next]_vars, NEW b \in DOMAIN files \ DOMAIN files'
  PROVE  b \notin objects
<1>1. ASSUME NEW p \in Procs, StoreSteps(p) PROVE FALSE
  <2>1. UNCHANGED files \/ \E x, s : SetFile(x, s)
    BY <1>1 DEF StoreSteps, CheckFile, CreateFile, WriteFile, InsertObject
  <2>2. DOMAIN files \subseteq DOMAIN files'  BY <2>1 DEF SetFile
  <2>3. QED  BY <2>2
<1>2. PICK p \in Procs : GcRemove(p)  BY <1>1, NextCases DEF Moves, Crash
<1>3. pc[p] = "gcSweep" /\ \E x \in DOMAIN files \ ctx[p].existing : files' = [y \in DOMAIN files \ {x} |-> files[y]]
  BY <1>2 DEF GcRemove
<1>4. PICK x \in DOMAIN files \ ctx[p].existing : files' = [y \in DOMAIN files \ {x} |-> files[y]]  BY <1>3
<1>5. b = x  BY <1>4
<1>6. QED  BY <1>3, <1>4, <1>5 DEF SweepInv, SweepCurrent

(* ExclusiveGcRemovesOrphans: what spec/20 says of gc is true of a vault   *)
(* where nobody stores bytes while run_gc sweeps, crashes included: the    *)
(* race with a concurrent ingest is all that the code lacks.               *)
THEOREM ExclusiveGcRemovesOrphans == Spec /\ []GcExclusive => GcRemovesOnlyOrphans
<1>1. IInv /\ SweepInv /\ [Next]_vars => [\A b \in DOMAIN files \ DOMAIN files' : b \notin objects]_vars
  BY OrphanStep DEF IInv
<1>2. QED  BY <1>1, Invariance, SweepInvariance, PTL DEF Spec, GcRemovesOnlyOrphans

(* ExclusiveGcKeepsBytes: such a gc, at any point between the operations   *)
(* of any number of processes, leaves every row its whole file: the row    *)
(* that put_bytes inserts for a file it found never names one that gc is   *)
(* about to remove.                                                        *)
THEOREM ExclusiveGcKeepsBytes ==
  Spec /\ []GcExclusive =>
    []((\A p \in Procs : pc[p] = "idle") /\ crashes = 0
         => \A b \in objects : b \in DOMAIN files /\ files[b] = "whole")
<1>1. SweepInv => ((\A p \in Procs : pc[p] = "idle") /\ crashes = 0
                     => \A b \in objects : b \in DOMAIN files /\ files[b] = "whole")
  BY DEF SweepInv, Follow
<1>2. QED  BY <1>1, SweepInvariance, PTL

(* OneProcessGcIsSafe: a vault that only one process uses is such a vault. *)
THEOREM OneProcessGcIsSafe ==
  ASSUME NEW self, Procs = {self}
  PROVE  Spec => GcRemovesOnlyOrphans
<1>1. GcExclusive  BY DEF GcExclusive
<1>2. QED  BY <1>1, ExclusiveGcRemovesOrphans, PTL

-----------------------------------------------------------------------------
(* Federation: the inductive invariant.                                    *)

IsSnap(s) ==
  s \in [revision: Nat, rows: SUBSET Blobs, text: {s.text}, order: {s.order},
         retired: {s.retired}, corrupt: {s.corrupt}, conflicted: {s.conflicted},
         all: SUBSET Blobs]
IsQuery(q) ==
  q \in [kind: Kinds, at: Checks \cup {"snapshot", "scan"}, limit: Nat, snap: {q.snap},
         facts: SUBSET Blobs, notices: SUBSET Blobs, since: Nat,
         rights: SUBSET Checks, met: SUBSET Checks, changes: Nat]

(* What the query q met on its way: a check that is behind it was passed.  *)
Admitted(q) ==
  /\ q.rights \subseteq q.met
  /\ q.kind = "delegated" /\ q.at # "session" => "session" \in q.met
  /\ q.kind = "delegated" /\ q.at \notin Checks => "policy" \in q.met

(* What version 2 knows of the lifecycle is current, and it takes no       *)
(* retired document for a fact.                                            *)
Bound(q) ==
  /\ q.kind # "v1" => q.snap.revision = Len(events) /\ q.snap.retired = Retired
  /\ q.facts \cap q.snap.retired = {}

Found(q) == q.facts \cup q.notices

(* The scan is complete so far: what matches is found or ahead, unless the *)
(* limit is reached, and then nothing is ahead.                            *)
Complete(q) ==
  LET s == q.snap
  IN /\ IsFiniteSet(DOMAIN s.text) /\ s.rows \subseteq DOMAIN s.text
     /\ s.all = {d \in DOMAIN s.text : s.text[d] \in Matches}
     /\ Found(q) \subseteq s.all /\ Found(q) \cap s.rows = {}
     /\ Cardinality(Found(q)) <= q.limit
     /\ s.rows # {} => Cardinality(Found(q)) < q.limit
     /\ Cardinality(DOMAIN s.text) <= MAX_SCAN_CANDIDATES =>
          s.all \subseteq Found(q) \cup s.rows \/ Cardinality(Found(q)) = q.limit

QueryOK(q) ==
  /\ IsQuery(q) /\ q.limit > 0 /\ q.since <= Len(events)
  /\ Admitted(q)
  /\ IF q.at = "scan" THEN IsSnap(q.snap) /\ Bound(q) /\ Complete(q)
     ELSE Found(q) = {}

FedInv ==
  /\ IInv /\ IsFiniteSet(DOMAIN canonical)
  /\ query # None => QueryOK(query)
  /\ DisclosureIsJustified /\ AnswerIsComplete

-----------------------------------------------------------------------------
(* Frames and answers.                                                     *)

(* FrameOK: a query that is sound now is sound in the next state, if the   *)
(* chain only grows and does not change under a scan of version 2.         *)
LEMMA FrameOK ==
  ASSUME NEW c, QueryOK(c), query' = c, Len(events) \in Nat, Len(events)' \in Nat,
         Len(events) <= Len(events)', c.kind # "v1" /\ c.at = "scan" => UNCHANGED events
  PROVE  QueryOK(query)'
<1>1. IsQuery(c) /\ c.limit > 0 /\ c.since <= Len(events) /\ Admitted(c)  BY DEF QueryOK
<1>2. IsQuery(query)' /\ Admitted(query)' /\ (query.limit > 0)'  BY <1>1 DEF IsQuery, Admitted
<1>3. (query.since <= Len(events))'
  <2>1. c.since \in Nat  BY <1>1 DEF IsQuery
  <2>2. QED  BY <1>1, <2>1
<1>4. ASSUME c.at = "scan" PROVE IsSnap(query.snap)' /\ Bound(query)' /\ Complete(query)'
  <2>1. IsSnap(c.snap) /\ Bound(c) /\ Complete(c)  BY <1>4 DEF QueryOK
  <2>2. IsSnap(query.snap)' /\ Complete(query)'  BY <2>1 DEF IsSnap, Complete, Found
  <2>3. Bound(query)'
    <3>1. CASE c.kind = "v1"  BY <2>1, <3>1 DEF Bound
    <3>2. CASE c.kind # "v1"
      <4>1. UNCHANGED events  BY <1>4, <3>2
      <4>2. QED  BY <2>1, <4>1 DEF Bound, Retired, IsLifecycle
    <3>3. QED  BY <3>1, <3>2
  <2>4. QED  BY <2>2, <2>3
<1>5. ASSUME c.at # "scan" PROVE (Found(query) = {})'  BY <1>5 DEF QueryOK, Found
<1>6. QED  BY <1>2, <1>3, <1>4, <1>5 DEF QueryOK

(* Continues: a step that goes on with a sound query keeps the invariant's *)
(* part about queries.                                                     *)
LEMMA Continues ==
  ASSUME TypeOK, UNCHANGED vars, NEW c, QueryOK(c), Continue(c)
  PROVE  /\ (query # None => QueryOK(query))'
         /\ DisclosureIsJustified' /\ AnswerIsComplete'
<1>1. Len(events) \in Nat /\ UNCHANGED events  BY LogParts DEF TypeOK, vars, tables
<1>2. query' = c /\ answer' = None  BY DEF Continue
<1>3. QueryOK(query)'  BY <1>1, <1>2, FrameOK
<1>4. QED  BY <1>2, <1>3 DEF DisclosureIsJustified, AnswerIsComplete

(* NoAnswer: and so does a step that ends without an answer.               *)
LEMMA NoAnswer ==
  ASSUME query' = None, answer' = None
  PROVE  /\ (query # None => QueryOK(query))'
         /\ DisclosureIsJustified' /\ AnswerIsComplete'
BY DEF DisclosureIsJustified, AnswerIsComplete

(* Refuses: an answer without facts discloses nothing.                     *)
LEMMA Refuses ==
  ASSUME NEW state \in {"permission_denied", "corrupt"}, NEW c, Answer(state, "unknown", c)
  PROVE  /\ (query # None => QueryOK(query))'
         /\ DisclosureIsJustified' /\ AnswerIsComplete'
<1>1. query' = None /\ answer'.state = state /\ answer'.facts = {} /\ answer'.notices = {}
  BY DEF Answer
<1>2. state \notin {"ready", "not_found"}  OBVIOUS
<1>3. QED  BY <1>1, <1>2 DEF DisclosureIsJustified, AnswerIsComplete

(* Concludes: the answer of a scan that is through is justified and        *)
(* complete.                                                               *)
LEMMA Concludes ==
  ASSUME UNCHANGED vars, NEW c, QueryOK(c), c.at = "scan", c.snap.rows = {}, NEW state, NEW disposition,
         Answer(state, disposition, c), state = "ready" \/ (state = "not_found" /\ Found(c) = {})
  PROVE  /\ (query # None => QueryOK(query))'
         /\ DisclosureIsJustified' /\ AnswerIsComplete'
<1>1. /\ IsQuery(c) /\ Admitted(c) /\ Bound(c) /\ Complete(c) /\ UNCHANGED events
  BY DEF QueryOK, vars, tables
<1>2. /\ query' = None /\ answer'.kind = c.kind /\ answer'.limit = c.limit
      /\ answer'.snap = c.snap /\ answer'.since = c.since /\ answer'.met = c.met
      /\ answer'.facts = c.facts /\ answer'.notices = c.notices
  BY DEF Answer, Found
<1>3. AnswerIsComplete'
  <2>1. /\ Found(c) \subseteq c.snap.all /\ Cardinality(Found(c)) <= c.limit
        /\ Cardinality(DOMAIN c.snap.text) <= MAX_SCAN_CANDIDATES =>
             c.snap.all \subseteq Found(c) \/ Cardinality(Found(c)) = c.limit
    BY <1>1 DEF Complete
  <2>2. (answer.facts \cup answer.notices)' = Found(c)  BY <1>2 DEF Found
  <2>3. QED  BY <1>2, <2>1, <2>2 DEF AnswerIsComplete
<1>4. DisclosureIsJustified'
  <2>1. c.kind # "v1" => \A d \in c.facts : LifecycleEventsOf(d)' = {}
    <3>1. SUFFICES ASSUME c.kind # "v1", NEW d \in c.facts, NEW n \in LifecycleEventsOf(d)'
                   PROVE  FALSE
      OBVIOUS
    <3>2. n \in DOMAIN events /\ IsLifecycle(n) /\ events[n].body.doc = d
      BY <1>1, <3>1 DEF LifecycleEventsOf, IsLifecycle
    <3>3. d \in Retired  BY <3>2 DEF Retired
    <3>4. QED  BY <1>1, <3>1, <3>3 DEF Bound
  <2>2. c.kind = "delegated" => c.met = Checks
    BY <1>1 DEF Admitted, IsQuery, Checks
  <2>3. QED  BY <1>2, <2>1, <2>2 DEF DisclosureIsJustified
<1>5. QED  BY <1>2, <1>3, <1>4

-----------------------------------------------------------------------------
(* The steps of a query.                                                   *)

(* What each step has to establish.                                        *)
QuerySound ==
  /\ query # None => QueryOK(query)
  /\ DisclosureIsJustified /\ AnswerIsComplete

(* ClampBounds: a limit is at least one.                                   *)
LEMMA ClampBounds == \A n \in Nat : Clamp(n) \in Nat /\ Clamp(n) > 0
BY QueryAssumption DEF Clamp

(* AcceptSound: a new query has nothing yet.                               *)
LEMMA AcceptSound ==
  ASSUME TypeOK, UNCHANGED vars, NEW kind \in Kinds, NEW limit \in Limits,
         NEW rights \in SUBSET Checks, Accept(kind, limit, rights)
  PROVE  QuerySound'
<1>1. Len(events) \in Nat  BY LogParts DEF TypeOK
<1>2. Clamp(limit) \in Nat /\ Clamp(limit) > 0  BY ClampBounds, QueryAssumption
<1>3. PICK c : query' = c /\ c =
        [kind |-> kind, at |-> IF kind = "delegated" THEN "session" ELSE "snapshot",
         limit |-> Clamp(limit), snap |-> None, facts |-> {}, notices |-> {},
         since |-> Len(events), rights |-> rights, met |-> rights, changes |-> 0]
  BY DEF Accept
<1>4. answer' = None  BY DEF Accept
<1>5. IsQuery(c)
  <2>1. c.at \in Checks \cup {"snapshot", "scan"}  BY <1>3 DEF Checks
  <2>2. QED  BY <1>1, <1>2, <1>3, <2>1 DEF IsQuery
<1>6. /\ c.limit > 0 /\ c.since <= Len(events) /\ Found(c) = {} /\ c.at # "scan"
  BY <1>1, <1>2, <1>3 DEF Found
<1>7. Admitted(c)  BY <1>3 DEF Admitted, Checks
<1>8. QueryOK(c)  BY <1>5, <1>6, <1>7 DEF QueryOK
<1>9. QED  BY <1>3, <1>4, <1>8, Continues DEF Continue, QuerySound

(* AuthorizeSound: a check that is passed is among those met.              *)
LEMMA AuthorizeSound ==
  ASSUME TypeOK, UNCHANGED vars, QuerySound, Authorize
  PROVE  QuerySound'
<1>1. query # None /\ query.at \in Checks /\ QueryOK(query)  BY DEF Authorize, QuerySound
<1>2. CASE query.at \in query.rights
  <2> DEFINE next == IF query.at = "session" THEN "policy" ELSE "snapshot"
  <2>1. PICK c : Continue(c) /\ c = [query EXCEPT !.at = next]  BY <1>2 DEF Authorize
  <2>2. IsQuery(query) /\ Admitted(query) /\ query.at # "scan"  BY <1>1 DEF QueryOK, Checks
  <2>3. /\ IsQuery(c) /\ c.at = next /\ c.kind = query.kind /\ c.rights = query.rights /\ c.met = query.met
        /\ c.limit = query.limit /\ c.since = query.since /\ c.facts = query.facts /\ c.notices = query.notices
    BY <2>1, <2>2 DEF IsQuery, Checks
  <2>4. next \in {"policy", "snapshot"} /\ next # "scan"  OBVIOUS
  <2>5. Admitted(c)  BY <1>1, <1>2, <2>2, <2>3 DEF Admitted, Checks
  <2>6. QueryOK(c)  BY <1>1, <2>2, <2>3, <2>4, <2>5 DEF QueryOK, Found
  <2>7. QED  BY <2>1, <2>6, Continues DEF QuerySound
<1>3. CASE query.at \notin query.rights
  <2>1. Answer("permission_denied", "unknown", query)  BY <1>3 DEF Authorize
  <2>2. QED  BY <2>1, Refuses DEF QuerySound
<1>4. QED  BY <1>2, <1>3

(* NewerSmaller: fewer documents are newer than d than have a text.        *)
LEMMA NewerSmaller ==
  ASSUME TypeOK, IsFiniteSet(DOMAIN canonical), NEW d \in DOMAIN canonical
  PROVE  Cardinality(Newer(d)) < Cardinality(DOMAIN canonical)
<1>1. docs[d] \in Nat  BY LogParts DEF TypeOK
<1>2. d \notin Newer(d)  BY <1>1 DEF Newer
<1>3. Newer(d) \in SUBSET DOMAIN canonical  BY DEF Newer
<1>4. /\ Cardinality(Newer(d)) <= Cardinality(DOMAIN canonical)
      /\ Cardinality(DOMAIN canonical) = Cardinality(Newer(d)) => DOMAIN canonical = Newer(d)
      /\ IsFiniteSet(Newer(d))
  BY <1>3, FS_Subset
<1>5. Cardinality(Newer(d)) \in Nat /\ Cardinality(DOMAIN canonical) \in Nat
  BY <1>4, FS_CardinalityType
<1>6. QED  BY <1>2, <1>4, <1>5

(* SnapshotSound: a scan starts with all candidates ahead.                 *)
LEMMA SnapshotSound ==
  ASSUME TypeOK, IsFiniteSet(DOMAIN canonical), UNCHANGED vars, QuerySound, ReadSnapshot
  PROVE  QuerySound'
<1>1. query # None /\ query.at = "snapshot" /\ QueryOK(query)  BY DEF ReadSnapshot, QuerySound
<1>2. CASE Answer("corrupt", "unknown", query)  BY <1>2, Refuses DEF QuerySound
<1>3. CASE Continue([query EXCEPT !.at = "scan", !.snap = Snapshot(query.kind)])
  <2>1. PICK c : Continue(c) /\ c = [query EXCEPT !.at = "scan", !.snap = Snapshot(query.kind)]
    BY <1>3
  <2>2. /\ IsQuery(query) /\ Admitted(query) /\ query.limit > 0 /\ query.since <= Len(events)
        /\ Found(query) = {}
    BY <1>1 DEF QueryOK
  <2>3. /\ IsQuery(c) /\ c.at = "scan" /\ c.kind = query.kind /\ c.rights = query.rights /\ c.met = query.met
        /\ c.limit = query.limit /\ c.since = query.since /\ c.facts = query.facts /\ c.notices = query.notices
        /\ c.snap = Snapshot(query.kind)
    BY <2>1, <2>2 DEF IsQuery
  <2>4. Len(events) \in Nat /\ DOMAIN canonical \subseteq Blobs  BY LogParts DEF TypeOK
  <2>5. PICK s : s = Snapshot(query.kind)  OBVIOUS
  <2>6. /\ s.revision = Len(events) /\ s.rows = Candidates /\ s.text = canonical
        /\ s.all = {d \in DOMAIN canonical : canonical[d] \in Matches}
        /\ s.retired = IF query.kind = "v1" THEN {} ELSE Retired
    BY <2>5 DEF Snapshot
  <2>7. Candidates \subseteq DOMAIN canonical  BY DEF Candidates
  <2>8. IsSnap(s)  BY <2>4, <2>5, <2>6, <2>7 DEF IsSnap, Snapshot
  <2>9. Found(c) = {} /\ c.facts = {} /\ Cardinality(Found(c)) = 0
    <3>1. Found(c) = {} /\ c.facts = {}  BY <2>2, <2>3 DEF Found
    <3>2. QED  BY <3>1, FS_EmptySet
  <2>10. Admitted(c)  BY <1>1, <2>2, <2>3 DEF Admitted, Checks
  <2>11. Bound(c)  BY <2>3, <2>5, <2>6, <2>9 DEF Bound
  <2>12. Cardinality(DOMAIN canonical) <= MAX_SCAN_CANDIDATES => DOMAIN canonical \subseteq Candidates
    <3>1. SUFFICES ASSUME Cardinality(DOMAIN canonical) <= MAX_SCAN_CANDIDATES, NEW d \in DOMAIN canonical
                   PROVE  Cardinality(Newer(d)) < MAX_SCAN_CANDIDATES
      BY DEF Candidates
    <3>2. Cardinality(Newer(d)) < Cardinality(DOMAIN canonical)  BY NewerSmaller
    <3>3. Newer(d) \in SUBSET DOMAIN canonical  BY DEF Newer
    <3>4. Cardinality(Newer(d)) \in Nat /\ Cardinality(DOMAIN canonical) \in Nat
      BY <3>3, FS_CardinalityType, FS_Subset
    <3>5. QED  BY <3>1, <3>2, <3>4, QueryAssumption
  <2>13. c.limit \in Nat /\ c.limit > 0  BY <2>2, <2>3 DEF IsQuery
  <2>14. Complete(c)  BY <2>3, <2>5, <2>6, <2>7, <2>9, <2>12, <2>13 DEF Complete
  <2>15. QueryOK(c)  BY <2>2, <2>3, <2>5, <2>8, <2>10, <2>11, <2>14 DEF QueryOK
  <2>16. QED  BY <2>1, <2>15, Continues DEF QuerySound
<1>4. QED  BY <1>2, <1>3 DEF ReadSnapshot

(* Passes: a scan may pass over a document that does not match.            *)
LEMMA Passes ==
  ASSUME NEW q, QueryOK(q), q.at = "scan", NEW d \in q.snap.rows, q.snap.text[d] \notin Matches,
         NEW c, c = [q EXCEPT !.snap = [@ EXCEPT !.rows = q.snap.rows \ {d}]]
  PROVE  QueryOK(c)
<1>1. /\ IsQuery(q) /\ IsSnap(q.snap) /\ Admitted(q) /\ Bound(q) /\ Complete(q)
      /\ q.limit > 0 /\ q.since <= Len(events)
  BY DEF QueryOK
<1>2. PICK s : s = [q.snap EXCEPT !.rows = q.snap.rows \ {d}]  OBVIOUS
<1>3. /\ IsQuery(c) /\ c.at = "scan" /\ c.kind = q.kind /\ c.rights = q.rights /\ c.met = q.met
      /\ c.limit = q.limit /\ c.since = q.since /\ c.facts = q.facts /\ c.notices = q.notices
      /\ c.snap = s
  BY <1>1, <1>2 DEF IsQuery
<1>4. /\ IsSnap(s) /\ s.rows = q.snap.rows \ {d} /\ s.revision = q.snap.revision /\ s.text = q.snap.text
      /\ s.retired = q.snap.retired /\ s.all = q.snap.all
  BY <1>1, <1>2 DEF IsSnap
<1>5. Admitted(c) /\ Bound(c) /\ Found(c) = Found(q)  BY <1>1, <1>3, <1>4 DEF Admitted, Bound, Found
<1>6. d \notin q.snap.all  BY <1>1 DEF Complete
<1>7. Complete(c)  BY <1>1, <1>3, <1>4, <1>5, <1>6 DEF Complete
<1>8. QED  BY <1>1, <1>3, <1>4, <1>5, <1>7 DEF QueryOK

(* Finds: and it may add one that does, as a fact if it is not retired.    *)
LEMMA Finds ==
  ASSUME NEW q, QueryOK(q), q.at = "scan", NEW d \in q.snap.rows, q.snap.text[d] \in Matches,
         NEW rest, rest = IF Cardinality(Found(q)) + 1 = q.limit THEN {} ELSE q.snap.rows \ {d},
         NEW facts, NEW notices, facts \cup notices = Found(q) \cup {d},
         facts \subseteq q.facts \cup {d}, facts = q.facts \/ d \notin q.snap.retired,
         NEW c, IsQuery(c), c.at = "scan", c.kind = q.kind, c.rights = q.rights, c.met = q.met,
         c.limit = q.limit, c.since = q.since, c.facts = facts, c.notices = notices,
         c.snap = [q.snap EXCEPT !.rows = rest]
  PROVE  QueryOK(c)
<1>1. /\ IsQuery(q) /\ IsSnap(q.snap) /\ Admitted(q) /\ Bound(q) /\ Complete(q)
      /\ q.limit > 0 /\ q.since <= Len(events) /\ q.limit \in Nat
  BY DEF QueryOK, IsQuery
<1>2. PICK s : s = [q.snap EXCEPT !.rows = rest]  OBVIOUS
<1>3. rest \subseteq q.snap.rows \ {d} /\ q.snap.rows \subseteq Blobs  BY <1>1 DEF IsSnap
<1>4. /\ IsSnap(s) /\ s.rows = rest /\ s.revision = q.snap.revision /\ s.text = q.snap.text
      /\ s.retired = q.snap.retired /\ s.all = q.snap.all
  BY <1>1, <1>2, <1>3 DEF IsSnap
<1>5. Admitted(c)  BY <1>1 DEF Admitted
<1>6. Bound(c)  BY <1>1, <1>2, <1>4 DEF Bound
<1>7. Found(c) = Found(q) \cup {d}  BY DEF Found
<1>8. d \in q.snap.all /\ d \notin Found(q) /\ Found(q) \in SUBSET DOMAIN q.snap.text
  BY <1>1 DEF Complete
<1>9. /\ IsFiniteSet(Found(q)) /\ Cardinality(Found(q)) \in Nat
      /\ Cardinality(Found(c)) = Cardinality(Found(q)) + 1
  <2>1. IsFiniteSet(DOMAIN q.snap.text)  BY <1>1 DEF Complete
  <2>2. IsFiniteSet(Found(q))  BY <1>8, <2>1, FS_Subset
  <2>3. QED  BY <1>7, <1>8, <2>2, FS_AddElement, FS_CardinalityType
<1>10. Cardinality(Found(q)) < q.limit  BY <1>1 DEF Complete
<1>11. /\ Cardinality(Found(c)) <= q.limit
       /\ rest # {} => Cardinality(Found(c)) < q.limit
       /\ Cardinality(Found(c)) = q.limit \/ rest = q.snap.rows \ {d}
  BY <1>1, <1>9, <1>10
<1>12. Complete(c)
  <2>1. /\ IsFiniteSet(DOMAIN s.text) /\ s.rows \subseteq DOMAIN s.text
        /\ s.all = {x \in DOMAIN s.text : s.text[x] \in Matches}
    BY <1>1, <1>3, <1>4 DEF Complete
  <2>2. Found(c) \subseteq s.all /\ Found(c) \cap s.rows = {}
    BY <1>1, <1>3, <1>4, <1>7, <1>8 DEF Complete
  <2>3. ASSUME Cardinality(DOMAIN s.text) <= MAX_SCAN_CANDIDATES, Cardinality(Found(c)) # q.limit
        PROVE  s.all \subseteq Found(c) \cup s.rows
    <3>1. s.all \subseteq Found(q) \cup q.snap.rows
      <4>1. Cardinality(Found(q)) # q.limit  BY <1>1, <1>9, <1>10
      <4>2. QED  BY <1>1, <1>4, <2>3, <4>1 DEF Complete
    <3>2. rest = q.snap.rows \ {d}  BY <1>11, <2>3
    <3>3. QED  BY <1>4, <1>7, <3>1, <3>2
  <2>4. QED  BY <1>2, <1>4, <1>11, <2>1, <2>2, <2>3 DEF Complete
<1>13. QED  BY <1>1, <1>2, <1>4, <1>5, <1>6, <1>12 DEF QueryOK

(* ScanSound: so the scan of a candidate keeps the query sound.            *)
LEMMA ScanSound ==
  ASSUME TypeOK, UNCHANGED vars, QuerySound, Scan
  PROVE  QuerySound'
<1>1. query # None /\ query.at = "scan" /\ QueryOK(query) /\ IsQuery(query)
  BY DEF Scan, QuerySound, QueryOK
<1> DEFINE b(d) == query.snap.text[d]
           full == Cardinality(query.facts \cup query.notices) + 1 = query.limit
           rest(d) == IF b(d) \in Matches /\ full THEN {} ELSE query.snap.rows \ {d}
           next(d) == [query EXCEPT !.snap = [@ EXCEPT !.rows = rest(d)]]
<1>2. PICK d \in query.snap.rows :
        \/ \E st \in {"corrupt"} : Answer(st, "unknown", query)
        \/ b(d) \notin Matches /\ Continue(next(d))
        \/ b(d) \in Matches /\ Continue([next(d) EXCEPT !.notices = @ \cup {d}])
        \/ b(d) \in Matches /\ d \notin query.snap.retired /\ Continue([next(d) EXCEPT !.facts = @ \cup {d}])
  BY DEF Scan, Newest
<1>3. CASE \E st \in {"corrupt"} : Answer(st, "unknown", query)  BY <1>3, Refuses DEF QuerySound
<1>4. CASE b(d) \notin Matches /\ Continue(next(d))
  <2>1. PICK c : c = next(d)  OBVIOUS
  <2>2. QueryOK(c)  BY <1>1, <1>4, <2>1, Passes
  <2>3. QED  BY <1>4, <2>1, <2>2, Continues DEF QuerySound
<1>5. d \in Blobs  BY <1>1 DEF QueryOK, IsSnap
<1>6. CASE b(d) \in Matches /\ Continue([next(d) EXCEPT !.notices = @ \cup {d}])
  <2>1. PICK c : c = [next(d) EXCEPT !.notices = @ \cup {d}]  OBVIOUS
  <2>2. /\ IsQuery(c) /\ c.at = "scan" /\ c.kind = query.kind /\ c.rights = query.rights /\ c.met = query.met
        /\ c.limit = query.limit /\ c.since = query.since /\ c.facts = query.facts
        /\ c.notices = query.notices \cup {d} /\ c.snap = [query.snap EXCEPT !.rows = rest(d)]
    BY <1>1, <1>5, <2>1 DEF IsQuery
  <2>3. QueryOK(c)
    <3>1. query.facts \cup (query.notices \cup {d}) = Found(query) \cup {d}  BY DEF Found
    <3>2. rest(d) = IF Cardinality(Found(query)) + 1 = query.limit THEN {} ELSE query.snap.rows \ {d}
      BY <1>6 DEF Found
    <3> HIDE DEF rest
    <3>3. QED  BY <1>1, <1>6, <2>2, <3>1, <3>2, Finds
  <2>4. QED  BY <1>6, <2>1, <2>3, Continues DEF QuerySound
<1>7. CASE b(d) \in Matches /\ d \notin query.snap.retired /\ Continue([next(d) EXCEPT !.facts = @ \cup {d}])
  <2>1. PICK c : c = [next(d) EXCEPT !.facts = @ \cup {d}]  OBVIOUS
  <2>2. /\ IsQuery(c) /\ c.at = "scan" /\ c.kind = query.kind /\ c.rights = query.rights /\ c.met = query.met
        /\ c.limit = query.limit /\ c.since = query.since /\ c.facts = query.facts \cup {d}
        /\ c.notices = query.notices /\ c.snap = [query.snap EXCEPT !.rows = rest(d)]
    BY <1>1, <1>5, <2>1 DEF IsQuery
  <2>3. QueryOK(c)
    <3>1. (query.facts \cup {d}) \cup query.notices = Found(query) \cup {d}  BY DEF Found
    <3>2. rest(d) = IF Cardinality(Found(query)) + 1 = query.limit THEN {} ELSE query.snap.rows \ {d}
      BY <1>7 DEF Found
    <3> HIDE DEF rest
    <3>3. QED  BY <1>1, <1>7, <2>2, <3>1, <3>2, Finds
  <2>4. QED  BY <1>7, <2>1, <2>3, Continues DEF QuerySound
<1>8. QED  BY <1>2, <1>3, <1>4, <1>6, <1>7

(* FinishSound: what a scan found is the answer.                           *)
LEMMA FinishSound ==
  ASSUME TypeOK, UNCHANGED vars, QuerySound, Finish
  PROVE  QuerySound'
<1>1. query # None /\ query.at = "scan" /\ query.snap.rows = {} /\ QueryOK(query)
  BY DEF Finish, QuerySound
<1>2. PICK state : /\ state = IF Disposition(query) = "none" THEN "not_found" ELSE "ready"
                   /\ Answer(state, Disposition(query), query)
  BY DEF Finish
<1>3. Disposition(query) = "none" => Found(query) = {}  BY DEF Disposition, Found
<1>4. state = "ready" \/ (state = "not_found" /\ Found(query) = {})
  <2>1. CASE Disposition(query) = "none"  BY <1>2, <1>3, <2>1
  <2>2. CASE Disposition(query) # "none"  BY <1>2, <2>2
  <2>3. QED  BY <2>1, <2>2
<1>5. QED  BY <1>1, <1>2, <1>4, Concludes DEF QuerySound

(* ChangeSound: a right that comes or goes leaves the checks met.          *)
LEMMA ChangeSound ==
  ASSUME TypeOK, UNCHANGED vars, QuerySound, ChangeAccess
  PROVE  QuerySound'
<1>1. query # None /\ QueryOK(query) /\ IsQuery(query) /\ answer' = None
  BY DEF ChangeAccess, QuerySound, QueryOK
<1>2. PICK rights \in SUBSET Checks :
        query' = [query EXCEPT !.rights = rights, !.met = @ \cup rights, !.changes = @ + 1]
  BY DEF ChangeAccess
<1>3. PICK c : query' = c /\ c = [query EXCEPT !.rights = rights, !.met = @ \cup rights, !.changes = @ + 1]
  BY <1>2
<1>4. /\ IsQuery(c) /\ c.at = query.at /\ c.kind = query.kind /\ c.rights = rights
      /\ c.met = query.met \cup rights /\ c.limit = query.limit /\ c.since = query.since
      /\ c.facts = query.facts /\ c.notices = query.notices /\ c.snap = query.snap
  <2>1. PICK met, changes : met = query.met \cup rights /\ changes = query.changes + 1  OBVIOUS
  <2>2. met \in SUBSET Checks /\ changes \in Nat  BY <1>1, <2>1 DEF IsQuery
  <2>3. c = [query EXCEPT !.rights = rights, !.met = met, !.changes = changes]  BY <1>3, <2>1
  <2>4. QED  BY <1>1, <2>1, <2>2, <2>3 DEF IsQuery
<1>5. Admitted(query)  BY <1>1 DEF QueryOK
<1>6. Admitted(c)  BY <1>4, <1>5 DEF Admitted
<1>7. QueryOK(c)
  <2>1. Found(c) = Found(query)  BY <1>4 DEF Found
  <2>2. CASE query.at = "scan"
    <3>1. IsSnap(c.snap) /\ Bound(c)  BY <1>1, <1>4, <2>2 DEF QueryOK, Bound
    <3>2. Complete(c)  BY <1>1, <1>4, <2>1, <2>2 DEF QueryOK, Complete
    <3>3. QED  BY <1>1, <1>4, <1>6, <2>2, <3>1, <3>2 DEF QueryOK
  <2>3. CASE query.at # "scan"  BY <1>1, <1>4, <1>6, <2>1, <2>3 DEF QueryOK
  <2>4. QED  BY <2>2, <2>3
<1>8. QED  BY <1>1, <1>3, <1>7, Continues DEF Continue, QuerySound

-----------------------------------------------------------------------------
(* The vault around a query.                                               *)

(* ChainGrows: no step shortens the chain.                                 *)
LEMMA ChainGrows ==
  ASSUME TypeOK, TypeOK', Next
  PROVE  Len(events) \in Nat /\ Len(events)' \in Nat /\ Len(events) <= Len(events)'
<1>1. /\ Len(events) \in Nat /\ DOMAIN events = 1..Len(events)
      /\ Len(events)' \in Nat /\ DOMAIN events' = 1..Len(events)'
  BY LogParts DEF TypeOK
<1>2. DOMAIN events \subseteq DOMAIN events'
  <2>1. ASSUME NEW p \in Procs, InsertEvent(p) PROVE Grows  BY <2>1, IngestEventTypes
  <2>2. ASSUME NEW doc \in Blobs, NEW repl \in Blobs \cup {None}, LifecycleMutate(doc, repl) PROVE Grows
    BY <2>2, LifecycleTypes
  <2>3. UNCHANGED events \/ Grows
    BY <2>1, <2>2 DEF Next, tables, IngestStart, CheckFile, CreateFile, WriteFile, InsertObject,
       InsertDoc, CanonicalStart, UpsertCanonical, GcStart, GcRemove, GcEnd, Crash
  <2>4. QED  BY <2>3 DEF Grows
<1>3. QED
  <2>1. PICK n, m : n = Len(events) /\ m = Len(events)'  OBVIOUS
  <2>2. n \in Nat /\ m \in Nat /\ 1..n \subseteq 1..m  BY <1>1, <1>2, <2>1
  <2>3. n <= m
    <3>1. CASE n = 0  BY <2>2, <3>1
    <3>2. CASE n # 0
      <4>1. n \in 1..n  BY <2>2, <3>2
      <4>2. QED  BY <2>2, <4>1
    <3>3. QED  BY <3>1, <3>2
  <2>4. QED  BY <1>1, <2>1, <2>3

(* TextsFinite: only finitely many documents have a text.                  *)
LEMMA TextsFinite ==
  /\ Init => IsFiniteSet(DOMAIN canonical)
  /\ IsFiniteSet(DOMAIN canonical) /\ [Next]_vars => IsFiniteSet(DOMAIN canonical)'
<1>1. ASSUME Init PROVE IsFiniteSet(DOMAIN canonical)
  <2>1. Len(Seed) \in Nat /\ DOMAIN Seed = 1..Len(Seed)  BY BlobsAssumption, LenProperties
  <2>2. IsFiniteSet(DOMAIN Seed)  BY <2>1, FS_Interval
  <2>3. [n \in DOMAIN Seed |-> Seed[n]] \in Surjection(DOMAIN Seed, SeedDocs)
    BY DEF Surjection, SeedDocs
  <2>4. IsFiniteSet(SeedDocs)  BY <2>2, <2>3, FS_Surjection
  <2>5. QED  BY <1>1, <2>4 DEF Init
<1>2. ASSUME IsFiniteSet(DOMAIN canonical), [Next]_vars PROVE IsFiniteSet(DOMAIN canonical)'
  <2>1. canonical' = canonical \/ \E p \in Procs : UpsertCanonical(p)
    BY <1>2 DEF Next, vars, tables, IngestStart, InsertEvent, CheckFile, CreateFile, WriteFile, InsertObject,
       InsertDoc, CanonicalStart, GcStart, GcRemove, GcEnd, Crash, LifecycleMutate
  <2>2. ASSUME NEW p \in Procs, UpsertCanonical(p) PROVE IsFiniteSet(DOMAIN canonical)'
    <3>1. DOMAIN canonical' = DOMAIN canonical \cup {ctx[p].doc}  BY <2>2 DEF UpsertCanonical
    <3>2. QED  BY <1>2, <3>1, FS_AddElement
  <2>3. QED  BY <1>2, <2>1, <2>2
<1>3. QED  BY <1>1, <1>2

(* VaultSound: a step of the vault leaves a query sound.                   *)
LEMMA VaultSound ==
  ASSUME TypeOK, TypeOK', QuerySound, VaultStep
  PROVE  QuerySound'
<1>1. Next /\ query' = query /\ answer' = None /\ (ReadLocked => UNCHANGED tables)  BY DEF VaultStep
<1>2. Len(events) \in Nat /\ Len(events)' \in Nat /\ Len(events) <= Len(events)'
  BY <1>1, ChainGrows
<1>3. ASSUME query # None PROVE QueryOK(query)'
  <2>1. QueryOK(query)  BY <1>3 DEF QuerySound
  <2>2. query.kind # "v1" /\ query.at = "scan" => UNCHANGED events
    BY <1>1, <1>3 DEF ReadLocked, tables
  <2>3. QED  BY <1>1, <1>2, <2>1, <2>2, FrameOK
<1>4. QED  BY <1>1, <1>3 DEF QuerySound, DisclosureIsJustified, AnswerIsComplete

(* FedInitially: the invariant holds at first.                             *)
LEMMA FedInitially == FedInit => FedInv
<1> SUFFICES ASSUME FedInit PROVE FedInv  OBVIOUS
<1>1. IInv /\ IsFiniteSet(DOMAIN canonical)  BY Initially, TextsFinite DEF FedInit
<1>2. QED  BY <1>1 DEF FedInit, FedInv, DisclosureIsJustified, AnswerIsComplete

(* FedInductive: every step keeps it.                                      *)
LEMMA FedInductive == FedInv /\ [FedNext]_allVars => FedInv'
<1> SUFFICES ASSUME FedInv, [FedNext]_allVars PROVE FedInv'  OBVIOUS
<1>1. IInv /\ TypeOK /\ IsFiniteSet(DOMAIN canonical) /\ QuerySound  BY DEF FedInv, IInv, QuerySound
<1>2. [Next]_vars  BY DEF FedNext, VaultStep, allVars
<1>3. IInv' /\ TypeOK' /\ IsFiniteSet(DOMAIN canonical)'
  BY <1>1, <1>2, Inductive, TextsFinite DEF IInv
<1>4. QuerySound'
  <2>1. CASE UNCHANGED allVars
    <3>1. UNCHANGED <<query, answer, events>>  BY <2>1 DEF allVars, vars, tables, fedVars
    <3>2. Len(events) \in Nat  BY <1>1, LogParts DEF TypeOK
    <3>3. query # None => QueryOK(query)'  BY <1>1, <3>1, <3>2, FrameOK DEF QuerySound
    <3>4. DisclosureIsJustified' /\ AnswerIsComplete'
      BY <1>1, <3>1 DEF QuerySound, DisclosureIsJustified, AnswerIsComplete, LifecycleEventsOf, IsLifecycle
    <3>5. QED  BY <3>1, <3>3, <3>4 DEF QuerySound
  <2>2. CASE VaultStep  BY <1>1, <1>3, <2>2, VaultSound
  <2>3. CASE FedStep /\ UNCHANGED vars
    <3>1. CASE Abandon  BY <3>1, NoAnswer DEF Abandon, QuerySound
    <3>2. QED
      BY <1>1, <2>3, <3>1, AcceptSound, AuthorizeSound, SnapshotSound, ScanSound, FinishSound, ChangeSound
      DEF FedStep
  <2>4. QED  BY <2>1, <2>2, <2>3 DEF FedNext
<1>5. QED  BY <1>3, <1>4 DEF FedInv, QuerySound

(* FedInvariance: the inductive invariant holds in every reachable state.  *)
LEMMA FedInvariance == FedSpec => []FedInv
BY FedInitially, FedInductive, PTL DEF FedSpec

-----------------------------------------------------------------------------
(* QueriesOnlyRead: a vault that is queried is a vault: whatever           *)
(* federation serve answers, the owner log, the object store and the       *)
(* lifecycle behave as without it, so that every theorem of VaultLogProofs *)
(* also holds beside queries.                                              *)
THEOREM QueriesOnlyRead == FedSpec => Spec
<1>1. FedInit => Init  BY DEF FedInit
<1>2. [FedNext]_allVars => [Next]_vars  BY DEF FedNext, VaultStep, allVars
<1>3. QED  BY <1>1, <1>2, PTL DEF FedSpec, Spec

(* DisclosuresAreJustified: run_query_v2 tells no document as active that  *)
(* had a lifecycle event at the revision of the answer or when the request *)
(* arrived, and serves a delegated session only after both checks, for     *)
(* every interleaving with ingests, mutations, gc and changes of rights.   *)
THEOREM DisclosuresAreJustified == FedSpec => []DisclosureIsJustified
<1>1. FedInv => DisclosureIsJustified  BY DEF FedInv
<1>2. QED  BY <1>1, FedInvariance, PTL

(* AnswersAreComplete: an answer misses no match but for its limit, for    *)
(* every MAX_RESULT_LIMIT, MAX_SCAN_CANDIDATES and requested limit.        *)
THEOREM AnswersAreComplete == FedSpec => []AnswerIsComplete
<1>1. FedInv => AnswerIsComplete  BY DEF FedInv
<1>2. QED  BY <1>1, FedInvariance, PTL
=============================================================================
