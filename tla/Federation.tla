----------------------------- MODULE Federation -----------------------------
(***************************************************************************)
(* Federation queries on a vault that other processes work on: version 1   *)
(* and version 2 for the local owner, and version 2 on behalf of a         *)
(* delegated session through the socket of kc_cli federation serve.  A     *)
(* session has any rights and they may change during the query.  A query   *)
(* reads the tables in one transaction and the object files one by one.    *)
(* One query is under way at a time, as in run_serve.                      *)
(***************************************************************************)
EXTENDS VaultLog

CONSTANTS
  Matches,               \* the texts in which the project key occurs
  Limits,                \* limits that requests ask for
  MAX_RESULT_LIMIT,
  MAX_SCAN_CANDIDATES,
  MaxBeside,             \* bound: operations started before or during a query
  MaxChanges             \* bound: changes of the session's rights during a query

ASSUME QueryAssumption ==
  /\ Matches \subseteq Blobs /\ Limits \subseteq Nat
  /\ MAX_RESULT_LIMIT \in Nat \ {0} /\ MAX_SCAN_CANDIDATES \in Nat \ {0}
  /\ MaxBeside \in Nat /\ MaxChanges \in Nat

VARIABLES
  query,     \* the frame of the query under way, or None
  answer     \* the answer given by the last step, or None

fedVars == <<query, answer>>
allVars == <<vars, fedVars>>

Kinds == {"v1", "v2", "delegated"}
Checks == {"session", "policy"}

(* Operations started on the vault.                                        *)
Started == ops["ingest"] + ops["canonical"] + ops["lifecycle"] + ops["gc"]

(* request.limit.clamp(1, MAX_RESULT_LIMIT).                               *)
Clamp(n) == CASE n < 1 -> 1 [] n > MAX_RESULT_LIMIT -> MAX_RESULT_LIMIT [] OTHER -> n

(* The documents ingested after d that have a canonical text.              *)
Newer(d) == {e \in DOMAIN canonical : docs[e] > docs[d]}

(* Faulty variant: one candidate too few is scanned.                       *)
CandidatesButOne == {d \in DOMAIN canonical : Cardinality(Newer(d)) + 1 < MAX_SCAN_CANDIDATES}
(* The documents that have a canonical text, as many as are scanned, those *)
(* ingested last; no two have the same ingested_event_id.                  *)
Candidates == {d \in DOMAIN canonical : Cardinality(Newer(d)) < MAX_SCAN_CANDIDATES}

(* What the read transaction finds.  Version 1 knows no lifecycle.  The    *)
(* history all is every match, within the scan or not.                     *)
Snapshot(kind) ==
  [revision |-> Len(events), rows |-> Candidates, text |-> canonical,
   order |-> [d \in DOMAIN canonical |-> docs[d]],
   retired |-> IF kind = "v1" THEN {} ELSE Retired,
   corrupt |-> IF kind = "v1" THEN {} ELSE {d \in Retired : Resolve(d) = "corrupt"},
   conflicted |-> IF kind = "v1" THEN {} ELSE {d \in Retired : Resolve(d) = "conflicted"},
   all |-> {d \in DOMAIN canonical : canonical[d] \in Matches}]

-----------------------------------------------------------------------------
FedInit ==
  /\ Init
  /\ query = None /\ answer = None

(* serve_connection and the services: the request is valid and the vault   *)
(* opens.  Of a delegated session, rights are the checks it would pass     *)
(* now.  The frame has as history when the call began (since) and which    *)
(* checks the session would have passed at some time (met).                *)
Accept(kind, limit, rights) ==
  /\ query = None /\ Started <= MaxBeside
  /\ query' = [kind |-> kind, at |-> IF kind = "delegated" THEN "session" ELSE "snapshot",
               limit |-> Clamp(limit), snap |-> None, facts |-> {}, notices |-> {},
               since |-> Len(events), rights |-> rights, met |-> rights, changes |-> 0]
  /\ answer' = None

(* delegated_failure_v2, and public_failure_state of an error: an answer   *)
(* without facts.                                                          *)
Answer(state, disposition, c) ==
  /\ answer' = [state |-> state, disposition |-> disposition, kind |-> c.kind,
                limit |-> c.limit, snap |-> c.snap, since |-> c.since, met |-> c.met,
                facts |-> IF state = "ready" THEN c.facts ELSE {},
                notices |-> IF state = "ready" THEN c.notices ELSE {}]
  /\ query' = None
Continue(c) == query' = c /\ answer' = None

(* authenticate_identity_session, then lineage_policy_decision.            *)
Authorize ==
  /\ query # None /\ query.at \in Checks
  /\ IF query.at \in query.rights
     THEN Continue([query EXCEPT !.at = IF @ = "session" THEN "policy" ELSE "snapshot"])
     ELSE Answer("permission_denied", "unknown", query)

(* Faulty variant: the lifecycle is loaded before the transaction begins.  *)
ReadSnapshotOfLifecycleBefore ==
  /\ query # None /\ query.at = "snapshot"
  /\ IF query.kind # "v1" /\ ~(ReadVerifiedEventChain /\ PinsCurrent)
     THEN Answer("corrupt", "unknown", query)
     ELSE Continue([query EXCEPT !.at = "scan",
            !.snap = [Snapshot(query.kind) EXCEPT
                        !.retired = {d \in @ : \E n \in LifecycleEventsOf(d) : n <= query.since}]])
(* run_query and run_query_v2 up to the candidates: lifecycle, revision    *)
(* and rows of one moment.  Version 2 verifies the whole chain first.      *)
ReadSnapshot ==
  /\ query # None /\ query.at = "snapshot"
  /\ IF query.kind # "v1" /\ ~(ReadVerifiedEventChain /\ PinsCurrent)
     THEN Answer("corrupt", "unknown", query)
     ELSE Continue([query EXCEPT !.at = "scan", !.snap = Snapshot(query.kind)])

(* The next candidate, the one ingested last: its file is read and         *)
(* compared with its hash, the text searched, the lifecycle resolved.      *)
Newest(snap) == {d \in snap.rows : \A e \in snap.rows : snap.order[e] <= snap.order[d]}

Scan ==
  /\ query # None /\ query.at = "scan"
  /\ \E d \in Newest(query.snap) :
       LET b == query.snap.text[d]
           full == Cardinality(query.facts \cup query.notices) + 1 = query.limit
           rest == IF b \in Matches /\ full THEN {} ELSE query.snap.rows \ {d}
           next == [query EXCEPT !.snap = [@ EXCEPT !.rows = rest]]
       IN IF b \notin DOMAIN files \/ files[b] # "whole" THEN Answer("corrupt", "unknown", query)
          ELSE IF b \notin Matches THEN Continue(next)
          ELSE IF d \in query.snap.corrupt THEN Answer("corrupt", "unknown", query)
          ELSE IF d \in query.snap.retired
          THEN Continue([next EXCEPT !.notices = @ \cup {d}])
          ELSE Continue([next EXCEPT !.facts = @ \cup {d}])

(* A conflict first; then by what was found.                               *)
Disposition(c) ==
  CASE c.notices \cap c.snap.conflicted # {} -> "conflicted"
    [] c.notices = {} -> IF c.facts = {} THEN "none" ELSE "active"
    [] OTHER -> IF c.facts = {} THEN "suppressed" ELSE "active_and_suppressed"

Finish ==
  /\ query # None /\ query.at = "scan" /\ query.snap.rows = {}
  /\ Answer(IF Disposition(query) = "none" THEN "not_found" ELSE "ready",
            Disposition(query), query)

(* The server dies, or its connection times out: no answer.                *)
Abandon ==
  /\ query # None
  /\ query' = None /\ answer' = None

(* The session is revoked, expires or is admitted again; a policy is bound *)
(* or denies, while the query runs.                                        *)
ChangeAccess ==
  /\ query # None /\ query.kind = "delegated" /\ query.changes < MaxChanges
  /\ \E rights \in SUBSET Checks \ {query.rights} :
       query' = [query EXCEPT !.rights = rights, !.met = @ \cup rights,
                               !.changes = @ + 1]
  /\ answer' = None

FedStep ==
  \/ \E kind \in Kinds, limit \in Limits, rights \in SUBSET Checks :
       (kind # "delegated" => rights = {}) /\ Accept(kind, limit, rights)
  \/ Authorize \/ ReadSnapshot \/ Scan \/ Finish \/ Abandon \/ ChangeAccess

(* Version 2 holds its read transaction until the end of the scan, and     *)
(* without a write-ahead log no other process commits during it.           *)
ReadLocked == query # None /\ query.kind # "v1" /\ query.at = "scan"

VaultStep ==
  /\ Next
  /\ query # None => Started' <= MaxBeside
  /\ ReadLocked => UNCHANGED tables
  /\ answer' = None
  /\ UNCHANGED query

FedNext ==
  \/ VaultStep
  \/ FedStep /\ UNCHANGED vars

FedSpec == FedInit /\ [][FedNext]_allVars

-----------------------------------------------------------------------------
(* What version 2 discloses, it discloses rightly: a document whose        *)
(* content or match is told as active had no lifecycle event at the        *)
(* revision that the answer is bound to, nor when the request arrived,     *)
(* and a delegated session was admitted and allowed during the call.       *)
DisclosureIsJustified ==
  answer # None /\ answer.facts \cup answer.notices # {} /\ answer.kind # "v1" =>
    /\ \A d \in answer.facts : \A n \in LifecycleEventsOf(d) :
         n > answer.snap.revision /\ n > answer.since
    /\ answer.kind = "delegated" => answer.met = Checks

(* As long as no more documents than MAX_SCAN_CANDIDATES have a text, an   *)
(* answer misses no match but for its limit, and not_found means that      *)
(* there was none.                                                         *)
AnswerIsComplete ==
  answer # None /\ answer.state \in {"ready", "not_found"} =>
    LET found == answer.facts \cup answer.notices
    IN /\ found \subseteq answer.snap.all /\ Cardinality(found) <= answer.limit
       /\ Cardinality(DOMAIN answer.snap.text) <= MAX_SCAN_CANDIDATES =>
            found = answer.snap.all \/ Cardinality(found) = answer.limit
=============================================================================
