----------------------------- MODULE MCVaultLog -----------------------------
(* Instances of VaultLog for TLC.                                          *)
EXTENDS VaultLog, TLC

CONSTANTS b1, b2, b3

NoDocs == <<>>

IngestAndGc == [k \in OpKinds |-> IF k \in {"ingest", "gc"} THEN 1 ELSE 0]

(* Processes are interchangeable, and no property is a liveness property.  *)
ProcSymmetry == Permutations(Procs)
=============================================================================
