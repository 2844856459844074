---------------------------- MODULE MCFederation ----------------------------
(* Instances of Federation, with the vault it queries, for TLC.            *)
EXTENDS Federation, TLC

CONSTANTS b1, b2, b3

(* Two documents that may supersede one another; b3 is new.                *)
TwoDocs == <<b1, b2>>

EveryOp == [k \in OpKinds |-> IF k \in {"ingest", "lifecycle"} THEN 2 ELSE 1]

(* Processes are interchangeable, and no property is a liveness property.  *)
ProcSymmetry == Permutations(Procs)
=============================================================================
