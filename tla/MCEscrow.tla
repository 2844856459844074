------------------------------ MODULE MCEscrow ------------------------------
(* Instances of Escrow for TLC.                                            *)
EXTENDS Escrow, TLC

(* The order of the ids is not that of the priorities.                     *)
IdsReversed == [p \in Providers |-> 3 - p]

Symm == Permutations(Procs)
=============================================================================
