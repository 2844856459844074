------------------------------ MODULE MCAtRest ------------------------------
(* Instances of AtRest for TLC.                                            *)
EXTENDS AtRest, TLC

CONSTANTS p1, p2
Each == (p1 :> {"enableDb", "migrateDb", "ingest"}) @@
        (p2 :> {"enableObjects", "migrateObjects", "ingest"})

OneOfEach == [k \in OpKinds |-> 1]
TwoIngests == [OneOfEach EXCEPT !["ingest"] = 2]
=============================================================================
