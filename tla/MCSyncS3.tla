------------------------------ MODULE MCSyncS3 ------------------------------
(* Instances of SyncS3 for TLC.                                            *)
EXTENDS SyncS3, TLC

CONSTANTS d1, d2, d3, k1, k2

(* Replicas created by vault_init on different machines.                   *)
OwnVaultId == [d \in Devices |-> d]

(* All replicas know one passphrase; with d3 present, d3 knows another.    *)
OnePassphrase == [d \in Devices |-> IF d = d3 THEN k2 ELSE k1]

(* d3 signs with a custody key, the others without any.                    *)
OneCustodyKey == [d \in Devices |-> IF d = d3 THEN "custody" ELSE "digest"]

PlainAndMerge == {<<"none", "strict">>, <<"none", "compat">>, <<"auto", "compat">>}

NoFaults == [k \in FaultKinds |-> 0]
OneTransportError == [NoFaults EXCEPT !["transport"] = 1]
CrashAndLocalError == [NoFaults EXCEPT !["crash"] = 1, !["local"] = 1]
=============================================================================
