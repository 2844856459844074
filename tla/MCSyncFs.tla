------------------------------ MODULE MCSyncFs ------------------------------
(* Instances of SyncFs for TLC.                                            *)
EXTENDS SyncFs, TLC

(* Replicas created by vault_init on different machines.                   *)
OwnVaultId == [d \in Devices |-> d]
=============================================================================
