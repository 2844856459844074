\* Interleaved pushes and pulls with edits; a command may die at any step and be run again with the same now_ms.
SPECIFICATION Spec
CONSTANTS
  None = None
  Devices = {d1, d2}
  VaultIds = {d1, d2}
  VaultIdOf <- OwnVaultId
  Objects = {o1}
  Overlays = {v1}
  MaxEdits = 2
  Times = {0}
  MergeModes = {"none", "auto"}
  MaxOps = 3
  MaxCrashes = 1
INVARIANTS TypeOK HeadIsComplete SnapshotMatchesId
PROPERTIES PullInstallsHead PublishedIsComplete
CHECK_DEADLOCK FALSE
