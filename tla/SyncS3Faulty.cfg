\* Crashes and failing local writes; operations may outlive their lock; edits at any time.
SPECIFICATION Spec
CONSTANTS
  d1 = d1  d2 = d2  d3 = d3  k1 = k1  k2 = k2  None = None
  Devices = {d1, d2}
  VaultIds = {d1, d2}
  VaultIdOf <- OwnVaultId
  Fingerprints = {k1, k2}
  FingerprintOf <- OnePassphrase
  SignerOf <- OneCustodyKey
  Objects = {o1}
  Overlays = {}
  MaxEdits = 1
  TTL = 1
  OpBudget = 1
  PullModes <- PlainAndMerge
  EditsInFlight = TRUE
  MaxClock = 1
  MaxOps = 3
  MaxFaults <- CrashAndLocalError
INVARIANTS HeadHasSnapshot SeenHasSnapshot
PROPERTIES SnapshotsImmutable
CHECK_DEADLOCK FALSE
