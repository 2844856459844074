\* Operations end within the TTL of the lock; no crash; one bucket access may fail;
\* the third replica has another passphrase.
SPECIFICATION Spec
CONSTANTS
  d1 = d1  d2 = d2  d3 = d3  k1 = k1  k2 = k2  None = None
  Devices = {d1, d2, d3}
  VaultIds = {d1, d2, d3}
  VaultIdOf <- OwnVaultId
  Fingerprints = {k1, k2}
  FingerprintOf <- OnePassphrase
  SignerOf <- OneCustodyKey
  Objects = {o1}
  Overlays = {v1}
  MaxEdits = 0
  TTL = 2
  OpBudget = 1
  PullModes <- PlainAndMerge
  EditsInFlight = FALSE
  MaxClock = 1
  MaxOps = 4
  MaxFaults <- OneTransportError
INVARIANTS TypeOK MutualExclusion
PROPERTIES NoUnseenOverwrite ImplementsRegister HeadTrustStable
CHECK_DEADLOCK FALSE
