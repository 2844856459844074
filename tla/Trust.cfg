\* Two processes; every operation; rotations of one key at once; a crash.
SPECIFICATION Spec
CONSTANTS
  None = None
  Procs = {p1, p2}
  Providers = {pd, pi}
  Discovered = {pi}
  DefaultProvider = pd
  Configs = {"default"}
  DefaultConfig = "default"
  Policies <- OnlySubject
  Subjects = {"alice"}
  Devices = {d1, d2, d3}
  CertIds = {1, 2, 3}
  SessionIds = {1, 2}
  TTL = 1
  TemplateSkew = 1
  MaxTime = 2
  MaxOps <- EveryOp
  MaxTotal = 5
  MaxCrashes = 1
SYMMETRY Symm
INVARIANTS TypeOK CustodyHasCertificate OneReplacementPerRotation SelectionAgreesWithAdmission ReadinessAgreesWithPull
PROPERTIES VerificationIsStable
CHECK_DEADLOCK FALSE
