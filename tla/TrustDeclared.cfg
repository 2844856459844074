\* One device enrols, its chain is verified, and it pushes a head.
SPECIFICATION Spec
CONSTANTS
  None = None
  Procs = {p1}
  Providers = {pd, pi}
  Discovered = {pi}
  DefaultProvider = pd
  Configs = {"default"}
  DefaultConfig = "default"
  Policies <- OnlySubject
  Subjects = {"alice"}
  Devices = {d1}
  CertIds = {1}
  SessionIds = {1}
  TTL = 1
  TemplateSkew = 1
  MaxTime = 0
  MaxOps <- PushOps
  MaxTotal = 5
  MaxCrashes = 0
INVARIANTS DeclaredHeadVerifies
CHECK_DEADLOCK FALSE
