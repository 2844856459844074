\* Two users with their processes edit one document.
SPECIFICATION Spec
CONSTANTS
  None = None
  p1 = p1
  p2 = p2
  alice = alice
  bob = bob
  d1 = d1
  o1 = o1
  n1 = n1
  n2 = n2
  Procs = {p1, p2}
  Subjects = {alice, bob}
  Owner <- Owners
  Docs = {d1}
  Scopes = {}
  Overlays = {o1}
  DocOf <- OneDoc
  Roles = {"editor", "viewer"}
  Policies = {n1, n2}
  Grants0 <- Editors
  Policies0 <- AllowAndDeny
  Bindings0 <- BothAllowed
  Lease = 1
  MaxTime = 1
  MaxOps <- Ops
SYMMETRY Swap
INVARIANTS TypeOK OverlayIsAudited AnswersMatchRows
PROPERTY WriteHasGrounds
CHECK_DEADLOCK FALSE
