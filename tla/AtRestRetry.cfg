\* A crash between the two renames of the database migration, and a retry.
SPECIFICATION Spec
CONSTANTS
  None = None
  p1 = p1
  p2 = p2
  Procs = {p1, p2}
  Calls <- Each
  Passphrases = {k1}
  DbPassphrases = {d1}
  Objects = {1}
  Files = {1, 2, 3, 4, 5, 6}
  MaxOps <- OneOfEach
  MaxFailures = 1
INVARIANT InterruptedKeepsRows
CHECK_DEADLOCK FALSE
