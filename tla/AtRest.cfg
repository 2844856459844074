\* One process migrates the database and the other the objects, and both
\* ingest; a crash or a failing rename or removal may fall anywhere.
SPECIFICATION FairSpec
CONSTANTS
  None = None
  p1 = p1
  p2 = p2
  Procs = {p1, p2}
  Calls <- Each
  Passphrases = {k1, k2}
  DbPassphrases = {d1}
  Objects = {1, 2}
  Files = {1, 2, 3, 4, 5, 6}
  MaxOps <- TwoIngests
  MaxFailures = 1
INVARIANTS TypeOK SealedIsWhole FaultKeepsRows
PROPERTIES ObjectsConverge DbConverges
CHECK_DEADLOCK FALSE
