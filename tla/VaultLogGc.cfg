\* A gc runs while one file is ingested.
SPECIFICATION Spec
CONSTANTS
  b1 = b1  b2 = b2  b3 = b3  None = None
  Procs = {p1, p2}
  Blobs = {b1, b2, b3}
  Seed <- NoDocs
  MAX_CHAIN_DEPTH = 1
  MaxOps <- IngestAndGc
  MaxTotal = 2
  MaxCrashes = 0
SYMMETRY ProcSymmetry
PROPERTIES GcRemovesOnlyOrphans
CHECK_DEADLOCK FALSE
