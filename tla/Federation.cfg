\* Two processes and a query; every operation; a crash; chains around the depth bound.
SPECIFICATION FedSpec
CONSTANTS
  b1 = b1  b2 = b2  b3 = b3  None = None
  Procs = {p1, p2}
  Blobs = {b1, b2, b3}
  Seed <- TwoDocs
  MAX_CHAIN_DEPTH = 1
  MaxOps <- EveryOp
  MaxTotal = 4
  MaxCrashes = 1
  Matches = {b1, b2}
  Limits = {3}
  MAX_RESULT_LIMIT = 2
  MAX_SCAN_CANDIDATES = 2
  MaxBeside = 2
  MaxChanges = 1
SYMMETRY ProcSymmetry
INVARIANTS TypeOK LifecycleOnVerifiedPrefix ResolutionSettles RowsHaveBytes DisclosureIsJustified AnswerIsComplete
PROPERTIES TombstoneFinal
CHECK_DEADLOCK FALSE
