\* Every pair of change sets over two hashes and one overlay id, good and bad.
SPECIFICATION MergeSpec
CONSTANTS
  Hashes = {h1, h2}
  BadHash = BadHash
  OverlayIds = {v1}
  EmptyId = EmptyId
INVARIANTS DefaultContextMeansDisjoint PoliciesGetStricter
CHECK_DEADLOCK FALSE
