\* Two processes and two providers; calls overlap, and one fault falls anywhere.
SPECIFICATION Spec
CONSTANTS
  None = None
  Procs = {q1, q2}
  Providers = {1, 2}
  IdOrder <- IdsReversed
  MaxCalls = 4
  MaxTime = 2
  MaxPhrases = 2
  MaxFaults = 1
SYMMETRY Symm
INVARIANTS TypeOK DescriptorHasBlob ToldPhraseRecovers
CHECK_DEADLOCK FALSE
