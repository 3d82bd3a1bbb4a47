CONSTANTS
  Helpers = {h1}
  Leader = child
  None = None
  SigintGrace = 1
  SigtermGrace = 1
  QuiescenceGrace = 1
  Dispositions <- MCDispositions
  ExitCodes = {0, 2}
  MaxFaults = 1
  MaxWrites = 1
SPECIFICATION Spec
INVARIANTS TeardownIsTruthful StatusIsEarned
PROPERTIES SupervisionEnds
CHECK_DEADLOCK FALSE
