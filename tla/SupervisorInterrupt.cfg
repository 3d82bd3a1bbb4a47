SPECIFICATION Spec
CHECK_DEADLOCK FALSE
CONSTANTS
  Helpers = {h1}
  Leader = child
  None = None
  SigintGrace = 1
  SigtermGrace = 1
  QuiescenceGrace = 1
  Dispositions <- MCDispositions
  ExitCodes = {0, 2}
  MaxFaults = 1
  MaxWrites = 1
INVARIANT
  SecondInterruptStillWaits
