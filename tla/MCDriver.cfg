CONSTANTS
  MaxArgs = 4
  MaxFuncs = 3
SPECIFICATION Spec
INVARIANTS
  VerifiedAround
  ExitTellsTruth
  InputsAlive
  FreedOnce
  DumpsAlone
CHECK_DEADLOCK FALSE
