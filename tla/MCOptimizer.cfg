CONSTANTS
  Half = 4
  MaxVisits = 9
  NParams = 1
  NVregs = 10
  MaxIterations = 3
  Programs <- MCPrograms
  Inputs <- MCInputs
SPECIFICATION FairSpec
INVARIANTS MeaningPreserved PassesVerify
PROPERTIES NothingDead LatticeDescends Finishes
CHECK_DEADLOCK FALSE
