CONSTANTS
  Half = 4
  MaxVisits = 9
  NParams = 1
  NVregs = 10
  MaxIterations = 3
  Programs <- MCPrograms
  Inputs <- MCInputs
SPECIFICATION Spec
CHECK_DEADLOCK FALSE
INVARIANT IdentitiesFoldRight
