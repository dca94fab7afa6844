CONSTANTS
  Params <- OneParam
  BlocksCap = 9
  Stmts <- ControlStmts
  Exprs <- Logic
  Fuel = 3
  Cost <- Even
  MaxArgs = 2
  MaxNesting = 2
SPECIFICATION FairSpec
INVARIANTS
  NeverAskedTwice
  FormKept
PROPERTIES
  SealedPredsFrozen
  Terminates
CHECK_DEADLOCK FALSE
