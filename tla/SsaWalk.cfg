CONSTANTS
  Params <- TwoParams
  BlocksCap = 16
  Stmts <- AllStmts
  Exprs <- AllExprs
  Fuel = 4
  Cost <- MCCost
  MaxArgs = 2
  MaxNesting = 2
  MaxVisits = 8
SPECIFICATION WalkSpec
INVARIANT ReadsSeeLastWrite
CHECK_DEADLOCK FALSE
