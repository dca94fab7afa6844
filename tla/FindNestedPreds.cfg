CONSTANTS
  Params <- OneParam
  BlocksCap = 16
  Stmts <- IfsAndWhiles
  Exprs <- Leaves
  Fuel = 2
  Cost <- Even
  MaxArgs = 2
  MaxNesting = 2
SPECIFICATION Spec
INVARIANT SealedPredsKnown
CHECK_DEADLOCK FALSE
