CONSTANTS
  Kinds <- MCKinds
  Cost <- MCCost
  Fuel = 13
  After = 4
SPECIFICATION Spec
INVARIANTS
  BindsTightest
  Balanced
  NextPeeked
PROPERTY
  Returns
CHECK_DEADLOCK FALSE
