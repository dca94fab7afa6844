CONSTANTS
  Names = {x, y}
  None = None
  Kinds <- MCKinds
  Cost <- MCCost
  Fuel = 9
SPECIFICATION Spec
INVARIANTS
  SlotsApart
  ReadsBound
PROPERTY
  BindsLexically
SYMMETRY Symmetry
CHECK_DEADLOCK FALSE
