CONSTANTS
  Names <- MCNames
  NameLen <- MCNameLen
  Shapes <- MCShapes
  Insts <- MCInsts
  Cost <- MCCost
  Fuel <- MCFuel
  MaxFuncs = 2
SPECIFICATION Spec
INVARIANTS
  DecodesBack
  DoesWhatItSays
  BranchesLand
  FramesBalanced
  CallsReach
  FileSound
CHECK_DEADLOCK FALSE
