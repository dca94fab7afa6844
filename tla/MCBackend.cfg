CONSTANTS
  Half = 4
  MaxVisits = 9
  NParams = 1
  NVregs = 11
  MaxPos = 50
  MaxPeeps = 5
  Rax = 1
  Rdx = 3
  Regs <- MCRegs
  Incoming <- MCIncoming
  CalleeSaved <- MCCalleeSaved
  Programs <- MCPrograms
  Inputs <- MCInputs
SPECIFICATION Spec
INVARIANTS EmittedRight IntervalsCover 
