CONSTANTS
  NVregs = 5
  NParams = 2
  MaxPos = 3
  Regs <- MCRegs
  Incoming <- MCIncoming
  CalleeSaved <- MCCalleeSaved
SPECIFICATION Spec
INVARIANTS
  NoSharedRegister
  SlotsDistinct
  IncomingUntouched
  SpillOnlyUnderPressure
PROPERTIES KeepsPromise
CHECK_DEADLOCK FALSE
