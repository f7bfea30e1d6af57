SPECIFICATION InterruptSpec
CONSTANTS
  RobSize = 2
  Lines = {3, 7}
  W = 2
  Prog <- LoopProg
  Mtvec = 7
  PLIC_IRQ_NUM = 3
  MaxPrio = 2
  TreeDepth = 2
  CUT_READY = 1
  Item = {0, 1, 2}
INVARIANTS TrapTypeOK ProgramOrder ClaimedOnce TreePicksBest
PROPERTIES ImplementsHart ClaimsAreCurrent ImplementsFifo StageIsFifo
