SPECIFICATION Spec
CONSTANTS
  RobSize = 2
  LsuDepth = 2
  Ins <- FlowIns
  NReg = 1
  NVal = 2
  Irqs = {FALSE}
PROPERTIES ImplementsInOrder
