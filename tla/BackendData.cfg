SPECIFICATION Spec
CONSTANTS
  RobSize = 3
  LsuDepth = 2
  Ins <- DataIns
  NReg = 1
  NVal = 2
  Irqs = {TRUE, FALSE}
INVARIANTS TypeOK OneOperationPerSlot WritesAreOldest RobWindow
PROPERTIES RobSpec ImplementsInOrder
