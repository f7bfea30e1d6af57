SPECIFICATION TrapSpec
CONSTANTS
  RobSize = 2
  Prog <- CriticalProg
  Mtvec = 5
  Lines = {7}
  W = 2
PROPERTIES InterruptKeepsMstatusWrite
