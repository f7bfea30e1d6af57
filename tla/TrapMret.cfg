SPECIFICATION TrapSpec
CONSTANTS
  RobSize = 2
  Prog <- MretProg
  Mtvec = 5
  Lines = {7}
  W = 2
PROPERTIES MstatusChangesAtCommit
