SPECIFICATION CoreSpec
CONSTANTS
  RobSize = 3
  LsuDepth = 2
  Ins <- CoreIns
  NReg = 1
  NVal = 1
  Irqs = {FALSE, TRUE}
  NPc = 18
  Itcm = {0, 1, 2}
  QueueDepth = 4
  BufDepth = 8
  Mtvec = 2
  Programs <- AllPrograms
PROPERTIES RunsProgram ResultsArrive KeepsRetiringNoStores BackendAssumed FetchAssumed
