SPECIFICATION DataPathSpec
CONSTANTS
  W = 2
  XLEN = 4
  DP = 4
  Item = {a, b}
INVARIANTS BusTypeOK SlavesInStep ReadsAddressed TimeReadIsTrue
           AluAgrees BranchAgrees LanesAgree CsrOpAgrees CauseAgrees
           QueueTypeOK CounterTracksContents
PROPERTIES ImplementsClintSim ImplementsFifo
