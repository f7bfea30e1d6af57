SPECIFICATION FetchSpec
CONSTANTS
  NPc = 16
  Itcm = {0, 1, 2, 3, 4, 5, 6, 7, 8, 9}
  Targets = {0, 15}
  QueueDepth = 4
  BufDepth = 8
  KeepCancelled = FALSE
INVARIANT StreamOrder
