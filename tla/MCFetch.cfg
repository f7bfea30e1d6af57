SPECIFICATION FairFetchSpec
CONSTANTS
  NPc = 11
  Itcm = {0, 1, 2, 3, 4, 5}
  Targets = {0, 5}
  QueueDepth = 2
  BufDepth = 4
  KeepCancelled = FALSE
INVARIANTS FetchTypeOK AnswersBelong StreamOrder
PROPERTIES LoadsGetThrough NewPathReaches
