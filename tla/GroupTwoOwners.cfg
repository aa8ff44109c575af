SPECIFICATION FairSpec
CONSTANTS
  Proc = {p1, p2}
  NDBS = 2
  TXN_MAX_RECOVER = 1
  Exclusive = FALSE
  Faults = {"stage", "record", "resolve"}
  MAX_GROUPS = 2
  MAX_HEAD = 1
  MAX_STARTS = 2
INVARIANT OneWriter
PROPERTY RecoveryEnds
CHECK_DEADLOCK FALSE
