SPECIFICATION Spec
CONSTANTS
  Proc = {p1, p2}
  NDBS = 2
  TXN_MAX_RECOVER = 64
  Exclusive = FALSE
  Faults = {}
  MAX_GROUPS = 1
  MAX_HEAD = 0
  MAX_STARTS = 2
PROPERTY GroupsAreAtomic
CHECK_DEADLOCK FALSE
