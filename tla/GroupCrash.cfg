SPECIFICATION Spec
CONSTANTS
  Proc = {p1, p2}
  NDBS = 2
  TXN_MAX_RECOVER = 1
  Exclusive = TRUE
  Faults = {}
  MAX_GROUPS = 2
  MAX_HEAD = 2
  MAX_STARTS = 4
INVARIANT OnlyLandedIsVisible
PROPERTIES GroupsAreAtomic HeadsOnlyAdvance
CHECK_DEADLOCK FALSE
