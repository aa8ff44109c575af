SPECIFICATION Spec
CONSTANTS
  Proc = {p1, p2}
  NoOne = NoOne
  ONE_TXN_PAGES = 1
  STAGE_TXN_PAGES = 1
  RA_MAX_PAGES = 2
  Faults = {"flush", "fold"}
  MAX_PAGES = 2
  MAX_HEAD = 2
  MAX_FENCE = 2
INVARIANT CountsInStep
PROPERTIES FileIsAtomic AcceptedIsStored
SYMMETRY Symmetry
CHECK_DEADLOCK FALSE
