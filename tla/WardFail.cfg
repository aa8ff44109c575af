SPECIFICATION Spec
CONSTANTS
  COST <- MCCost
  NSPARKS = 2
  SPARKS_PER_WARD = 2
  TXN_MAX_PARTS = 2
  BOARD_SIZE = 1
  RAILS_MORE = 0
  ARRIVAL_CYCLES = 2
  START_TREASURY = 70
  START_DEBT = 4000
  Draws <- OneDraw
  Amounts = {30}
  Serving = TRUE
  Faults = {"work", "clock", "commit", "record", "close"}
  MAX_CYCLE = 2
  MAX_WAGES = 60
INVARIANT PursesAreBacked
CHECK_DEADLOCK FALSE
