SPECIFICATION Spec
CONSTANTS
  COST <- MCCost
  NSPARKS = 1
  SPARKS_PER_WARD = 2
  TXN_MAX_PARTS = 3
  BOARD_SIZE = 1
  RAILS_MORE = 1
  ARRIVAL_CYCLES = 2
  START_TREASURY = 300
  START_DEBT = 4000
  Draws <- OneDraw
  Amounts = {90}
  Serving = TRUE
  Faults = {"commit"}
  MAX_CYCLE = 2
  MAX_WAGES = 100
INVARIANT TransfersAreWhole
CHECK_DEADLOCK FALSE
