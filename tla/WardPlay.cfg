SPECIFICATION FairSpec
CONSTANTS
  COST <- MCCost
  NSPARKS = 3
  SPARKS_PER_WARD = 3
  TXN_MAX_PARTS = 3
  BOARD_SIZE = 1
  RAILS_MORE = 1
  ARRIVAL_CYCLES = 12
  START_TREASURY = 165
  START_DEBT = 20
  Draws <- MCDraws
  Amounts = {}
  Serving = FALSE
  Faults = {"begin", "join", "plan", "board", "work", "clock", "arrive", "close"}
  MAX_CYCLE = 3
  MAX_WAGES = 100
INVARIANTS TransfersAreWhole StoreBalances GroupFits
PROPERTIES CycleEnds ReservePaysEveryone
CHECK_DEADLOCK FALSE
