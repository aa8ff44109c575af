SPECIFICATION FairSpec
CONSTANTS
  Treasuries <- MCTreasuries
  Wears = {0, 59, 60}
  Rooms = {0, 1}
  Reserve = 50
  Cost <- MCCost
  Cycle = 1
  Fuel = 400
INVARIANTS SearchAgrees PlanIsFunded
PROPERTY SearchEnds
CHECK_DEADLOCK FALSE
