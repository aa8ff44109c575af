SPECIFICATION Spec
CONSTANTS
  SPARKS_PER_WARD = 3
  MAX_SPARKS = 5
  MAX_WARDS = 3
  NVENUES = 1
  BOARD_SIZE = 1
  RAILS_MORE = 0
  ARRIVAL_CYCLES = 2
  CAP = 6
  START_TREASURY = 4
  PAYOUT = 2
  LOSERS_WAGE = 1
  COST = 2
  Games <- MCGames
  Faults = {"found", "cycle", "migrate"}
INVARIANTS TypeOK EveryWardIsHonest StoreConserves NamesSayTheirWard ReportIsTrue RowsCatchUp ZoneHoldsButOne
CHECK_DEADLOCK FALSE
