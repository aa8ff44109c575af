SPECIFICATION Spec
CONSTANTS
  crate = crate
  beam = beam
  door = door
  avatar = avatar
  Name = {crate, beam, door, avatar}
  Keep = {avatar}
  Orders <- MCOrders
  Spinners = {beam}
  PIECES <- MCPieces
  ISLANDS = 1
  still_ticks = 2
  max_per_tick = 2
  MAX_IDS = 2
  Faults = {}
  MAX_THAWS = 1
INVARIANT ThingsAreWhole
PROPERTIES FrozenWasStill StacksFreezeWhole EverythingSettles
CHECK_DEADLOCK FALSE
