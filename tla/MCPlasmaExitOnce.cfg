\* three exit events, one call of exitAsync, the coin received once
CONSTANTS
  MaxEvents = 3
  MaxExits = 1
  MaxReceives = 1
SPECIFICATION Spec
PROPERTY StoppedByOwnExit
CHECK_DEADLOCK FALSE
