\* up to four exit events, one call of exitAsync; a coin received twice sees two
CONSTANTS
  MaxEvents = 4
  MaxExits = 1
  MaxReceives = 2
  MaxWork = 6
SPECIFICATION Spec
INVARIANTS TypeOK OwnExitDefended ForeignExitsMet WatchedUntilExit
CONSTRAINT Bounded
CHECK_DEADLOCK FALSE
