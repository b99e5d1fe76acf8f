SPECIFICATION Spec
CONSTANTS
  Modes <- AllModes
  MaxWorkers = 1
  MaxCells = 3
PROPERTIES
  Stops
  AllEnd
CHECK_DEADLOCK FALSE
