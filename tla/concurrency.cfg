SPECIFICATION Spec
CONSTANTS
  Modes <- AllModes
  MaxWorkers = 2
  MaxCells = 4
INVARIANTS
  ResultsSound
  NoHeadStart
  Quiet
CHECK_DEADLOCK FALSE
