SPECIFICATION Spec
CONSTANT
  Sizes <- Tasks
INVARIANTS
  CloseStopsTasks
CHECK_DEADLOCK FALSE
