SPECIFICATION Spec
CONSTANT
  Sizes <- TasksAndItems
INVARIANTS
  PermitsAccounted
  ScopesSound
PROPERTIES
  ReleaseInsideOut
CHECK_DEADLOCK FALSE
