SPECIFICATION FairSpec
CONSTANT
  Sizes <- Cancels
INVARIANT
  CancelSound
PROPERTIES
  CallsReturn
CHECK_DEADLOCK FALSE
