SPECIFICATION FairSpec
CONSTANT
  Settings <- Servers
INVARIANTS
  Accounted
  CauseSound
  WireSound
PROPERTIES
  Returns
  DisconnectReleases
CHECK_DEADLOCK FALSE
