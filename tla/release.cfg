SPECIFICATION MCSpec
CONSTANTS
  Planned <- MCPlanned
  Unplanned <- MCUnplanned
  Settings <- MCSettings
  MaxReleases = 4
  MaxPieces = 2
  MaxTime = 2
  MaxChanges = 2
  MaxRuns = 2
INVARIANTS
  SuccessIsExact
  ReleasesSound
  StagedSound
PROPERTIES
  KeepsHumanAndImmutable
  InstallsSafely
  Converges
CHECK_DEADLOCK FALSE
