SPECIFICATION FairSpec
CONSTANTS
    Thunks = {t1}
    Evaluators = {e1}
    Programs <- MCAllPrograms
    MaxFrames = 4
    MaxForces = 1
PROPERTY CancelInterrupts
CHECK_DEADLOCK FALSE
