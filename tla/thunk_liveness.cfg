SPECIFICATION FairSpec
CONSTANTS
    Thunks = {t1, t2}
    Evaluators = {e1, e2}
    Programs <- MCNestedPrograms
    MaxFrames = 3
    MaxForces = 1
PROPERTY ForceReturns
CHECK_DEADLOCK FALSE
