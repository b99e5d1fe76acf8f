SPECIFICATION Spec
CONSTANTS
    Thunks = {t1, t2}
    Evaluators = {e1, e2}
    Programs <- MCDemandPrograms
    MaxFrames = 4
    MaxForces = 2
INVARIANT CrossBlackHoleIsReal
CHECK_DEADLOCK FALSE
