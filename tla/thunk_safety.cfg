SPECIFICATION Spec
CONSTANTS
    Thunks = {t1, t2}
    Evaluators = {e1, e2}
    Programs <- MCAllPrograms
    MaxFrames = 2
    MaxForces = 2
SYMMETRY MCEvaluatorSymmetry
INVARIANTS WellFormed Ownership ForcesAgree BlackHoleIsReal WaitGraphAcyclic
PROPERTIES ImplementsCallByNeed
CHECK_DEADLOCK FALSE
