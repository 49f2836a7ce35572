CONSTANTS
    Callers = {c1, c2}
    SeqMod = 3
    Capacity = 2
    MayEnd = TRUE
    MaxCalls = 1
SPECIFICATION Spec
SYMMETRY CallerSymmetry
INVARIANTS
    ClosedMeansStopped
CHECK_DEADLOCK FALSE
