CONSTANTS
    Callers = {c1, c2, c3}
    SeqMod = 3
    Capacity = 2
    MayEnd = TRUE
    MaxCalls = 5
SPECIFICATION Spec
SYMMETRY CallerSymmetry
INVARIANTS
    TypeOK
    TablesAgree
    AnswersCorrelate
CHECK_DEADLOCK FALSE
