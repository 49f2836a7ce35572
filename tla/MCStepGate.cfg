CONSTANTS
    Callers = {c1, c2}
    MaxSeq = 3
    MaxTick = 2
    NodeCount = 2
    Local = FALSE
    Waiting = {}
SPECIFICATION Spec
SYMMETRY CallerSymmetry
INVARIANTS
    TypeOK
    CancelExcludesCommit
    SlotHoldsUnsettled
    TicksCommittedOnce
    RetryIsSafe
    FailureEndsEpoch
    NoAttemptStranded
PROPERTIES
    PublishedClockMonotone
CHECK_DEADLOCK FALSE
