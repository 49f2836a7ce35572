CONSTANTS
    Callers = {c1}
    MaxSeq = 1
    MaxTick = 1
    NodeCount = 1
    Local = TRUE
    Waiting = {0}
SPECIFICATION FairSpec
PROPERTIES
    InterruptionSettles
    StopTakesEffect
    WaitReturns
CHECK_DEADLOCK FALSE
