CONSTANTS
    N = 2
    MaxFaults = 1
SPECIFICATION Spec
INVARIANTS
    TypeOK
    ReadinessWithdrawn
    OutcomeIsHonest
    StoppedIfUsable
    QueuesSuffice
    GateOpenMeansHealthy
PROPERTIES
    NoRunWhenDoomed
    RunsAdmitted
    StatusFrozen
