CONSTANTS
    N = 1
    MaxFaults = 1
SPECIFICATION Spec
PROPERTY FailuresHeard
