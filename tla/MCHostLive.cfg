CONSTANTS
    N = 1
    MaxFaults = 2
SPECIFICATION FairSpec
PROPERTIES
    StopEnds
