SPECIFICATION FairSpec
CONSTANTS
    MaxFailcount = 5
    MaxSignals = 1
    MaxCrashes = 1
PROPERTY StopEnds
CHECK_DEADLOCK FALSE
