SPECIFICATION FairSpec
CONSTANTS
    MaxFailcount = 3
    MaxSignals = 2
    MaxCrashes = 3
INVARIANTS
    TypeOK
    NoOrphan
PROPERTIES
    DaemonComesBack
    StopEndsOrSelfLocks
CHECK_DEADLOCK FALSE
