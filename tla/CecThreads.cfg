\* Start and stop of the poll and update threads, calls and CECEnable apart.
SPECIFICATION FairSpec
CONSTANTS
    UNREGISTERED = 2
    Retries = 1
    CallsDuringEnable = FALSE
INVARIANTS
    TypeOK
    WorkersHaveConnection
    AllOrNothing
    ExitSignalNotLost
    NobodyStuck
PROPERTIES
    SetEnabledReturns
    ScanFollowsTrigger
