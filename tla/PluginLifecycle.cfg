\* Activations, deactivations and deaths of the process in any order.
SPECIFICATION FairSpec
CONSTANT
    Ids <- MCIds
INVARIANTS
    TypeOK
    NothingLeft
    WatcherHasService
    InstanceIsOurs
PROPERTY
    CrashNoticed
