\* The key pipeline: three keys, any number of enables and disables.
SPECIFICATION FairSpec
CONSTANTS
    Requests <- MCRequests
    MaxKeys = 3
INVARIANTS
    TypeOK
    KeysInOrderOnce
    JoinNeverStuck
PROPERTIES
    ImplementsChannel
    SetEnabledReturns
    KeysServed
