\* The table with every overlap of the threads: counter, clients and notifications.
SPECIFICATION Spec
CONSTANTS
    UNREGISTERED = 2
    TunerAddrs = {1}
    None = None
    Devices = {x}
    Details = {"osd"}
    PingFailures = {"io"}
    MaxFrames = 2
    MaxEvents = 2
INVARIANTS
    TypeOK
    WrongOnlyIfRaced
PROPERTIES
    ImplementsTable
    SessionStartsClean
    ScanHeals
