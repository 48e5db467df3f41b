\* The table with every overlap of the threads: scans repair it.
SPECIFICATION FairSpec
CONSTANTS
    UNREGISTERED = 3
    TunerAddrs = {2}
    None = None
    Devices = {x}
    Details <- NoDetails
    PingFailures = {"other"}
    MaxFrames = 1
    MaxEvents = 2
PROPERTIES
    SelfHealing
