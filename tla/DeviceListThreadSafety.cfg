\* The claim that the device state is thread-safe.
SPECIFICATION Spec
CONSTANTS
    UNREGISTERED = 3
    TunerAddrs = {2}
    None = None
    Devices = {x}
    Details <- NoDetails
    PingFailures = {"io"}
    MaxFrames = 2
    MaxEvents = 3
INVARIANT
    ThreadSafeTable
