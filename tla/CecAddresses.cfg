\* Hot-plugs, wake-ups, queries and SetEnabled in any order.
SPECIFICATION Spec
CONSTANTS
    HotPlugs = {h1, h2}
    Displays <- MCDisplays
    Logical = {4, 15}
    NoAddress = 0
    MaxEvents = 2
    MaxActive = 2
INVARIANTS
    TypeOK
    InitiatorIsOwn
    AnnouncedIsCurrent
    PowerStatusIsCurrent
SYMMETRY Symmetric
