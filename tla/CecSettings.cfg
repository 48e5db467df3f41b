\* Settings, their file, and restarts at any point.
SPECIFICATION Spec
CONSTANTS
    Callers = {c1, c2}
    OSDNames = {tvbox, other}
    VendorIds = {1, 2}
    VendorLimit = 2
    defaultOSDName = tvbox
    defaultVendorId = 1
    Invalid = Invalid
INVARIANTS
    TypeOK
    FileMatchesMemory
    Durable
    OnOnlyIfSet
SYMMETRY Symmetric
CONSTRAINT OneKey
