\* Clients that come and go while two threads tell them of events.
SPECIFICATION Spec
CONSTANTS
    Clients = {a, b, c}
    Tellers = {t, u}
    List = List
INVARIANTS
    TypeOK
    ReferencesBalanced
    CalledAlive
    EveryClientOnce
SYMMETRY Symmetric
