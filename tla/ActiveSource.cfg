\* Status and display, with and without overlaps.
SPECIFICATION Spec
CONSTANTS
    Addrs = {a1, a2}
    NoAddr = NoAddr
    Workers = {w1, w2}
    MaxFrames = 2
    MaxEvents = 4
SYMMETRY Symmetry
INVARIANTS
    TypeOK
    NeverFalselyActive
    AnswerTakesNothing
    ClientsInformed
