\* The status after the cable was removed.
SPECIFICATION Spec
CONSTANTS
    Addrs = {a1, a2}
    NoAddr = NoAddr
    Workers = {w1, w2}
    MaxFrames = 2
    MaxEvents = 5
SYMMETRY Symmetry
INVARIANT FalseWhenRemoved
