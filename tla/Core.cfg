CONSTANTS
    Node = {n1, n2}
    MaxEpoch = 3
    Pred = {p1, p2, p3, p4}
    Vertex = {a, b, c, d, e}
    MaxOrd = 7
SPECIFICATION CoreSpec
SYMMETRY Symmetry
INVARIANTS AtMostOneEffectPerEpoch DepsAreARecount PhaseIsRight DoomIsExact OrderIsSound
PROPERTY LeaseNeverReissued
CHECK_DEADLOCK FALSE
