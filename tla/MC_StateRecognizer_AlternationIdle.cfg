CONSTANTS
    a = a
    b = b
    c = c
    Pcs <- MCPcs
    RecentLen = 8
    DiversityMax = 8
    TopHitPct = 55
    PingpongMin = 3
    MaxPingpong = 6

SYMMETRY MCSymmetry
SPECIFICATION Spec
CONSTRAINT StateBound
INVARIANT AlternationIdle
