CONSTANTS
    a = a
    b = b
    c = c
    NoAddr = NoAddr
    Pcs <- MCPcs
    RecentLen = 8
    DiversityMax = 8
    TopHitPct = 55
    PingpongMin = 3
    MaxPingpong = 6
    Unset = Unset
    EnvChoices <- MCEnv
    CfgChoices <- MCCfg
    Infos <- MCInfos
    MaxSeen = 2
    TickEvery = 2
    MaxSteps = 10

SYMMETRY MCSymmetry
SPECIFICATION Spec
INVARIANT CrashVerdictNeverRaises
