CONSTANTS
    StartTime = 5
    Warmup = 12
    StallMs = 10
    MinBetween = 3
    BaseCooldown = 2
    Epsilon = 20
    Grace = 1
    ProgressWindow = 10
    Whitelist <- MCWhitelist
    Blacklist <- MCBlacklist
    MaxIrq = 3
    Names <- MCNames
    ResolveName <- MCResolveName
    NoIrq = NoIrq
    NoPc = NoPc
    pcA = pcA
    pcB = pcB
    WaitPcs <- MCWaitPcs
    Backends <- MCBackends
    MaxTime = 34

SPECIFICATION Spec
CONSTRAINT TimeBound
PROPERTY ProgressAfterInjectionCredited
