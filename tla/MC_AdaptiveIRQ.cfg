CONSTANTS
    StartTime = 40
    Warmup = 0
    StallMs = 2
    MinBetween = 3
    BaseCooldown = 2
    Epsilon = 20
    Grace = 1
    ProgressWindow = 10
    MaxIrq = 64
    NoIrq = NoIrq
    NoPc = NoPc
    pcA = pcA
    pcB = pcB
    usart = usart
    unknown = unknown
    Whitelist <- MCWhitelist
    Blacklist <- MCBlacklist
    Names <- MCNames
    ResolveName <- MCResolveName
    WaitPcs <- MCWaitPcs
    MaxTime = 54

SPECIFICATION Spec
CONSTRAINT TimeBound
INVARIANT TypeOK
PROPERTY BackoffDoublesPerFailure
