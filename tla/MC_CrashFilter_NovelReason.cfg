CONSTANTS
    Unset = Unset
    NoAddr = NoAddr
    EnvChoices <- MCEnv
    CfgChoices <- MCCfg
    Infos <- MCInfosExchange
    MaxSeen = 2

SPECIFICATION Spec
INVARIANT VerdictMatchesPolicy
