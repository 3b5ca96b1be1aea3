CONSTANTS
    Unset = Unset
    NoAddr = NoAddr
    EnvChoices <- MCEnv
    CfgChoices <- MCCfg
    Infos <- MCInfos
    MaxSeen = 2

SPECIFICATION Spec
INVARIANT VerdictMatchesPolicy
