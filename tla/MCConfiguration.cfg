SPECIFICATION FairSpec
CONSTANTS
    Lines <- MCLines
    Envs <- MCEnvs
    Builders <- MCBuilders
    U16 = 4
    U32 = 4
    I64 = 8
    U64 = 16
    DefaultPoll = 6
    DefaultGate = 3
INVARIANTS TypeOK ScannersAgree Divided FirstPollFollows CapKept
PROPERTIES Settled
