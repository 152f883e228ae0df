SPECIFICATION FairSpec
CONSTANTS
    Modes <- MCModes
    Ephemeral = {2, 4}
    PortMax = 4
    Backlog = 2
    Poll = 1
    MaxProbes = 3
    MaxConns = 3
INVARIANTS TypeOK AnswersBounded
PROPERTIES HeardOnce ProbeReturns
CHECK_DEADLOCK FALSE
