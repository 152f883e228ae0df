SPECIFICATION Spec
CONSTANTS
    Modes <- MCRing
    Ephemeral = {}
    PortMax = 4
    Backlog = 2
    Poll = 1
    MaxProbes = 1
    MaxConns = 0
INVARIANTS SoundTunnelAnswers
CHECK_DEADLOCK FALSE
