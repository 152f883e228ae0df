SPECIFICATION FairSpec
CONSTANTS
    p1 = p1
    p2 = p2
    p3 = p3
    Procs = {p1, p2, p3}
    Background = {p2}
    Mode <- MCModePorts
    PortIn <- MCPortPorts
    PortMax = 2
    Nobody = Nobody
INVARIANTS TypeOK OwnPorts PidfileTruthful NothingLeft CallerTold
PROPERTIES StartSettles SigtermEnds
