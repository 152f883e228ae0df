SPECIFICATION Spec
CONSTANTS
    p1 = p1
    p2 = p2
    p3 = p3
    Procs = {p1, p2}
    Background = {p1, p2}
    Mode <- MCModeSame
    PortIn <- MCPortSame
    PortMax = 2
    Nobody = Nobody
PROPERTIES ReadyWhenDetached
