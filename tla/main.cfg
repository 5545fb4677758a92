SPECIFICATION StartSpec
CONSTANTS
    Conns = {c1, c2, c3}
    Services = {"proxy", "socks", "tunnel"}
    SerializeSettings = {TRUE, FALSE}
    Debug = FALSE
    MaxQuit = 2
    Processes = {p1, p2}
    self = p1
    None = None
    Ports = {portA, portB}
    p1 = p1
    p2 = p2
    portA = portA
    portB = portB
    Scripts <- MCScripts
INVARIANT StartTypeOK
INVARIANT CountsAreRight
INVARIANT JoinedOnce
INVARIANT CleanShutdownWaits
INVARIANT StartedInOrder
PROPERTY ShutdownEndsOrHeldUp
CHECK_DEADLOCK FALSE
