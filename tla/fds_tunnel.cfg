SPECIFICATION Spec
CONSTANTS
    Threads = {t1, t2}
    Configs <- MCTunnel
    MaxFd = 4
SYMMETRY Symmetry
INVARIANT TunnelIsOwn
