SPECIFICATION Spec
CONSTANTS
    Threads = {t1, t2}
    ParentCount = 2
    Fds = {f1, f2, f3}
    NoFd = NoFd
    ZeroFd = ZeroFd
    Working = {}
    MaxCached = 2
SYMMETRY Symmetry
INVARIANT ParentExists
INVARIANT ExclusiveSockets
INVARIANT NoSocketLeak
