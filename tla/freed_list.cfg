SPECIFICATION Spec
CONSTANTS
    Threads = {t1, t2}
    ParentCount = 1
    Fds = {f1, f2}
    NoFd = NoFd
    ZeroFd = ZeroFd
    Working = {}
    MaxCached = 1
SYMMETRY Symmetry
INVARIANT ListIsAllocated
