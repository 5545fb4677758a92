SPECIFICATION Spec
CONSTANTS
    Threads = {t1, t2}
    Configs <- MCConfigs
    MaxFd = 4
SYMMETRY Symmetry
INVARIANT TypeOK
INVARIANT NumbersAreOwn
INVARIANT NothingLeaked
