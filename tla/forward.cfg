SPECIFICATION Spec
CONSTANTS
    Threads = {t1, t2}
    ParentCount = 1
    Fds = {f1, f2}
    NoFd = NoFd
    ZeroFd = ZeroFd
    Working = {}
    MaxCached = 2
    Kinds = {"plain", "body"}
    OwnCredentials = {FALSE}
    NtlmBasicSettings = {FALSE}
    Serialize = FALSE
SYMMETRY Symmetry
INVARIANT TypeOK
INVARIANT CachedIdle
INVARIANT AtMostOnce
INVARIANT OneReplyPerRequest
PROPERTY ImplementsPool
