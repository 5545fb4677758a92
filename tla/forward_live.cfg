SPECIFICATION FairSpec
CONSTANTS
    Threads = {t1}
    ParentCount = 3
    Fds = {f1, f2, f3}
    NoFd = NoFd
    ZeroFd = ZeroFd
    Working = {3}
    MaxCached = 2
    Kinds = {"plain", "head", "body", "connect"}
    OwnCredentials = {TRUE, FALSE}
    NtlmBasicSettings = {TRUE, FALSE}
    Serialize = FALSE
INVARIANT CredentialsAreOwn
INVARIANT ScansWholeList
PROPERTY CallEnds
