SPECIFICATION FairSpec
CONSTANTS
    Hosts = {"a", "b", "c"}
    NoProxy = {"a", "b"}
    Kinds = {"get", "head", "post", "connect"}
    Framings = {"none", "length", "chunked", "eof", "bare"}
    MaxRequests = 2
    Serialize = FALSE
INVARIANT TypeOK
 
INVARIANT RepliesAreOwn
INVARIANT RequestsReachTheirHost
PROPERTY ImplementsOrdered
 
CHECK_DEADLOCK FALSE
