SPECIFICATION Spec
CONSTANTS
    Keys = {k1}
    Requests = {r1, r2}
    Limiters = {l1, l2}
    Burst = 2
    Stale = 3
    MaxLag = 1
    PoolSize = 1
    MaxTx = 2
    MaxPanics = 1
    NoLimiter = NoLimiter
    NoKey = NoKey
INVARIANTS
    
    ConnectionsReturned
    DrainBeforeClose
    OneBucketPerKey
    IInv
PROPERTIES
    ImplementsBuckets
    StopCompletes
    RequestsEnd
