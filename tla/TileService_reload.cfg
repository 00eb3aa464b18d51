CONSTANTS
    t1 = t1
    t2 = t2
    k1 = k1
    k2 = k2
    a = a
    Threads = {t1}
    Conns = {k1}
    Tiles = {a}
    Requests <- PathForm
    PoolSize = 1
    CacheSize = 1
    MaxRequests = 2
    MaxTotal = 2
    MaxVersion = 1
SPECIFICATION Spec
INVARIANTS
    CachedTileNotReloaded
CHECK_DEADLOCK FALSE
