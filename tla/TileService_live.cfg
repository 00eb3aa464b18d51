CONSTANTS
    t1 = t1
    t2 = t2
    k1 = k1
    k2 = k2
    a = a
    Threads = {t1, t2}
    Conns = {k1, k2}
    Tiles = {a}
    Requests <- LiveForms
    PoolSize = 2
    CacheSize = 1
    MaxRequests = 2
    MaxTotal = 3
    MaxVersion = 1
SPECIFICATION FairSpec
PROPERTY EventuallyAnswered
CHECK_DEADLOCK FALSE
