SPECIFICATION FairSpec
CONSTANTS
    Thread = {t1, t2}
    Key = {k1, k2, k3}
    NoKey = NoKey
    UrlPrefix <- OnePrefix
    MaxEntries = 1
    EVICT_BATCH_PERCENT = 2
    EVICT_BATCH_MIN = 1
    TTL = 1
    MaxAccess = 2
    MaxNow = 2
INVARIANTS TypeOK SingleEvictor StampsUnique HeapIsOldestSeen BoundedOvershoot ReportsNoLess
PROPERTY CallsEnd
CHECK_DEADLOCK FALSE
