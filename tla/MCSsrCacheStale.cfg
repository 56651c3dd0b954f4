SPECIFICATION Spec
CONSTANTS
    Thread = {t1, t2}
    Key = {k1}
    Html = {p1, p2}
    None = None
    ULTRA_HOT_SIZE = 2
    HOT_MAP_CAPACITY = 1
    TTL = 1
    UrlPrefix <- AllPrefixes
    MaxEntries = 1
    EvictBatch = 1
    MaxGeneration = 1
    MaxNow = 5
    MaxInsertTicks = 0
    MaxLookupTicks = 0
    MaxOrder = 2
INVARIANT AgeWithinTtl
CHECK_DEADLOCK FALSE
