SPECIFICATION Spec
CONSTANTS
    Thread = {t1}
    Key = {k1, k2}
    Html = {p1, p2}
    None = None
    ULTRA_HOT_SIZE = 2
    HOT_MAP_CAPACITY = 1
    TTL = 0
    UrlPrefix <- AllPrefixes
    MaxEntries = 1
    EvictBatch = 1
    MaxGeneration = 1
    MaxNow = 0
    MaxInsertTicks = 0
    MaxLookupTicks = 0
    MaxOrder = 2
INVARIANT InvalidateSuffices
CHECK_DEADLOCK FALSE
