SPECIFICATION Spec
CONSTANTS
    Thread = {t1, t2}
    Key = {k1, k2}
    Html = {p1, p2}
    None = None
    ULTRA_HOT_SIZE = 1
    HOT_MAP_CAPACITY = 1
    TTL = 1
    UrlPrefix <- AllPrefixes
    MaxEntries = 1
    EvictBatch = 2
    MaxGeneration = 99
    MaxNow = 99
    MaxInsertTicks = 1
    MaxLookupTicks = 1
    MaxOrder = 2
INVARIANTS TypeOK PurgedUnreachable AnswersOwnUrl AgeBound
PROPERTY ImplementsPageCache
VIEW Essence
SYMMETRY Symmetry
CHECK_DEADLOCK FALSE
