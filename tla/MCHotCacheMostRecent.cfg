SPECIFICATION Spec
CONSTANTS
    Key = {k1, k2}
    Html = {p, q}
    None = None
    ULTRA_HOT_SIZE = 2
    HOT_MAP_CAPACITY = 2
    TTL = 0
    MaxNow = 0
    MaxOrder = 4
INVARIANT FindsMostRecent
CHECK_DEADLOCK FALSE
