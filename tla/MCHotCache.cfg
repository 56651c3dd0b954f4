SPECIFICATION Spec
CONSTANTS
    Key = {k1, k2, k3, k4, k5}
    Html = {p}
    None = None
    ULTRA_HOT_SIZE = 2
    HOT_MAP_CAPACITY = 2
    TTL = 1
    MaxNow = 2
    MaxOrder = 4
INVARIANTS TypeOK OrderCoversMap CleanCapacity RingInOrder SpilledIsOlder
PROPERTY CleanEvictsOldest
SYMMETRY Symmetry
CHECK_DEADLOCK FALSE
