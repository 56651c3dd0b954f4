SPECIFICATION Spec
CONSTANTS
    Call = {c1}
    Worker = {w1, w2}
    NoCall = NoCall
    QueueCapacity = {0, 1}
    Timeout = 1
    NoTimeout = NoTimeout
    MaxNow = 2
INVARIANT CountsActive
CHECK_DEADLOCK FALSE
