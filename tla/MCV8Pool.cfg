SPECIFICATION FairSpec
CONSTANTS
    Call = {c1, c2}
    Worker = {w1, w2}
    NoCall = NoCall
    QueueCapacity = {0, 1}
    Timeout = 1
    NoTimeout = NoTimeout
    MaxNow = 2
INVARIANTS TypeOK SentIsSomewhere TimeoutNeverRuns
PROPERTIES SentIsAnswered SendingEnds ShutdownCompletes ImplementsRenderService
CHECK_DEADLOCK FALSE
