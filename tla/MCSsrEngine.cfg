SPECIFICATION Spec
CONSTANTS
    Call = {c1, c2, c3}
    Url = {u1}
    None = None
    MaxVersion = 1
SYMMETRY Symmetry
INVARIANTS TypeOK OnlyAnswersCached StaleOnlyInFlight
CHECK_DEADLOCK FALSE
