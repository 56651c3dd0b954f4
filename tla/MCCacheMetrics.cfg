SPECIFICATION Spec
CONSTANTS
    Thread = {t1, t2, t3}
    MaxCalls = 2
    MaxResets = 2
    MaxReports = 1
INVARIANTS TypeOK DriftBounded PromotionsFollow ReportSkew
SYMMETRY Symmetry
CHECK_DEADLOCK FALSE
