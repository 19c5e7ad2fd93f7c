SPECIFICATION Spec
CONSTANTS
    Propagators = {p1, p2}
    First = p1
    Facts = {f}
    BatchSize = 2
    MaxRecords = 2
INVARIANT DivergedOnDifference
CHECK_DEADLOCK FALSE
