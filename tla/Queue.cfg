SPECIFICATION Spec
CONSTANTS
    Items = {i1, i2, i3, i4}
    MaxRevision = 4
    MaxFailures = 1
    MaxBatch = 3
    MaxPosition = 2
    None = None
SYMMETRY ItemSymmetry
INVARIANTS
    PositionsDense
    PlacedWhereAsked
    BatchStaysTogether
    EachFailureLosesAtMostOne
PROPERTIES
    ImplementsList
CHECK_DEADLOCK FALSE
