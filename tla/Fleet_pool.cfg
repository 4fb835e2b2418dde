CONSTANTS
    N = 3
    Jobs = 2
    MaxEdits = 1
    Record = TRUE
    HtmlOut = TRUE
SPECIFICATION Spec
INVARIANT TypeOK
INVARIANT NoHostLost
INVARIANT RecordsInOrder
PROPERTY ImplementsFleetSpec
PROPERTY FleetEnds
CHECK_DEADLOCK FALSE
