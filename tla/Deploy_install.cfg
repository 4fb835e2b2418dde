SPECIFICATION Spec
CONSTANTS
    Scenarios <- AllScenarios
    Edits <- AllEdits
INVARIANTS
    TypeOK
    PromiseKept
    WaiversAreReal
    DriftIsSeen
    Reachable
    FailClosed
CHECK_DEADLOCK FALSE
