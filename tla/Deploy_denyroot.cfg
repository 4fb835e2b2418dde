SPECIFICATION Spec
CONSTANTS
    Scenarios <- DenyRoot
    Edits <- NoEdits
INVARIANT EnforcedRulesPass
CHECK_DEADLOCK FALSE
