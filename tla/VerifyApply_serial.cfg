CONSTANTS
    c1 = c1
    c2 = c2
    x1 = x1
    x2 = x2
    x3 = x3
    Rule = {x1, x2, x3}
    Cmd = {c1, c2}
    Allow <- MCAllow
    Enforced <- MCEnforced
    Current <- MCCurrent
    Install <- MCInstall
    Forms = {"plain", "implied", "bare", "refused", "odd", "broken", "binary"}
    Faults = {"html", "read", "backup", "open", "write", "replace", "unlink"}
    OneApplier = TRUE
    MaxEdits = 1
    MaxKills = 1
SPECIFICATION Spec
INVARIANT TypeOK
INVARIANT YamlIsWhole
INVARIANT FailureLeavesYaml
INVARIANT OnlyPermittedWaivers
INVARIANT SuccessMeansApplied
 
PROPERTY BackupIsPredecessor
CHECK_DEADLOCK FALSE
