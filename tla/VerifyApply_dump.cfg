CONSTANTS
    c1 = c1
    c2 = c2
    x1 = x1
    x2 = x2
    x3 = x3
    Rule = {x1, x2, x3}
    Cmd = {c1, c2}
    Allow <- MCAllow
    Enforced <- MCEnforced
    Current <- MCCurrent
    Install <- MCInstall
    Forms = {"plain", "bare"}
    Faults = {}
    OneApplier = TRUE
    MaxEdits = 0
    MaxKills = 0
SPECIFICATION Spec
INVARIANT FailuresAreReported
CHECK_DEADLOCK FALSE
