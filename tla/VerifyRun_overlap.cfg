CONSTANTS
    r1 = r1
    r2 = r2
    h1 = h1
    x1 = x1
    x2 = x2
    NoArf = NoArf
    Rule = {x1}
    Results = {"pass", "fail"}
    Expected = {}
    InstallScan <- MCInstallScan
    BaselineScan <- MCBaselineScan
    HostOf <- MCOneHost
    Host = {h1}
    Run = {r1, r2}
    Options <- MCOptions
    ScanEnd = {"good", "malformed", "absent", "failed"}
    Stallable = {}
    MaxChanges = 1
SPECIFICATION Safety
SYMMETRY Symmetry
INVARIANT TypeOK
INVARIANT ReportIsFresh
PROPERTY CleanupKeepsOutcome
CHECK_DEADLOCK FALSE
