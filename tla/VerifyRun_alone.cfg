CONSTANTS
    r1 = r1
    r2 = r2
    h1 = h1
    x1 = x1
    x2 = x2
    NoArf = NoArf
    Rule = {x1, x2}
    Results = {"pass", "fail", "error"}
    Expected = {x2}
    InstallScan <- MCInstallScan
    BaselineScan <- MCBaselineScan
    HostOf <- MCOneHost
    Host = {h1}
    Run = {r1}
    Options <- MCEvery
    ScanEnd = {"good", "empty", "malformed", "absent", "failed"}
    Stallable = {"tpreflight", "ttest", "tread", "preflight", "test", "ssg", "scan", "fetch", "itest", "iread", "cleanup"}
    MaxChanges = 1
SPECIFICATION Spec
INVARIANT ExitZeroMeansCompliant
PROPERTY OnlyUncappedHangs
CHECK_DEADLOCK FALSE
