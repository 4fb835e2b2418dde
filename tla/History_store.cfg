CONSTANTS
    Run = {1, 2, 3}
    Host = {"web"}
    HostOf <- MCHostOf
    Rule = {"x"}
    Reported = {"clean", "new_fail", "expected_fail"}
    MaxTime = 1
    Exclusive = TRUE
    Leaves = TRUE
    MaxFaults = 1
SPECIFICATION HistorySpec
INVARIANT HistoryTypeOK
INVARIANT TimelineTrue
INVARIANT TrendsAgree
CHECK_DEADLOCK FALSE
