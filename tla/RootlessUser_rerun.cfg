CONSTANTS
    alice = alice
    bob = bob
    k1 = k1
    k2 = k2
    r1 = r1
    r2 = r2
    NoKey = NoKey
    User = {alice, bob}
    Key = {k1, k2}
    Run = {r1, r2}
    Hosts <- MCHosts
    Args <- MCArgs
    Floor = 1
    Count = 2
    MaxId = 4
    OneAtATime = TRUE
    MaxFaults = 1
    MaxEdits = 1
SYMMETRY Runs
SPECIFICATION Spec
INVARIANT TypeOK
INVARIANT DisjointSubids
PROPERTY SafeToRerun
CHECK_DEADLOCK FALSE
