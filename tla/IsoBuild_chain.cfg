CONSTANTS
    Path = {"el9", "el10", "remix", "noefi", "nomenu", "espmenu", "espless", "twoesps", "out1", "out2"}
    Shelf <- MCShelf
    Label <- MCLabel
    Command <- MCChain
    Faults = {"xorriso", "mcopy"}
    Flaky = FALSE
    EditsDuring = FALSE
    MaxBuilds = 3
    MaxEdits = 1
SPECIFICATION Spec
INVARIANT TypeOK
INVARIANT SelfContained
INVARIANT UnattendedBoot
INVARIANT SuccessIsMedium
PROPERTY CheckedBeforeUnlink
CHECK_DEADLOCK FALSE
