SPECIFICATION Spec
CONSTANTS
    Target = {a, b}
    Compared = {}
    TargetModes = {"short", "long"}
    Fingerprint = {f}
    NoPrint = NoPrint
    Named = TRUE
    MaxGap = 0
    MaxWork = 1
INVARIANTS
    EveryModeHasItsBucket
    EveryEndIsTold
PROPERTIES
    StopEnds
    RemovedIsForgotten
CHECK_DEADLOCK FALSE
