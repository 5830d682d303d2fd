SPECIFICATION Spec
CONSTANTS
    Target = {a, b, x}
    Compared = {x}
    TargetModes = {"idle"}
    Fingerprint = {f}
    NoPrint = NoPrint
    Named = TRUE
    MaxGap = 1
    MaxWork = 2
SYMMETRY Interchangeable
INVARIANTS
    NoSampleLost
    RunningIsMeasured
    SurvivedIsTheConnections
    
CHECK_DEADLOCK FALSE
