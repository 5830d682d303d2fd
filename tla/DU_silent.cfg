SPECIFICATION Spec
CONSTANTS
    MaxDay = 3
    MaxRec = 4
    BufCap = 5
    Measurer = {m1}
    DayLen = 3
    After = 1
    Retry = 3
    MaxLag = 0
    PostTime = 1
    MaxNow = 7
    MaxStops = 0
    MaxNetFails = 0
    MaxFulls = 1
INVARIANTS
    LossIsReported
CHECK_DEADLOCK FALSE
