SPECIFICATION Spec
CONSTANTS
    MaxDay = 3
    MaxRec = 3
    BufCap = 5
    Measurer = {m1}
    DayLen = 3
    After = 1
    Retry = 3
    MaxLag = 1
    PostTime = 1
    MaxNow = 5
    MaxStops = 1
    MaxNetFails = 0
    MaxFulls = 1
INVARIANTS
    NeverTwice
PROPERTIES
    AppendOnly
CHECK_DEADLOCK FALSE
