SPECIFICATION FairSpec
CONSTANTS
    MaxDay = 3
    MaxRec = 3
    BufCap = 5
    Measurer = {m1}
    DayLen = 3
    After = 1
    Retry = 3
    MaxLag = 0
    PostTime = 1
    MaxNow = 7
    MaxStops = 1
    MaxNetFails = 0
    MaxFulls = 0
INVARIANTS
    OneHeader
PROPERTIES
    LosesAtMostAMinute
    
    ImplementsDayLog
CHECK_DEADLOCK FALSE
