SPECIFICATION Spec
CONSTANTS
    MaxDay = 3
    MaxRec = 4
    BufCap = 5
    Measurer = {m1}
    DayLen = 8
    After = 1
    Retry = 8
    MaxLag = 1
    PostTime = 1
    MaxNow = 17
    MaxStops = 0
    MaxNetFails = 1
    MaxFulls = 0
INVARIANTS
    FilesWellFormed
    RecordsKept
    SentIsPosted
    
CHECK_DEADLOCK FALSE
