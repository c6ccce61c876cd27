SPECIFICATION RunnerSpec
CONSTANTS
    i1 = i1
    i2 = i2
    m1 = m1
    m2 = m2
    t1 = t1
    t2 = t2
    c1 = c1
    c2 = c2
    v1 = v1
    v2 = v2
    Gone = Gone
    Blank = Blank
    Off = Off
    Bad = Bad
    NoVal = NoVal
    NoRes = NoRes
    NoJob = NoJob
    NoInputs = NoInputs
    Item <- MCTwoItems
    Module <- MCOneModule
    Links <- MCAlone
    HasLimit = TRUE
    Text <- MCOneText
    Config <- MCConfigs
    Val <- MCOneVal
    MaxConcurrent = 1
    DailyLimit = 3
    MaxAttempts = 2
    MayDisable = TRUE
    MaxEdits = 3
    MaxDays = 1
    MaxRestarts = 1
INVARIANTS
    JobsAccounted
    IdleUpToDate
    OrphansRetried
CHECK_DEADLOCK FALSE
