SPECIFICATION FairRunnerSpec
CONSTANTS
    i1 = i1
    i2 = i2
    m1 = m1
    m2 = m2
    t1 = t1
    t2 = t2
    c1 = c1
    c2 = c2
    v1 = v1
    v2 = v2
    Gone = Gone
    Blank = Blank
    Off = Off
    Bad = Bad
    NoVal = NoVal
    NoRes = NoRes
    NoJob = NoJob
    NoInputs = NoInputs
    Item <- MCOneItem
    Module <- MCTwoModules
    Links <- MCCascades
    HasLimit = FALSE
    Text <- MCOneText
    Config <- MCOneConfig
    Val <- MCVals
    MaxConcurrent = 1
    DailyLimit = 0
    MaxAttempts = 2
    MayDisable = FALSE
    MaxEdits = 1
    MaxDays = 0
    MaxRestarts = 0
INVARIANTS
    IdleUpToDate
PROPERTIES
    RunnerRests
CHECK_DEADLOCK FALSE
