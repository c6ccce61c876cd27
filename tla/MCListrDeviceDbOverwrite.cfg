SPECIFICATION DbSpec
CONSTANTS
    NoRow = NoRow
    MaxClock = 3
    MaxUserOps = 2
    Timings = {"edits"}
PROPERTIES
    NeverOlder
CHECK_DEADLOCK FALSE
