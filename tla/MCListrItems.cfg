\* Two devices, two lists, four items, two operations.
CONSTANTS
    d1 = d1
    d2 = d2
    Devices = {d1, d2}
    NLists = 2
    Ids = {1, 2, 3, 4}
    MaxOps = 2
    MaxDrags = 1
    Careful = TRUE
    Top = Top
    Absent = Absent
    NoPosition = NoPosition
    Inline = Inline
    Starts <- MCStarts
SYMMETRY MCSymmetry
SPECIFICATION Spec
INVARIANTS
    ShownAsPlanned
    OneChain
    PushedWhole
CHECK_DEADLOCK FALSE
