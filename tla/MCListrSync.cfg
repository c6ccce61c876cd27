SPECIFICATION SyncSpec
CONSTANTS
    d1 = d1
    d2 = d2
    e1 = e1
    e2 = e2
    shared = shared
    NoRow = NoRow
    NoKey = NoKey
    Entity <- MCTwo
    Item <- MCTwo
    Worlds <- MCPassing
    MaxPull = 9
    MaxOps = 3
    MaxTime = 3
    MaxSkew = 1
    Device <- MCDevice
    Key <- MCKey
    Content <- MCContent
    Refs <- MCRefs
    Legacy = {}
    Asset = {}
INVARIANTS
    NothingStranded
    FullResyncAgrees
    SettledAgrees
CHECK_DEADLOCK FALSE
