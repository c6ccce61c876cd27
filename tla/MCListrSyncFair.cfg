SPECIFICATION FairSyncSpec
CONSTANTS
    d1 = d1
    d2 = d2
    e1 = e1
    e2 = e2
    shared = shared
    NoRow = NoRow
    NoKey = NoKey
    Entity <- MCOne
    Item <- MCOne
    Worlds <- MCLive
    MaxPull = 9
    MaxOps = 2
    MaxTime = 3
    MaxSkew = 1
    Device <- MCDevice
    Key <- MCKey
    Content <- MCContent
    Refs <- MCRefs
    Legacy = {}
    Asset = {}
PROPERTIES
    UploadsComplete
CHECK_DEADLOCK FALSE
