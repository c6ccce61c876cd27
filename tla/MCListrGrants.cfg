SPECIFICATION GrantsSpec
CONSTANTS
    u1 = u1
    u2 = u2
    u3 = u3
    c1 = c1
    c2 = c2
    g1 = g1
    g2 = g2
    NoUser = NoUser
    NoKey = NoKey
    Absent = Absent
    User <- MCUsers
    Client <- MCClients
    Grant <- MCGrants
    Key <- MCNoKeys
    Kind <- MCAllKinds
    MaxAttempts = 2
    MaxTreeDepth = 3
    MaxUses = 1
    MaxOps = 2
INVARIANTS
    UsesAccounted
    CapsHandedDown
    Forest
CHECK_DEADLOCK FALSE
SYMMETRY
    MCGrantsSymmetry
