SPECIFICATION SessionsSpec
CONSTANTS
    u1 = u1
    u2 = u2
    c1 = c1
    c2 = c2
    g1 = g1
    g2 = g2
    k1 = k1
    NoUser = NoUser
    NoKey = NoKey
    Absent = Absent
    x1 = x1
    x2 = x2
    User <- MCTwoUsers
    Client <- MCClients
    Grant <- MCOneGrant
    Key <- MCKeys
    Kind <- MCNoInvite
    Conn <- MCConns
    MaxAttempts = 1
    MaxTreeDepth = 3
    MaxUses = 1
    MaxOps = 1
    AllowBootstrap = TRUE
    MaxHellos = 2
INVARIANTS
    
    KeysAreRouted
CHECK_DEADLOCK FALSE
SYMMETRY
    MCSessionsSymmetry
