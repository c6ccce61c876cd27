\* Two boards, a list and an item, two keys, one or two servers.
CONSTANTS
    b1 = b1
    b2 = b2
    s1 = s1
    s2 = s2
    k1 = k1
    k2 = k2
    List = List
    Item = Item
    None = None
    NoKey = NoKey
    Boards = {b1, b2}
    Servers = {s1, s2}
    ShareKeys = {k1, k2}
    Worlds <- MCCareful
SPECIFICATION Spec
INVARIANTS
    NamespacesAgree
    DeletionsHeard
    LeftStaysLeft
    BoundStaysHome
    OnlyMembersSee
CHECK_DEADLOCK FALSE
