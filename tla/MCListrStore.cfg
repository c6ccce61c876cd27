SPECIFICATION HSpec
CONSTANTS
    i1 = i1
    a1 = a1
    k1 = k1
    k2 = k2
    plain = plain
    withImage = withImage
    legacy = legacy
    NoRow = NoRow
    NoKey = NoKey
    Gone = Gone
    MaxSkew = 1
    MaxTime = 2
    MaxReceived = 4
    Entity <- MCEntity
    Item <- MCItem
    Asset <- MCAsset
    Key <- MCKey
    Content <- MCContent
    Legacy <- MCLegacy
    Refs <- MCRefs
INVARIANTS
    ReferencedAssetsVisible
PROPERTIES
    NeverRegresses
    ImplementsRegister
CONSTRAINT MCFewReceived
