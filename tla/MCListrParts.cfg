SPECIFICATION PartsSpec
CONSTANTS
    c1 = c1
    m1 = m1
    m2 = m2
    h1 = h1
    h2 = h2
    k1 = k1
    a1 = a1
    a2 = a2
    b1 = b1
    l1 = l1
    l2 = l2
    picture = picture
    f1 = f1
    f2 = f2
    f3 = f3
    NoRow = NoRow
    MaxClock = 5
    MaxUserOps = 3
    Timings = {"serial", "stream", "pairs", "deletions"}
    Nobody = Nobody
    Client = {c1}
    Socket = {1, 2}
    Module = {m1, m2}
    ConsoleWorlds <- MCConsole
    MaxRuns = 2
    MaxReplay = 3
    MaxListed = 2
    MaxClosed = 1
    MaxCounted = 1
    MaxChars = 3
    BodyChars = {1, 2, 3}
    MaxStarted = 3
    Undefined = Undefined
    Null = Null
    Upgrades <- MCUpgrades
    Top = Top
    Absent = Absent
    NoPosition = NoPosition
    TheBoard = 0
    Unset = Unset
    NoDoc = NoDoc
    Shelves <- MCShelves
    Renamed = "renamed"
    NewItems = {6}
    MaxActs = 2
    Missing = Missing
    MaxDepth = 8
    Toplevels <- MCToplevels
    Wraps <- MCWraps
    Tooltips <- MCTooltips
    Bodies <- MCBodies
    Types <- MCTypes
    Items <- MCItems
    MaxOwn = 1
    Unwritten = Unwritten
    Toplines <- MCToplines
    Directives <- MCDirectives
    Definitions <- MCDefinitions
    MaxDirectives = 2
    MaxDefinitions = 2
    Unfilled = Unfilled
    Film = {f1, f2}
    Typed = {"matrix", "reloaded"}
    Exact <- MCExact
    Searches <- MCSearches
    OtherResult <- MCOther
    Boards <- MCBoards
    Template <- MCTemplate
    MaxOptions = 2
    MaxItemEdits = 3
    MaxBoardEdits = 1
    MaxFailures = 1
INVARIANTS
    QuietAgrees
    QuietShowsLatest
    PageCurrent
    BodiesAccounted
    UpgradeKeeps
    CopiesAgree
    ImportRestores
    ImportTells
    PickShown
PROPERTIES
    NeverOlderApart
    NothingForgotten
    CheckedRuns
    ErrorsStayLocal
CHECK_DEADLOCK FALSE
