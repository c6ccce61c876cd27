\* Two endpoints, three servers of which one is of another variant, one failure, one resync, one change.
CONSTANTS
    e1 = e1
    e2 = e2
    s1 = s1
    s2 = s2
    s3 = s3
    None = None
    Endpoints = {e1, e2}
    Listed <- MCListed
    Servers = {s1, s2, s3}
    Foreign = {s3}
    Routes <- MCRoutes
    Starts <- MCStarts
    MaxSockets = 5
    MaxDrops = 1
    MaxResyncs = 1
    MaxChanges = 1
    Tangled = FALSE
SPECIFICATION Spec
INVARIANTS
    OnePrimaryPerServer
PROPERTIES
    Reconnects
CHECK_DEADLOCK FALSE
