SPECIFICATION ApiSpec
CONSTANTS
    Asks <- OneAsk
    Render <- Response
    Merge <- MergeJson
    EmptyDocument <- Empty
    Requests <- AllRequests
    c1 = c1
    c2 = c2
    Clients = {c1, c2}
    Files = {f1, f2}
    MaxRequests = 3
    MaxStarts = 2
    None = None
INVARIANTS
    MetricsExact
    StartsOverStale
    GuestServed
PROPERTIES
    PatchedByPath
    RequestAnswered
CHECK_DEADLOCK FALSE
