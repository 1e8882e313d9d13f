SPECIFICATION FairSpec
CONSTANTS
    Documents = {d0, d1}
    ReqLens = {2, 3}
    Chunks = 2
    MaxRequest = 2
    Modulus = 16
    ClientIsn = 14
    ServerIsns = {0, 15}
    MaxFlight = 3
    MaxFetches = 2
    MaxLosses = 1
    None = None
INVARIANTS
    RequestInOrder
    AckNotAhead
    ResponseIntact
    ServedFresh
    NoReplayLoop
    AcksEnd
CHECK_DEADLOCK FALSE
PROPERTIES
    FetchCompletes
