SPECIFICATION Spec
CONSTANTS
    Memories = {2, 4}
    DefaultMemory = 2
    Amounts = {2, 4}
    Documents = {d0, d1}
    EmptyDocument = d0
    None = None
    PoolMemory = 4
INVARIANTS
    HoldsTogether
    PausedIsPaused
    BalloonInForce
    MmdsCurrent
    SnapshotsLoadable
PROPERTIES
    RefusalsHarmless
    ImplementsInstance
