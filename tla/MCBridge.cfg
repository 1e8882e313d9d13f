SPECIFICATION FairSpec
CONSTANTS
    Conns = {c1, c2, c3}
    Self = self
INVARIANTS
    HandleOutlivesUse
    QuietAfterDrop
PROPERTIES
    DropCompletes
    VmFreed
CHECK_DEADLOCK FALSE
