SPECIFICATION FairSpec
CONSTANTS
    Conns = {c1}
    Self = self
INVARIANT SlotOutlivesVm
CHECK_DEADLOCK FALSE
