CONSTANTS
    Clients = {p, q, r}
    Size = 1
    Commands = {"init", "run", "destroy"}
    Inodes = {i1, i2, i3, i4, i5, i6}
    NoInode = NoInode
    NoSave = NoSave
    Cold = Cold
    Dirty = Dirty
    AdminAlone = FALSE
    MaxStarts = 5
SPECIFICATION MCSpec
CHECK_DEADLOCK FALSE
INVARIANT SlotExclusive
SYMMETRY Symmetry
