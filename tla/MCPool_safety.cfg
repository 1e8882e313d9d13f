CONSTANTS
    Clients = {p, q, r}
    Size = 2
    Commands = {"init", "run", "restore", "stats", "destroy"}
    Inodes = {i1, i2, i3, i4, i5, i6}
    NoInode = NoInode
    NoSave = NoSave
    Cold = Cold
    Dirty = Dirty
    AdminAlone = TRUE
    MaxStarts = 4
SPECIFICATION MCSpec
CHECK_DEADLOCK FALSE
INVARIANTS RunningDisk OpenPoolMatches
PROPERTIES FreshRestore ImplementsClaims
