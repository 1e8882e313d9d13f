CONSTANTS
    a = a
    b = b
    Ids = {a, b}
    NoUid = NoUid
    MaxUid = 3
    UidBase = 1
    AllocRange = 4
    PasswdUids = {1, 3}
    Launches = {L1, L2, L3}
    NoLaunch = NoLaunch
    Inodes = {i1, i2, i3, i4, i5}
    NoInode = NoInode
    Requests <- SafetyRequests
    NoRequest = NoRequest
    NoDir = NoDir
    NoSock = NoSock
    StaleSock = StaleSock
    LockTries = 3
    MaxStarts = 4
SPECIFICATION MCSpec
CHECK_DEADLOCK FALSE
INVARIANTS OneLivePerId RegisteredUidExclusive
PROPERTY LiveFilesKept
SYMMETRY Symmetry
