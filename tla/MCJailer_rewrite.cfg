CONSTANTS
    a = a
    b = b
    Ids = {a, b}
    NoUid = NoUid
    MaxUid = 3
    UidBase = 1
    AllocRange = 2
    PasswdUids = {}
    Launches = {L1, L2}
    NoLaunch = NoLaunch
    Inodes = {i1, i2, i3, i4}
    NoInode = NoInode
    Requests <- RewriteRequests
    NoRequest = NoRequest
    NoDir = NoDir
    NoSock = NoSock
    StaleSock = StaleSock
    LockTries = 3
    MaxStarts = 4
SPECIFICATION MCSpec
CHECK_DEADLOCK FALSE
INVARIANT LiveUidExclusive
