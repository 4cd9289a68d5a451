SPECIFICATION L2Spec
CONSTANTS
    p = p
    q = q
    L2Cams = {1, 2}
    Branches = {p, q}
    QueueCap = 1
    MaxWin = 2
    L2Bounds <- MCBounds
INVARIANTS L2TypeOK Owned HistoryHonest AllReturned
PROPERTY WindowsEnd
CHECK_DEADLOCK FALSE
