SPECIFICATION FairSpec
CONSTANTS
    Tracks = {t1}
    MaxRuns = 1
    MaxOcc = 1
    MaxTime = 1
    MaxDesc = 0
    Grace = 0
PROPERTY ClosedItemSettles
CHECK_DEADLOCK FALSE
