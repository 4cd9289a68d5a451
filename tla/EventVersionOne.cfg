SPECIFICATION Spec
CONSTANTS
    Tracks = {t1}
    MaxRuns = 1
    MaxOcc = 1
    MaxTime = 1
    MaxDesc = 2
    Grace = 0
INVARIANT VersionOneIsInitial
CHECK_DEADLOCK FALSE
