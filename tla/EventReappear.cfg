SPECIFICATION FairSpec
CONSTANTS
    Tracks = {t1}
    MaxRuns = 1
    MaxOcc = 2
    MaxTime = 1
    MaxDesc = 0
    Grace = 0
INVARIANTS HealthyIsStored NoOrphanOpen ObjectFirst
PROPERTY EndedIsClosed
CHECK_DEADLOCK FALSE
