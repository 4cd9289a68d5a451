SPECIFICATION Spec
CONSTANTS
    Tracks = {t1}
    MaxRuns = 2
    MaxOcc = 1
    MaxTime = 2
    MaxDesc = 1
    Grace = 1
INVARIANTS TypeOK ClosedAtLastSeen
PROPERTIES RecoveryCoversAll LedgerSpec
CHECK_DEADLOCK FALSE
