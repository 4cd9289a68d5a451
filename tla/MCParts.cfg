SPECIFICATION PartsSpec
CONSTANTS
    HPkgs = {1, 2, 3}
    MaterialOf <- MCMaterialOf
    BuffersOf <- MCBuffersOf
    HarvestCap = 2
    ObservedCap = 1
    EventKeys = {"e1", "e2"}
    PoolFrames = {1, 2, 3}
    Turning = {2}
    PoolWins = {1}
    MaxEvents = 2
    MaxPerEvent = 2
    MaxHeld = 3
    SealedCap = 1
    PlanLimit = 2
    MaxShown = 3
    Spots = {0, 1, 2}
    Boxes = {0}
    Idents = {"i"}
    WindowLen = 2
    MaxShots = 4
    Callers = {"a", "b"}
    ModelSlots = 1
    MaxLoads = 2
    BudgetWins = {1, 2}
    MaxTasks = 3
    MaxFrames = 5
    PerTask = 3
    MinFrames = 1
    Floor = 1
    ForgottenCap = 1
    Contents = {"c"}
    WindowPackages = 2
    MaxRows = 2
    Crops = {1, 2, 3}
    CropQueueMax = 1
    CropHistory = 2
    MaxCropCrashes = 1
    Objs = {1, 2}
    Stored = {1}
    MaxShot = 3
    MaxOccurrence = 2
    FrameCap = 2
    FusionCap = 1
    MaxFusions = 1
    Parts = {1, 2, 3}
    StoreCams = {1, 2}
    PerCamera = 2
    KnownCams = 1
    MaxRecords = 4
    MaxStoreStarts = 1
    Makers = {1, 2}
    MaxWorld = 1
    MaxMishaps = 1
    TreeFiles <- MCTreeFiles
    EvidenceFiles <- MCEvidenceFiles
    MaxGens = 2
    MaxTroubles = 1
    Alarms = {1, 2}
    Outlets = {"mqtt", "webhook"}
    ResendWindow = 2
    RoundLimit = 1
    MaxTries = 2
    MaxClock = 4
    MaxHubFaults = 1
    OpenEvents = {1, 2}
    Digests = {1, 2}
    WaitingMax = 1
    RetryMax = 1
    ScanBatch = 1
    MaxEvidence = 2
    MaxFailing = 1
    MaxUpdaterStarts = 1
    Frames = {1, 2, 3}
    Happenings = {"h"}
    MaxFrameFaults = 1
    Admins = {1, 2}
    MaxScenes = 2
    MaxAttempts = 2
    MaxBaseFaults = 1
    MaxSegments = 2
    MaxFired = 2
    IdleCutoff = 1
    OpenRetry = 1
    DwellNeed = 1
    ReviewGrace = 1
    MaxInstant = 3
    MaxReviewFaults = 2
    SegmentLength = 2
    DayLength = 4
    Retention = 4
    MinAge = 2
    Capacity = 2
    Reviews <- MCReviews
    Pre = 1
    Post = 2
    ReviewLimit = 1
    MaxTime = 7
    MaxRecFaults = 1
    PkgCams = {1, 2}
    Captures <- MCCaptures
    NearGap = 2
    PerCamMax = 2
    StoreCap = 2
    LeaseSlots = 1
    LeaseCap = 2
    MaxPkgs = 3
INVARIANTS
    PartsTypeOK
    LedgerExact
    PoolAccounted
    SceneHonest
    SlotsCover
    BudgetsKept
    CropHonest
    ProgressHonest
    FusionGrows
    RecordsKept
    OperationsHonest
    SessionHonest
    NoticesHonest
VIEW PartsView
CHECK_DEADLOCK FALSE
