SPECIFICATION FairSpec
CONSTANTS
    Cores = {c1, c2}
    Recovering = {c1}
    Admins = {a1}
    NumReviews = 2
    Limit = 2
    MaxRetries = 2
    MaxGen = 1
INVARIANTS TypeOK NoGhost FailedOnlyExhausted
PROPERTIES FeedbackKept ClaimHeld ReviewSettles
CHECK_DEADLOCK FALSE
