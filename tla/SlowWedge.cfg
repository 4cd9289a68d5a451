SPECIFICATION FairSpec
CONSTANTS
    Cores = {c1}
    Recovering = {c1}
    Admins = {}
    NumReviews = 1
    Limit = 1
    MaxRetries = 2
    MaxGen = 0
PROPERTY RoundGoesOn
CHECK_DEADLOCK FALSE
