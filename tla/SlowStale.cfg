SPECIFICATION Spec
CONSTANTS
    Cores = {c1}
    Recovering = {c1}
    Admins = {a1}
    NumReviews = 2
    Limit = 2
    MaxRetries = 1
    MaxGen = 1
INVARIANT StaleRefused
CHECK_DEADLOCK FALSE
