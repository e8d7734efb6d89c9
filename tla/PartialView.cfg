\* One call after the other, on a cache that starts empty.
SPECIFICATION Spec
CONSTANTS
    None = None
    x = x
    y = y
    t1 = t1
    t2 = t2
    Customers = {}
    Assets = {x, y}
    Tasks = {t1}
    Openings <- MCOpenings
    Deltas <- MCDeltas
    MinAmounts = {0, 1}
    Repositories = {TRUE}
    CacheMayFail = FALSE
    MaxOps = 2
INVARIANT
    HasBalanceAgrees
