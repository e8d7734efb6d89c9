\* Two tasks, failing commands and evictions.
SPECIFICATION Spec
CONSTANTS
    None = None
    x = x
    y = y
    t1 = t1
    t2 = t2
    Customers = {}
    Assets = {x, y}
    Tasks = {t1, t2}
    Openings <- MCOpenings
    Deltas <- MCDeltas
    MinAmounts = {0, 1}
    Repositories = {TRUE, FALSE}
    CacheMayFail = TRUE
    MaxOps = 4
INVARIANTS
    TypeOK
    FlagIsFunded
    ViewShowsCommitted
    ViewIsCurrentWhenSerial
    ServedOnlyWithFunds
