\* A record that raises for ever, a call, a free one and a call, batches of
\* two, a worker that may crash: the queue drains and the cache keeps up.
SPECIFICATION FairSpec
CONSTANTS
    None = None
    c1 = c1
    x = x
    y = y
    w1 = w1
    w2 = w2
    XOpening = 4
    YOpening = 4
    Kinds <- MCOutcomes
    Customers = {c1}
    Assets = {x, y}
    Sessions = {w1, w2}
    References = {}
    UsageIds = {1, 2, 3, 4}
    Opening <- MCOpening
    Seeded <- MCSeeded
    UsageRecords <- MCUsageRecords
    RulesFor <- MCRulesFor
    BatchSize = 2
    SpentCap = 20
    CacheFailsAt = {}
    MaxCrashes = 1
INVARIANTS
    ViewIsCurrent
    SpendIsComplete
PROPERTY
    RecordsAreSettled
