\* Two workers, batches of two, two calls and two refunds of the same job, and
\* cache calls that fail once a record is marked: batches deadlock over the
\* accounts, and every record is settled in the end.
SPECIFICATION FairSpec
CONSTANTS
    None = None
    c1 = c1
    x = x
    y = y
    w1 = w1
    w2 = w2
    XOpening = 3
    YOpening = 1
    Kinds <- MCRefunds
    Customers = {c1}
    Assets = {x, y}
    Sessions = {w1, w2}
    References = {}
    UsageIds = {1, 2, 3, 4}
    Opening <- MCOpening
    Seeded <- MCSeeded
    UsageRecords <- MCUsageRecords
    RulesFor <- MCRulesFor
    BatchSize = 2
    SpentCap = 0
    CacheFailsAt = {"view", "stats"}
    MaxCrashes = 0
INVARIANTS
    TypeOK
    ChargedAtMostOnce
    RefundsAreBacked
PROPERTIES
    SettlesRecords
    PostsToBook
    RecordsAreSettled
