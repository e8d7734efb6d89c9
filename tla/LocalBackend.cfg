\* A worker and two host tasks over the in-memory repository: three usage
\* records, the first of which stays in the queue, two calls of the
\* host, and cache calls that fail once a record is marked.
SPECIFICATION FairSpec
CONSTANTS
    None = None
    c1 = c1
    x = x
    y = y
    w = w
    h1 = h1
    h2 = h2
    pay = pay
    Customers = {c1}
    Assets = {x, y}
    Worker = w
    Hosts = {h1, h2}
    References = {pay}
    UsageIds = {1, 2, 3}
    MaxRecords = 3
    Usages = {"api", "other", "undo", "broken"}
    UsageData <- MCUsageData
    RulesFor <- MCRulesFor
    Opening <- MCOpening
    PaymentCustomer <- MCPaymentCustomer
    PaymentProducts <- MCPaymentProducts
    Queries <- MCQueries
    Amounts = {2}
    BatchSize = 2
    SpentCap = 20
    Arrivals <- MCArrivals
    HostCalls <- MCHostCalls
    MaxCalls = 2
    CacheFailsAt = {"view", "cache"}
CHECK_DEADLOCK FALSE
INVARIANTS
    TypeOK
    FundedOnce
    ChargedIfProcessed
    RefundsGiveBackACharge
PROPERTIES
    PostsToBook
    SnapshotIsExact
    PagingMissesNothing
    StopEndsRun
