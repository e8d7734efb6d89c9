\* A cache call that fails inside _handle_refund.
SPECIFICATION Spec
CONSTANTS
    None = None
    c1 = c1
    x = x
    y = y
    w1 = w1
    w2 = w2
    XOpening = 3
    YOpening = 4
    Kinds <- MCRefund
    Customers = {c1}
    Assets = {x, y}
    Sessions = {w1}
    References = {}
    UsageIds = {1, 2}
    Opening <- MCOpening
    Seeded <- MCSeeded
    UsageRecords <- MCUsageRecords
    RulesFor <- MCRulesFor
    BatchSize = 2
    SpentCap = 20
    CacheFailsAt = {"refund_view", "view", "stats"}
    MaxCrashes = 0
INVARIANT
    ChargedAtMostOnce
