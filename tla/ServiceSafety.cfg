\* Calls in their own and in the caller's transactions, with one webhook
\* handler, failing cache calls and crashes; transactions may deadlock.
SPECIFICATION FairSpec
CONSTANTS
    None = None
    c1 = c1
    x = x
    y = y
    pay = pay
    odd = odd
    s1 = s1
    s2 = s2
    Customers = {c1}
    Assets = {x, y}
    Sessions = {s1, s2}
    Funders = {s1}
    References = {pay, odd}
    UsageIds = {}
    Opening <- MCOpening
    Seeded <- MCSeeded
    PaymentCustomer <- MCPaymentCustomer
    PaymentProducts <- MCPaymentProducts
    Amounts = {2}
    Modes = {"own", "caller"}
    SpentCap = 0
    CacheMayFail = TRUE
    MaxCalls = 3
INVARIANTS
    TypeOK
    LedgerExplainsBalance
    FundedOnce
    PaymentWhole
PROPERTIES
    PostsToBook
    CallsEnd
