\* charge and refund in transactions of their own, and cache refreshes,
\* with failing cache calls and crashes.
SPECIFICATION Spec
CONSTANTS
    None = None
    c1 = c1
    x = x
    y = y
    pay = pay
    odd = odd
    s1 = s1
    s2 = s2
    Customers = {c1}
    Assets = {x, y}
    Sessions = {s1, s2}
    Funders = {}
    References = {pay, odd}
    UsageIds = {}
    Opening <- MCOpening
    Seeded <- MCSeeded
    PaymentCustomer <- MCPaymentCustomer
    PaymentProducts <- MCPaymentProducts
    Amounts = {1, 2}
    Modes = {"own"}
    SpentCap = 20
    CacheMayFail = TRUE
    MaxCalls = 4
INVARIANTS
    ViewIsCommitted
    SpendIsBacked
