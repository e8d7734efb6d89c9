\* Two webhook handlers deliver the same payment at once.
SPECIFICATION Spec
CONSTANTS
    None = None
    c1 = c1
    x = x
    y = y
    pay = pay
    odd = odd
    s1 = s1
    s2 = s2
    Customers = {c1}
    Assets = {x, y}
    Sessions = {s1, s2}
    Funders = {s1, s2}
    References = {pay, odd}
    UsageIds = {}
    Opening <- MCOpening
    Seeded <- MCSeeded
    PaymentCustomer <- MCPaymentCustomer
    PaymentProducts <- MCPaymentProducts
    Amounts = {1}
    Modes = {"caller"}
    SpentCap = 20
    CacheMayFail = FALSE
    MaxCalls = 2
INVARIANT
    FundedOnce
