\* Two requests, failures at every await, cancellation and death.
SPECIFICATION Spec
CONSTANTS
    None = None
    c1 = c1
    c2 = c2
    r1 = r1
    r2 = r2
    Customers = {c1, c2}
    Assets = {}
    Requests = {r1, r2}
    Cancellable = {r1, r2}
    Opening <- MCOpening
INVARIANTS
    TypeOK
    BalancesAddUp
    SettledByOutcome
    ContextRestored
