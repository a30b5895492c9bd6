\* One tab: sign-in, sign-out and expiry around requests that are still in flight.
CONSTANTS
    a = a
    b = b
    ta1 = ta1
    ta2 = ta2
    tb = tb
    p1 = p1
    p2 = p2
    w1 = w1
    w2 = w2
    Nobody = Nobody
    Tabs = {w1}
    Accounts = {a, b}
    Prepared = {p1}
    Tokens = {ta1, ta2, tb}
    AccountOf <- OwnerOfToken
    MaxCalls = 2
    DemoRoutes = TRUE

SPECIFICATION BrowserSpec

INVARIANTS
    DemoHandoffIsCurrent

PROPERTIES
    SessionIsNotDiscarded

CHECK_DEADLOCK FALSE
