\* Sign-ins that overlap a refresh: the workspace names one account and lists another.

CONSTANTS
    a = a
    b = b
    ta1 = ta1
    ta2 = ta2
    tb = tb
    p1 = p1
    p2 = p2
    w1 = w1
    w2 = w2
    Nobody = Nobody
    Tabs = {w1}
    Accounts = {a, b}
    Prepared = {p1}
    Tokens = {ta1, ta2, tb}
    AccountOf <- OwnerOfToken
    MaxCalls = 2
    DemoRoutes = TRUE

SPECIFICATION BrowserSpec

INVARIANTS
    HandoffIsPrivate

CHECK_DEADLOCK FALSE
