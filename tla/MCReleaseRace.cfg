\* Concurrent handlers, restarts and two signers over two documents of one id.
CONSTANTS
    o = o
    d1 = d1
    d2 = d2
    i1 = i1
    c1 = c1
    c2 = c2
    s1 = s1
    s2 = s2
    t1 = t1
    t2 = t2
    n1 = n1
    n2 = n2
    r1 = r1
    r2 = r2
    Zero = Zero
    NoTenant = NoTenant
    Accounts = {o}
    Owner = o
    Digests = {d1, d2}
    Ids = {i1}
    Contents = {c1, c2}
    Calldata <- BothCalldata
    MaxProtocolTimestamp = 4
    MaxTime = 3
    Documents <- TwoDocuments
    Signers = {s1, s2}
    Tenants = {t1, t2}
    Nonces = {n1}
    Requests = {r1, r2}
    Ttl = 2

SPECIFICATION Spec

INVARIANTS
    ValidThroughout
    WithinWindow
    AtMostOneAnswer

PROPERTIES
    PolicyIsCurrent
    OneShotPermits
