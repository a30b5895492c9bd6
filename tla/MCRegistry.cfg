\* Two registrars, two digests, two ids, two indexers.
CONSTANTS
    o = o
    a = a
    d1 = d1
    d2 = d2
    i1 = i1
    i2 = i2
    c1 = c1
    c2 = c2
    s1 = s1
    n1 = n1
    x1 = x1
    x2 = x2
    Zero = Zero
    NoTenant = NoTenant
    Accounts = {o, a}
    Owner = o
    Digests = {d1, d2}
    Ids = {i1, i2}
    Contents = {c1, c2}
    Calldata <- CompetingCalldata
    MaxProtocolTimestamp = 3
    MaxTime = 3
    Documents <- OneDocument
    Signers = {s1}
    Tenants = {}
    Nonces = {n1}
    Requests = {}
    Ttl = 2
    Indexers = {x1, x2}

SPECIFICATION IndexSpec

INVARIANTS
    OneClearancePerId
    ValidMeansAttested
    IndexAgrees
    MatchedWasEligible

PROPERTIES
    NeverRevalidates
    RecordsAreImmutable
    RevocationsAreIndexed

CHECK_DEADLOCK FALSE
