\* One run over a registry that revokes and expires, with restarts and a consumer.
CONSTANTS
    o = o
    d1 = d1
    i1 = i1
    c1 = c1
    s1 = s1
    s2 = s2
    t1 = t1
    t2 = t2
    n1 = n1
    n2 = n2
    r1 = r1
    a1 = a1
    a2 = a2
    x1 = x1
    Zero = Zero
    NoTenant = NoTenant
    NoNonce = NoNonce
    Accounts = {o}
    Owner = o
    Digests = {d1}
    Ids = {i1}
    Contents = {c1}
    Calldata <- OneCalldata
    MaxProtocolTimestamp = 4
    MaxTime = 2
    Documents <- OneDocument
    Signers = {s1}
    Tenants = {t1}
    Nonces = {n1}
    Requests = {a1, r1}
    Ttl = 2
    Indexers = {x1}
    Attempts = {a1}
    Routes = {"RELEASES", "AGENT"}
    MaxTries = 2

SPECIFICATION FairAgentSpec

INVARIANTS
    BlockedIsNeverReleased
    VettedThroughout
    ReportsAgreeWithGate
    PreparedStaysInAccount

PROPERTIES
    RunsEnd

CHECK_DEADLOCK FALSE
