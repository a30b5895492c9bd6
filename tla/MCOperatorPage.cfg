\* The operator page over its adapters: overlapping handlers, reconnects and leaving.
CONSTANTS
    p1 = p1
    p2 = p2
    e1 = e1
    e2 = e2
    None = None
    Adapters = {1, 2}
    k1 = k1
    k2 = k2
    Kits = {k1, k2}
    Addresses = {e1, e2}
    Prepared = {p1, p2}
    AuthorizedSigner <- SameSigner
    Pages = {1}
    MaxCalls = 1
    Runtimes <- SomeRuntimes

SYMMETRY Interchangeable

SPECIFICATION OperatorSpec

INVARIANTS
    SignaturesAreClear
    MixedHandlersAuthorizeNothing
    OpenKitsAreHeld

CHECK_DEADLOCK FALSE
