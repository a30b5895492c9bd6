\* Every reply the gateway client accepts, with callbacks, and two script runs.
CONSTANTS
    a = a
    b1 = b1
    e1 = e1
    x = x
    y = y
    k1 = k1
    o1 = o1
    o2 = o2
    Placeholder = Placeholder
    Accounts = {a}
    Builds = {b1}
    Artifacts = {x, y}
    MaxBuilding = 2
    RunnerCapacity = 2
    EvaluationIds = {e1}
    ResultVerdicts = {"CLEAR", "HOLD"}
    Codes = {"UNAVAILABLE"}
    GatewayReplies = {"ACCEPTED", "COMPLETED"}
    Delivers = TRUE
    Scripts = {o1, o2}
    ClearanceIds = {k1}
    Registrar = Registrar
    Zero = Zero
    Ttl = 1
    MaxTime = 2

SPECIFICATION IssuanceSpec

INVARIANTS
    EvaluatedAsPromoted
    PendingIsNotForgotten
    ClearancesAreOfEvaluations
    ConfirmedIsRecorded

PROPERTIES
    OutcomesAreFinal
