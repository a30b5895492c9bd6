\* A gateway that answers with the report the callback delivered.
CONSTANTS
    a = a
    b1 = b1
    e1 = e1
    x = x
    Placeholder = Placeholder
    Accounts = {a}
    Builds = {b1}
    Artifacts = {x}
    MaxBuilding = 2
    RunnerCapacity = 2
    EvaluationIds = {e1}
    ResultVerdicts = {"CLEAR", "HOLD"}
    Codes = {"UNAVAILABLE"}
    GatewayReplies = {"ACCEPTED", "COMPLETED"}
    Delivers = TRUE

SPECIFICATION Spec

INVARIANTS
    OneRecordPerEvaluation
