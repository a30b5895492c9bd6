\* Every input of the sets above.
CONSTANTS
    build = build
    blind = blind
    s1 = s1
    s2 = s2
    e1 = e1
    e2 = e2
    clear = clear
    hold = hold
    VerdictUnder <- Verdicts
    Codes <- FailureCodes
    MinSide = 4
    Keys = {k1, k2}
    AliasLists <- Lists
    Dotted <- Stops
    Undot <- Plain

SPECIFICATION Spec

INVARIANTS
    ReportIsExact
    ReportIsOfCommitment
    RouteDecides
    AnswersAreForTheRequest
    AnswerHasNoNamesake

CHECK_DEADLOCK FALSE
