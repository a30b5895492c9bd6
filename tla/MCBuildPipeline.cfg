\* Two jobs, restarts, failed removals and lost writes.
CONSTANTS
    a1 = a1
    a2 = a2
    b1 = b1
    b2 = b2
    x = x
    y = y
    Placeholder = Placeholder
    Accounts = {a1, a2}
    Builds = {b1, b2}
    Artifacts = {x, y}
    MaxBuilding = 1
    RunnerCapacity = 2

SPECIFICATION PipelineSpec

INVARIANTS
    QuotasHold
    PromotedHasArtifact
    NothingIsLeftBehind

PROPERTIES
    SettledIsFinal
    BuildsSettle
    ImplementsSourceBuilds

\* Every build id may end up settled.
CHECK_DEADLOCK FALSE
