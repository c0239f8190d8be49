SPECIFICATION Spec
CONSTANTS
    Owned <- MCOwned
    Nested <- MCNested
    Todos <- MCTodos
    GlueSteps <- Glues
    CodeOf <- Runs
    DropsOf <- StepsDrops
    KindOf <- DroppedKind
    MaxCalls = 5
    MaxThrows = 3
INVARIANTS ActiveWhileUnwinding DropsInRustOrder DropsComplete
CHECK_DEADLOCK FALSE
