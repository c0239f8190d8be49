SPECIFICATION Spec
CONSTANTS
    Owned <- MCOwned
    Nested <- MCNested
    Todos <- MCTodos
    GlueSteps <- Glues
    CodeOf <- Runs
    DropsOf <- StepsDrops
    KindOf <- DroppedKind
    MaxCalls = 3
    MaxThrows = 1
INVARIANT AllDropsRun
CHECK_DEADLOCK FALSE
