SPECIFICATION Spec
CONSTANTS
    Threads = {t1, t2}
    Blocks <- TwoBlocks
    Shapes <- WholeAndPart
    MaxCalls = 5
INVARIANTS ReadsSeeWrites NoMutationLost StoreFlushesFirst
CHECK_DEADLOCK FALSE
