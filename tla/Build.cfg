SPECIFICATION Spec
CONSTANTS
    LdcLimit = 24
    MaxCode = 240
    MaxInline = 12
    MaxPool = 110
    Programs <- MCPrograms
    Workers = {w1, w2}
    Depth = 1
    ShardItems = 3
CHECK_DEADLOCK FALSE
INVARIANTS JarMeansSource MergedClassIsItsFragments EveryClassOnce
PROPERTY BuildEndsUnlessAllDead
