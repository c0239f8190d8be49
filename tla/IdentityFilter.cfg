SPECIFICATION Spec
CONSTANTS
    Threads = {t1, t2}
    Keys = {k1, k2}
    None = None
    Protocols = {"twice", "locked", "once"}
    RebuildMarks = 1
    MaxArrays = 3
    MaxCalls = 4
INVARIANTS NoEntryMissed
CHECK_DEADLOCK FALSE
