SPECIFICATION FairSpec
CONSTANTS
    Threads = {t1, t2}
    Addresses = {a1, a2}
    Queues = {q1, q2}
    Values = {0, 1}
    NoQueue = NoQueue
    MaxTime = 1
    MaxCalls = 3
    MaxDisturbances = 1
INVARIANTS QueueCounted ExactKeys NoMissedWakeUnlessInterrupted
PROPERTIES InterruptKept TimedWaitReturns StaleSleeperWakes
CHECK_DEADLOCK FALSE
