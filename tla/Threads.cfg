SPECIFICATION FairSpec
CONSTANT MaxThreads = 2
INVARIANTS BoxConsumedOnce
PROPERTIES ImplementsContract FailureDelivered JoinEnds
CHECK_DEADLOCK FALSE
