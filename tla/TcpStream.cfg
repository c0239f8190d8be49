SPECIFICATION FairSpec
CONSTANTS
    Threads = {t1, t2}
    Total = 3
    MaxLength = 2
    MaxHandles = 2
    MaxCalls = 4
    NoThread = none
INVARIANTS ReadsAreTheStream PeekShowsNext EndIsTheEnd OpenWhileOwned
PROPERTY TimedCallsReturn
CHECK_DEADLOCK FALSE
