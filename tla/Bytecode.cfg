SPECIFICATION FairSpec
CONSTANTS
    lx = lx
    ly = ly
    lz = lz
    lw = lw
    lb = lb
    lr = lr
    ls = ls
    Locals = {lx, ly, lz, lw, lb, lr, ls}
    NoLocal = none
    NoLabel = noLabel
    UnwindLocal = unwind
    Discriminant = discriminant
    HalfRange = 4
    BranchLimit = 24
    MethodLimit = 400
    MaxChunkCost = 12
    Selector = selector
    Returned = returned
    Functions <- BytecodeFamilies
    Answers <- TwoAnswers
    Exceptions = {3}
INVARIANTS LoadsUnlessGuarded MethodActsAsFunction ShortBranchesReach
PROPERTIES MethodGoesOn
CHECK_DEADLOCK FALSE
