SPECIFICATION FairSpec
CONSTANTS
    x = x
    y = y
    z = z
    Locals = {x, y, z}
    NoLocal = none
    NoLabel = noLabel
    HalfRange = 2
    Functions <- FourFamilies
    DebugLocals = {z}
    Answers <- TwoAnswers
INVARIANTS SameBehaviourUnlessStale
PROPERTIES TargetKeepsUp
CHECK_DEADLOCK FALSE
