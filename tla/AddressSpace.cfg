SPECIFICATION Spec
CONSTANTS
    h1 = h1
    h2 = h2
    c1 = c1
    z1 = z1
    z2 = z2
    Heap = {h1, h2}
    Cells = {c1}
    ZeroSized = {z1, z2}
    NoAllocation = null
    Carriers = {p1, p2}
    Capacity <- Sizes
    Alignment <- Alignments
    ZstAddresses = {8}
    FirstAddress = 16
    Programs <- ThreePrograms
    Erasable = {h2, z1, z2}
    Codable = {h1, h2, z1, z2}
    MaxTokens = 2
    MaxAddress = 80
SYMMETRY Interchangeable
INVARIANTS ExtentsDisjoint RecoversOwner IndexExact RecoverableUnlessEncoded
PROPERTY FreedIsForgottenUnlessEncoded
CHECK_DEADLOCK FALSE
