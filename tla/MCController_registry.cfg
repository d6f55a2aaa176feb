CONSTANTS
    a1 = a1  a2 = a2
    Address = {a1, a2}
    ResourceId = {0, 1}
    Null = Null
    FeePercentage = {0, 1}
    InitialLists <- DistinctLists
    InitialIds <- OneOrTwoIds
SPECIFICATION Spec
INVARIANTS LookupsExact
