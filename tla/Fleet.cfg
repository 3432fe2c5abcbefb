\* One client, three releases of which one has a version that does not parse.
SPECIFICATION Spec
CONSTANTS
    Versions <- MCVersions
    Rank <- MCOddRanks
    Sizes <- MCSizes
    Size <- MCSize
    Hash <- MCHash
    Clients = {c1}
    Cap = 2
    MinUserCount = 0
    MinAge = 1
    Window = 0
    MaxBuiltEdges = 1
    MaxTime = 1
    MaxInstalls = 1
    MaxPublishes = 3
    MaxRuns = 1
    MaxRequests = 1
CHECK_DEADLOCK FALSE
INVARIANTS
    TypeOK
    SearchIsCheapest
    PlanKeepsChains
PROPERTIES
    DropsAreUnused
    LatestIsKept
