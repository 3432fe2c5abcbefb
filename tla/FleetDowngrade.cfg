\* Two clients, three releases with versions in order.
SPECIFICATION Spec
CONSTANTS
    Versions <- MCVersions
    Rank <- MCRanks
    Sizes <- MCSizes
    Size <- MCSize
    Hash <- MCHash
    Clients = {c1, c2}
    Cap = 2
    MinUserCount = 0
    MinAge = 1
    Window = 0
    MaxBuiltEdges = 1
    MaxTime = 1
    MaxInstalls = 2
    MaxPublishes = 3
    MaxRuns = 1
    MaxRequests = 1
CHECK_DEADLOCK FALSE
PROPERTIES
    WatchNeverDowngrades
SYMMETRY Symmetry
