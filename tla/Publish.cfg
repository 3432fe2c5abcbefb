SPECIFICATION Spec
CONSTANTS
    linux = linux
    mac = mac
    a = a
    b = b
    c = c
    s1 = s1
    s2 = s2
    p1 = p1
    p2 = p2
    w1 = w1
    w2 = w2
    None = None
    Platforms = {linux}
    Versions = {1, 2}
    Blobs = {a, b, c}
    Offered <- TwoVersions
    Servers = {s1}
    Publishers = {p1, p2}
    Workers = {w1, w2}
    Home <- OneServer
    OnlineGc = FALSE
    MaxRequests = 3
    MaxCrashes = 2
    MaxErrors = 2
    MaxGcs = 1
SYMMETRY Interchangeable
INVARIANT TypeOK
INVARIANT NoDanglingPatches
INVARIANT DoneJobsHaveEdges
INVARIANT ListedPatchesBuilt
PROPERTY JobsAreAQueue
CHECK_DEADLOCK FALSE
