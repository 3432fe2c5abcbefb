SPECIFICATION Spec
CONSTANTS
    linux = linux
    mac = mac
    a = a
    b = b
    c = c
    s1 = s1
    s2 = s2
    p1 = p1
    p2 = p2
    w1 = w1
    w2 = w2
    None = None
    Platforms = {linux}
    Versions = {1, 2}
    Blobs = {a, b, c}
    Offered <- TwoVersions
    Servers = {s1}
    Publishers = {p1}
    Workers = {w1}
    Home <- OneEach
    OnlineGc = TRUE
    MaxRequests = 3
    MaxCrashes = 0
    MaxErrors = 0
    MaxGcs = 1
INVARIANT RowHasBlob
CHECK_DEADLOCK FALSE
