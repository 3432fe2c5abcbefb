SPECIFICATION FairSpec
CONSTANTS
    linux = linux
    mac = mac
    a = a
    b = b
    c = c
    s1 = s1
    s2 = s2
    p1 = p1
    p2 = p2
    w1 = w1
    w2 = w2
    None = None
    Platforms = {linux, mac}
    Versions = {1, 2, 3}
    Blobs = {a, b, c}
    Offered <- OtherPlatform
    Servers = {s1, s2}
    Publishers = {p1}
    Workers = {w1, w2}
    Home <- TwoServers
    OnlineGc = FALSE
    MaxRequests = 3
    MaxCrashes = 1
    MaxErrors = 2
    MaxGcs = 1
INVARIANT RowHasBlob
INVARIANT ManifestMatchesRow
PROPERTY JobsFinish
PROPERTY PublishEnds
CHECK_DEADLOCK FALSE
