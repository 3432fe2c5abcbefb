SPECIFICATION FairSpec
CONSTANTS
    c1 = c1
    c2 = c2
    s1 = s1
    h1 = h1
    w1 = w1
    w2 = w2
    None = None
    Clients = {c1}
    Releases = {1, 2}
    Tracked <- AllOnFirst
    Servers = {s1}
    Handlers = {h1}
    Workers = {w1, w2}
    Home <- OneServer
    MaxAttempts = 2
    MaxAnnounces = 1
    MaxCalls = 1
    MaxCrashes = 1
    MaxErrors = 1
    MaxLost = 1
INVARIANT TypeOK
INVARIANT OutcomeIsTrue
INVARIANT DuplicatesHaveACause
PROPERTY NotificationsEnd
PROPERTY OutboxIsAQueue
CHECK_DEADLOCK FALSE
