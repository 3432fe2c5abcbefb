SPECIFICATION FairSpec
CONSTANTS
    Keys = {k1, k2}
    Versions = {1, 2}
    a = a
    b = b
    c = c
    Blobs = {a, b, c}
    Offered <- MCOffered
    Archive <- MCArchive
    Unsafe = {"con"}
    Costly <- MCCostly
    Size <- MCSize
    MaxPublishes = 3
    FirstKey = k1
    MaxIncidents = 1
    None = None

PROPERTIES FullBlobFallback
