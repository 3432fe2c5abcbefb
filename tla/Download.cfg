SPECIFICATION FairSpec
CONSTANTS
    i1 = i1
    i2 = i2
    i3 = i3
    None = None
    Agents = {p1}
    Contents <- Files
    Window = 2
    Inodes = {i1, i2, i3}
    MaxFaults = 5
INVARIANT Integrity
PROPERTY DownloadedUnlessComplete
CHECK_DEADLOCK FALSE
