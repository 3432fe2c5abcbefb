SPECIFICATION Spec
CONSTANTS
    v1 = v1
    v2 = v2
    v3 = v3
    NoVersion = NoVersion
    Versions <- MCVersions
    MaxHistory = 4
    ArchiveDepths = {0, 1}
SYMMETRY VersionSymmetry
INVARIANT TypeOK
INVARIANT LinksUsable
INVARIANT CommittedKept
INVARIANT InstallRepairs
INVARIANT SnapshotNeverAhead RetentionKeepsBase
PROPERTY DistLossIsDeliberate
