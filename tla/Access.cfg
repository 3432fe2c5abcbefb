SPECIFICATION Spec
CONSTANTS
    Agents = {a1, a2}
    Tokens = {t1, t2}
    Versions = {v1}
    public = public
    beta = beta
    Labels <- MCLabels
    Public = public
    Default <- MCDefault
    None = None
CHECK_DEADLOCK FALSE
SYMMETRY Symmetry
INVARIANTS TypeOK OneClientPerToken KnownUsersAreReal AgentsAreDistinct InstalledWasVisible
PROPERTIES IdentityIsKept
