CONSTANTS
    MaxSessions = 2
    MaxFresh = 5
    MaxInFlight = 2
    KidMod = 2
    Paths <- MCPaths
SPECIFICATION FairSpec
INVARIANTS
    KeyAgreement
    PacketsDecrypt
PROPERTY RotationEnds
