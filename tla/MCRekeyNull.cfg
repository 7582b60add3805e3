CONSTANTS
    MaxSessions = 1
    MaxFresh = 3
    MaxInFlight = 2
    KidMod = 2
    Paths <- MCLossyPath
SPECIFICATION Spec
INVARIANT NoNullWrite
