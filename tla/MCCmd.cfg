CONSTANTS
    Conn = {c1, c2}
    Request <- MCRequest
    Backlog = 1
    MaxPackets = 1
    MaxFailures = 1
SPECIFICATION Spec
CHECK_DEADLOCK FALSE
INVARIANTS
    NothingHeld
    LevelFollowsFlag
PROPERTIES
    ReportsMonotone
    StopReturns
    ServedInTurn
