CONSTANTS
    Base = 3
    MaxSockets = 2
    MaxRequests = 2
    Ops <- AllOps
    Values <- SomeValues
    Deltas = {5}
    Awaits = "answer"
SPECIFICATION FairSpec
INVARIANTS
    TypeOK
    OwnResponse
    AuthenticatedSession
PROPERTY SettlesUnlessLost
CHECK_DEADLOCK FALSE
