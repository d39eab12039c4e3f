CONSTANTS
    Base = 3
    MaxSockets = 1
    MaxRequests = 2
    Ops = {"get", "set"}
    Values <- SomeValues
    Deltas = {}
    Awaits = "connect"
SPECIFICATION Spec
INVARIANT OwnResponse
CHECK_DEADLOCK FALSE
