CONSTANTS
    MaxSockets = 2
    MaxCommands = 3
    Kinds = {"single", "multi", "raw"}
    Calls = {"connect", "disconnect", "reconnect", "quit"}
    Overlapping = TRUE
    LateClose = TRUE
SPECIFICATION Spec
INVARIANTS
    NothingLost
    SettledInOrder
    
CHECK_DEADLOCK FALSE
