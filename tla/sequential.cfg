CONSTANTS
    MaxSockets = 3
    MaxCommands = 2
    Kinds = {"single", "multi"}
    Calls = {"connect", "disconnect", "reconnect", "quit"}
    Overlapping = FALSE
    LateClose = FALSE
SPECIFICATION FairSpec
INVARIANTS
    OneConnection
    ConnectedMeansOpen
    
PROPERTIES
    CommandsSettle
    ConnectsSettle
CHECK_DEADLOCK FALSE
