CONSTANTS
    MaxSockets = 2
    MaxCommands = 3
    Kinds = {"single", "multi", "stats", "config"}
    Calls = {"reconnect"}
    Overlapping = FALSE
    LateClose = FALSE
SPECIFICATION Spec
INVARIANTS
    TypeOK
    ValuesAligned
PROPERTIES
    ImplementsChannel
CHECK_DEADLOCK FALSE
