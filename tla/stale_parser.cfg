CONSTANTS
    MaxSockets = 2
    MaxCommands = 2
    Kinds = {"multi"}
    Calls = {"connect"}
    Overlapping = FALSE
    LateClose = FALSE
SPECIFICATION Spec
INVARIANT ValuesAligned
CHECK_DEADLOCK FALSE
