CONSTANTS
    MaxStarts = 2
    MaxStops = 2
    MaxVersion = 2
    MaxFaults = 1
SPECIFICATION FairSpec
INVARIANTS
    TypeOK
    OneTimer
    
    
PROPERTIES
    Converges
    StartsSettle
CHECK_DEADLOCK FALSE
