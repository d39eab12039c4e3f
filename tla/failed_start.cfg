CONSTANTS
    MaxStarts = 1
    MaxStops = 0
    MaxVersion = 1
    MaxFaults = 1
SPECIFICATION FairSpec
PROPERTY ErrorsRetried
CHECK_DEADLOCK FALSE
