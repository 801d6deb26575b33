SPECIFICATION FairSpec
CONSTANTS
    MaxFaults = 1
    MaxCalls = 4
CHECK_DEADLOCK FALSE

PROPERTY ReconnectsAlways
