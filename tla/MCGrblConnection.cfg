SPECIFICATION FairSpec
CONSTANTS
    MaxFaults = 2
    MaxCalls = 4
CHECK_DEADLOCK FALSE
INVARIANT NoLeakedLink
PROPERTIES CleanupIsFinal ConnectedMeansAnswered Reconnects
