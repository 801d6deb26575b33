SPECIFICATION FairSpec
CONSTANTS
    PollWhileRunning = FALSE
    Lines = 1
    MaxCalls = 2
    MaxFaults = 1
    MaxReplies = 1
CHECK_DEADLOCK FALSE
INVARIANTS FreshBuffer NothingLeftOver
PROPERTIES CleanupIsFinal RunReturns Reconnects StatusSettles
