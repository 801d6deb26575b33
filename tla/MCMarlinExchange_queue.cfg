SPECIFICATION FairSpec
CONSTANTS
    a = a
    j = j
    Poller = Poller
    None = None
    Cancelled = Cancelled
    Stray = Stray
    Banner = Banner
    Start = Start
    Unasked = Unasked
    Callers <- OneCaller
    Jobs <- OneJob
    PollWhileRunning = TRUE
    Lines = 2
    ToolOff = 1
    MaxCommands = 1
    MaxFaults = 1
    MaxOpens = 1
CHECK_DEADLOCK FALSE
INVARIANTS QueueOwned OneLineAfterCancel
PROPERTIES ImplementsSingle CallsReturn
