SPECIFICATION FairSpec
CONSTANTS
    p = p
    q = q
    i = i
    Loop = Loop
    Line = Line
    Safety = Safety
    None = None
    Cancelled = Cancelled
    Dropped = Dropped
    TimedOut = TimedOut
    Queued <- OneQueued
    Interactive <- OneInteractive
    Faults <- AllFaults
    MaxOthers = 1
CHECK_DEADLOCK FALSE
INVARIANT SlotsOwned
PROPERTIES ImplementsSingle 
