SPECIFICATION FairSpec
CONSTANTS
    a = a
    b = b
    j = j
    x = x
    None = None
    Safety = Safety
    Cancelled = Cancelled
    Job = j
    Callers <- OneCaller
    Cancels <- OneCancel
    Faults <- AllFaults
    Lines = 1
    MaxCommands = 1
CHECK_DEADLOCK FALSE
INVARIANT SlotOwned
PROPERTY RunReturns ImplementsSingle
