SPECIFICATION FairSpec
CONSTANTS
    k1 = k1
    k2 = k2
    u1 = u1
    u2 = u2
    h = h
    NoRun = NoRun
    Runs <- OneRun
    Users <- OneUser
    Calls <- OneCall
    Holds <- OneCall
    Faults <- All
    Interactive <- OneCall
    Lines = 1
CHECK_DEADLOCK FALSE
INVARIANTS ToolOffAfterCancel FaultReportsOnce
PROPERTIES ReapedForGood CancelEndsJob
