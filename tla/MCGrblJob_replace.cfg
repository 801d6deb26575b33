SPECIFICATION Spec
CONSTANTS
    k1 = k1
    k2 = k2
    u1 = u1
    u2 = u2
    h = h
    NoRun = NoRun
    Runs <- TwoRuns
    Users <- OneUser
    Calls <- NoCall
    Holds <- NoCall
    Faults <- NoFault
    Interactive <- NoCall
    Lines = 2
CHECK_DEADLOCK FALSE
PROPERTY ReplacedForGood
