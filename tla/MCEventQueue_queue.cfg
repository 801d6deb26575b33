SPECIFICATION FairSpec
CONSTANTS
    t1 = t1
    t2 = t2
    l1 = l1
    l2 = l2
    c1 = c1
    c2 = c2
    Events = Events
    None = None
    Threads <- TwoThreads
    Loops <- TwoLoops
    Callbacks <- TwoCallbacks
    MaxEvents = 2
CHECK_DEADLOCK FALSE
INVARIANTS OnceInOrder NoStranded
PROPERTIES EventsArrive ImplementsStream
