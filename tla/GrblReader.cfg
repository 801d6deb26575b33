CONSTANTS
    MaxMessages = 3
    Interleavings = {"ack in line"}
SPECIFICATION Spec
INVARIANTS
    NoAckLost
    LinesIntact
    AnswerComplete
CHECK_DEADLOCK FALSE
