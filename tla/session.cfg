SPECIFICATION Spec
CONSTANTS
    MaxMessages = 3
    MaxPings = 1
INVARIANTS
    EgressInOrder
    HelloFirst
    ReplyOrder
    RequestsFollowAnswers
PROPERTIES
    NoWriteAfterDisconnect
    RepliesSent
CHECK_DEADLOCK FALSE
