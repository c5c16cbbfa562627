CONSTANTS
    Commands = {c1, c2, c3}
    Replies = {"ack", "refusal"}
    MaxHistory = 2
    Timeout = 1
SPECIFICATION FairSpec
INVARIANTS
    AckIsOwnReply
    HistoryIsComplete
    AnsweredInTime
PROPERTIES
    AnsweredUnlessClosed
CHECK_DEADLOCK FALSE
