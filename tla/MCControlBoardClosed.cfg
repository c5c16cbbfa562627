CONSTANTS
    Commands = {c1, c2}
    Replies = {"ack", "refusal"}
    MaxHistory = 2
    Timeout = 2
SPECIFICATION FairSpec
PROPERTIES
    EveryCommandIsAnswered
CHECK_DEADLOCK FALSE
