SPECIFICATION Spec
CONSTANTS
    MaxCalls = 2
PROPERTY RepliesCarryNoReply
CHECK_DEADLOCK FALSE
