SPECIFICATION Spec
CONSTANTS
    Ask = {a1}
    Reply = {"accept", "decline", "cancel", "other", "bare", "error", "scalar"}
    MaxReplies = 1
    None = None
INVARIANT AcceptedOnlyForAccept
CHECK_DEADLOCK FALSE
