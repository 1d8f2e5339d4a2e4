SPECIFICATION Spec
CONSTANTS
    Handlers <- Transaction
    ASK_ROUNDS = 2
    PUSH_ASK_ROUNDS = 2
    None = None
INVARIANT NothingReleasedIsUsed
CHECK_DEADLOCK FALSE
