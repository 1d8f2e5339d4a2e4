SPECIFICATION Spec
CONSTANTS
    Handlers <- FailingPrompt
    ASK_ROUNDS = 2
    PUSH_ASK_ROUNDS = 2
    None = None
INVARIANT EveryRequestIsAnswered
CHECK_DEADLOCK FALSE
