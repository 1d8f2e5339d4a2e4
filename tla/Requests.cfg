SPECIFICATION MCSpec
CONSTANTS
    Call = {purgeCache, purgeDatabase}
    Run = {r1, r2}
    MaxIds = 3
    MaxRounds = 2
    None = None
    Arg = {"plain", "accented"}
    MaxRequests = 3
    Handlers <- MCHandlers
    ASK_ROUNDS = 2
    PUSH_ASK_ROUNDS = 2
    Matches <- MCMatches
    Tools <- MCTools
    Prompts = {1}
    Resources = {1, 2, 23}
    Extensions <- MCExtensions
    Providers = {"clock"}
    ProtocolMethods = {"ping"}
    SkillEntries = {1, 2, 3}
    PageSizes = {1, 2, None}
SYMMETRY Symmetries
INVARIANTS StateStaysWithItsCall CutShortIsRepeatable OwnRequestsAreUnderstood EachIsAnsweredAsOwed SessionsServeTheirOwner EveryQuestionIsSettled ListedIsServed PagesAreComplete
PROPERTIES FinishedStateIsGone SuccessorComesFirst
CHECK_DEADLOCK FALSE
