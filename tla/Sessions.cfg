SPECIFICATION MCSpec
CONSTANTS
    u1 = u1
    u2 = u2
    l1 = l1
    a = a
    b = b
    Updater = {u1, u2}
    Leveller = {l1}
    Object = {a, b}
    Holds <- SharedHolds
    SaveAttempts = 2
    MaxWrites = 1
    Gone = Gone
    Caller = {t1, t2}
    Level = {lo}
    MaxCalls = 2
    MaxLosses = 2
    MaxBreaks = 1
    None = None
    Uri = {r1}
    MaxEvents = 2
    Message = {m1}
    MaxCuts = 2
INVARIANTS AnswersAreTrue AppliedOnce ServedOnce SettledClientHasItsSession InOrderOnce NothingMissed
PROPERTIES NothingReverted LossesAreReal EveryWriteEnds CallsEndRepaired StreamsDeliver
CHECK_DEADLOCK FALSE
