SPECIFICATION MCSpec
CONSTANTS
    Key = {k1, k2}
    Data = {d1, d2}
    Ttl <- MCTtl
    NoRecord = NoRecord
    Horizon = 3
    MaxVersion = 1
    Infinity = 6
    RowKey = {s1}
    Ttls <- MCTtl
    PgTtl <- MCPgTtl
    Long = 5
    MaxSave = 2
    Worker = {w1, w2}
    NoRow = NoRow
    Every = 2
    Publisher = {p1, p2}
    Reader = {r1}
    Topic = {t1, t2}
    Nowhere = Nowhere
    MaxId = 4
    Queue = {q1, q2}
    Shared = {q1}
    Keep = 2
    MaxPublish = 3
    MaxTime = 2
SYMMETRY Symmetries
PROPERTIES ExpiredArePurged ImplementsContract RowsImplementContract OneSweepPerInterval LiveSessionSurvives NothingAppearsBehindACursor HubsImplementTopicLog
CHECK_DEADLOCK FALSE
