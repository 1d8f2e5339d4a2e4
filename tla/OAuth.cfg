SPECIFICATION MCSpec
CONSTANTS
    Login = {f1}
    Client = {c1, c2}
    Careful = {c1}
    Browser = {b1, b2}
    Verifier = {v1, v2}
    Scope = {s1}
    Request = {r1, r2}
    FlowTtl = 4
    AccessTtl = 5
    Expiry <- MCExpiry
    Horizon = 7
    None = None
    Task = {t1, t2}
    MaxGrants = 2
    MaxLogins = 2
    MaxCrashes = 1
    Begins = {p1, p2}
    Handler = {h1, h2}
INVARIANTS TokensFollowTheLogin TokenLifeIsAsTold RefreshSentOnce NobodyWaitsForNothing
PROPERTIES OnlyItsOwnRefusal NothingIsTakenTwice
SYMMETRY Tasks
CHECK_DEADLOCK FALSE
