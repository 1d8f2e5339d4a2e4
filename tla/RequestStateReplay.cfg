SPECIFICATION Spec
CONSTANTS
    Call = {purgeCache, purgeDatabase}
    Run = {r1, r2}
    MaxIds = 3
    MaxRounds = 2
    None = None
INVARIANT NoReplay
