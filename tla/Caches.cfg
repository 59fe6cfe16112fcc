CONSTANTS
    Beats = {b1, b2}
    Callers = {c1, c2}
    MaxErrorCount = 2
    MaxRow = 6
    Addresses = {a1, a2, a3}
    MaxSetSize = 2
    Ttl = 2
    Refreshes = {r1, r2}
    BadVersions = {2}
    ValidInterval = 1
    MaxVersions = 3
    Pairs = {p1, p2}
    TopPairs = {p1}
    Calls = {k1, k2}
    CacheTime = 2
    MaxErrors = 1
    MaxFailures = 1
    Fetches = {f1, f2}
    Expiry = 1
    MaxAmount = 6
    MaxReverts = 1
SPECIFICATION MCSpec
INVARIANTS
    ThrowsOnlyInNeed
    PriceUnlessOwnAnswerLacked
    SamplesAreTheirs
PROPERTIES
    OneQueryAtATime
    TableIsFollowed
    FileIsFollowed
    PoolsAreFollowed
    ListIsFollowed
