CONSTANTS
    p1 = p1
    p2 = p2
    Pairs = {p1, p2}
    TopPairs = {p1}
    Calls = {c1, c2}
    Cache = "BalancerV2"
    CacheTime = 2
    MaxErrors = 1
SPECIFICATION FairSpec
PROPERTIES
    ExpiredIsRefreshed
