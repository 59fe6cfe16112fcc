CONSTANTS
    s1 = s1
    s2 = s2
    r1 = r1
    r2 = r2
    Sockets = {s1, s2}
    RequestIds = {r1, r2}
    MakerTokens = {t1}
    TakerTokens = {t2}
    IdsOf <- SharedIds
    AnyToken = AnyToken
    NoSocket = NoSocket
    NoOpts = NoOpts
    NoOrder = NoOrder
SPECIFICATION Spec
INVARIANTS
    LatestSubscriberIsServed
CHECK_DEADLOCK FALSE
