CONSTANTS
    m1 = m1
    t1 = t1
    t2 = t2
    Makers = {m1}
    Tokens = {t1}
    Validators = {v1}
    Batches <- BatchesOne
    MaxBalance = 1
    Expiry = 1
    MaxChecksPerCall = 1
    MaxRequestErrors = 1
    MaxCacheErrors = 1
    MaxFailures = 2
SPECIFICATION FairSpec
INVARIANTS
    TypeOK
PROPERTIES
    EveryRowIsSampled
