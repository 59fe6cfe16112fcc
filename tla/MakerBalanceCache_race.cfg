CONSTANTS
    m1 = m1
    t1 = t1
    t2 = t2
    Makers = {m1}
    Tokens = {t1}
    Validators = {v1, v2}
    Batches <- BatchesOne
    MaxBalance = 1
    Expiry = 1
    MaxChecksPerCall = 1
    MaxRequestErrors = 1
    MaxCacheErrors = 1
    MaxFailures = 1
SPECIFICATION Spec
SYMMETRY ValidatorSymmetry
INVARIANTS
    SampleNotPostdated
PROPERTIES
    FillableAmountsAreBacked
    RowsOnlyAdvance
