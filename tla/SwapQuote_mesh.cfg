SPECIFICATION Spec
CONSTANTS
    Dexes <- MCDexes
    ChainSources <- MCChainSources
    RfqtEnabled = TRUE
    MayLackList = TRUE
    Requests <- MCMeshExcluded
    Amount = 2
    DexCurves <- MCDexCurves
    HopOutputs <- MCHopOutputs
    Penalty = 1
    OrderCurves <- MCOrderCurves
INVARIANT OpenOrdersExcluded
