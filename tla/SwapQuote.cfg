SPECIFICATION FairSpec
CONSTANTS
    Dexes <- MCDexes
    ChainSources <- MCChainSources
    RfqtEnabled = TRUE
    MayLackList = TRUE
    Requests <- MCRequests
    Amount = 2
    DexCurves <- MCDexCurves
    HopOutputs <- MCHopOutputs
    Penalty = 1
    OrderCurves <- MCOrderCurves
INVARIANTS SourcesRespected QuotesAreSigned PathIsNotLost
PROPERTIES MakersOnlyForListed EveryRequestIsAnswered
