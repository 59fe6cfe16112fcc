SPECIFICATION Spec
CONSTANTS
    Nobody = Nobody
    NoFee = NoFee
    Invalid = Invalid
    NoPath = NoPath
    Infinity = Infinity
    Precision = 1000
    OutputPerEth = 1
    InputPerEth = 1
    Absent = Absent
    NoSlippage = NoSlippage
    SlippageModels <- MCSlippageModels
    TokenOrder <- MCTokenOrder
    BasePoints = 100
    SigDigits = 2
    All = All
    DefaultSlippage <- MCDefaultSlippage
    MinSlippage <- MCMinSlippage
    TransferFromGas = 4
    AffiliateGas = 1
    SurplusGas = 1
    L1Gas = 1
    GasEstimates = {1, 20}
    FeeTokens = {"A", "WETH"}
    WethDecimals = 1
    OverheadOf <- MCOverheadOf
    NeonRouterNumSamples = 5
    ProtocolFee = 1
    Scenarios <- MCScenarios
    LostUnits = {0, 1}
    NumSamples = 4
    GasPrice = 1
    PerWei <- MCPerWei
    AverageGas = 5
    TransferGas = 3
    BuyDecimals = 1
    SellDecimals = 0
INVARIANTS RouteIsCovered CompleteIsPreferred WorstIsWorse PromiseIsKept AskedIsSold AskedIsBought PriceOmitsOnlyGasless FeesAddUp TakerIsPaid FeesAreDelivered NothingIsStranded ImpactIsLimited SourcesAreWeighed
CHECK_DEADLOCK FALSE
