------------------------------ MODULE Requests ------------------------------
(***************************************************************************)
(* What the handlers make of a request before a quote is calculated: the   *)
(* two endpoints of a swap (swap_handlers.ts), and those of the two        *)
(* versions of gasless swaps, by meta-transaction                          *)
(* (meta_transaction_handlers.ts and meta_transaction_service.ts).  The    *)
(* choice of sources and of makers is in SwapQuote; here are the tokens,   *)
(* the limits of the request and its fees.                                 *)
(***************************************************************************)
EXTENDS Fees

CONSTANTS
    Absent,                 \* a parameter that is not in the request
    DefaultSlippage,        \* DEFAULT_QUOTE_SLIPPAGE_PERCENTAGE
    MinSlippage             \* META_TX_MIN_ALLOWED_SLIPPAGE

NoFees == [integrator |-> NoFee, zeroEx |-> NoFee, gas |-> NoFee]

Given(x, default) == IF x = Absent THEN default ELSE x

(* The native token is traded as its wrapped form.                           *)
Wrapped(token) == IF token = "ETH" THEN "WETH" ELSE token

-----------------------------------------------------------------------------
(* The fee of an affiliate is a percentage of what is bought, or covers the  *)
(* gas; one of what is sold is refused (parseAffiliateFeeOptions).           *)

AffiliateFeeType(fee) ==
    IF Less(Zero, fee.percentage) THEN "percentage"
    ELSE IF fee.gasless THEN "gasless" ELSE "none"

AffiliateFeeAccepted(fee) ==
    /\ ~ fee.ofSold /\ Leq(fee.percentage, One)
    /\ AffiliateFeeType(fee) # "none" => fee.recipient # Nobody

parseAffiliateFeeOptions(fee) ==
    [feeType |-> AffiliateFeeType(fee), percentage |-> fee.percentage, recipient |-> fee.recipient]

-----------------------------------------------------------------------------
(* /swap/v1 (parseSwapQuoteRequestParams).                                   *)

IsWrap(r) == r.sellToken = "ETH" /\ Wrapped(r.buyToken) = "WETH"
IsUnwrap(r) == Wrapped(r.sellToken) = "WETH" /\ r.buyToken = "ETH"

SwapAccepted(r) ==
    /\ {r.sellToken, r.buyToken} \cap {"unknown", "null"} = {}
    /\ IsWrap(r) \/ IsUnwrap(r) \/ Wrapped(r.sellToken) # Wrapped(r.buyToken)
    /\ Leq(Given(r.slippage, DefaultSlippage), One)
    /\ Leq(Given(r.impact, One), One)
    /\ AffiliateFeeAccepted(r.affiliate)

\* A quote is validated unless the request says otherwise, a price is not;
\* one integrator's quotes always are.
SkipValidation(r) ==
    IF r.endpoint = "quote" /\ r.matcha THEN FALSE ELSE Given(r.skipValidation, r.endpoint = "price")

SwapParams(r) ==
    [endpoint |-> r.endpoint, side |-> r.side, amount |-> r.amount,
     sellToken |-> Wrapped(r.sellToken), buyToken |-> Wrapped(r.buyToken),
     fromEth |-> r.sellToken = "ETH", toEth |-> r.buyToken = "ETH",
     wrap |-> IsWrap(r), unwrap |-> IsUnwrap(r),
     slippage |-> Given(r.slippage, DefaultSlippage), impact |-> Given(r.impact, One),
     affiliate |-> parseAffiliateFeeOptions(r.affiliate), feeConfigs |-> NoFees, mtx |-> "none",
     skipValidation |-> SkipValidation(r), entire |-> r.entire, taker |-> r.taker,
     surplus |-> r.surplus, protect |-> r.protect, expects |-> r.protect \/ r.modelled]

-----------------------------------------------------------------------------
(* /meta_transaction/v1 and v2 (parseV1RequestParams, parseV2RequestBody).   *)
(* parseFloat(...) || DEFAULT takes a slippage of 0 for an absent one.       *)

MtxSlippage(r) == IF Given(r.slippage, Zero) = Zero THEN DefaultSlippage ELSE r.slippage

MtxVersion(r) == IF r.route = "mtxV1" THEN "v1" ELSE r.version

\* Tokens that are the same are not refused here.
MtxAccepted(r) ==
    /\ {r.sellToken, r.buyToken} \cap {"unknown"} = {}
    /\ r.sellToken # "ETH"
    /\ MtxVersion(r) \in {"v1", "v2"}
    /\ Less(MtxSlippage(r), One)
    /\ Leq(MinSlippage, MtxSlippage(r))
    /\ IF r.route = "mtxV1" THEN AffiliateFeeAccepted(r.affiliate) ELSE Accepted(r.feeConfigs)

(* The first version charges a gasless fee, whatever fee the request names;  *)
(* the second the fees of the request's configurations.                      *)
MtxAffiliateFee(r) ==
    [feeType |-> IF r.route = "mtxV1" THEN "gasless" ELSE "none", percentage |-> Zero,
     recipient |-> IF r.route = "mtxV1" THEN "0x" ELSE Nobody]

MtxParams(r) ==
    [endpoint |-> r.endpoint, side |-> r.side, amount |-> r.amount,
     sellToken |-> r.sellToken, buyToken |-> Wrapped(r.buyToken),
     fromEth |-> FALSE, toEth |-> r.buyToken = "ETH",
     wrap |-> FALSE, unwrap |-> FALSE,
     slippage |-> MtxSlippage(r), impact |-> Given(r.impact, One),
     affiliate |-> MtxAffiliateFee(r),
     feeConfigs |-> IF r.route = "mtxV1" THEN NoFees ELSE r.feeConfigs,
     mtx |-> MtxVersion(r), skipValidation |-> TRUE, entire |-> FALSE, taker |-> TRUE,
     surplus |-> "default", protect |-> FALSE, expects |-> r.modelled]

RequestAccepted(r) == IF r.route = "swap" THEN SwapAccepted(r) ELSE MtxAccepted(r)
Params(r) == IF r.route = "swap" THEN SwapParams(r) ELSE MtxParams(r)
=============================================================================
