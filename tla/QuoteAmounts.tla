---------------------------- MODULE QuoteAmounts ----------------------------
(***************************************************************************)
(* One request from its parameters to the answer (the handlers and         *)
(* calculateSwapQuoteAsync): the parameters that are accepted, fees in the *)
(* sold token, the amount that is routed, the router's answer, the orders, *)
(* the best and the worst case, fees in the bought token, the transaction, *)
(* the estimate of its gas, the prices and the answer.  The router, the    *)
(* liquidity, the prices of gas and the node that estimates are the        *)
(* environment; everything else is arithmetic with rounding at every step. *)
(***************************************************************************)
EXTENDS Calldata, Requests

CONSTANTS
    Scenarios,          \* a request and the ways to trade, for each
    LostUnits,          \* how many units of the amount the router may lose
    NumSamples,         \* samples of each way
    PerWei,             \* the price of the native token in the sold token
    AverageGas,         \* AVG_MULTIPLEX_TRANFORM_ERC_20_GAS
    TransferGas, TransferFromGas, AffiliateGas, SurplusGas, L1Gas,
    GasEstimates,       \* what eth_estimateGas may say
    FeeTokens,          \* ZERO_EX_FEE_TOKENS
    BuyDecimals, SellDecimals, WethDecimals,
    Infinity            \* a price that is not finite

-----------------------------------------------------------------------------
(* What the schemas of the requests admit, numbers that are not negative,    *)
(* and what is known of liquidity: an order has something on both sides, and *)
(* the price curve of a pool goes as far as a request, with the fee on top,  *)
(* may.  A quotient of BigNumber has 78 decimal places, and an amount of a   *)
(* token, a uint256, no more than 78 digits: it is below 10 ^ 78.            *)

IsRequest(r) ==
    /\ r.side \in {"sell", "buy"} /\ r.amount \in Nat /\ r.amount < Precision
    /\ r.slippage = Absent \/ r.slippage \in NonNeg
    /\ r.impact = Absent \/ r.impact \in NonNeg
    /\ r.affiliate.percentage \in NonNeg
    /\ \A k \in {"integrator", "zeroEx"} : r.feeConfigs[k] # NoFee => r.feeConfigs[k].percentage \in NonNeg

IsWay(w) ==
    /\ DOMAIN w = {"kind", "source", "vip", "cheap", "gas", "curve", "samples", "order"}
    /\ w.kind \in {"native", "bridge", "twoHop"} /\ w.gas \in Nat
    /\ w.kind = "native" => {w.order.taker, w.order.maker} \subseteq Nat \ {0}
    /\ w.kind # "twoHop" => w.source # "MultiHop"

Reaches(w, n) == w.kind # "native" => \A x \in 1 .. n : x \in DOMAIN w.curve /\ w.curve[x] \in Nat

ASSUME NumbersAssumption ==
    /\ {AverageGas, TransferGas, TransferFromGas, AffiliateGas, SurplusGas, L1Gas, ProtocolFee,
        BuyDecimals, SellDecimals, WethDecimals} \subseteq Nat
    /\ NumSamples \in Nat \ {0} /\ LostUnits \subseteq Nat /\ GasEstimates \subseteq Nat
    /\ PerWei \in NonNeg /\ DefaultSlippage \in NonNeg /\ Infinity \notin Rat
    /\ SigDigits \in Nat \ {0}

ASSUME ScenariosAssumption ==
    \A s \in Scenarios :
        /\ IsRequest(s.req)
        /\ s.ways \in Seq(Range(s.ways))
        /\ \A i \in DOMAIN s.ways : IsWay(s.ways[i]) /\ Reaches(s.ways[i], 2 * s.req.amount)

-----------------------------------------------------------------------------

VARIABLES
    stage,      \* where the request is, or how it ended
    req,        \* the request, and the chain and gasless fee the process is configured for
    par,        \* its parameters
    amount,     \* what the quoter is asked for
    fees,       \* the three fees in the sold token
    ways,       \* the ways to trade, and then the routable paths
    routes,     \* the router's answer, over all ways and over VIP ways
    path,       \* the fills of the path that was chosen
    info,       \* best and worst case
    tx,         \* the transaction
    gas,        \* the gas of the answer
    reply,
    response    \* the HTTP response

vars == <<stage, req, par, amount, fees, ways, routes, path, info, tx, gas, reply, response>>

Init ==
    /\ stage = "new"
    /\ \E s \in Scenarios : req = s.req /\ ways = s.ways
    /\ par = NoPath
    /\ amount = 0
    /\ fees = NoFees
    /\ routes = NoPath
    /\ path = NoPath
    /\ info = NoPath
    /\ tx = NoPath
    /\ gas = 0
    /\ reply = NoPath
    /\ response = NoPath

-----------------------------------------------------------------------------
(* The handler parses the request.  The native token and its wrapped form    *)
(* are exchanged for each other without a quote                              *)
(* (_getSwapQuoteForNativeWrappedAsync), one for one.                        *)

WrappedReply(p) ==
    [buyAmount |-> p.amount, sellAmount |-> p.amount, expected |-> NoSlippage, price |-> One, guaranteedPrice |-> One,
     value |-> IF p.unwrap THEN 0 ELSE p.amount, impact |-> Zero]

Parse ==
    /\ stage = "new"
    /\ IF ~ RequestAccepted(req) THEN stage' = "invalid" /\ UNCHANGED <<par, reply>>
       ELSE /\ par' = Params(req)
            /\ IF par'.wrap \/ par'.unwrap THEN stage' = "done" /\ reply' = WrappedReply(par')
               ELSE stage' = "parsed" /\ UNCHANGED reply
    /\ UNCHANGED <<req, amount, fees, ways, routes, path, info, tx, gas, response>>

-----------------------------------------------------------------------------
(* Fees in the sold token are for gasless swaps.  Those of a sell are known  *)
(* before the quote and reduce what is traded; those of a buy come on top.   *)

\* The second version of meta-transactions transfers the fees itself.
GasPerTransfer == IF par.mtx = "v1" THEN TransferGas ELSE TransferFromGas

SellTokenFees(sold, quoteGas) ==
    LET perWei == IF par.side = "sell" THEN PerWei ELSE Num(OutputPerEth)
    IN calculateFees(par.feeConfigs, sold, perWei, GasPrice, quoteGas, GasPerTransfer)

SellTokenFeeAmount(f) == TotalOnChain(OnChainTransfers(f))

BuyTokenPercentage == IF par.affiliate.feeType = "percentage" THEN par.affiliate.percentage ELSE Zero

\* CHAIN_HAS_VIPS
ChainsWithVips == {"mainnet", "bsc"}

(* A quote that transformERC20 must fill is not to count on other features.  *)
NoVips ==
    par.mtx # "none" \/ par.entire \/ par.affiliate.feeType = "percentage" \/ req.chain \notin ChainsWithVips

(* _getSellTokenFees for a sell, and the amount that goes to the quoter.     *)
Start ==
    /\ stage = "parsed"
    /\ ways' = IF NoVips THEN [i \in DOMAIN ways |-> [ways[i] EXCEPT !.cheap = FALSE]] ELSE ways
    /\ fees' = IF par.side = "sell" THEN SellTokenFees(par.amount, AverageGas) ELSE NoFees
    /\ LET feeAmount == SellTokenFeeAmount(fees')
       IN IF par.side = "sell" /\ par.amount <= feeAmount
          THEN stage' = "insufficientFunds" /\ UNCHANGED amount
          ELSE /\ stage' = "routed"
               /\ amount' = IF par.side = "sell" THEN par.amount - feeAmount
                            ELSE Floor(Times(Num(par.amount), Plus(One, BuyTokenPercentage)))
    /\ UNCHANGED <<req, par, routes, path, info, tx, gas, reply, response>>

-----------------------------------------------------------------------------
(* The router (external).  It splits the amount over the ways up to what it  *)
(* was told they take, may lose some units, and expects an output for each.  *)

MaxInput(w) == IF w.samples = <<>> THEN 0 ELSE Last(w.samples).input

\* The output of the smallest sample that is at least as large.
RoutedOutput(w, input) ==
    LET k == Min({j \in DOMAIN w.samples : w.samples[j].input >= input})
    IN w.samples[k].output

\* The answers over the offers whose indices are usable.
RoutesOver(offers, usable) ==
    LET takes(i) == IF i \in usable THEN MaxInput(offers[i]) ELSE 0
        splits == {f \in [DOMAIN offers -> 0 .. amount] :
                      /\ \A i \in DOMAIN offers : f[i] <= takes(i)
                      /\ amount - SumFunction(f) \in LostUnits}
    IN {[inputs |-> f,
         outputs |-> [i \in DOMAIN offers |-> IF f[i] = 0 THEN 0 ELSE RoutedOutput(offers[i], f[i])]] : f \in splits}

NoRoute(offers) == [inputs |-> [i \in DOMAIN offers |-> 0], outputs |-> [i \in DOMAIN offers |-> 0]]

\* A router that fails answers with outputs that are not numbers.
FailedRoute(offers) == [NoRoute(offers) EXCEPT !.outputs = [i \in DOMAIN offers |-> Invalid]]

(* The quote is refused without a route if the amount is at most one unit or *)
(* there is nothing to route over.                                           *)
Route ==
    /\ stage = "routed"
    /\ LET offers == RoutablePaths(par.side, amount, ways, NumSamples)
           vip == RoutesOver(offers, {i \in DOMAIN offers : offers[i].vip})
       IN IF amount <= 1 \/ offers = <<>> THEN stage' = "noOptimalPath" /\ UNCHANGED <<ways, routes>>
          ELSE /\ stage' = "path"
               /\ ways' = offers
               /\ \E a \in RoutesOver(offers, DOMAIN offers) \cup {FailedRoute(offers)},
                     v \in IF vip = {} THEN {NoRoute(offers)} ELSE vip :
                         routes' = [all |-> a, vip |-> v]
    /\ UNCHANGED <<req, par, amount, fees, path, info, tx, gas, reply, response>>

-----------------------------------------------------------------------------
(* The path, and what it is worth (findOptimalPathFromSamples,               *)
(* createSwapQuote).                                                         *)

\* The adjustor takes a slippage of 0 for an absent one.
FillAdjustor ==
    IF ~ par.protect THEN NoSlippage
    ELSE [buyToken |-> par.buyToken, sellToken |-> par.sellToken,
          maxSlippageRate |-> IF par.slippage = Zero THEN DefaultSlippage ELSE par.slippage]

PathOver(route) == createPathFromRoute(par.side, amount, ways, route, FillAdjustor)

CreateQuote ==
    /\ stage = "path"
    /\ path' = findOptimalPath(par.side, amount, PathOver(routes.all), PathOver(routes.vip))
    /\ IF path' = NoPath THEN stage' = "noOptimalPath" /\ UNCHANGED info
       ELSE LET q == calculateQuoteInfo(par.side, amount, par.slippage, path')
                withOverhead(i) == [i EXCEPT !.gas = @ + GasOverhead(path')]
            IN /\ stage' = "priced"
               /\ info' = [best |-> withOverhead(q.best), worst |-> withOverhead(q.worst),
                           sources |-> convertToLiquiditySources(q.breakdown)]
    /\ UNCHANGED <<req, par, amount, fees, ways, routes, tx, gas, reply, response>>

-----------------------------------------------------------------------------
(* Fees, and the transaction.                                                *)

MakerPerEth == IF par.side = "sell" THEN OutputPerEth ELSE InputPerEth
TakerPerEth == IF par.side = "sell" THEN InputPerEth ELSE OutputPerEth

\* Mutant: the percentage is taken of the amount that holds the fee.
BuyTokenFeeOfTotal ==
    IF par.affiliate.feeType = "gasless" THEN 0
    ELSE Floor(Times(Num(info.worst.maker), BuyTokenPercentage))

(* serviceUtils.getBuyTokenFeeAmounts.  A gasless fee is 0 unless            *)
(* GASLESS_SWAP_FEE_ENABLED.                                                 *)
BuyTokenFeeAmount ==
    IF par.affiliate.feeType = "none" \/ par.affiliate.recipient = Nobody THEN 0
    ELSE IF par.affiliate.feeType = "gasless"
    THEN IF req.gaslessFeeEnabled THEN MakerPerEth * GasPrice * info.worst.gas ELSE 0
    ELSE Floor(Over(Times(Num(info.worst.maker), BuyTokenPercentage), Plus(One, BuyTokenPercentage)))

\* What the price moves in favour of the taker is kept for pairs of some tokens,
\* unless the integrator has turned this off.
PositiveSlippageFee ==
    {par.sellToken, par.buyToken} \subseteq FeeTokens /\ par.surplus \in {"default", "on"}

Quote == [side |-> par.side, amount |-> amount, slippage |-> par.slippage, path |-> path, info |-> info]

(* getSwapQuotePartialTransaction.                                           *)
Options(f) ==
    [chain |-> req.chain, fromEth |-> par.fromEth, toEth |-> par.toEth,
     sellToken |-> par.sellToken, buyToken |-> par.buyToken, mtx |-> par.mtx, entire |-> par.entire,
     sellFees |-> OnChainTransfers(f), buyFee |-> BuyTokenFeeAmount,
     surplus |-> PositiveSlippageFee, surplusCost |-> SurplusGas * GasPrice * MakerPerEth,
     surplusGas |-> SurplusGas]

(* A buy pays its fees on top of what it sells, and they are known only now. *)
FinalFees == IF par.side = "sell" THEN fees ELSE SellTokenFees(info.best.taker, info.worst.gas)

TransfersGas(f) == GasPerTransfer * Cardinality(DOMAIN OnChainTransfers(f))

Encode ==
    /\ stage = "priced"
    /\ fees' = FinalFees
    /\ tx' = Transaction(Quote, Options(fees'))
    /\ gas' = info.worst.gas + TransfersGas(fees') + (IF par.affiliate.feeType = "none" THEN 0 ELSE AffiliateGas)
    /\ stage' = "encoded"
    /\ routes' = NoPath    \* the router's answer ends with the path
    /\ UNCHANGED <<req, par, amount, ways, path, info, reply, response>>

(* A node is asked for the gas of the transaction if there is a taker, and   *)
(* not for the price of orders that have not been signed.  What it answers   *)
(* counts if it is more; a failure is an error of a quote, but not of a      *)
(* price (_estimateGasOrThrowRevertErrorAsync).                              *)
CanEstimateGas ==
    /\ par.taker /\ ~ par.skipValidation
    /\ par.endpoint = "quote" \/ \A i \in DOMAIN path : path[i].way.kind # "native"

EstimateErrors == {"insufficientFunds", "revert", "gasEstimation", "error"}

RealGas(estimate) ==
    HalfUp(Times(Num(estimate + tx.gasOverhead + (IF par.mtx = "v2" THEN TransfersGas(fees) ELSE 0)), Frac(11, 10)))

Estimate ==
    /\ stage = "encoded"
    /\ \/ ~ CanEstimateGas /\ stage' = "estimated" /\ UNCHANGED gas
       \/ /\ CanEstimateGas
          /\ stage' = "estimated"
          /\ \E n \in GasEstimates : gas' = Larger(gas, RealGas(n))
       \/ /\ CanEstimateGas
          /\ \E e \in EstimateErrors : stage' = IF par.endpoint = "quote" THEN e ELSE "estimated"
          /\ UNCHANGED gas
    /\ UNCHANGED <<req, par, amount, fees, ways, routes, path, info, tx, reply, response>>

-----------------------------------------------------------------------------
(* The answer.                                                               *)

(* _getSwapQuotePrice: bought per sold for a sell, sold per bought for a     *)
(* buy, in units of the tokens, rounded to the decimals of the token.        *)
Unit(n, decimals) == Frac(n, TenTo[decimals])

\* Mutant: the price is rounded to the nearest.
RoundToNearest(x) ==
    LET decimals == IF par.side = "sell" THEN BuyDecimals ELSE SellDecimals
    IN Unit(HalfUp(Times(x, Num(TenTo[decimals]))), decimals)

RoundPrice(x) ==
    IF par.side = "sell" THEN Unit(Floor(Times(x, Num(TenTo[BuyDecimals]))), BuyDecimals)
    ELSE Unit(Ceil(Times(x, Num(TenTo[SellDecimals]))), SellDecimals)

Price(case, feeAmount) ==
    LET maker == Minus(Unit(case.maker, BuyDecimals),
                       Times(Unit(info.worst.maker, BuyDecimals), BuyTokenPercentage))
        taker == Unit(case.taker + feeAmount, SellDecimals)
    IN IF par.side = "sell" THEN RoundPrice(Over(maker, taker))
       ELSE IF maker = Zero THEN Infinity ELSE RoundPrice(Over(taker, maker))

(* The rates of the tokens to the native one, in units and rounded.          *)
TokenToEthRate(perEth, decimals) ==
    Unit(HalfUp(Times(Over(Num(perEth * TenTo[WethDecimals]), Num(TenTo[decimals])), Num(TenTo[decimals]))), decimals)

SellTokenToEthRate == TokenToEthRate(TakerPerEth, SellDecimals)
BuyTokenToEthRate == TokenToEthRate(MakerPerEth, BuyDecimals)

\* Mutant: the price of a buy is not inverted.
PriceAsItIs(price) == IF price = Infinity THEN Zero ELSE price

NormalizedPrice(price) ==
    IF price = Infinity THEN Zero ELSE IF par.side = "sell" THEN price ELSE Over(One, price)

(* _calculateEstimatedPriceImpactPercent, with four decimal places; nothing  *)
(* if a rate is unknown.                                                     *)
EstimatedPriceImpact(price) ==
    LET ratio == Over(NormalizedPrice(price), Over(BuyTokenToEthRate, SellTokenToEthRate))
        percent == Frac(Ceil(Times(Minus(One, ratio), Num(1000000))), 10000)
    IN IF Zero \in {SellTokenToEthRate, BuyTokenToEthRate} THEN Absent ELSE MaxOf(Zero, percent)

ImpactTooHigh(impact) ==
    par.endpoint = "quote" /\ impact # Absent /\ Less(Times(par.impact, Num(100)), impact)

\* The value covers the worst case, whatever feature was chosen.
AdjustedValue == info.worst.protocolFee + (IF par.fromEth THEN info.worst.taker ELSE 0)

\* For requests that ask for protection, and integrators that always get it.
ExpectedSlippageOf(bought, sold) ==
    IF ~ par.expects THEN NoSlippage
    ELSE calculateExpectedSlippage([buyToken |-> par.buyToken, sellToken |-> par.sellToken,
                                    buyAmount |-> Num(bought), sellAmount |-> Num(sold)],
                                   info.sources, par.slippage)

\* A fee that leaves nothing to buy is an error.
Reply ==
    /\ stage = "estimated"
    /\ LET feeAmount == SellTokenFeeAmount(fees)
           price == Price(info.best, feeAmount)
           bought == info.best.maker - BuyTokenFeeAmount
           sold == info.best.taker + feeAmount
           r == [buyAmount |-> bought, sellAmount |-> sold, expected |-> ExpectedSlippageOf(bought, sold),
                 price |-> price, guaranteedPrice |-> Price(info.worst, feeAmount),
                 value |-> AdjustedValue, impact |-> EstimatedPriceImpact(price)]
       IN IF r.buyAmount <= 0 THEN stage' = "insufficientFunds" /\ UNCHANGED reply
          ELSE IF ImpactTooHigh(r.impact) THEN stage' = "invalid" /\ UNCHANGED reply
          ELSE stage' = "done" /\ reply' = r
    /\ UNCHANGED <<req, par, amount, fees, ways, routes, path, info, tx, gas, response>>

(* The response (_getSwapQuoteAsync, and the handlers of meta-transactions). *)
(* There is no meta-transaction in the second version yet: a quote fails     *)
(* when it is about to be built.                                             *)
Outcome == IF stage = "done" /\ par.mtx = "v2" /\ par.endpoint = "quote" THEN "error" ELSE stage

ResponseTo(outcome) ==
    CASE outcome = "done" -> "ok"
      [] outcome \in {"invalid", "noOptimalPath"} -> "validationError"
      [] outcome \in {"insufficientFunds", "revert", "gasEstimation"} -> outcome
      [] OTHER -> "serverError"

\* The transaction becomes part of a meta-transaction that sends no native
\* token along.
MetaTransaction == [tx EXCEPT !.value = 0]

\* The gas of a swap on Arbitrum includes what the calldata costs on the layer
\* below.
Respond ==
    /\ stage \in {"done", "invalid", "noOptimalPath"} \cup EstimateErrors
    /\ stage' = "answered"
    /\ response' = ResponseTo(Outcome)
    /\ tx' = IF stage = "done" /\ par.mtx # "none" THEN MetaTransaction ELSE tx
    /\ gas' = IF stage = "done" /\ par.mtx = "none" /\ req.chain = "arbitrum" THEN gas + L1Gas ELSE gas
    /\ UNCHANGED <<req, par, amount, fees, ways, routes, path, info, reply>>

Next == Parse \/ Start \/ Route \/ CreateQuote \/ Encode \/ Estimate \/ Reply \/ Respond

Spec == Init /\ [][Next]_vars

-----------------------------------------------------------------------------
(* Properties.                                                               *)

FillsOf == Len(path)

Inputs == IF path = NoPath THEN Zero ELSE SumQ(LAMBDA f : f.input, path)

Answered == stage = "done" /\ ~ par.wrap /\ ~ par.unwrap

(* The amounts of the router are rounded up one by one and an order is never *)
(* filled beyond its size: together they are the amount of the request, or   *)
(* at most one unit per fill more, as the comment in createPathFromRoute     *)
(* expects ("a couple base units too much"), unless an order is used up, or  *)
(* a part of the route that gives nothing is left out.                       *)
RouteIsCovered ==
    stage = "priced" =>
        /\ Leq(Inputs, Num(amount + FillsOf))
        /\ Less(Inputs, Num(amount)) =>
               \/ \E i \in 1 .. FillsOf : /\ path[i].way.kind = "native"
                                          /\ path[i].input = Num(OrderInput(par.side, path[i].way.order))
               \/ \E r \in {routes.all, routes.vip}, i \in DOMAIN ways :
                      PathOver(r) = path /\ r.inputs[i] # 0 /\ r.outputs[i] = 0

(* findOptimalPathFromSamples: a path that falls short of the amount is not  *)
(* preferred to one that covers it.                                          *)
CompleteIsPreferred ==
    stage = "priced" =>
        \A other \in {PathOver(r) : r \in {routes.all, routes.vip}} \ {NoPath} :
            Leq(createAdjustedSize(amount, other).input, createAdjustedSize(amount, path).input)

(* calculateQuoteInfo: the worst case is never better than the best one, in  *)
(* what is sold, what is bought, the gas and the protocol fee.               *)
WorstIsWorse ==
    stage = "priced" =>
        /\ info.worst.maker <= info.best.maker
        /\ info.worst.taker >= info.best.taker
        /\ info.worst.gas >= info.best.gas
        /\ info.worst.protocolFee >= info.best.protocolFee

(* Each order of a sell is slipped and rounded on its own                    *)
(* (createSlipOrderFunction), the promise of the quote as a whole: orders    *)
(* that give what they must give keep the promise up to a unit per order.    *)
SlippedOrders ==
    LET slipped(kind) == [i \in DOMAIN OrdersOf("sell", path, kind) |->
                              SlipOrder("sell", par.slippage, OrdersOf("sell", path, kind)[i])]
    IN slipped("native") \o slipped("bridge") \o slipped("twoHop")

PromiseIsKept ==
    stage = "priced" /\ par.side = "sell" =>
        Leq(Num(info.worst.maker), Plus(SumQ(LAMBDA o : o.maker, SlippedOrders), Num(FillsOf)))

(* A sell whose path covers the amount sells what the request says, fees     *)
(* included: the fees that _getSellTokenFees took off are added again.  The  *)
(* rounding of the route adds at most a unit per fill, if a two-hop is there *)
(* to take it.                                                               *)
AskedIsSold ==
    Answered /\ par.side = "sell" /\ Leq(Num(amount), Inputs) =>
        /\ reply.sellAmount >= par.amount
        /\ reply.sellAmount <= par.amount + FillsOf
        /\ (\A i \in 1 .. FillsOf : path[i].way.kind # "twoHop") => reply.sellAmount = par.amount

(* The gasless fee, of every meta-transaction of the first version, comes    *)
(* off what the answer buys, but is in neither its price nor its impact, and *)
(* nothing is bought on top to pay for it.  It is 0 unless it is enabled.    *)
GaslessFee == IF par.affiliate.feeType = "gasless" THEN BuyTokenFeeAmount ELSE 0

(* A buy whose path covers the amount buys no less than the request says:    *)
(* what is added for the affiliate's percentage, rounded down, pays for the  *)
(* fee that getBuyTokenFeeAmounts takes, rounded down as well.  Only the     *)
(* gasless fee comes off what was asked for.                                 *)
AskedIsBought ==
    Answered /\ par.side = "buy" /\ Leq(Num(amount), Inputs) =>
        reply.buyAmount + GaslessFee >= par.amount

\* The price is no better than that of the amounts, and the guaranteed price no
\* better than the price.
NoBetterPrice(boughtAmount) ==
    LET bought == Unit(boughtAmount, BuyDecimals)
        sold == Unit(reply.sellAmount, SellDecimals)
    IN IF par.side = "sell"
       THEN Leq(Times(reply.price, sold), bought) /\ Leq(reply.guaranteedPrice, reply.price)
       ELSE /\ reply.price # Infinity => Leq(sold, Times(reply.price, bought))
            /\ reply.guaranteedPrice # Infinity =>
                   reply.price # Infinity /\ Leq(reply.price, reply.guaranteedPrice)

(* _getSwapQuotePrice (swap_service.ts:186): "In order to not communicate a  *)
(* price better than the actual quote".  Of all that is rounded, slipped and *)
(* charged between the path and the answer, only a gasless fee makes the     *)
(* price better than that of the amounts of the answer.                      *)
PriceOmitsOnlyGasless == Answered => NoBetterPrice(reply.buyAmount + GaslessFee)

(* calculateFees: the taker pays each fee once.  The share of 0x comes out   *)
(* of the integrator's fee and leaves it something, every transfer moves a   *)
(* positive amount, and the gas fee, if there is one, has paid for at least  *)
(* as many transfers as there are.                                           *)
FeesAddUp ==
    LET transfers == OnChainTransfers(fees)
        due(k) == IF ~ Charged(fees[k]) THEN 0
                  ELSE IF k = "zeroEx" /\ fees.zeroEx.type = "integrator_share" /\ Charged(fees.integrator)
                  THEN 0 ELSE fees[k].feeAmount
        quoteGas == IF par.side = "sell" THEN AverageGas ELSE info.worst.gas
        perWei == IF par.side = "sell" THEN PerWei ELSE Num(OutputPerEth)
    IN /\ TotalOnChain(transfers) = due("integrator") + due("zeroEx") + due("gas")
       /\ \A r \in DOMAIN transfers : transfers[r] > 0
       /\ Charged(fees.gas) =>
              fees.gas.feeAmount >= Floor(Times(perWei, Num(GasPrice * (quoteGas + GasPerTransfer * Cardinality(DOMAIN transfers)))))
       /\ Answered /\ par.side = "sell" => TotalOnChain(transfers) < par.amount

(* The sources of an answer are weighed by what they trade                   *)
(* (calculateSwapQuoteOrdersBreakdown).  Their shares add up to one, but for *)
(* the digits that convertToLiquiditySources keeps; those of a sell are the  *)
(* shares of what is sold; and the expected slippage, the average over them, *)
(* is a loss that is no larger than the slippage of the request allows.  On  *)
(* a buy the code compares what a two-hop sells with what the others buy.    *)
SourcesAreWeighed ==
    Answered =>
        LET rounding == Frac(5, TenTo[SigDigits])
            shares == SumQ(LAMBDA s : s.proportion, info.sources)
            twoHops == SumQ(LAMBDA s : IF s.name = "MultiHop" THEN s.proportion ELSE Zero, info.sources)
            sold == SumQ(LAMBDA o : o.taker, OrdersOf(par.side, path, "twoHop"))
        IN /\ Leq(AbsOf(Minus(shares, One)), rounding)
           /\ par.side = "sell" =>
                  Leq(AbsOf(Minus(Times(twoHops, Num(info.best.taker)), sold)), Times(rounding, sold))
           /\ reply.expected # NoSlippage =>
                  /\ Leq(reply.expected, Zero)
                  /\ Leq(Times(Neg(par.slippage), Plus(One, rounding)), reply.expected)

-----------------------------------------------------------------------------
(* What becomes of the transaction of a quote that was answered.             *)

Executable == stage = "answered" /\ response = "ok" /\ par.endpoint = "quote" /\ ~ par.wrap /\ ~ par.unwrap

\* On Celo the part of the value that is sold is the sold token.
SentValue ==
    IF par.mtx # "none" THEN tx.value
    ELSE reply.value - (IF par.fromEth /\ tx.in = "sell" THEN info.worst.taker ELSE 0)

(* The taker has what the trade may take.  Nothing pays the protocol fee of  *)
(* a meta-transaction, or of a quote that wraps all there is; its multiplier *)
(* is 0.                                                                     *)
Executed(worst) == Execute(tx, SentValue, Larger(reply.sellAmount, info.worst.taker), worst)

PaysProtocolFee == (par.mtx = "none" /\ ~ par.entire) \/ info.worst.protocolFee = 0

\* What so much of the sold token gives at the best price of an order.
Worth(sold) ==
    LET rate(fill) == IF par.side = "sell" THEN Over(fill.output, fill.input) ELSE Over(fill.input, fill.output)
    IN Max({Ceil(Times(rate(path[i]), Num(sold))) : i \in 1 .. FillsOf})

(* getCalldataOrThrow: whichever feature of the proxy is chosen, and however *)
(* the amounts are split over its steps, the transaction can be executed     *)
(* with the value of the answer.  A sell sells it all but for a unit per     *)
(* fill, that is lost when a two-hop is mixed with other orders; the amount  *)
(* that a buy may sell, rounded as a whole, can be short of its orders by as *)
(* much.  If the pools give what they were sampled to give, the taker        *)
(* receives what the answer says; if every order slips as far as it may, the *)
(* least amount; up to a unit per fill and what is not sold is worth, so     *)
(* that a trade of no more than those may fail.                              *)
TakerIsPaid ==
    Executable /\ PaysProtocolFee =>
        \A worst \in BOOLEAN :
            LET end == Executed(worst)
                unsold == IF par.side = "sell" THEN end.back["sell"] ELSE FillsOf
            IN /\ tx.minBuy >= FillsOf + Worth(FillsOf) => end.ok
               /\ end.ok => /\ unsold <= FillsOf
                            /\ end.held[tx.out] + FillsOf + Worth(unsold) >= IF worst THEN tx.minBuy ELSE reply.buyAmount

(* The fees that were taken off the amount, or added to it, reach their      *)
(* recipients, and once: no feature that cannot pay them is chosen           *)
(* (requiresTransformERC20).                                                 *)
FeesAreDelivered ==
    Executable /\ PaysProtocolFee =>
        \A worst \in BOOLEAN :
            Executed(worst).ok => /\ Executed(worst).fees[tx.in] = SellTokenFeeAmount(fees)
                                  /\ Executed(worst).fees[tx.out] = BuyTokenFeeAmount

(* transformERC20 moves the sold token to a wallet before it trades.  What   *)
(* is not sold, of the sold token, the native one, and the ones in between,  *)
(* goes back to the taker (createPayTakerTransformation).  The native token  *)
(* goes with what is bought if it is that, also on Celo, where it is a token *)
(* like any other.                                                           *)
NothingIsStranded ==
    Executable /\ PaysProtocolFee /\ tx.feature = "transformERC20" =>
        \A worst \in BOOLEAN, t \in CurrencyTokens \ (IF par.toEth THEN {tx.out, "eth"} ELSE {tx.out}) :
            Executed(worst).ok => Executed(worst).held[t] = 0

(* priceImpactProtectionPercentage: a quote that is answered trades at a     *)
(* rate that is worse than the one of the fee sources by no more than the    *)
(* request allows and the gasless fee, which the estimate leaves out; all    *)
(* other fees are within the limit.                                          *)
ImpactIsLimited ==
    Executable /\ reply.impact # Absent =>
        LET bought == Unit(reply.buyAmount + GaslessFee, BuyDecimals)
            sold == Unit(reply.sellAmount, SellDecimals)
        IN Leq(Times(Minus(One, par.impact), Times(sold, BuyTokenToEthRate)), Times(bought, SellTokenToEthRate))
=============================================================================
