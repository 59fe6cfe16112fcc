------------------------------ MODULE Calldata ------------------------------
(***************************************************************************)
(* The transaction of a quote (exchange_proxy_swap_quote_consumer.ts and   *)
(* its feature rules): the feature of the Exchange Proxy that fills the    *)
(* quote, and the steps it is told to take.  A quote q has the side, the   *)
(* amount, the slippage, the path and the best and the worst case; the     *)
(* options o have the chain, the tokens, and the fees that are due.        *)
(* Calldata is kept as the sequence of steps it encodes.  The last part of *)
(* the module is what the proxy does with them.                            *)
(***************************************************************************)
EXTENDS QuoteInfo, Functions

CONSTANT All            \* MAX_UINT256: the whole balance

Larger(m, n) == IF m >= n THEN m ELSE n
Smaller(m, n) == IF m <= n THEN m ELSE n

-----------------------------------------------------------------------------
(* The orders of a quote as they are encoded: an order takes at most cap, at *)
(* a price that has slipped as far as the request allows.  The pool behind   *)
(* it was sampled at a better one.                                           *)

EncodedOrder(q, order) ==
    LET slipped == SlipOrder(q.side, q.slippage, order)
    IN [source |-> order.way.source, cap |-> Floor(slipped.taker),
        sampled |-> [takes |-> Floor(order.taker), gives |-> Floor(order.maker)],
        encoded |-> [takes |-> Floor(slipped.taker), gives |-> Floor(slipped.maker)]]

EncodedOrders(q, kind) ==
    LET orders == OrdersOf(q.side, q.path, kind)
    IN [i \in DOMAIN orders |-> EncodedOrder(q, orders[i])]

SingleHops(q) == EncodedOrders(q, "native") \o EncodedOrders(q, "bridge")
TwoHops(q) == EncodedOrders(q, "twoHop")

\* Mutant: no more is taken than the best case sells.
SellBestCase(q) == q.info.best.taker

\* The bounds are those of the worst case.
sellAmount(q) == Larger(q.info.best.taker, q.info.worst.taker)
minBuyAmount(q) == q.info.worst.maker
ethAmount(q, o) == q.info.worst.protocolFee + (IF o.fromEth THEN sellAmount(q) ELSE 0)

-----------------------------------------------------------------------------
(* The choice of the feature (quote_consumer_utils.ts, getCalldataOrThrow).  *)

UniswapForks == {"UniswapV2", "SushiSwap"}
PancakeForks == {"PancakeSwap", "PancakeSwapV2", "BakerySwap", "SushiSwap", "ApeSwap"}

\* Mutant: the fees of an affiliate are forgotten.
TransformsForMetaTransactions(o) == o.mtx # "none" \/ o.entire

\* A fee on positive slippage does not count: the features that are cheap do
\* without it.
requiresTransformERC20(o) ==
    o.mtx # "none" \/ o.buyFee > 0 \/ DOMAIN o.sellFees # {} \/ o.entire

isDirectSwapCompatible(q, o, sources) ==
    /\ ~ requiresTransformERC20(o)
    /\ TwoHops(q) = <<>> /\ Len(SingleHops(q)) = 1
    /\ SingleHops(q)[1].source \in sources

isMultiplexBatchFillCompatible(q, o) ==
    /\ ~ requiresTransformERC20(o)
    /\ TwoHops(q) = <<>>
    /\ \A i \in DOMAIN SingleHops(q) : SingleHops(q)[i].source \in MULTIPLEX_BATCH_FILL_SOURCES

isMultiplexMultiHopFillCompatible(q, o) ==
    /\ ~ requiresTransformERC20(o)
    /\ SingleHops(q) = <<>> /\ Len(TwoHops(q)) = 1
    /\ Range(TwoHops(q)[1].source) \subseteq MULTIPLEX_MULTIHOP_FILL_SOURCES

AllFrom(q, source) ==
    TwoHops(q) = <<>> /\ \A i \in DOMAIN SingleHops(q) : SingleHops(q)[i].source = source

Compatible(feature, q, o) ==
    CASE feature = "uniswapV2" -> o.chain = "mainnet" /\ isDirectSwapCompatible(q, o, UniswapForks)
      [] feature = "uniswapV3" -> o.chain = "mainnet" /\ isDirectSwapCompatible(q, o, {"UniswapV3"})
      [] feature = "pancake" -> o.chain = "bsc" /\ isDirectSwapCompatible(q, o, PancakeForks)
      [] feature = "curve" -> /\ o.chain = "mainnet" /\ isDirectSwapCompatible(q, o, {"Curve"})
                              /\ "WETH" \notin {o.sellToken, o.buyToken}
      [] feature = "rfq" -> /\ o.chain \in {"mainnet", "polygon"} /\ ~ o.fromEth /\ ~ o.toEth
                            /\ AllFrom(q, "Rfq") /\ ~ requiresTransformERC20(o)
      [] feature = "otc" -> /\ o.chain \in {"mainnet", "polygon", "mumbai"} /\ AllFrom(q, "Otc")
                            /\ Len(SingleHops(q)) = 1 /\ ~ requiresTransformERC20(o)
      [] feature = "multiplexBatch" -> o.chain = "mainnet" /\ isMultiplexBatchFillCompatible(q, o)
      [] feature = "multiplexMultiHop" -> o.chain = "mainnet" /\ isMultiplexMultiHopFillCompatible(q, o)
      [] feature = "transformERC20" -> TRUE

\* The first one that fits is taken.
Features == <<"uniswapV2", "uniswapV3", "pancake", "curve", "rfq", "otc",
              "multiplexBatch", "multiplexMultiHop", "transformERC20">>

Feature(q, o) == Features[Min({i \in DOMAIN Features : Compatible(Features[i], q, o)})]

-----------------------------------------------------------------------------
(* The steps.  Tokens are named for their part in the trade: "eth", "sell",  *)
(* "mid" between two hops, and "buy".  On Celo the native token is a token   *)
(* like any other.                                                           *)

InToken(o) == IF o.fromEth /\ o.chain # "celo" THEN "eth" ELSE "sell"
OutToken(o) == IF o.toEth /\ o.chain # "celo" THEN "eth" ELSE "buy"

Fill(from, to, side, amount, orders) ==
    [do |-> "fill", from |-> from, to |-> to, side |-> side, amount |-> amount, orders |-> orders]
Convert(from, to, amount) == [do |-> "convert", from |-> from, to |-> to, amount |-> amount]
PayFee(token, amount) == [do |-> "fee", token |-> token, amount |-> amount]
TakeSurplus(token, bestCase) == [do |-> "surplus", token |-> token, bestCase |-> bestCase]
Return(tokens) == [do |-> "return", tokens |-> tokens]

(* An order of a feature that fills one pool takes what it is given.         *)
Uncapped(order) == [order EXCEPT !.cap = All]

(* The halves of a two-hop order: all that the first gives is sold in the    *)
(* second.  Amounts of the token in between are unknown to the code; the     *)
(* unit of the sold token stands for it.                                     *)
FirstHop(order) ==
    LET even(rate) == [rate EXCEPT !.gives = rate.takes]
    IN [order EXCEPT !.source = @[1], !.sampled = even(@), !.encoded = even(@)]
SecondHop(order) == [order EXCEPT !.source = @[2], !.cap = All]

(* batchFillRfqOrders and multiplex: each order takes its amount, as long as *)
(* something is left.                                                        *)
OrderByOrder(q, o) ==
    LET orders == SingleHops(q)
    IN [i \in DOMAIN orders |-> Fill(InToken(o), OutToken(o), "sell", orders[i].cap, <<orders[i]>>)]

DirectSteps(q, o, feature) ==
    CASE feature \in {"rfq", "multiplexBatch"} -> OrderByOrder(q, o)
      [] feature = "multiplexMultiHop" ->
             LET order == TwoHops(q)[1]
             IN <<Fill(InToken(o), "mid", "sell", sellAmount(q), <<Uncapped(FirstHop(order))>>),
                  Fill("mid", OutToken(o), "sell", All, <<SecondHop(order)>>)>>
      [] OTHER -> <<Fill(InToken(o), OutToken(o), "sell", sellAmount(q), <<Uncapped(SingleHops(q)[1])>>)>>

-----------------------------------------------------------------------------
(* transformERC20 (transform_erc20_rule.ts).                                 *)

SellFeeAmount(o) == SumFunction(o.sellFees)

\* What is sold, with the fees that the transformation itself pays out.
TransformedAmount(q, o) == sellAmount(q) + (IF o.mtx = "v1" THEN SellFeeAmount(o) ELSE 0)

\* The fees of a meta-transaction in the first version are transferred here.
SellFeeSteps(o) == IF DOMAIN o.sellFees = {} THEN <<>> ELSE <<PayFee(InToken(o), SellFeeAmount(o))>>

WrapSteps(q, o) ==
    IF InToken(o) = "sell" THEN <<>>
    ELSE <<Convert("eth", "sell", IF o.entire THEN All ELSE TransformedAmount(q, o))>>

UnwrapSteps(o) == IF OutToken(o) = "buy" THEN <<>> ELSE <<Convert("buy", "eth", All)>>

WholeBalance(q, o) == q.side = "sell" /\ o.entire

createTwoHopTransformations(q, o) ==
    LET hops(order) == <<Fill("sell", "mid", "sell", IF WholeBalance(q, o) THEN All ELSE order.cap, <<FirstHop(order)>>),
                         Fill("mid", "buy", "sell", All, <<SecondHop(order)>>)>>
    IN FoldLeft(\o, <<>>, [i \in DOMAIN TwoHops(q) |-> hops(TwoHops(q)[i])])

\* What the two-hops leave of the amount, in the token the request fixes.
getNonTwoHopFillAmount(q) ==
    LET part(order) == IF q.side = "sell" THEN order.sampled.takes ELSE order.sampled.gives
    IN q.amount - FoldLeft(LAMBDA n, order : n + part(order), 0, TwoHops(q))

createNonTwoHopTransformation(q, o) ==
    IF SingleHops(q) = <<>> THEN <<>>
    ELSE <<Fill("sell", "buy", q.side, IF WholeBalance(q, o) THEN All ELSE getNonTwoHopFillAmount(q), SingleHops(q))>>

BuyFeeSteps(o) == IF o.buyFee > 0 THEN <<PayFee(OutToken(o), o.buyFee)>> ELSE <<>>

\* What is bought beyond the best case, and beyond what the transfer costs,
\* goes to a recipient.
SurplusSteps(q, o) ==
    IF ~ o.surplus THEN <<>>
    ELSE <<TakeSurplus(OutToken(o), Larger(q.info.best.maker + o.surplusCost, q.info.best.maker))>>

\* Mutant: what is not sold is forgotten, as if a buy sold all it may.
PayTakerOthers(q, o) ==
    Return((IF TwoHops(q) = <<>> THEN {} ELSE {"mid"}) \cup (IF o.toEth THEN {} ELSE {"eth"}))

createPayTakerTransformation(q, o) ==
    Return({"sell"} \cup (IF TwoHops(q) = <<>> THEN {} ELSE {"mid"}) \cup (IF o.toEth THEN {} ELSE {"eth"}))

TransformSteps(q, o) ==
    SellFeeSteps(o) \o WrapSteps(q, o)
    \o createTwoHopTransformations(q, o) \o createNonTwoHopTransformation(q, o)
    \o UnwrapSteps(o) \o BuyFeeSteps(o) \o SurplusSteps(q, o)
    \o <<createPayTakerTransformation(q, o)>>

-----------------------------------------------------------------------------
(* The transaction: what it takes from the taker, the native token that is   *)
(* sent along, the least it must buy, and its steps.                         *)

Transaction(q, o) ==
    LET feature == Feature(q, o)
    IN IF feature = "transformERC20"
       THEN [feature |-> feature, takes |-> IF o.entire THEN All ELSE TransformedAmount(q, o),
             value |-> ethAmount(q, o), minBuy |-> Larger(0, minBuyAmount(q) - o.buyFee),
             steps |-> TransformSteps(q, o), in |-> InToken(o), out |-> OutToken(o),
             gasOverhead |-> IF o.surplus THEN o.surplusGas ELSE 0]
       ELSE [feature |-> feature, takes |-> sellAmount(q),
             value |-> IF o.fromEth THEN sellAmount(q) ELSE 0, minBuy |-> minBuyAmount(q),
             steps |-> DirectSteps(q, o, feature), in |-> InToken(o), out |-> OutToken(o),
             gasOverhead |-> 0]

-----------------------------------------------------------------------------
(* What the Exchange Proxy does (external), on the balances it holds for the *)
(* taker.  Fees are paid, a surplus is, and the rest is returned.            *)

\* The price of a pool: as it was sampled, or as bad as the order allows.
Rate(order, worst) == IF worst THEN order.encoded ELSE order.sampled

(* An order sells what remains to be sold, or what buys the rest at the      *)
(* price that is encoded, as far as its cap and the balance allow.           *)
FillOne(side, worst, state, order) ==
    LET rate == Rate(order, worst)
        wanted == IF side = "sell" THEN state.remaining
                  ELSE Ceil(Frac(order.encoded.takes * state.remaining, Larger(1, order.encoded.gives)))
        sold == Min({wanted, state.balance} \cup (IF order.cap = All THEN {} ELSE {order.cap}))
        bought == IF rate.takes = 0 THEN 0 ELSE (rate.gives * sold) \div rate.takes
    IN IF state.remaining <= 0 THEN state
       ELSE [balance |-> state.balance - sold, bought |-> state.bought + bought,
             remaining |-> state.remaining - (IF side = "sell" THEN sold ELSE bought),
             protocolFee |-> state.protocolFee + (IF order.source = "Limit" THEN ProtocolFee ELSE 0)]

FillOrders(worst, step, balance) ==
    FoldLeft(LAMBDA s, order : FillOne(step.side, worst, s, order),
             [balance |-> balance, bought |-> 0, protocolFee |-> 0,
              remaining |-> IF step.amount = All THEN balance ELSE step.amount], step.orders)

Move(held, from, to, out, in) == [held EXCEPT ![from] = @ - out, ![to] = @ + in]

DoStep(worst, state, step) ==
    CASE step.do = "fill" ->
             LET balance == state.held[step.from]
                 result == FillOrders(worst, step, balance)
                 moved == Move(state.held, step.from, step.to, balance - result.balance, result.bought)
             IN [state EXCEPT !.held = [moved EXCEPT !["eth"] = @ - result.protocolFee]]
      [] step.do = "convert" ->
             LET amount == IF step.amount = All THEN state.held[step.from] ELSE step.amount
             IN [state EXCEPT !.held = Move(@, step.from, step.to, amount, amount)]
      [] step.do = "fee" -> [state EXCEPT !.held[step.token] = @ - step.amount,
                                          !.fees[step.token] = @ + step.amount]
      [] step.do = "surplus" ->
             LET surplus == Larger(0, state.held[step.token] - step.bestCase)
             IN [state EXCEPT !.held[step.token] = @ - surplus]
      [] step.do = "return" ->
             [state EXCEPT !.back = [t \in DOMAIN @ |-> IF t \in step.tokens THEN @[t] + state.held[t] ELSE @[t]],
                           !.held = [t \in DOMAIN @ |-> IF t \in step.tokens THEN 0 ELSE @[t]]]

CurrencyTokens == {"eth", "sell", "mid", "buy"}
Nothing == [t \in CurrencyTokens |-> 0]

(* A transaction that is given the value of the answer and a balance of the  *)
(* sold token.  It fails if it pays what it does not hold.                   *)
Execute(tx, value, balance, worst) ==
    LET start == [Nothing EXCEPT !["eth"] = value,
                                 !["sell"] = IF tx.in = "eth" THEN 0 ELSE IF tx.takes = All THEN balance ELSE tx.takes]
        checked(state) == [state EXCEPT !.ok = \A t \in CurrencyTokens : state.held[t] >= 0]
    IN FoldLeft(LAMBDA state, step : IF state.ok THEN checked(DoStep(worst, state, step)) ELSE state,
                [held |-> start, fees |-> Nothing, back |-> Nothing, ok |-> TRUE], tx.steps)
=============================================================================
