------------------------------ MODULE Sampler ------------------------------
(***************************************************************************)
(* One call of the sampler contract: MarketOperationUtils puts everything  *)
(* it wants to know of a trade into a list of operations, DexOrderSampler  *)
(* sends those that need an answer as one batchCall through the RPC        *)
(* subprovider, and each operation reads its own part of the answer        *)
(* (sampler.ts, sampler_operations.ts, sampler_contract_operation.ts,      *)
(* getMarketSellLiquidity, getMarketBuyLiquidity and getTokenAmountPerWei  *)
(* of index.ts, rpc_subprovider.ts; in contracts/ TwoHopSampler.sol,       *)
(* ApproximateBuys.sol, the samplers of single sources and the batchCall   *)
(* of ERC20BridgeSampler.sol).                                             *)
(*                                                                         *)
(* An operation may be answered, may revert, and may itself be a batch     *)
(* with parts that revert, each with its own meaning.  A source stands for *)
(* one pool of a pair of tokens, whose contract is not part of the         *)
(* repository: it answers any amount up to a limit of its own, and its     *)
(* sampler gives up at the first amount for which there is nothing.        *)
(***************************************************************************)
EXTENDS Rationals, SequencesExt, FiniteSetsExt

CONSTANTS
    Trades,         \* the trades to sample; a trade with side "rate" is getTokenAmountPerWei
    Graph, DefaultTokens,          \* the token adjacency graph
    NativeToken, NativeAmount,     \* _nativeFeeToken and _nativeFeeTokenAmount
    FeeSources, Fees,              \* _feeSources, and what the fee schedule says of a source
    MicroShare,     \* the share of NativeAmount that a micro swap is below, 0.01
    HundredPercent, Epsilon,       \* ApproximateBuys: ONE_HUNDED_PERCENT_BPS and the error it targets
    MaxAmount,      \* bound: the largest amount a pool takes or gives
    MaxReverts      \* bound: operations of one batch that revert

VARIABLES
    samplePc,       \* "idle", "sent", "done", "failed", or "stuck"
    trade,          \* the trade that is sampled
    raw,            \* rawCallResults
    found           \* the liquidity that is returned

vars == <<samplePc, trade, raw, found>>

NoTrade == [side |-> "none"]
NoLiquidity == [side |-> "none"]

Init == samplePc = "idle" /\ trade = NoTrade /\ raw = <<>> /\ found = NoLiquidity

-----------------------------------------------------------------------------
(* The operations of a trade. *)

Ops(t) ==
    IF t.side = "rate" THEN <<"makerRate">>
    ELSE <<"blockNumber", "gasLimit", "decimals", "fillable", "makerRate", "takerRate",
           "quotes", "twoHops", "isContract", "gasLeft">>

\* BATCH_SOURCE_FILTERS and TWO_HOP_SOURCE_FILTERS.
PoolSources(sources) == SelectSeq(sources, LAMBDA s : s \notin {"MultiHop", "Native"})

TwoHopSources(t) == IF Contains(t.sources, "MultiHop") THEN PoolSources(t.sources) ELSE <<>>

\* constant: an operation whose answer is known without a call.
IsConstant(t, op) ==
    \/ op = "fillable" /\ t.orders = <<>>
    \/ op = "fillable" /\ Len(t.orders) = 1 /\ t.orders[1].maker = "null"
    \/ op = "makerRate" /\ t.maker = NativeToken
    \/ op = "takerRate" /\ t.taker = NativeToken
    \/ op = "twoHops" /\ TwoHopSources(t) = <<>>

SentOps(t) == SelectSeq(Ops(t), LAMBDA op : ~IsConstant(t, op))

\* The sources that know the pair and take neither token for a bad one.
SellOperations(t, sources, from, to) ==
    SelectSeq(PoolSources(sources),
              LAMBDA s : /\ {<<s, from>>, <<s, to>>} \cap t.bad = {}
                         /\ <<s, from, to>> \in DOMAIN t.pools)

\* Bad tokens are not looked for on buys.
BuyOperations(t, sources, from, to) ==
    SelectSeq(PoolSources(sources), LAMBDA s : <<s, from, to>> \in DOMAIN t.pools)

Operations(t, sources, from, to) ==
    IF t.side = "buy" THEN BuyOperations(t, sources, from, to)
    ELSE SellOperations(t, sources, from, to)

GetAdjacentTokens(token) == IF token \in DOMAIN Graph THEN Graph[token] ELSE DefaultTokens

GetIntermediateTokens(t) ==
    LET ofMaker == GetAdjacentTokens(t.maker)
        ofTaker == SelectSeq(GetAdjacentTokens(t.taker), LAMBDA x : ~Contains(ofMaker, x))
    IN SelectSeq(ofMaker \o ofTaker, LAMBDA x : x \notin {t.maker, t.taker})

\* numSamples = amount, in equal steps.
SampleAmounts(t) == [i \in 1 .. t.amount |-> i]

-----------------------------------------------------------------------------
(* The sampler contract. *)

Success(data) == [success |-> TRUE, data |-> data]
Reverted == [success |-> FALSE, data |-> <<>>]

\* What a pool answers: nothing above its limit (MAX_IN_RATIO, MAX_OUT_RATIO, reserves).
Quote(curve, amount) == IF amount \in DOMAIN curve THEN curve[amount] ELSE 0

\* The loop of a sampler over the amounts, which breaks at the first 0.
Sample(curve, amounts) ==
    [i \in DOMAIN amounts |->
        IF \E j \in 1 .. i : Quote(curve, amounts[j]) = 0 THEN 0 ELSE Quote(curve, amounts[i])]

\* _safeGetPartialAmountCeil, of amounts whose product does not overflow.
PartialAmountCeil(numerator, denominator, target) ==
    IF 0 \in {numerator, denominator, target} THEN 0
    ELSE (numerator * target + (denominator - 1)) \div denominator

\* One iteration towards a target: sell in proportion and an epsilon more, and see.
Approach(pool, target, at) ==
    LET scaled == PartialAmountCeil(target, at.bought, at.sold)
        sold == PartialAmountCeil(HundredPercent + Epsilon, HundredPercent, scaled)
        bought == Quote(pool.sells, sold)
        eps == IF bought < target THEN at.eps ELSE ((bought - target) * HundredPercent) \div target
    IN IF at.ended THEN at
       ELSE IF bought = 0 THEN [at EXCEPT !.sold = sold, !.ended = TRUE]
       ELSE [at EXCEPT !.sold = sold, !.bought = bought, !.eps = eps,
                       !.ended = bought >= target /\ eps <= Epsilon]

\* Mutant: what the last iteration came to is taken, near the target or not.
ApproximateBuyUnchecked(pool, at, target) ==
    LET near == FoldLeft(LAMBDA a, i : Approach(pool, target, a),
                         [at EXCEPT !.eps = 0, !.ended = FALSE], <<1, 2, 3, 4, 5>>)
    IN [near EXCEPT !.amounts = Append(@, PartialAmountCeil(target, near.bought, near.sold))]

\* At most APPROXIMATE_BUY_MAX_ITERATIONS for an amount; the loop over the amounts ends
\* at one that is not bought, or bought without any error.
ApproximateBuy(pool, at, target) ==
    LET near == FoldLeft(LAMBDA a, i : Approach(pool, target, a),
                         [at EXCEPT !.eps = 0, !.ended = FALSE], <<1, 2, 3, 4, 5>>)
        isNear == ~at.broken /\ near.eps # 0 /\ near.eps <= Epsilon
    IN IF isNear
       THEN [near EXCEPT !.amounts = Append(@, PartialAmountCeil(target, near.bought, near.sold))]
       ELSE [at EXCEPT !.broken = TRUE, !.amounts = Append(@, 0)]

\* _sampleApproximateBuys: buys from a pool that only says what it gives.
SampleApproximateBuys(pool, amounts) ==
    LET sold == Quote(pool.sellsBack, amounts[1])
        bought == Quote(pool.sells, sold)
        start == [sold |-> sold, bought |-> bought, eps |-> 0, ended |-> FALSE,
                  broken |-> 0 \in {sold, bought}, amounts |-> <<>>]
    IN FoldLeft(LAMBDA at, amount : ApproximateBuy(pool, at, amount), start, amounts).amounts

\* What the sampler of a pool's source says of the amounts.
PoolSells(pool, amounts) == Sample(pool.sells, amounts)
PoolBuys(pool, amounts) ==
    IF pool.approximate THEN SampleApproximateBuys(pool, amounts) ELSE Sample(pool.buys, amounts)

\* One call for each source, which may revert on its own.
SellCalls(t, sources, from, to, amounts) ==
    LET pool(i) == t.pools[<<sources[i], from, to>>]
    IN [i \in DOMAIN sources |-> IF pool(i).reverts THEN Reverted ELSE Success(PoolSells(pool(i), amounts))]

BuyCalls(t, sources, from, to, amounts) ==
    LET pool(i) == t.pools[<<sources[i], from, to>>]
    IN [i \in DOMAIN sources |-> IF pool(i).reverts THEN Reverted ELSE Success(PoolBuys(pool(i), amounts))]

\* The calls that gave something; of equal ones the contract takes the first.
Giving(results) == {i \in DOMAIN results : results[i].success /\ Last(results[i].data) > 0}

MostOf(results) ==
    CHOOSE i \in Giving(results) : \A j \in Giving(results) :
        /\ Last(results[j].data) <= Last(results[i].data)
        /\ Last(results[j].data) = Last(results[i].data) => i <= j

\* Mutant: a pool that has nothing wants nothing, which is least.
LeastOfAll(results) ==
    CHOOSE i \in DOMAIN results : \A j \in DOMAIN results :
        results[j].success => results[i].success /\ Last(results[i].data) <= Last(results[j].data)

LeastOf(results) ==
    CHOOSE i \in Giving(results) : \A j \in Giving(results) :
        /\ Last(results[i].data) <= Last(results[j].data)
        /\ Last(results[j].data) = Last(results[i].data) => i <= j

\* The sum that stands for uint256(-1).
MaxUint == MaxAmount + 1

\* The best first hop, then the best second hop for what the first one gives.
SampleTwoHopSell(t, mid) ==
    LET sources == TwoHopSources(t)
        firsts == SellCalls(t, Operations(t, sources, t.taker, mid), t.taker, mid, <<t.amount>>)
        first == MostOf(firsts)
        seconds == SellCalls(t, Operations(t, sources, mid, t.maker), mid, t.maker, firsts[first].data)
        second == MostOf(seconds)
    IN IF Giving(firsts) = {} THEN [first |-> 1, second |-> 1, amount |-> 0]
       ELSE IF Giving(seconds) = {} THEN [first |-> first, second |-> 1, amount |-> 0]
       ELSE [first |-> first, second |-> second, amount |-> Last(seconds[second].data)]

\* The cheapest second hop, then the cheapest first hop for what that one wants.
SampleTwoHopBuy(t, mid) ==
    LET sources == TwoHopSources(t)
        seconds == BuyCalls(t, Operations(t, sources, mid, t.maker), mid, t.maker, <<t.amount>>)
        second == LeastOf(seconds)
        firsts == BuyCalls(t, Operations(t, sources, t.taker, mid), t.taker, mid, seconds[second].data)
        first == LeastOf(firsts)
    IN IF Giving(seconds) = {} THEN [first |-> 1, second |-> 1, amount |-> MaxUint]
       ELSE IF Giving(firsts) = {} THEN [first |-> 1, second |-> second, amount |-> MaxUint]
       ELSE [first |-> first, second |-> second, amount |-> Last(firsts[first].data)]

RateToken(t, op) == IF op = "makerRate" THEN t.maker ELSE t.taker

RateOperations(t, op) == SellOperations(t, FeeSources, NativeToken, RateToken(t, op))

\* A call that succeeds.  Of the block number, the gas and the decimals only that counts.
Execute(t, op) ==
    CASE op \in {"blockNumber", "gasLimit", "gasLeft", "decimals"} -> <<>>
      [] op = "fillable" -> [i \in DOMAIN t.orders |-> t.orders[i].fillable]
      [] op \in {"makerRate", "takerRate"} ->
           SellCalls(t, RateOperations(t, op), NativeToken, RateToken(t, op), <<NativeAmount>>)
      [] op = "quotes" ->
           LET sources == Operations(t, t.sources, t.taker, t.maker)
           IN IF t.side = "sell" THEN SellCalls(t, sources, t.taker, t.maker, SampleAmounts(t))
              ELSE BuyCalls(t, sources, t.taker, t.maker, SampleAmounts(t))
      [] op = "twoHops" ->
           LET mids == GetIntermediateTokens(t)
               hop(mid) == IF mid \in t.revertingMids THEN Reverted
                           ELSE IF t.side = "sell" THEN Success(SampleTwoHopSell(t, mid))
                           ELSE Success(SampleTwoHopBuy(t, mid))
           IN [i \in DOMAIN mids |-> hop(mids[i])]
      [] op = "isContract" -> <<t.originIsContract>>

BatchCall(t, reverts) ==
    [i \in DOMAIN SentOps(t) |->
        IF i \in reverts THEN Reverted ELSE Success(Execute(t, SentOps(t)[i]))]

-----------------------------------------------------------------------------
(* What the operations make of the answer. *)

\* executeBatchAsync: the results are those of the calls that were sent, in their order.
ResultOf(t, results, op) ==
    LET position == CHOOSE i \in DOMAIN Ops(t) : Ops(t)[i] = op
        sent == {i \in 1 .. position : ~IsConstant(t, Ops(t)[i])}
    IN results[Cardinality(sent)]

\* Mutant: the results of sub-calls are read in a row, those that reverted left to the end.
SubResultsInARow(results) ==
    LET good == SelectSeq(results, LAMBDA r : r.success)
    IN [i \in DOMAIN results |-> IF i <= Len(good) THEN good[i].data ELSE <<>>]

\* _createBatch, with the handleRevert of SamplerContractOperation.
SubResults(results) ==
    [i \in DOMAIN results |-> IF results[i].success THEN results[i].data ELSE <<>>]

\* Of equal prices sort leaves the last one at the end.
BestRate(sources, samples) ==
    LET given(i) == IF samples[i] = <<>> THEN 0 ELSE samples[i][1]
        adjusted(i) == Frac(given(i), NativeAmount + Fees[sources[i]])
        best == CHOOSE i \in DOMAIN sources : \A j \in DOMAIN sources :
                    /\ Leq(adjusted(j), adjusted(i))
                    /\ adjusted(i) = adjusted(j) => j <= i
    IN IF sources = <<>> THEN Zero ELSE Frac(given(best), NativeAmount)

GetBestNativeTokenSellRate(t, results, op) ==
    IF IsConstant(t, op) THEN One
    ELSE IF ~ResultOf(t, results, op).success THEN Zero
    ELSE BestRate(RateOperations(t, op), SubResults(ResultOf(t, results, op).data))

GetQuotes(t, results) ==
    LET sources == Operations(t, t.sources, t.taker, t.maker)
        samples == SubResults(ResultOf(t, results, "quotes").data)
    IN IF ~ResultOf(t, results, "quotes").success THEN <<>>
       ELSE [i \in DOMAIN sources |->
               [j \in DOMAIN samples[i] |-> [source |-> sources[i], output |-> samples[i][j],
                                             input |-> SampleAmounts(t)[j]]]]

\* The callback: hops are named only if the two of them give something.
TwoHopSample(t, mid, hops) ==
    LET firsts == Operations(t, TwoHopSources(t), t.taker, mid)
        seconds == Operations(t, TwoHopSources(t), mid, t.maker)
        isNothing == hops.amount = (IF t.side = "sell" THEN 0 ELSE MaxUint)
    IN [mid |-> mid, input |-> t.amount, output |-> hops.amount,
        firstHopSource |-> IF isNothing THEN "unset" ELSE firsts[hops.first],
        secondHopSource |-> IF isNothing THEN "unset" ELSE seconds[hops.second]]

GetTwoHopQuotes(t, results) ==
    LET mids == GetIntermediateTokens(t)
        hops == ResultOf(t, results, "twoHops").data
        quotes(i) == IF hops[i].success THEN <<TwoHopSample(t, mids[i], hops[i].data)>> ELSE <<>>
    IN IF IsConstant(t, "twoHops") \/ ~ResultOf(t, results, "twoHops").success THEN <<>>
       ELSE [i \in DOMAIN mids |-> quotes(i)]

\* The amounts of the orders; one without a maker is not asked for.
GetFillableAmounts(t, results) ==
    IF IsConstant(t, "fillable") THEN [i \in DOMAIN t.orders |-> 0]
    ELSE ResultOf(t, results, "fillable").data

\* getNativeAdjustedFillableAmountsFromTakerAmount and ...FromMakerAmount.
Fillable(t, order, amount) ==
    IF t.side = "sell"
    THEN [taker |-> amount, maker |-> Floor(Frac(amount * order.makerAmount, order.takerAmount))]
    ELSE [maker |-> amount, taker |-> Ceil(Frac(amount * order.takerAmount, order.makerAmount))]

-----------------------------------------------------------------------------
(* The liquidity. *)

\* inputAmount over a rate of 0 is Infinity.
IsMicroSwap(t, inputRate) ==
    /\ t.chain = "Optimism"
    /\ inputRate # Zero
    /\ Less(Over(Num(t.amount), inputRate), Times(MicroShare, Num(NativeAmount)))

FilterTwoHopQuotes(quotes, isMicroSwap) ==
    LET named == [i \in DOMAIN quotes |->
                    SelectSeq(quotes[i], LAMBDA q : "unset" \notin {q.firstHopSource, q.secondHopSource})]
    IN IF isMicroSwap THEN <<>> ELSE SelectSeq(named, LAMBDA q : q # <<>>)

FilterOutDexQuotes(quotes, isMicroSwap) ==
    SelectSeq(quotes, LAMBDA samples : /\ samples # <<>>
                                       /\ isMicroSwap => Contains(FeeSources, samples[1].source))

\* Mutant: the rates of a buy are taken like those of a sell.
OutputRateOpSellOnly(t) == "makerRate"

\* A sell pays with the taker token, and its output is the maker token.
OutputRateOp(t) == IF t.side = "sell" THEN "makerRate" ELSE "takerRate"
InputRateOp(t) == IF t.side = "sell" THEN "takerRate" ELSE "makerRate"

MarketLiquidity(t, results) ==
    LET inputRate == GetBestNativeTokenSellRate(t, results, InputRateOp(t))
        isMicroSwap == IsMicroSwap(t, inputRate)
        amounts == GetFillableAmounts(t, results)
        isContract == ResultOf(t, results, "isContract").data[1]
    IN [side |-> t.side,
        outputAmountPerEth |-> GetBestNativeTokenSellRate(t, results, OutputRateOp(t)),
        inputAmountPerEth |-> inputRate,
        nativeOrders |-> [i \in DOMAIN t.orders |-> Fillable(t, t.orders[i], amounts[i])],
        twoHopQuotes |-> FilterTwoHopQuotes(GetTwoHopQuotes(t, results), isMicroSwap),
        dexQuotes |-> FilterOutDexQuotes(GetQuotes(t, results), isMicroSwap),
        isRfqSupported |-> (t.side = "sell" => t.rfqt) /\ ~isContract]

GetTokenAmountPerWei(t, results) ==
    [side |-> "rate", rate |-> GetBestNativeTokenSellRate(t, results, "makerRate")]

Liquidity(t, results) ==
    IF t.side = "rate" THEN GetTokenAmountPerWei(t, results) ELSE MarketLiquidity(t, results)

\* A revert that the operation, or the code that reads its result, throws for.
Throws(t, reverts) ==
    \E i \in reverts : SentOps(t)[i] \in {"blockNumber", "gasLimit", "gasLeft", "isContract",
                                        "decimals", "fillable"}

-----------------------------------------------------------------------------
(* The call. *)

\* The answers of a node: none, a bad status, no JSON, a JSON RPC error, a result, and
\* one whose body breaks off.
Responses == {"rejected", "badStatus", "notJson", "rpcError", "result", "unreadable"}

\* What handleRequest of the RPC subprovider ends with.  It never calls end for a body
\* that cannot be read: response.text() is awaited outside of any try.
HandleRequest(response) ==
    CASE response = "result" -> "result"
      [] response = "unreadable" -> "nothing"
      [] OTHER -> "error"

\* Nothing is sent if every operation is a constant.
ExecuteBatch(t) ==
    /\ samplePc = "idle"
    /\ trade' = t
    /\ IF SentOps(t) = <<>> THEN samplePc' = "done" /\ found' = Liquidity(t, <<>>)
       ELSE samplePc' = "sent" /\ UNCHANGED found
    /\ UNCHANGED raw

NoAnswer(response) ==
    /\ samplePc = "sent"
    /\ HandleRequest(response) # "result"
    /\ samplePc' = IF HandleRequest(response) = "error" THEN "failed" ELSE "stuck"
    /\ UNCHANGED <<trade, raw, found>>

Answer ==
    /\ samplePc = "sent"
    /\ \E n \in 0 .. MaxReverts : \E reverts \in kSubset(n, DOMAIN SentOps(trade)) :
         /\ raw' = BatchCall(trade, reverts)
         /\ IF Throws(trade, reverts) THEN samplePc' = "failed" /\ UNCHANGED found
            ELSE samplePc' = "done" /\ found' = Liquidity(trade, raw')
    /\ UNCHANGED trade

\* The next trade.  It is not kept from being sampled by one that is stuck.
Forget ==
    /\ samplePc \in {"done", "failed", "stuck"}
    /\ samplePc' = "idle" /\ trade' = NoTrade /\ raw' = <<>> /\ found' = NoLiquidity

Next ==
    \/ \E t \in Trades : ExecuteBatch(t)
    \/ \E response \in Responses : NoAnswer(response)
    \/ Answer
    \/ Forget

Spec == Init /\ [][Next]_vars

-----------------------------------------------------------------------------
(* Properties. *)

DidAnswer(op) ==
    IsConstant(trade, op) \/ \E i \in DOMAIN raw : SentOps(trade)[i] = op /\ raw[i].success

Works(s, from, to) == <<s, from, to>> \in DOMAIN trade.pools /\ ~trade.pools[<<s, from, to>>].reverts

\* What the source's own sampler says of amounts that are sold (bought).
Says(s, from, to, amounts) ==
    LET pool == trade.pools[<<s, from, to>>]
    IN IF trade.side = "sell" THEN PoolSells(pool, amounts) ELSE PoolBuys(pool, amounts)

IsMicro == IsMicroSwap(trade, found.inputAmountPerEth)

\* The samples of every source that works are there, and they are those of its own pool.
DexSamplesAreTheirs ==
    /\ \A samples \in Range(found.dexQuotes) :
          LET own == Says(samples[1].source, trade.taker, trade.maker, SampleAmounts(trade))
          IN /\ Works(samples[1].source, trade.taker, trade.maker)
             /\ samples = [i \in DOMAIN own |-> [source |-> samples[1].source, output |-> own[i],
                                                input |-> SampleAmounts(trade)[i]]]
    /\ \A s \in Range(Operations(trade, trade.sources, trade.taker, trade.maker)) :
          /\ DidAnswer("quotes") /\ Works(s, trade.taker, trade.maker)
          /\ IsMicro => Contains(FeeSources, s)
          => \E samples \in Range(found.dexQuotes) : samples[1].source = s

\* A pool whose rate does not rise with the amount, but for the rounding of what it gives.
RateFalls(pool) ==
    \A x, y \in DOMAIN pool.sells :
        0 < x /\ x < y => pool.sells[y] * x < (pool.sells[x] + 1) * y

\* What is paid in a sample of an approximated buy buys the amount.
ApproximationsSuffice ==
    \A samples \in Range(found.dexQuotes) : \A q \in Range(samples) :
        LET pool == trade.pools[<<q.source, trade.taker, trade.maker>>]
        IN trade.side = "buy" /\ pool.approximate /\ RateFalls(pool) /\ q.output > 0
             => Quote(pool.sells, q.output) >= q.input

\* What a source says of one amount, and the sources that nobody beats at it: they give
\* most (want least), and something.
Hop(s, from, to, amount) == Says(s, from, to, <<amount>>)[1]

BestHops(from, to, amount) ==
    LET all == {s \in Range(Operations(trade, TwoHopSources(trade), from, to)) :
                  Works(s, from, to) /\ Hop(s, from, to, amount) > 0}
    IN {s \in all : \A r \in all :
          IF trade.side = "sell" THEN Hop(r, from, to, amount) <= Hop(s, from, to, amount)
          ELSE Hop(s, from, to, amount) <= Hop(r, from, to, amount)}

\* The hop that is chosen first and the one that is chosen for it, with the tokens of each:
\* a sale goes forward, a purchase backward.
ChosenFirst(mid) == IF trade.side = "sell" THEN <<trade.taker, mid>> ELSE <<mid, trade.maker>>
ChosenNext(mid) == IF trade.side = "sell" THEN <<mid, trade.maker>> ELSE <<trade.taker, mid>>

\* The best hop for the amount, and the best one for what that hop gives (wants).
GreedyRoutes(mid) ==
    LET a == ChosenFirst(mid)
        b == ChosenNext(mid)
    IN {[one |-> s, two |-> r, output |-> Hop(r, b[1], b[2], Hop(s, a[1], a[2], trade.amount))] :
          <<s, r>> \in {<<x, y>> \in Range(TwoHopSources(trade)) \X Range(TwoHopSources(trade)) :
             /\ x \in BestHops(a[1], a[2], trade.amount)
             /\ y \in BestHops(b[1], b[2], Hop(x, a[1], a[2], trade.amount))}}

\* The hops that are named are such a route and give the output, and a token that has
\* such a route has a quote.
HopsAreTheirs ==
    LET quotes == UNION {Range(q) : q \in Range(found.twoHopQuotes)}
        route(q) == IF trade.side = "sell"
                    THEN [one |-> q.firstHopSource, two |-> q.secondHopSource, output |-> q.output]
                    ELSE [one |-> q.secondHopSource, two |-> q.firstHopSource, output |-> q.output]
    IN /\ \A q \in quotes : route(q) \in GreedyRoutes(q.mid)
       /\ DidAnswer("twoHops") /\ ~IsMicro =>
            \A mid \in Range(GetIntermediateTokens(trade)) \ trade.revertingMids :
                GreedyRoutes(mid) # {} => \E q \in quotes : q.mid = mid

\* A token's worth is known if a pool of the fee sources gives it for the native token.
RateIsOf(token, op, rate) ==
    LET given(s) == Quote(trade.pools[<<s, NativeToken, token>>].sells, NativeAmount)
        giving == {s \in Range(SellOperations(trade, FeeSources, NativeToken, token)) :
                     Works(s, NativeToken, token) /\ given(s) > 0}
    IN IF token = NativeToken THEN rate = One
       ELSE IF giving = {} \/ ~DidAnswer(op) THEN rate = Zero
       ELSE \E s \in giving :
              /\ rate = Frac(given(s), NativeAmount)
              /\ \A r \in giving : Leq(Frac(given(r), NativeAmount + Fees[r]),
                                       Frac(given(s), NativeAmount + Fees[s]))

\* Input and output are priced as what they are, and orders keep their own amounts.
RatesAndOrdersAreTheirs ==
    LET isSell == trade.side = "sell"
    IN /\ RateIsOf(trade.maker, "makerRate",
                   IF isSell THEN found.outputAmountPerEth ELSE found.inputAmountPerEth)
       /\ RateIsOf(trade.taker, "takerRate",
                   IF isSell THEN found.inputAmountPerEth ELSE found.outputAmountPerEth)
       /\ \A i \in DOMAIN trade.orders :
            LET fillable == found.nativeOrders[i]
                order == trade.orders[i]
            IN /\ (IF isSell THEN fillable.taker ELSE fillable.maker)
                     = (IF order.maker = "null" THEN 0 ELSE order.fillable)
               /\ fillable.maker * order.takerAmount <= fillable.taker * order.makerAmount

(* Every number of the liquidity belongs to the source, the token or the     *)
(* order it is kept for, whichever operations were skipped as constants and  *)
(* whichever calls, at either level of the batch, reverted: samples are of   *)
(* the source's own pool and none that works is missing; a two-hop quote     *)
(* names the two pools that make its output, of which the one that is chosen *)
(* first is the best for the amount and the other the best for what that one *)
(* gives or wants, and a token with such a pair has a quote; rates are those *)
(* of the input and of the output token; each order has its own fillable     *)
(* amount, rounded for the maker.  And what an approximated buy says is to   *)
(* be paid buys the amount, if the pool's rate does not rise with it.        *)
SamplesAreTheirs ==
    samplePc = "done" =>
        IF trade.side = "rate" THEN RateIsOf(trade.maker, "makerRate", found.rate)
        ELSE /\ DexSamplesAreTheirs /\ ApproximationsSuffice
             /\ HopsAreTheirs /\ RatesAndOrdersAreTheirs
=============================================================================
