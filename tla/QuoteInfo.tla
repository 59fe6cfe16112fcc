----------------------------- MODULE QuoteInfo -----------------------------
(***************************************************************************)
(* What a quote promises (quote_simulation.ts, quote_info.ts): the amounts *)
(* of the best case, in which every order gives what it was sampled to     *)
(* give, and of the worst case, in which the price slips as far as the     *)
(* request allows.                                                         *)
(***************************************************************************)
EXTENDS PathOptimizer

CONSTANTS
    ProtocolFee,        \* the fee for each limit order, in native token
    SigDigits           \* PERCENTAGE_SIG_DIGITS

-----------------------------------------------------------------------------
(* Filling the single-hop orders in turn (fillQuoteOrders).                  *)

\* The source by which an order is known in the answer.
ExternalName(way) == IF way.kind = "native" THEN "0x" ELSE way.source

AddBySource(bySource, way, input) ==
    LET name == ExternalName(way)
    IN [s \in DOMAIN bySource \cup {name} |->
           Plus(IF s \in DOMAIN bySource THEN bySource[s] ELSE Zero, IF s = name THEN input ELSE Zero)]

\* Mutant: an order is filled as a whole although less remains.
FillWholeOrder(result, order) ==
    IF Leq(result.remaining, Zero) THEN result
    ELSE [input |-> Plus(result.input, order.fill.input),
          output |-> Plus(result.output, order.fill.output),
          remaining |-> Minus(result.remaining, order.fill.input),
          gas |-> result.gas + order.way.gas,
          protocolFee |-> result.protocolFee + (IF order.way.source = "Limit" THEN ProtocolFee ELSE 0),
          bySource |-> AddBySource(result.bySource, order.way, order.fill.input)]

\* The orders have no taker fees, and solveForInputFillAmount is a minimum.
FillOrder(result, order) ==
    LET input == MinOf(order.fill.input, result.remaining)
        output == Times(order.fill.output, Over(input, order.fill.input))
    IN IF Leq(result.remaining, Zero) THEN result
       ELSE [input |-> Plus(result.input, input),
             output |-> Plus(result.output, output),
             remaining |-> Minus(result.remaining, input),
             gas |-> result.gas + order.way.gas,
             protocolFee |-> result.protocolFee + (IF order.way.source = "Limit" THEN ProtocolFee ELSE 0),
             bySource |-> AddBySource(result.bySource, order.way, input)]

fillQuoteOrders(amount, orders) ==
    FoldLeft(FillOrder,
             [input |-> Zero, output |-> Zero, remaining |-> Num(amount), gas |-> 0, protocolFee |-> 0,
              bySource |-> <<>>],
             orders)

\* Mutant: the promise of a sell forgets the slippage.
SlipBuysOnly(side, slippage, output) ==
    IF side = "sell" THEN Floor(output) ELSE Ceil(Times(output, Plus(One, slippage)))

\* Mutant: slippage lowers the output on either side.
SlipDown(side, slippage, output) ==
    IF side = "sell" THEN Floor(Times(output, Minus(One, slippage)))
    ELSE Ceil(Times(output, Minus(One, slippage)))

(* The output of the worst case: less for a sell, more for a buy, rounded    *)
(* against the taker.                                                        *)
Slip(side, slippage, output) ==
    IF side = "sell" THEN Floor(Times(output, Minus(One, slippage)))
    ELSE Ceil(Times(output, Plus(One, slippage)))

(* The input is rounded up for a sell and down for a buy, the output the     *)
(* other way round.                                                          *)
RoundInput(side, input) == IF side = "sell" THEN Ceil(input) ELSE Floor(input)

Info(side, input, output, gas, protocolFee) ==
    [maker |-> IF side = "sell" THEN output ELSE input,
     taker |-> IF side = "sell" THEN input ELSE output,
     gas |-> gas, protocolFee |-> protocolFee]

simulateBestCaseFill(side, amount, orders) ==
    LET result == fillQuoteOrders(amount, orders)
    IN Info(side, RoundInput(side, result.input), Slip(side, Zero, result.output),
            result.gas, result.protocolFee)

\* In the worst case every order is hit.
simulateWorstCaseFill(side, amount, slippage, orders) ==
    LET result == fillQuoteOrders(amount, orders)
        limits == {i \in DOMAIN orders : orders[i].way.source = "Limit"}
    IN Info(side, RoundInput(side, result.input), Slip(side, slippage, result.output),
            FoldLeft(LAMBDA g, o : g + o.way.gas, 0, orders), ProtocolFee * Cardinality(limits))

-----------------------------------------------------------------------------
(* A two-hop order sells the taker amount of its first hop and buys the      *)
(* maker amount of its second.  The worst case of a sell is rounded to the   *)
(* nearest integer here.                                                     *)

TwoHopBest(o) == [maker |-> Floor(o.maker), taker |-> Floor(o.taker), gas |-> o.way.gas, protocolFee |-> 0]

TwoHopWorst(side, slippage, o) ==
    LET best == TwoHopBest(o)
    IN IF side = "sell"
       THEN [best EXCEPT !.maker = HalfUp(Times(Num(@), Minus(One, slippage)))]
       ELSE [best EXCEPT !.taker = Ceil(Times(Num(@), Plus(One, slippage)))]

mergeSwapQuoteInfos(infos) ==
    FoldLeft(LAMBDA x, y : [k \in DOMAIN x |-> x[k] + y[k]],
             [maker |-> 0, taker |-> 0, gas |-> 0, protocolFee |-> 0], infos)

(* The share of each source (calculateSwapQuoteOrdersBreakdown): its part of *)
(* all that is filled.  The amount of a two-hop is the one it sells, also on *)
(* a buy, where those of the others are bought.                              *)
Shares(amounts, total) ==
    [i \in DOMAIN amounts |-> [name |-> amounts[i].name, proportion |-> Over(amounts[i].amount, total)]]

\* Mutant: the shares of the two-hops are left out of the total.
BreakdownOfSingles(side, single, twoHops) ==
    LET bySource == single.bySource
        names == SetToSeq(DOMAIN bySource)
        singles == [i \in DOMAIN names |->
                       [name |-> names[i], amount |-> Num(RoundInput(side, bySource[names[i]]))]]
        multihop == [i \in DOMAIN twoHops |-> [name |-> "MultiHop", amount |-> twoHops[i].taker]]
        total == SumQ(LAMBDA x : x.amount, singles)
    IN Shares(singles \o multihop, IF total = Zero THEN One ELSE total)

calculateSwapQuoteOrdersBreakdown(side, single, twoHops) ==
    LET bySource == single.bySource
        names == SetToSeq(DOMAIN bySource)
        singles == [i \in DOMAIN names |->
                       [name |-> names[i], amount |-> Num(RoundInput(side, bySource[names[i]]))]]
        multihop == [i \in DOMAIN twoHops |-> [name |-> "MultiHop", amount |-> twoHops[i].taker]]
    IN Shares(singles \o multihop, SumQ(LAMBDA x : x.amount, singles \o multihop))

\* convertToLiquiditySources; the sources of the answer with no share are left
\* out here.
convertToLiquiditySources(breakdown) ==
    [i \in DOMAIN breakdown |-> [breakdown[i] EXCEPT !.proportion = ToPrecision(@, SigDigits)]]

calculateQuoteInfo(side, amount, slippage, fills) ==
    LET single == OrdersOf(side, fills, "native") \o OrdersOf(side, fills, "bridge")
        twoHops == OrdersOf(side, fills, "twoHop")
    IN [best |-> mergeSwapQuoteInfos(<<simulateBestCaseFill(side, amount, single)>>
                     \o [i \in DOMAIN twoHops |-> TwoHopBest(twoHops[i])]),
        worst |-> mergeSwapQuoteInfos(<<simulateWorstCaseFill(side, amount, slippage, single)>>
                     \o [i \in DOMAIN twoHops |-> TwoHopWorst(side, slippage, twoHops[i])]),
        breakdown |-> calculateSwapQuoteOrdersBreakdown(side, fillQuoteOrders(amount, single), twoHops)]
=============================================================================
