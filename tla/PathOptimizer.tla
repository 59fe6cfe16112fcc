--------------------------- MODULE PathOptimizer ---------------------------
(***************************************************************************)
(* From the route of the router to the orders of a quote (path_optimizer,  *)
(* fills, path and orders of market_operation_utils).  The router is told  *)
(* of some ways to trade, the routable paths, and answers how much goes    *)
(* over each.  A way is a pool with its samples, a pair of pools (a two-   *)
(* hop), or a signed order.  The input is what the request fixes: the sold *)
(* token of a sell, the bought one of a buy.                               *)
(***************************************************************************)
EXTENDS ExpectedSlippage

CONSTANTS
    Precision,      \* BigNumber's quotients are multiples of 1 / Precision
    Invalid,        \* an output of the router that is not a finite number
    NoPath,         \* undefined
    OutputPerEth, InputPerEth,      \* the prices of the native token, 0 if unknown
    GasPrice,                       \* of gas, in native token
    OverheadOf,                     \* what each feature of the proxy adds, in gas
    NeonRouterNumSamples            \* one more than the samples of a signed order

\* The features that fill from one source; PancakeSwap and its forks are on BSC only.
ONE_SOURCE_FEATURES ==
    {"UniswapV2", "SushiSwap", "PancakeSwap", "PancakeSwapV2", "BakerySwap", "ApeSwap",
     "UniswapV3", "Curve", "Rfq", "Otc"}
OverheadFeatures == ONE_SOURCE_FEATURES \cup {"batch", "batchWithOtc", "multiHop", "transformERC20"}

ASSUME PathAssumption ==
    /\ Precision \in Nat \ {0}
    /\ {OutputPerEth, InputPerEth, GasPrice} \subseteq Nat
    /\ OverheadOf \in [OverheadFeatures -> Nat]
    /\ NeonRouterNumSamples \in Nat \ {0, 1}

SumQ(S(_), seq) == FoldLeft(Plus, Zero, [i \in DOMAIN seq |-> S(seq[i])])

\* The elements of a sequence at some of its indices.
Chosen(seq, indices) == FoldLeft(\o, <<>>, [i \in DOMAIN seq |-> IF i \in indices THEN <<seq[i]>> ELSE <<>>])

-----------------------------------------------------------------------------
(* Fills (fills.ts).  A fill has an input, an output, and an output that is  *)
(* adjusted for the gas it costs.                                            *)

\* What an amount of gas costs, in the output token.
ethToOutputAmount(input, output, gas) ==
    IF OutputPerEth # 0 THEN Num(OutputPerEth * GasPrice * gas)
    ELSE Num(InputPerEth * GasPrice * gas * Trunc(Over(output, input)))

adjustOutput(side, output, penalty) ==
    IF side = "sell" THEN Minus(output, penalty) ELSE Plus(output, penalty)

(* A signed order as input and output.  Orders with a taker fee do not get   *)
(* here: the quoter permits NoFees only (swap_quoter.ts).                    *)
OrderInput(side, o) == IF side = "sell" THEN o.taker ELSE o.maker
OrderOutput(side, o) == IF side = "sell" THEN o.maker ELSE o.taker

nativeOrderToFill(side, way, target) ==
    LET input == Num(OrderInput(side, way.order))
        output == Num(OrderOutput(side, way.order))
        clippedInput == MinOf(Num(target), input)
        clippedOutput == Times(Over(clippedInput, input), output)
    IN [way |-> way, input |-> clippedInput, output |-> clippedOutput,
        adjustedOutput |-> adjustOutput(side, clippedOutput, ethToOutputAmount(input, output, way.gas))]

dexSampleToFill(side, way, sample) ==
    LET input == Num(sample.input)
        output == Num(sample.output)
    IN [way |-> way, input |-> input, output |-> output,
        adjustedOutput |-> adjustOutput(side, output, ethToOutputAmount(input, output, way.gas))]

(* A fill of a pool looks worse by the slippage that is expected of it, if   *)
(* the request asks for that: then the adjustor says how far the price may   *)
(* slip and which tokens are traded.  It rounds the output up, takes the     *)
(* difference off (adds it, for a buy), and rounds again (adjustFills).      *)
adjustFills(side, fill, adjustor) ==
    LET one == [name |-> IF fill.way.kind = "twoHop" THEN "MultiHop" ELSE fill.way.source, proportion |-> One]
        trade == [buyToken |-> adjustor.buyToken, sellToken |-> adjustor.sellToken,
                  buyAmount |-> IF side = "sell" THEN fill.output ELSE fill.input,
                  sellAmount |-> IF side = "sell" THEN fill.input ELSE fill.output]
        gasPenalty == AbsOf(Minus(fill.output, fill.adjustedOutput))
        slippagePenalty(expected) == AbsOf(Minus(fill.output, Num(Ceil(Times(fill.output, Plus(One, expected))))))
        adjusted(expected) ==
            IF expected = NoSlippage THEN fill
            ELSE [fill EXCEPT !.adjustedOutput =
                     Num(HalfUp(adjustOutput(side, fill.output, Plus(gasPenalty, slippagePenalty(expected)))))]
    IN IF adjustor = NoSlippage THEN fill
       ELSE adjusted(calculateExpectedSlippage(trade, <<one>>, adjustor.maxSlippageRate))

createFillFromDexSample(side, way, sample, adjustor) ==
    adjustFills(side, dexSampleToFill(side, way, sample), adjustor)

-----------------------------------------------------------------------------
(* What the router is told: the samples of a pool up to the last one that    *)
(* has an output, if three are left; those of an order, at its own price.    *)

MIN_NUM_SAMPLE_INPUTS == 3

WithOutput(samples) ==
    LET good == {k \in DOMAIN samples : samples[k].output # 0}
    IN SubSeq(samples, 1, IF good = {} THEN 0 ELSE Max(good))

(* getSampleAmounts, and what the sampler answers for each way: its price    *)
(* curve, which may be any function.                                         *)
getSampleAmounts(amount, n) == [i \in 1 .. n |-> Ceil(Frac(amount * i, n))]

SamplesOf(way, amount, n) ==
    [i \in 1 .. n |-> LET input == getSampleAmounts(amount, n)[i]
                      IN [input |-> input, output |-> way.curve[input]]]

NativeSamples(side, amount, order) ==
    LET n == NeonRouterNumSamples - 1
        input == OrderInput(side, order)
        scale == MinOf(Frac(amount, input), One)
        part(x, i) == HalfUp(Times(Times(Num(x), scale), Frac(i, n)))
    IN [i \in 1 .. n |-> [input |-> part(input, i), output |-> part(OrderOutput(side, order), i)]]

(* Pools come first, then two-hops, then orders.                             *)
RoutablePaths(side, amount, ways, n) ==
    LET sampled(w) == SamplesOf(w, amount, n)
        samples(w) == CASE w.kind = "native" -> NativeSamples(side, amount, w.order)
                        [] w.kind = "bridge" -> WithOutput(sampled(w))
                        [] w.kind = "twoHop" -> Chosen(sampled(w), {k \in 1 .. n : sampled(w)[k].output # 0})
        offers == [i \in DOMAIN ways |-> [ways[i] EXCEPT !.samples = samples(ways[i])]]
        usable(w) == w.kind = "bridge" => Len(w.samples) >= MIN_NUM_SAMPLE_INPUTS
        of(kind) == Chosen(offers, {i \in DOMAIN offers : offers[i].kind = kind /\ usable(offers[i])})
    IN of("bridge") \o of("twoHop") \o of("native")

-----------------------------------------------------------------------------
(* The route (createPathFromRoute).  inputs[i] goes over ways[i] and is      *)
(* expected to give outputs[i].                                              *)

(* The router computes with floats and may lose some units of the amount, so *)
(* its inputs are scaled to the amount.  The factor is a rounded quotient.   *)
PrecisionErrorScalar(amount, inputs) ==
    LET total == SumQ(LAMBDA n : Num(n), inputs)
    IN Frac(HalfUp(Over(Num(amount * Precision), total)), Precision)

\* Mutant: rounded down.
RouteInputFloored(amount, inputs, i) ==
    MinOf(Num(Floor(Times(PrecisionErrorScalar(amount, inputs), Num(inputs[i])))), Num(amount))

RouteInputCorrected(amount, inputs, i) ==
    MinOf(Num(Ceil(Times(PrecisionErrorScalar(amount, inputs), Num(inputs[i])))), Num(amount))

(* The sample that stands for an input: the next larger one, with the input  *)
(* and the output of the route; the first or the last one itself if the      *)
(* input is not between samples.                                             *)
SampleFor(samples, input, output) ==
    LET smaller == {k \in DOMAIN samples : Less(Num(samples[k].input), input)}
        k == Cardinality(smaller)
    IN IF k = 0 \/ k = Len(samples)
       THEN IF k = 0 THEN samples[1] ELSE samples[k]
       ELSE [input |-> Floor(input), output |-> output]

DexFill(side, way, input, output, adjustor) ==
    LET fill == createFillFromDexSample(side, way, SampleFor(way.samples, input, output), adjustor)
        maxSampledOutput == Max({way.samples[k].output : k \in DOMAIN way.samples})
        scaleOutput(x) == LET n == HalfUp(x)
                              capped == IF n < maxSampledOutput THEN n ELSE maxSampledOutput
                          IN Num(IF capped < 1 THEN 1 ELSE capped)
    IN [fill EXCEPT !.input = input, !.output = scaleOutput(@),
                    !.adjustedOutput = scaleOutput(@)]

RouteFill(side, amount, ways, route, adjustor, i) ==
    LET input == RouteInputCorrected(amount, route.inputs, i)
    IN IF ways[i].kind = "native" THEN nativeOrderToFill(side, ways[i], Floor(input))
       ELSE DexFill(side, ways[i], input, route.outputs[i], adjustor)

createPathFromRoute(side, amount, ways, route, adjustor) ==
    LET used == {i \in DOMAIN ways : route.inputs[i] # 0 /\ route.outputs[i] # 0}
    IN IF used = {} \/ \E i \in DOMAIN ways : route.outputs[i] = Invalid THEN NoPath
       ELSE Chosen([i \in DOMAIN ways |-> RouteFill(side, amount, ways, route, adjustor, i)], used)

-----------------------------------------------------------------------------
(* The size of a path and the better of two (path.ts, rate_utils.ts).        *)

(* Fills are taken in turn up to the amount; of the one that exceeds it a    *)
(* part is taken, and the whole penalty.                                     *)
AddFill(amount, size, fill) ==
    LET remaining == Minus(Num(amount), size.input)
        scaledOutput == Times(fill.output, Over(remaining, fill.input))
        penalty == Minus(fill.adjustedOutput, fill.output)
    IN IF Less(remaining, fill.input)
       THEN [input |-> Num(amount), output |-> Plus(size.output, Plus(scaledOutput, penalty))]
       ELSE [input |-> Plus(size.input, fill.input), output |-> Plus(size.output, fill.adjustedOutput)]

createAdjustedSize(amount, fills) ==
    FoldLeft(LAMBDA size, fill : AddFill(amount, size, fill), [input |-> Zero, output |-> Zero], fills)

(* What the proxy adds to the gas of the fills depends on the sources of the *)
(* path, of which a two-hop is one, whatever its hops are: it is that of a   *)
(* feature for one source, of a multiplex feature, or of transformERC20.  A  *)
(* quote that may not use the features (NO_VIP) has none of its ways marked  *)
(* as cheap.                                                                 *)
MULTIPLEX_MULTIHOP_FILL_SOURCES == {"UniswapV2", "SushiSwap", "UniswapV3"}
MULTIPLEX_BATCH_FILL_SOURCES == MULTIPLEX_MULTIHOP_FILL_SOURCES \cup {"Rfq", "Otc"}

SourceOf(way) == IF way.kind = "twoHop" THEN "MultiHop" ELSE way.source

OverheadFeature(fills) ==
    LET sources == {SourceOf(fills[i].way) : i \in DOMAIN fills}
        one == {s \in ONE_SOURCE_FEATURES : sources = {s}}
    IN IF \E i \in DOMAIN fills : ~ fills[i].way.cheap THEN "transformERC20"
       ELSE IF one # {} THEN CHOOSE s \in one : TRUE
       ELSE IF sources \subseteq MULTIPLEX_BATCH_FILL_SOURCES
       THEN IF "Otc" \in sources THEN "batchWithOtc" ELSE "batch"
       ELSE IF "MultiHop" \in sources /\ sources \ {"MultiHop"} \subseteq MULTIPLEX_MULTIHOP_FILL_SOURCES
       THEN "multiHop" ELSE "transformERC20"

GasOverhead(fills) == OverheadOf[OverheadFeature(fills)]

adjustedCompleteRate(side, amount, fills) ==
    LET size == createAdjustedSize(amount, fills)
        output == adjustOutput(side, size.output,
                               ethToOutputAmount(size.input, size.output, GasOverhead(fills)))
    IN IF output = Zero THEN Zero
       ELSE IF side = "sell" THEN Over(output, Num(amount))
       ELSE Times(Over(size.input, output), Over(size.input, Num(amount)))

\* Mutant: the rates of incomplete paths are compared as well.
BetterByRate(side, amount, fills, other) ==
    Less(adjustedCompleteRate(side, amount, other), adjustedCompleteRate(side, amount, fills))

isAdjustedBetterThan(side, amount, fills, other) ==
    LET input == createAdjustedSize(amount, fills).input
        otherInput == createAdjustedSize(amount, other).input
    IN IF Less(input, Num(amount)) \/ Less(otherInput, Num(amount)) THEN Less(otherInput, input)
       ELSE Less(adjustedCompleteRate(side, amount, other), adjustedCompleteRate(side, amount, fills))

(* Of the path over all ways and the one over the ways the proxy fills at a  *)
(* low overhead, the better one (findOptimalPathFromSamples).                *)
findOptimalPath(side, amount, all, vip) ==
    IF all = NoPath \/ (vip # NoPath /\ isAdjustedBetterThan(side, amount, vip, all)) THEN vip ELSE all

-----------------------------------------------------------------------------
(* The orders of a path, and what slippage leaves of them (orders.ts).       *)

makerAmount(side, fill) == IF side = "sell" THEN Num(Floor(fill.output)) ELSE fill.input
takerAmount(side, fill) == IF side = "sell" THEN fill.input ELSE Num(Ceil(fill.output))

OrderOf(side, fill) ==
    [way |-> fill.way, fill |-> fill,
     maker |-> makerAmount(side, fill), taker |-> takerAmount(side, fill)]

OrdersOf(side, fills, kind) ==
    Chosen([i \in DOMAIN fills |-> OrderOf(side, fills[i])], {i \in DOMAIN fills : fills[i].way.kind = kind})

SlipOrder(side, slippage, order) ==
    IF order.way.kind = "native" THEN order
    ELSE IF side = "sell"
    THEN [order EXCEPT !.maker = Num(Floor(Times(@, Minus(One, slippage))))]
    ELSE [order EXCEPT !.taker = Num(Ceil(Times(@, Plus(One, slippage))))]
=============================================================================
