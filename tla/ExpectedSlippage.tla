-------------------------- MODULE ExpectedSlippage --------------------------
(***************************************************************************)
(* The slippage that the models predict (slippage_model_manager.ts), as a  *)
(* rate between zero and minus the slippage the request allows.  A fill is *)
(* made to look worse by it when paths are compared                        *)
(* (slippage_model_fill_adjustor.ts), and the answer shows the average     *)
(* over its sources.  How the models get into memory is in SlippageModel.  *)
(***************************************************************************)
EXTENDS Rationals, SequencesExt

CONSTANTS
    SlippageModels,     \* the list in the file
    TokenOrder,         \* the tokens, in the order of their addresses
    BasePoints,         \* ONE_IN_BASE_POINTS
    NoSlippage          \* null: there is no model to predict with

ASSUME ModelsAssumption ==
    /\ BasePoints \in Nat
    /\ SlippageModels \in Seq(Range(SlippageModels))
    /\ \A m \in Range(SlippageModels) : {m.slippageCoefficient, m.volumeCoefficient, m.intercept} \subseteq Rat

\* pairUtils.toKey: the tokens of a pair in order.
toKey(a, b) == SelectSeq(TokenOrder, LAMBDA t : t \in {a, b})

\* createSlippageModelCache drops a model whose tokens are not in order, and
\* keeps the last one of a pair and a source.
ModelsOf(a, b, source) ==
    {i \in DOMAIN SlippageModels : /\ <<SlippageModels[i].token0, SlippageModels[i].token1>> = toKey(a, b)
                                   /\ SlippageModels[i].source = source}

\* Mutant: the prediction is not limited by what the request allows.
PredictedWithoutLimit(token0Amount, maxSlippageRate, m) ==
    MinOf(Zero, Plus(Times(Times(maxSlippageRate, Num(BasePoints)), m.slippageCoefficient),
                     Plus(Times(token0Amount, m.volumeCoefficient), m.intercept)))

\* calculateExpectedSlippageForModel; the coefficient of the volume includes
\* the price of token0.
ExpectedSlippageForModel(token0Amount, maxSlippageRate, m) ==
    LET volumeTerm == Times(token0Amount, m.volumeCoefficient)
        slippageTerm == Times(Times(maxSlippageRate, Num(BasePoints)), m.slippageCoefficient)
        expected == Plus(slippageTerm, Plus(volumeTerm, m.intercept))
    IN MinOf(Zero, MaxOf(expected, Neg(maxSlippageRate)))

\* _calculateSingleSourceExpectedSlippage, for a trade [buyToken, sellToken,
\* buyAmount, sellAmount] of which the source has a share.  Signed orders do
\* not slip.
SingleSourceExpectedSlippage(trade, source, maxSlippageRate) ==
    LET models == ModelsOf(trade.buyToken, trade.sellToken, source.name)
        amount(m) == IF m.token0 = trade.buyToken THEN trade.buyAmount ELSE trade.sellAmount
        predicted(m) == ExpectedSlippageForModel(Times(source.proportion, amount(m)), maxSlippageRate, m)
    IN IF source.name = "0x" THEN Zero
       ELSE IF models = {} THEN NoSlippage
       ELSE Times(source.proportion, predicted(SlippageModels[Max(models)]))

\* calculateExpectedSlippage: the average over the sources, if all have a model.
calculateExpectedSlippage(trade, sources, maxSlippageRate) ==
    LET total(rates) == IF NoSlippage \in Range(rates) THEN NoSlippage ELSE FoldLeft(Plus, Zero, rates)
    IN total([i \in DOMAIN sources |->
                 IF sources[i].proportion = Zero THEN Zero
                 ELSE SingleSourceExpectedSlippage(trade, sources[i], maxSlippageRate)])
=============================================================================
