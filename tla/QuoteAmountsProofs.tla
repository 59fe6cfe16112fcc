------------------------- MODULE QuoteAmountsProofs -------------------------
(***************************************************************************)
(* The amounts of a quote, for all requests, liquidity and answers of the  *)
(* router.  There are five invariants, each resting on the ones before:    *)
(* AmountsInv, what each stage knows about its numbers; QuoteInv, that the *)
(* numbers of different stages belong to one another; ImpactInv, that the  *)
(* answer is within the price impact the request allows; TradeInv, that    *)
(* transaction, value, sources and both cases are those of the path;       *)
(* SentInv, that the answer sends what was calculated.  The last parts     *)
(* rest on them and on the operators alone: the execution of the           *)
(* transaction (fees are delivered, the wallet is emptied); the orders     *)
(* that slip as far as they may (the promise); the shares of the sources   *)
(* and the expected slippage.                                              *)
(***************************************************************************)
EXTENDS AmountTheorems

-----------------------------------------------------------------------------
(* The states of a request.                                                  *)

Trading == {"routed", "path", "priced", "encoded", "estimated"}

ParametersAreValid ==
    stage \in {"parsed", "done"} \cup Trading =>
        /\ par.side \in {"sell", "buy"} /\ par.amount = req.amount
        /\ par.slippage \in NonNeg /\ Leq(par.slippage, One) /\ par.impact \in NonNeg
        /\ par.affiliate.percentage \in NonNeg /\ Leq(par.affiliate.percentage, One)
        /\ FeeConfigsInv(par.feeConfigs)

LiquidityIsKnown ==
    /\ stage \in {"new", "parsed", "routed"} => AreWays(ways, 2 * req.amount)
    /\ stage \in Trading => amount \in 0 .. (2 * req.amount)
    /\ stage \in Trading \ {"routed"} => amount > 1
    /\ stage \in {"path", "priced"} =>
           AreOffers(ways) /\ IsRoute(routes.all, ways, amount) /\ IsRoute(routes.vip, ways, amount)

PathIsPriced ==
    /\ stage = "priced" =>
           path # NoPath /\ path = findOptimalPath(par.side, amount, PathOver(routes.all), PathOver(routes.vip))
    /\ stage \in {"priced", "encoded", "estimated"} =>
           /\ ArePathFills(path, amount)
           /\ IsInfo(info.best) /\ IsInfo(info.worst) /\ Worse(info.worst, info.best)

QuoteGas == IF par.side = "sell" THEN AverageGas ELSE info.worst.gas
SellPerWei == IF par.side = "sell" THEN PerWei ELSE Num(OutputPerEth)

FeesAreRight ==
    /\ FeesInv(fees)
    /\ stage \in {"new", "parsed"} => fees = NoFees
    /\ stage \in {"routed", "path", "priced"} /\ par.side = "buy" => fees = NoFees
    /\ GasIsCovered(fees, SellPerWei, GasPrice, QuoteGas, GasPerTransfer)
    /\ stage \in {"done"} \cup Trading /\ par.side = "sell" /\ ~ par.wrap /\ ~ par.unwrap =>
           SellTokenFeeAmount(fees) < par.amount

AmountsInv ==
    /\ IsRequest(req)
    /\ ParametersAreValid
    /\ LiquidityIsKnown
    /\ PathIsPriced
    /\ FeesAreRight

(* Fees of nobody are consistent.                                            *)
LEMMA NothingCharged ==
    /\ FeesInv(NoFees) /\ FeeConfigsInv(NoFees)
    /\ \A a, b, c, d : GasIsCovered(NoFees, a, b, c, d)
<1>1. DOMAIN NoFees = FeeKinds /\ \A k \in FeeKinds : NoFees[k] = NoFee
  BY DEF NoFees, FeeKinds
<1>2. FeesInv(NoFees)
  BY <1>1 DEF FeesInv, FeeKinds
<1>3. FeeConfigsInv(NoFees)
  BY DEF FeeConfigsInv, Accepted, NoFees, FeeTypes
<1>4. \A a, b, c, d : GasIsCovered(NoFees, a, b, c, d)
  BY <1>1 DEF GasIsCovered, Charged, BilledOnChain, FeeKinds
<1>. QED  BY <1>2, <1>3, <1>4

IsParameters(p, r) ==
    /\ p.side \in {"sell", "buy"} /\ p.amount = r.amount
    /\ p.slippage \in NonNeg /\ Leq(p.slippage, One) /\ p.impact \in NonNeg
    /\ p.affiliate.percentage \in NonNeg /\ Leq(p.affiliate.percentage, One)
    /\ FeeConfigsInv(p.feeConfigs)

(* The parameters of a request that the handlers accept are within their     *)
(* limits: percentages are at most one, and fees have a known type.          *)
LEMMA AcceptedIsValid ==
    ASSUME NEW r, IsRequest(r), RequestAccepted(r)
    PROVE  IsParameters(Params(r), r)
<1>1. Zero \in NonNeg /\ Leq(Zero, One) /\ One \in Rat /\ One \in NonNeg
  BY NumIsRat DEF Leq, Zero, One, Num
<1>2. DefaultSlippage \in NonNeg
  BY NumbersAssumption
<1>3. CASE r.route = "swap"
  <2>. DEFINE p == SwapParams(r)
  <2>1. Params(r) = p /\ SwapAccepted(r)
    BY <1>3 DEF Params, RequestAccepted
  <2>2. /\ p.side = r.side /\ p.amount = r.amount /\ p.slippage = Given(r.slippage, DefaultSlippage)
        /\ p.affiliate.percentage = r.affiliate.percentage /\ p.feeConfigs = NoFees
        /\ p.impact = Given(r.impact, One)
    BY DEF SwapParams, parseAffiliateFeeOptions
  <2>3. Leq(p.slippage, One) /\ Leq(p.affiliate.percentage, One)
    BY <2>1, <2>2 DEF SwapAccepted, AffiliateFeeAccepted
  <2>4. p.slippage \in NonNeg /\ p.impact \in NonNeg
    BY <1>1, <1>2, <2>2 DEF Given, IsRequest
  <2>. HIDE DEF p
  <2>. QED  BY <2>1, <2>2, <2>3, <2>4, NothingCharged DEF IsParameters, IsRequest
<1>4. CASE r.route # "swap"
  <2>. DEFINE p == MtxParams(r)
  <2>1. Params(r) = p /\ MtxAccepted(r)
    BY <1>4 DEF Params, RequestAccepted
  <2>2. /\ p.side = r.side /\ p.amount = r.amount /\ p.slippage = MtxSlippage(r)
        /\ p.affiliate.percentage = Zero /\ p.impact = Given(r.impact, One)
        /\ p.feeConfigs = IF r.route = "mtxV1" THEN NoFees ELSE r.feeConfigs
    BY DEF MtxParams, MtxAffiliateFee
  <2>3. p.slippage \in NonNeg /\ p.impact \in NonNeg
    BY <1>1, <1>2, <2>2 DEF MtxSlippage, Given, IsRequest
  <2>4. Leq(p.slippage, One)
    <3>1. Less(p.slippage, One)
      BY <2>1, <2>2 DEF MtxAccepted
    <3>. QED  BY <1>1, <2>3, <3>1, LeqIsTotal, NumIsRat
  <2>5. r.route # "mtxV1" => FeeConfigsInv(r.feeConfigs)
    BY <2>1 DEF MtxAccepted, FeeConfigsInv, IsRequest
  <2>. HIDE DEF p
  <2>. QED  BY <1>1, <2>1, <2>2, <2>3, <2>4, <2>5, NothingCharged DEF IsParameters, IsRequest
<1>. QED  BY <1>3, <1>4

(* A request that has not been read satisfies the first invariant.           *)
LEMMA InitAmounts == Init => AmountsInv
<1>. SUFFICES ASSUME Init PROVE AmountsInv
  OBVIOUS
<1>1. PICK s \in Scenarios : req = s.req /\ ways = s.ways
  BY DEF Init
<1>2. IsRequest(req) /\ AreWays(ways, 2 * req.amount)
  BY <1>1, ScenariosAssumption DEF AreWays
<1>3. stage = "new" /\ fees = NoFees
  BY DEF Init
<1>4. ParametersAreValid /\ PathIsPriced
  BY <1>3 DEF ParametersAreValid, PathIsPriced, Trading
<1>5. LiquidityIsKnown
  BY <1>2, <1>3 DEF LiquidityIsKnown, Trading
<1>6. FeesAreRight
  BY <1>3, NothingCharged DEF FeesAreRight, Trading
<1>. QED  BY <1>2, <1>4, <1>5, <1>6 DEF AmountsInv

(* Parsing a request keeps it.                                               *)
LEMMA ParseKeeps == ASSUME AmountsInv, Parse PROVE AmountsInv'
<1>1. /\ stage = "new" /\ req' = req /\ ways' = ways /\ fees' = NoFees /\ fees = NoFees
      /\ IsRequest(req) /\ AreWays(ways, 2 * req.amount)
  BY DEF Parse, AmountsInv, FeesAreRight, LiquidityIsKnown
<1>2. stage' \in {"invalid", "done", "parsed"}
  BY DEF Parse
<1>3. stage' # "invalid" => RequestAccepted(req) /\ par' = Params(req)
  BY DEF Parse
<1>4. stage' = "done" => par'.wrap \/ par'.unwrap
  BY DEF Parse
<1>5. IsRequest(req)'
  BY <1>1
<1>6. ParametersAreValid'
  <2>1. stage' # "invalid" => IsParameters(par', req')
    BY <1>1, <1>3, AcceptedIsValid
  <2>. QED  BY <1>2, <2>1 DEF ParametersAreValid, IsParameters, Trading
<1>7. LiquidityIsKnown'
  BY <1>1, <1>2 DEF LiquidityIsKnown, Trading
<1>8. PathIsPriced'
  BY <1>2 DEF PathIsPriced
<1>9. FeesAreRight'
  BY <1>1, <1>2, <1>4, NothingCharged DEF FeesAreRight, Trading
<1>. QED  BY <1>5, <1>6, <1>7, <1>8, <1>9 DEF AmountsInv

(* The fees in the sold token are those of calculateFees.                    *)
LEMMA SellFeesAreRight ==
    ASSUME IsParameters(par, req), NEW sold \in Nat, NEW g \in Nat
    PROVE  /\ FeesInv(SellTokenFees(sold, g))
           /\ GasIsCovered(SellTokenFees(sold, g), SellPerWei, GasPrice, g, GasPerTransfer)
<1>1. FeeConfigsInv(par.feeConfigs) /\ par.side \in {"sell", "buy"}
  BY DEF IsParameters
<1>2. SellPerWei \in NonNeg
  <2>1. Num(OutputPerEth) \in NonNeg
    BY PathAssumption, NumIsRat
  <2>. QED  BY <2>1, NumbersAssumption DEF SellPerWei
<1>3. GasPrice \in Nat /\ GasPerTransfer \in Nat
  BY PathAssumption, NumbersAssumption DEF GasPerTransfer
<1>4. SellTokenFees(sold, g) = calculateFees(par.feeConfigs, sold, SellPerWei, GasPrice, g, GasPerTransfer)
  BY DEF SellTokenFees, SellPerWei
<1>. QED  BY <1>1, <1>2, <1>3, <1>4, CalculatedFees

(* A percentage of at most one on top of an amount, rounded down, leaves at  *)
(* least the amount and at most doubles it.                                  *)
LEMMA AmountToBuy ==
    ASSUME NEW n \in Nat, NEW p \in NonNeg, Leq(p, One)
    PROVE  Floor(Times(Num(n), Plus(One, p))) \in n .. (2 * n)
<1>. DEFINE q == Plus(One, p)
            x == Times(Num(n), q)
<1>1. p \in Rat /\ One \in Rat /\ One \in NonNeg /\ Num(n) \in NonNeg /\ Num(n) \in Rat /\ Num(2) \in Rat /\ Num(2 * n) \in Rat
  BY NumIsRat DEF One
<1>2. q \in NonNeg /\ Leq(One, q) /\ q \in Rat
  BY SlippageFactors, NumIsRat
<1>3. Leq(q, Num(2))
  <2>1. Leq(q, Plus(One, One))
    BY <1>1, PlusIsMonotone
  <2>2. Plus(Num(1), Num(1)) = Num(1 + 1)
    BY PlusOfInts
  <2>. QED  BY <2>1, <2>2 DEF One
<1>. HIDE DEF q
<1>4. x \in NonNeg /\ x \in Rat
  BY <1>1, <1>2, NonNegIsClosed, NumIsRat
<1>5. Leq(Num(n), x)
  BY <1>1, <1>2, ShareIsSmaller
<1>6. Leq(x, Num(2 * n))
  <2>. DEFINE t == Times(Num(n), Num(2))
  <2>1. Leq(x, t)
    BY <1>1, <1>2, <1>3, TimesIsMonotone
  <2>2. IsFrac(t, n * 2, 1 * 1)
    <3>1. Num(n)[1] = n /\ Num(n)[2] = 1 /\ Num(2)[1] = 2 /\ Num(2)[2] = 1
      BY NumIsRat
    <3>. QED  BY <1>1, <3>1, TimesValue
  <2>3. IsFrac(Num(2 * n), 2 * n, 1)
    BY DEF IsFrac, Num, Rat
  <2>. HIDE DEF t
  <2>4. t \in Rat
    BY <2>2 DEF IsFrac
  <2>5. Leq(t, Num(2 * n))
    <3>. DEFINE a == n * 2
                b == 2 * n
    <3>1. a \in Int /\ b \in Int /\ a = b /\ IsFrac(t, a, 1) /\ IsFrac(Num(2 * n), b, 1)
      BY <2>2, <2>3
    <3>. HIDE DEF a, b
    <3>2. Leq(t, Num(2 * n)) <=> a * 1 <= b * 1
      BY <3>1, FracLeq
    <3>. QED  BY <3>1, <3>2
  <2>. HIDE DEF x
  <2>. QED  BY <1>1, <1>4, <2>1, <2>4, <2>5, LeqIsTransitive
<1>. HIDE DEF x
<1>7. Floor(x) \in Int /\ n <= Floor(x)
  BY <1>4, <1>5, FloorIsBelow
<1>8. Floor(x) <= 2 * n
  <2>1. Floor(x) <= Floor(Num(2 * n))
    BY <1>1, <1>4, <1>6, RoundingIsMonotone
  <2>2. Floor(Num(2 * n)) = 2 * n
    BY RoundingOfInt
  <2>. QED  BY <2>1, <2>2
<1>. QED  BY <1>7, <1>8 DEF x, q

(* Ways remain ways when the features of the proxy are not to be counted on. *)
LEMMA CheapWays ==
    ASSUME NEW ws, NEW n, AreWays(ws, n)
    PROVE  AreWays([i \in DOMAIN ws |-> [ws[i] EXCEPT !.cheap = FALSE]], n)
<1>. DEFINE w(i) == [ws[i] EXCEPT !.cheap = FALSE]
            us == [i \in DOMAIN ws |-> w(i)]
            S == {w(i) : i \in DOMAIN ws}
            len == Len(ws)
<1>1. DOMAIN ws = 1 .. len /\ len \in Nat
  BY DEF AreWays
<1>2. ASSUME NEW i \in DOMAIN ws PROVE IsWay(w(i)) /\ Reaches(w(i), n)
  <2>1. IsWay(ws[i]) /\ Reaches(ws[i], n)
    BY DEF AreWays
  <2>2. DOMAIN ws[i] = {"kind", "source", "vip", "cheap", "gas", "curve", "samples", "order"}
    BY <2>1 DEF IsWay
  <2>3. /\ DOMAIN w(i) = DOMAIN ws[i] /\ w(i).kind = ws[i].kind /\ w(i).gas = ws[i].gas
        /\ w(i).order = ws[i].order /\ w(i).curve = ws[i].curve /\ w(i).source = ws[i].source
    BY <2>2
  <2>. HIDE DEF w
  <2>. QED  BY <2>1, <2>3 DEF IsWay, Reaches
<1>. HIDE DEF w, len
<1>3. us \in [1 .. len -> S] /\ \A i \in 1 .. len : us[i] = w(i)
  BY <1>1
<1>4. DOMAIN us = 1 .. len
  BY <1>1
<1>. HIDE DEF S, us
<1>5. us \in Seq(S)
  BY <1>1, <1>3, SeqDef
<1>6. us \in Seq(Range(us))
  BY <1>5, IsSeqOfRange
<1>7. AreWays(us, n)
  BY <1>1, <1>2, <1>3, <1>4, <1>6 DEF AreWays
<1>. QED  BY <1>7 DEF us, w

(* Taking the fees off, or adding the percentage, keeps the first invariant. *)
LEMMA StartKeeps == ASSUME AmountsInv, Start PROVE AmountsInv'
<1>1. stage = "parsed" /\ req' = req /\ par' = par /\ IsRequest(req) /\ AreWays(ways, 2 * req.amount)
  BY DEF Start, AmountsInv, LiquidityIsKnown
<1>2. IsParameters(par, req) /\ par.amount \in Nat /\ par.amount = req.amount
  BY <1>1 DEF AmountsInv, ParametersAreValid, IsParameters, IsRequest
<1>3. stage' \in {"insufficientFunds", "routed"}
  BY DEF Start
<1>4. AverageGas \in Nat
  BY NumbersAssumption
<1>5. /\ FeesInv(fees')
      /\ par.side = "buy" => fees' = NoFees
      /\ GasIsCovered(fees', SellPerWei, GasPrice, QuoteGas', GasPerTransfer)
  <2>1. CASE par.side = "sell"
    <3>1. fees' = SellTokenFees(par.amount, AverageGas) /\ QuoteGas' = AverageGas
      BY <1>1, <2>1 DEF Start, QuoteGas
    <3>. QED  BY <1>2, <1>4, <2>1, <3>1, SellFeesAreRight
  <2>2. CASE par.side # "sell"
    BY <2>2, NothingCharged DEF Start
  <2>. QED  BY <2>1, <2>2
<1>6. SellPerWei' = SellPerWei /\ GasPerTransfer' = GasPerTransfer
  BY <1>1 DEF SellPerWei, GasPerTransfer
<1>. DEFINE fee == SellTokenFeeAmount(fees')
<1>7. fee \in Nat
  BY <1>5, TransfersAddUp DEF SellTokenFeeAmount
<1>8. /\ stage' = "routed" /\ par.side = "sell" => fee < par.amount /\ amount' = par.amount - fee
      /\ stage' = "routed" /\ par.side # "sell" =>
             amount' = Floor(Times(Num(par.amount), Plus(One, BuyTokenPercentage)))
  <2>1. IF par.side = "sell" /\ par.amount <= fee THEN stage' = "insufficientFunds"
        ELSE amount' = IF par.side = "sell" THEN par.amount - fee
                       ELSE Floor(Times(Num(par.amount), Plus(One, BuyTokenPercentage)))
    BY DEF Start
  <2>. HIDE DEF fee
  <2>. QED  BY <1>2, <1>7, <2>1
<1>9. stage' = "routed" => amount' \in 0 .. (2 * req.amount)
  <2>1. CASE par.side = "sell"
    <3>. HIDE DEF fee
    <3>. QED  BY <1>2, <1>7, <1>8, <2>1
  <2>2. CASE par.side # "sell"
    <3>1. BuyTokenPercentage \in NonNeg /\ Leq(BuyTokenPercentage, One)
      <4>1. Zero \in NonNeg /\ Leq(Zero, One)
        BY NumIsRat DEF Leq, Zero, One, Num
      <4>. QED  BY <1>2, <4>1 DEF BuyTokenPercentage, IsParameters
    <3>2. Floor(Times(Num(par.amount), Plus(One, BuyTokenPercentage))) \in par.amount .. (2 * par.amount)
      BY <1>2, <3>1, AmountToBuy
    <3>. QED  BY <1>2, <1>8, <2>2, <3>2
  <2>. QED  BY <2>1, <2>2
<1>10. AreWays(ways', 2 * req.amount)
  <2>1. ways' = [i \in DOMAIN ways |-> [ways[i] EXCEPT !.cheap = FALSE]] \/ ways' = ways
    BY DEF Start
  <2>. QED  BY <1>1, <2>1, CheapWays
<1>11. ParametersAreValid'
  BY <1>1, <1>2 DEF ParametersAreValid, IsParameters
<1>12. LiquidityIsKnown'
  BY <1>1, <1>3, <1>9, <1>10 DEF LiquidityIsKnown, Trading
<1>13. PathIsPriced'
  BY <1>3 DEF PathIsPriced
<1>14. FeesAreRight'
  BY <1>1, <1>3, <1>5, <1>6, <1>8 DEF FeesAreRight, Trading, SellTokenFeeAmount
<1>. QED  BY <1>1, <1>11, <1>12, <1>13, <1>14 DEF AmountsInv

(* The router's answer keeps it.                                             *)
LEMMA RouteKeeps == ASSUME AmountsInv, Route PROVE AmountsInv'
<1>1. /\ stage = "routed" /\ req' = req /\ par' = par /\ fees' = fees /\ info' = info /\ amount' = amount
      /\ IsRequest(req) /\ AreWays(ways, 2 * req.amount) /\ amount \in 0 .. (2 * req.amount)
  BY DEF Route, AmountsInv, LiquidityIsKnown, Trading
<1>2. stage' \in {"noOptimalPath", "path"}
  BY DEF Route
<1>. DEFINE offers == RoutablePaths(par.side, amount, ways, NumSamples)
            vip == RoutesOver(offers, {i \in DOMAIN offers : offers[i].vip})
<1>3. stage' = "path" =>
        /\ ~ (amount <= 1) /\ ways' = offers
        /\ \E a \in RoutesOver(offers, DOMAIN offers) \cup {FailedRoute(offers)},
              v \in IF vip = {} THEN {NoRoute(offers)} ELSE vip : routes' = [all |-> a, vip |-> v]
  BY DEF Route
<1>4. ASSUME stage' = "path"
      PROVE  amount > 1 /\ AreOffers(ways') /\ IsRoute(routes'.all, ways', amount) /\ IsRoute(routes'.vip, ways', amount)
  <2>1. amount \in Nat \ {0} /\ amount > 1 /\ amount <= 2 * req.amount /\ req.amount \in Nat
    BY <1>1, <1>3, <1>4 DEF IsRequest
  <2>2. AreWays(ways, amount)
    BY <1>1, <2>1 DEF AreWays, Reaches
  <2>3. NumSamples \in Nat \ {0} /\ LostUnits \subseteq Nat
    BY NumbersAssumption
  <2>4. AreOffers(offers)
    BY <2>1, <2>2, <2>3, RoutablePathsAreOffers
  <2>5. PICK a \in RoutesOver(offers, DOMAIN offers) \cup {FailedRoute(offers)},
             v \in IF vip = {} THEN {NoRoute(offers)} ELSE vip : routes' = [all |-> a, vip |-> v]
    BY <1>3, <1>4
  <2>. DEFINE usable == {i \in DOMAIN offers : offers[i].vip}
  <2>6. v \in RoutesOver(offers, usable) \cup {NoRoute(offers)}
    OBVIOUS
  <2>7. ways' = offers
    BY <1>3, <1>4
  <2>. HIDE DEF offers, usable, vip
  <2>8. \A u : \A r \in RoutesOver(offers, u) : IsRoute(r, offers, amount)
    BY <2>1, <2>3, <2>4, RoutesAreRoutes
  <2>9. IsRoute(NoRoute(offers), offers, amount) /\ IsRoute(FailedRoute(offers), offers, amount)
    BY <2>1, <2>4, NoRouteIsRoute
  <2>10. IsRoute(a, offers, amount) /\ IsRoute(v, offers, amount)
    BY <2>6, <2>8, <2>9
  <2>11. routes'.all = a /\ routes'.vip = v
    BY <2>5
  <2>. QED  BY <2>1, <2>4, <2>7, <2>10, <2>11
<1>5. ParametersAreValid'
  BY <1>1, <1>2 DEF AmountsInv, ParametersAreValid, Trading
<1>6. LiquidityIsKnown'
  BY <1>1, <1>2, <1>4 DEF LiquidityIsKnown, Trading
<1>7. PathIsPriced'
  BY <1>2 DEF PathIsPriced
<1>8. FeesAreRight'
  <2>1. SellPerWei' = SellPerWei /\ GasPerTransfer' = GasPerTransfer /\ QuoteGas' = QuoteGas
    BY <1>1 DEF SellPerWei, GasPerTransfer, QuoteGas
  <2>. QED  BY <1>1, <1>2, <2>1 DEF AmountsInv, FeesAreRight, Trading, SellTokenFeeAmount
<1>. QED  BY <1>1, <1>5, <1>6, <1>7, <1>8 DEF AmountsInv

(* What the proxy adds to the gas is a number, whatever the fills.           *)
LEMMA OverheadIsGas ==
    ASSUME NEW fills
    PROVE  GasOverhead(fills) \in Nat
<1>. DEFINE sources == {SourceOf(fills[i].way) : i \in DOMAIN fills}
            one == {s \in ONE_SOURCE_FEATURES : sources = {s}}
            s0 == CHOOSE s \in one : TRUE
<1>1. one # {} => s0 \in one
  OBVIOUS
<1>2. one # {} => s0 \in ONE_SOURCE_FEATURES
  BY <1>1
<1>3. OverheadFeature(fills) \in {s0, "batch", "batchWithOtc", "multiHop", "transformERC20"}
      /\ (OverheadFeature(fills) = s0 /\ one = {} => OverheadFeature(fills) \in {"batch", "batchWithOtc", "multiHop", "transformERC20"})
  <2>. HIDE DEF s0
  <2>. QED  BY DEF OverheadFeature, s0
<1>. HIDE DEF one, s0
<1>4. OverheadFeature(fills) \in OverheadFeatures
  BY <1>2, <1>3 DEF OverheadFeatures
<1>. QED  BY <1>4, PathAssumption DEF GasOverhead


(* The choice of a path and the calculation of its cases keep it.            *)
LEMMA CreateQuoteKeeps == ASSUME AmountsInv, CreateQuote PROVE AmountsInv'
<1>1. /\ stage = "path" /\ req' = req /\ par' = par /\ fees' = fees /\ ways' = ways /\ routes' = routes /\ amount' = amount
      /\ IsRequest(req) /\ amount \in Nat \ {0} /\ amount > 1 /\ amount \in 0 .. (2 * req.amount) /\ AreOffers(ways)
      /\ IsRoute(routes.all, ways, amount) /\ IsRoute(routes.vip, ways, amount) /\ IsParameters(par, req)
  <2>1. stage = "path" /\ UNCHANGED <<req, par, amount, fees, ways, routes>>
    BY DEF CreateQuote
  <2>2. amount \in 0 .. (2 * req.amount) /\ amount > 1
    BY <2>1 DEF AmountsInv, LiquidityIsKnown, Trading
  <2>3. amount \in Nat \ {0}
    BY <2>2 DEF AmountsInv, IsRequest
  <2>. QED  BY <2>1, <2>2, <2>3 DEF AmountsInv, LiquidityIsKnown, ParametersAreValid, IsParameters, Trading
<1>2. stage' \in {"noOptimalPath", "priced"}
  BY DEF CreateQuote
<1>. DEFINE all == PathOver(routes.all)
            vip == PathOver(routes.vip)
            q == calculateQuoteInfo(par.side, amount, par.slippage, path')
            over == GasOverhead(path')
<1>3. path' = findOptimalPath(par.side, amount, all, vip)
  BY DEF CreateQuote
<1>4. stage' = "priced" => path' # NoPath /\ info'.best = [q.best EXCEPT !.gas = @ + over]
                                          /\ info'.worst = [q.worst EXCEPT !.gas = @ + over]
  BY DEF CreateQuote
<1>5. all # NoPath => ArePathFills(all, amount)
  BY <1>1, PathsAreFills DEF PathOver
<1>6. vip # NoPath => ArePathFills(vip, amount)
  BY <1>1, PathsAreFills DEF PathOver
<1>7. stage' = "priced" => ArePathFills(path', amount)
  <2>1. path' = all \/ path' = vip
    BY <1>3 DEF findOptimalPath
  <2>. HIDE DEF all, vip
  <2>. QED  BY <1>4, <1>5, <1>6, <2>1
<1>8. stage' = "priced" => IsInfo(info'.best) /\ IsInfo(info'.worst) /\ Worse(info'.worst, info'.best)
  <2>. SUFFICES ASSUME stage' = "priced"
                PROVE  IsInfo(info'.best) /\ IsInfo(info'.worst) /\ Worse(info'.worst, info'.best)
    OBVIOUS
  <2>1. IsInfo(q.best) /\ IsInfo(q.worst) /\ Worse(q.worst, q.best)
    BY <1>1, <1>7, QuoteInfoIsWorse DEF IsParameters
  <2>2. over \in Nat
    BY OverheadIsGas
  <2>. DEFINE b == q.best
              w == q.worst
              b2 == [b EXCEPT !.gas = @ + over]
              w2 == [w EXCEPT !.gas = @ + over]
  <2>3. info'.best = b2 /\ info'.worst = w2
    BY <1>4
  <2>. HIDE DEF q, over
  <2>4. IsInfo(b) /\ IsInfo(w) /\ Worse(w, b)
    BY <2>1
  <2>. HIDE DEF b, w
  <2>5. /\ DOMAIN b2 = DOMAIN b /\ b2.maker = b.maker /\ b2.taker = b.taker /\ b2.protocolFee = b.protocolFee
        /\ b2.gas = b.gas + over
        /\ DOMAIN w2 = DOMAIN w /\ w2.maker = w.maker /\ w2.taker = w.taker /\ w2.protocolFee = w.protocolFee
        /\ w2.gas = w.gas + over
    BY <2>4 DEF IsInfo
  <2>. HIDE DEF b2, w2
  <2>6. IsInfo(b2) /\ IsInfo(w2)
    BY <2>2, <2>4, <2>5 DEF IsInfo
  <2>7. Worse(w2, b2)
    BY <2>2, <2>4, <2>5 DEF Worse, IsInfo
  <2>. QED  BY <2>3, <2>6, <2>7
<1>9. ParametersAreValid'
  BY <1>1 DEF ParametersAreValid, IsParameters
<1>10. LiquidityIsKnown'
  BY <1>1, <1>2 DEF LiquidityIsKnown, Trading
<1>11. PathIsPriced'
  <2>1. /\ all' = all /\ vip' = vip
    BY <1>1 DEF PathOver, FillAdjustor
  <2>. HIDE DEF all, vip, q, over
  <2>. QED  BY <1>1, <1>2, <1>3, <1>4, <1>7, <1>8, <2>1 DEF PathIsPriced, all, vip
<1>12. FeesAreRight'
  <2>1. par.side \in {"sell", "buy"}
    BY <1>1 DEF IsParameters
  <2>2. FeesInv(fees) /\ (par.side = "buy" => fees = NoFees)
        /\ GasIsCovered(fees, SellPerWei, GasPrice, QuoteGas, GasPerTransfer)
    BY <1>1 DEF AmountsInv, FeesAreRight
  <2>3. SellPerWei' = SellPerWei /\ GasPerTransfer' = GasPerTransfer /\ (par.side = "sell" => QuoteGas' = QuoteGas)
    BY <1>1 DEF SellPerWei, GasPerTransfer, QuoteGas
  <2>4. GasIsCovered(fees, SellPerWei, GasPrice, QuoteGas', GasPerTransfer)
    BY <2>1, <2>2, <2>3, NothingCharged
  <2>. QED  BY <1>1, <1>2, <2>2, <2>3, <2>4 DEF AmountsInv, FeesAreRight, Trading, SellTokenFeeAmount
<1>. QED  BY <1>1, <1>9, <1>10, <1>11, <1>12 DEF AmountsInv

(* The final fees and the transaction keep it.                               *)
LEMMA EncodeKeeps == ASSUME AmountsInv, Encode PROVE AmountsInv'
<1>1. /\ stage = "priced" /\ stage' = "encoded" /\ req' = req /\ par' = par /\ amount' = amount /\ ways' = ways
      /\ path' = path /\ info' = info /\ fees' = FinalFees
  BY DEF Encode
<1>2. IsParameters(par, req) /\ IsRequest(req)
  BY <1>1 DEF AmountsInv, ParametersAreValid, IsParameters, Trading
<1>3. /\ ArePathFills(path, amount) /\ IsInfo(info.best) /\ IsInfo(info.worst) /\ Worse(info.worst, info.best)
      /\ amount \in 0 .. (2 * req.amount) /\ amount > 1
  BY <1>1 DEF AmountsInv, PathIsPriced, LiquidityIsKnown, Trading
<1>4. SellPerWei' = SellPerWei /\ GasPerTransfer' = GasPerTransfer /\ QuoteGas' = QuoteGas
  BY <1>1 DEF SellPerWei, GasPerTransfer, QuoteGas
<1>5. FeesInv(fees') /\ GasIsCovered(fees', SellPerWei, GasPrice, QuoteGas, GasPerTransfer)
  <2>1. CASE par.side = "sell"
    BY <1>1, <2>1 DEF FinalFees, AmountsInv, FeesAreRight
  <2>2. CASE par.side # "sell"
    <3>1. fees' = SellTokenFees(info.best.taker, info.worst.gas) /\ QuoteGas = info.worst.gas
      BY <1>1, <2>2 DEF FinalFees, QuoteGas
    <3>2. info.best.taker \in Nat /\ info.worst.gas \in Nat
      BY <1>3 DEF IsInfo
    <3>. QED  BY <1>2, <3>1, <3>2, SellFeesAreRight
  <2>. QED  BY <2>1, <2>2
<1>6. par.side = "sell" => fees' = fees
  BY <1>1 DEF FinalFees
<1>7. ParametersAreValid'
  BY <1>1, <1>2 DEF ParametersAreValid, IsParameters
<1>8. LiquidityIsKnown'
  BY <1>1, <1>3 DEF LiquidityIsKnown, Trading
<1>9. PathIsPriced'
  BY <1>1, <1>3 DEF PathIsPriced
<1>10. FeesAreRight'
  BY <1>1, <1>4, <1>5, <1>6 DEF AmountsInv, FeesAreRight, Trading, SellTokenFeeAmount
<1>. QED  BY <1>1, <1>2, <1>7, <1>8, <1>9, <1>10 DEF AmountsInv

(* The rest changes only how the request goes on.                            *)
LEMMA AnswerKeeps ==
    ASSUME AmountsInv, stage = "encoded" \/ stage' # "estimated",
           stage = "estimated" \/ stage = "done" \/ stage' # "done",
           stage' \notin {"new", "parsed", "routed", "path", "priced", "encoded"},
           UNCHANGED <<req, par, amount, fees, ways, path, info>>
    PROVE  AmountsInv'
<1>1. SellPerWei' = SellPerWei /\ GasPerTransfer' = GasPerTransfer /\ QuoteGas' = QuoteGas
  BY DEF SellPerWei, GasPerTransfer, QuoteGas
<1>2. ParametersAreValid'
  BY DEF AmountsInv, ParametersAreValid, Trading
<1>3. LiquidityIsKnown'
  BY DEF AmountsInv, LiquidityIsKnown, Trading
<1>4. PathIsPriced'
  BY DEF AmountsInv, PathIsPriced
<1>5. FeesAreRight'
  BY <1>1 DEF AmountsInv, FeesAreRight, Trading, SellTokenFeeAmount
<1>. QED  BY <1>2, <1>3, <1>4, <1>5 DEF AmountsInv

(* Every step keeps it.                                                      *)
LEMMA NextAmounts == AmountsInv /\ [Next]_vars => AmountsInv'
<1>. SUFFICES ASSUME AmountsInv, [Next]_vars PROVE AmountsInv'
  OBVIOUS
<1>1. CASE Parse
  BY <1>1, ParseKeeps
<1>2. CASE Start
  BY <1>2, StartKeeps
<1>3. CASE Route
  BY <1>3, RouteKeeps
<1>4. CASE CreateQuote
  BY <1>4, CreateQuoteKeeps
<1>5. CASE Encode
  BY <1>5, EncodeKeeps
<1>6. CASE Estimate
  <2>1. stage = "encoded" /\ stage' \in {"estimated"} \cup EstimateErrors /\ UNCHANGED <<req, par, amount, fees, ways, path, info>>
    BY <1>6 DEF Estimate
  <2>. QED  BY <2>1, AnswerKeeps DEF EstimateErrors
<1>7. CASE Reply
  <2>1. stage = "estimated" /\ stage' \in {"insufficientFunds", "invalid", "done"} /\ UNCHANGED <<req, par, amount, fees, ways, path, info>>
    BY <1>7 DEF Reply
  <2>. QED  BY <2>1, AnswerKeeps
<1>8. CASE Respond
  <2>1. stage' = "answered" /\ UNCHANGED <<req, par, amount, fees, ways, path, info>>
    BY <1>8 DEF Respond
  <2>. QED  BY <2>1, AnswerKeeps
<1>9. CASE UNCHANGED vars
  <2>1. UNCHANGED <<stage, req, par, amount, fees, ways, routes, path, info>>
    BY <1>9 DEF vars
  <2>2. /\ SellPerWei' = SellPerWei /\ GasPerTransfer' = GasPerTransfer /\ QuoteGas' = QuoteGas
        /\ PathOver(routes.all)' = PathOver(routes.all) /\ PathOver(routes.vip)' = PathOver(routes.vip)
    BY <2>1 DEF SellPerWei, GasPerTransfer, QuoteGas, PathOver, FillAdjustor
  <2>3. ParametersAreValid' /\ LiquidityIsKnown'
    BY <2>1 DEF AmountsInv, ParametersAreValid, LiquidityIsKnown
  <2>4. PathIsPriced'
    BY <2>1, <2>2 DEF AmountsInv, PathIsPriced
  <2>5. FeesAreRight'
    BY <2>1, <2>2 DEF AmountsInv, FeesAreRight, SellTokenFeeAmount
  <2>. QED  BY <2>1, <2>3, <2>4, <2>5 DEF AmountsInv
<1>. QED  BY <1>1, <1>2, <1>3, <1>4, <1>5, <1>6, <1>7, <1>8, <1>9 DEF Next

(* The inductive invariant: parameters within their bounds, known liquidity, *)
(* a path of positive whole inputs that is priced, and fees that are covered. *)
THEOREM AmountsInvariant == Spec => []AmountsInv
<1>. QED  BY InitAmounts, NextAmounts, PTL DEF Spec

(* calculateFees and onChainFeeTransfers: in every state the taker pays each *)
(* fee once, all transfers are positive, the gas fee has paid for them, and  *)
(* the fees of a sell that is answered leave something to sell.              *)
THEOREM FeesArePaidOnce == Spec => []FeesAddUp
<1>1. AmountsInv => FeesAddUp
  <2>. SUFFICES ASSUME AmountsInv PROVE FeesAddUp
    OBVIOUS
  <2>1. FeesInv(fees) /\ GasIsCovered(fees, SellPerWei, GasPrice, QuoteGas, GasPerTransfer)
        /\ (stage = "done" /\ par.side = "sell" /\ ~ par.wrap /\ ~ par.unwrap => SellTokenFeeAmount(fees) < par.amount)
    BY DEF AmountsInv, FeesAreRight
  <2>. DEFINE transfers == OnChainTransfers(fees)
  <2>2. TotalOnChain(transfers) = Due(fees, "integrator") + Due(fees, "zeroEx") + Due(fees, "gas")
    BY <2>1, TransfersAddUp
  <2>3. \A r \in DOMAIN transfers : transfers[r] > 0
    BY <2>1, TransfersByRecipient
  <2>4. Charged(fees.gas) =>
            fees.gas.feeAmount >= Floor(Times(SellPerWei, Num(GasPrice * (QuoteGas + GasPerTransfer * Cardinality(DOMAIN transfers)))))
    BY <2>1 DEF GasIsCovered
  <2>5. Answered /\ par.side = "sell" => TotalOnChain(transfers) < par.amount
    BY <2>1 DEF Answered, SellTokenFeeAmount
  <2>. HIDE DEF transfers
  <2>. QED  BY <2>2, <2>3, <2>4, <2>5 DEF FeesAddUp, transfers, Due, SellPerWei, QuoteGas
<1>. QED  BY <1>1, AmountsInvariant, PTL

(* findOptimalPathFromSamples: whatever the router answers, the path of the  *)
(* quote covers the amount at least as far as the one that was not chosen.   *)
THEOREM ChosenPathCoversMore == Spec => []CompleteIsPreferred
<1>1. AmountsInv => CompleteIsPreferred
  <2>. SUFFICES ASSUME AmountsInv, stage = "priced", NEW r \in {routes.all, routes.vip}, PathOver(r) # NoPath
                PROVE  Leq(createAdjustedSize(amount, PathOver(r)).input, createAdjustedSize(amount, path).input)
    BY DEF CompleteIsPreferred
  <2>1. /\ amount \in 0 .. (2 * req.amount) /\ amount > 1 /\ req.amount \in Nat /\ AreOffers(ways)
        /\ IsRoute(routes.all, ways, amount) /\ IsRoute(routes.vip, ways, amount)
        /\ path # NoPath /\ path = findOptimalPath(par.side, amount, PathOver(routes.all), PathOver(routes.vip))
    BY DEF AmountsInv, LiquidityIsKnown, PathIsPriced, Trading, IsRequest
  <2>2. amount \in Nat \ {0} /\ amount \in Nat
    BY <2>1
  <2>3. \A q \in {routes.all, routes.vip} : PathOver(q) # NoPath => ArePathFills(PathOver(q), amount)
    BY <2>1, <2>2, PathsAreFills DEF PathOver
  <2>. QED  BY <2>1, <2>2, <2>3, OptimalCoversMore
<1>. QED  BY <1>1, AmountsInvariant, PTL

(* calculateQuoteInfo: whatever is split over which orders, the worst case   *)
(* promises no more and costs no less than the best one, although each is    *)
(* rounded, and merged with two-hops, on its own.                            *)
THEOREM WorstCaseIsWorse == Spec => []WorstIsWorse
<1>1. AmountsInv => WorstIsWorse
  BY DEF AmountsInv, PathIsPriced, WorstIsWorse, Worse
<1>. QED  BY <1>1, AmountsInvariant, PTL

(* createPathFromRoute: however the router splits the amount and whatever it *)
(* loses, rounding each part up adds at most a unit per fill, and the path   *)
(* falls short of the amount only where an order is used up or a part of the *)
(* route gives nothing.                                                      *)
THEOREM RoundingIsBounded == Spec => []RouteIsCovered
<1>1. AmountsInv => RouteIsCovered
  <2>. SUFFICES ASSUME AmountsInv, stage = "priced" PROVE RouteIsCovered
    BY DEF RouteIsCovered
  <2>1. /\ amount \in 0 .. (2 * req.amount) /\ amount > 1 /\ req.amount \in Nat /\ req.amount < Precision /\ AreOffers(ways)
        /\ IsRoute(routes.all, ways, amount) /\ IsRoute(routes.vip, ways, amount)
        /\ path # NoPath /\ path = findOptimalPath(par.side, amount, PathOver(routes.all), PathOver(routes.vip))
        /\ ArePathFills(path, amount)
    BY DEF AmountsInv, LiquidityIsKnown, PathIsPriced, Trading, IsRequest
  <2>2. amount \in Nat \ {0} /\ amount \in Nat /\ amount < 2 * Precision
    BY <2>1, PathAssumption
  <2>3. PICK r \in {routes.all, routes.vip} : path = PathOver(r)
    BY <2>1 DEF findOptimalPath
  <2>4. /\ Taken(path) <= amount + Len(path)
        /\ Taken(path) < amount => \/ \E j \in DOMAIN path : UsedUp(par.side, path[j])
                                   \/ \E i \in DOMAIN ways : r.inputs[i] # 0 /\ r.outputs[i] = 0
    <3>1. IsRoute(r, ways, amount)
      BY <2>1
    <3>. QED  BY <2>1, <2>2, <2>3, <3>1, PathIsCovered DEF PathOver
  <2>5. Inputs = Num(Taken(path)) /\ Taken(path) \in Nat
    BY <2>1, <2>2, InputsAreTaken DEF Inputs
  <2>6. DOMAIN path = 1 .. Len(path) /\ Len(path) \in Nat
    BY <2>1 DEF ArePathFills
  <2>7. Leq(Inputs, Num(amount + FillsOf))
    <3>1. amount + Len(path) \in Int /\ Taken(path) \in Int
      BY <2>2, <2>5, <2>6
    <3>. QED  BY <2>4, <2>5, <3>1, LeqOfInts DEF FillsOf
  <2>8. Less(Inputs, Num(amount)) => Taken(path) < amount
    <3>. DEFINE k == Taken(path)
    <3>1. k \in Nat /\ Inputs = Num(k)
      BY <2>5
    <3>. HIDE DEF k
    <3>2. Leq(Num(amount), Num(k)) <=> amount <= k
      BY <2>2, <3>1, LeqOfInts
    <3>3. Less(Num(k), Num(amount)) => k < amount
      BY <2>2, <3>1, <3>2 DEF Less
    <3>. QED  BY <3>1, <3>3 DEF k
  <2>. QED  BY <2>3, <2>4, <2>6, <2>7, <2>8 DEF RouteIsCovered, UsedUp, FillsOf
<1>. QED  BY <1>1, AmountsInvariant, PTL

-----------------------------------------------------------------------------
(* What a quote has of the request, from the path to the answer.             *)

Quoted == stage \in {"priced", "encoded", "estimated"} \/ Answered

AskedAmount ==
    IF par.side = "sell" THEN par.amount - SellTokenFeeAmount(fees)
    ELSE Floor(Times(Num(par.amount), Plus(One, BuyTokenPercentage)))

PathIsQuoted ==
    LET z == TakenBy(par.side, info.best)
    IN  /\ amount \in Nat \ {0} /\ path # NoPath /\ ArePathFills(path, amount)
        /\ IsInfo(info.best) /\ IsInfo(info.worst) /\ Worse(info.worst, info.best)
        /\ TakenBy(par.side, info.worst) = z /\ z > 0
        /\ SmallerOf(Taken(path), amount) <= z /\ z <= Taken(path) /\ Taken(path) <= amount + Len(path)
        /\ (\A i \in DOMAIN path : path[i].way.kind # "twoHop") => z <= amount

ReplyIsQuoted ==
    LET feeAmount == SellTokenFeeAmount(fees)
    IN  /\ reply.sellAmount = info.best.taker + feeAmount
        /\ reply.buyAmount = info.best.maker - BuyTokenFeeAmount
        /\ reply.price = Price(info.best, feeAmount)
        /\ reply.guaranteedPrice = Price(info.worst, feeAmount)
        /\ ~ (reply.buyAmount <= 0)
        /\ reply.impact = EstimatedPriceImpact(reply.price) /\ ~ ImpactTooHigh(reply.impact)

QuoteInv ==
    /\ stage \in Trading \/ Answered => amount = AskedAmount
    /\ Quoted => PathIsQuoted
    /\ Answered => ReplyIsQuoted

(* A path that is not empty takes at least one unit.                         *)
LEMMA TakesSomething ==
    ASSUME NEW amt \in Nat, NEW p, ArePathFills(p, amt), Len(p) >= 1
    PROVE  Taken(p) >= 1
<1>. DEFINE k == InputsOf(p)
            D == DOMAIN p
<1>1. D = 1 .. Len(p) /\ Len(p) \in Nat /\ 1 \in D
  BY DEF ArePathFills
<1>2. \A i \in D : k[i] \in 1 .. amt
  BY InputsAreTaken
<1>3. IsFiniteSet(D)
  <2>1. IsFiniteSet(1 .. Len(p))
    BY <1>1, FS_Interval
  <2>. QED  BY <1>1, <2>1, Zenon
<1>4. Taken(p) = SumFunctionOnSet(k, D)
  BY DEF Taken
<1>. HIDE DEF k, D
<1>5. k[1] <= SumFunctionOnSet(k, D)
  BY <1>1, <1>2, <1>3, SumHasPart
<1>6. SumFunctionOnSet(k, D) \in Nat
  BY <1>2, <1>3, SumIsNat
<1>. QED  BY <1>1, <1>2, <1>4, <1>5, <1>6

(* A request that has not been read satisfies the second invariant.          *)
LEMMA InitQuote == Init => QuoteInv
BY DEF Init, QuoteInv, Quoted, Answered, Trading

(* The path that is priced takes what its two cases say.                     *)
LEMMA CreateQuoteQuotes == ASSUME AmountsInv, CreateQuote, stage' = "priced" PROVE PathIsQuoted'
<1>1. /\ stage = "path" /\ req' = req /\ par' = par /\ fees' = fees /\ ways' = ways /\ routes' = routes /\ amount' = amount
      /\ amount \in Nat \ {0} /\ amount \in Nat /\ amount < 2 * Precision /\ AreOffers(ways)
      /\ IsRoute(routes.all, ways, amount) /\ IsRoute(routes.vip, ways, amount) /\ IsParameters(par, req)
  <2>1. stage = "path" /\ UNCHANGED <<req, par, amount, fees, ways, routes>>
    BY DEF CreateQuote
  <2>2. amount \in 0 .. (2 * req.amount) /\ amount > 1 /\ req.amount \in Nat /\ req.amount < Precision
    BY <2>1 DEF AmountsInv, LiquidityIsKnown, Trading, IsRequest
  <2>3. amount \in Nat \ {0} /\ amount < 2 * Precision
    BY <2>2, PathAssumption
  <2>. QED  BY <2>1, <2>2, <2>3 DEF AmountsInv, LiquidityIsKnown, ParametersAreValid, IsParameters, Trading
<1>. DEFINE all == PathOver(routes.all)
            vip == PathOver(routes.vip)
            q == calculateQuoteInfo(par.side, amount, par.slippage, path')
            over == GasOverhead(path')
            side == par.side
<1>2. path' = findOptimalPath(side, amount, all, vip) /\ path' # NoPath
  BY DEF CreateQuote
<1>3. info'.best = [q.best EXCEPT !.gas = @ + over] /\ info'.worst = [q.worst EXCEPT !.gas = @ + over]
  BY DEF CreateQuote
<1>4. AmountsInv'
  BY CreateQuoteKeeps
<1>5. ArePathFills(path', amount) /\ IsInfo(info'.best) /\ IsInfo(info'.worst) /\ Worse(info'.worst, info'.best)
  BY <1>1, <1>4 DEF AmountsInv, PathIsPriced
<1>6. Len(path') >= 1 /\ Taken(path') <= amount + Len(path')
  <2>1. path' = all \/ path' = vip
    BY <1>2 DEF findOptimalPath
  <2>2. all # NoPath => Len(all) >= 1 /\ Taken(all) <= amount + Len(all)
    BY <1>1, PathIsCovered DEF PathOver
  <2>3. vip # NoPath => Len(vip) >= 1 /\ Taken(vip) <= amount + Len(vip)
    BY <1>1, PathIsCovered DEF PathOver
  <2>. HIDE DEF all, vip
  <2>. QED  BY <1>2, <2>1, <2>2, <2>3
<1>7. Taken(path') >= 1
  BY <1>1, <1>5, <1>6, TakesSomething
<1>. DEFINE z == TakenBy(side, q.best)
<1>8. /\ z \in Nat /\ TakenBy(side, q.worst) = z /\ SmallerOf(Taken(path'), amount) <= z /\ z <= Taken(path')
      /\ (\A i \in DOMAIN path' : path'[i].way.kind # "twoHop") => z <= amount
  BY <1>1, <1>5, PathIsUsed DEF IsParameters
<1>9. TakenBy(side, info'.best) = z /\ TakenBy(side, info'.worst) = z
  <2>1. IsInfo(q.best) /\ IsInfo(q.worst)
    BY <1>1, <1>5, QuoteInfoIsWorse DEF IsParameters
  <2>. HIDE DEF q, over
  <2>2. /\ info'.best.taker = q.best.taker /\ info'.best.maker = q.best.maker
        /\ info'.worst.taker = q.worst.taker /\ info'.worst.maker = q.worst.maker
    BY <1>3, <2>1 DEF IsInfo
  <2>. QED  BY <1>8, <2>2 DEF TakenBy
<1>10. z > 0
  <2>1. Taken(path') \in Nat
    BY <1>1, <1>5, InputsAreTaken
  <2>. HIDE DEF z
  <2>. QED  BY <1>1, <1>7, <1>8, <2>1 DEF SmallerOf
<1>. HIDE DEF z, q, over
<1>. QED  BY <1>1, <1>2, <1>5, <1>6, <1>8, <1>9, <1>10 DEF PathIsQuoted

(* Every step keeps the second invariant.                                    *)
LEMMA NextQuote == AmountsInv /\ AmountsInv' /\ QuoteInv /\ [Next]_vars => QuoteInv'
<1>. SUFFICES ASSUME AmountsInv, AmountsInv', QuoteInv, [Next]_vars PROVE QuoteInv'
  OBVIOUS
<1>1. CASE Parse
  <2>1. stage' \in {"invalid", "parsed", "done"} /\ (stage' = "done" => par'.wrap \/ par'.unwrap)
    BY <1>1 DEF Parse
  <2>. QED  BY <2>1 DEF QuoteInv, Quoted, Answered, Trading
<1>2. CASE Start
  <2>1. stage' \in {"insufficientFunds", "routed"} /\ par' = par
    BY <1>2 DEF Start
  <2>2. stage' = "routed" => amount' = AskedAmount'
    BY <1>2, <2>1 DEF Start, AskedAmount, BuyTokenPercentage
  <2>. QED  BY <2>1, <2>2 DEF QuoteInv, Quoted, Answered, Trading
<1>. DEFINE Same == UNCHANGED <<par, amount, fees>>
<1>3. ASSUME Same PROVE AskedAmount' = AskedAmount
  BY <1>3 DEF AskedAmount, SellTokenFeeAmount, BuyTokenPercentage
<1>4. ASSUME Same, UNCHANGED <<path, info>> PROVE PathIsQuoted' <=> PathIsQuoted
  BY <1>4 DEF PathIsQuoted
<1>5. CASE Route
  <2>1. stage = "routed" /\ stage' \in {"noOptimalPath", "path"} /\ Same
    BY <1>5 DEF Route
  <2>. QED  BY <1>3, <2>1 DEF QuoteInv, Quoted, Answered, Trading
<1>6. CASE CreateQuote
  <2>1. stage = "path" /\ stage' \in {"noOptimalPath", "priced"} /\ Same
    BY <1>6 DEF CreateQuote
  <2>2. stage' = "priced" => PathIsQuoted'
    BY <1>6, CreateQuoteQuotes
  <2>. QED  BY <1>3, <2>1, <2>2 DEF QuoteInv, Quoted, Answered, Trading
<1>7. CASE Encode
  <2>1. /\ stage = "priced" /\ stage' = "encoded" /\ UNCHANGED <<par, amount, path, info>>
        /\ par.side = "sell" => fees' = fees
    BY <1>7 DEF Encode, FinalFees
  <2>2. AskedAmount' = AskedAmount
    BY <2>1 DEF AskedAmount, SellTokenFeeAmount, BuyTokenPercentage
  <2>3. PathIsQuoted'
    BY <2>1 DEF QuoteInv, Quoted, PathIsQuoted
  <2>. QED  BY <2>1, <2>2, <2>3 DEF QuoteInv, Quoted, Answered, Trading
<1>8. CASE Estimate
  <2>1. stage = "encoded" /\ stage' \in {"estimated"} \cup EstimateErrors /\ Same /\ UNCHANGED <<path, info>>
    BY <1>8 DEF Estimate
  <2>. QED  BY <1>3, <1>4, <2>1 DEF QuoteInv, Quoted, Answered, Trading, EstimateErrors
<1>9. CASE Reply
  <2>1. stage = "estimated" /\ stage' \in {"insufficientFunds", "invalid", "done"} /\ Same /\ UNCHANGED <<req, path, info>>
    BY <1>9 DEF Reply
  <2>2. stage' = "done" => ReplyIsQuoted'
    <3>1. stage' = "done" =>
            /\ reply'.sellAmount = info.best.taker + SellTokenFeeAmount(fees)
            /\ reply'.buyAmount = info.best.maker - BuyTokenFeeAmount
            /\ reply'.price = Price(info.best, SellTokenFeeAmount(fees))
            /\ reply'.guaranteedPrice = Price(info.worst, SellTokenFeeAmount(fees))
            /\ ~ (reply'.buyAmount <= 0)
            /\ reply'.impact = EstimatedPriceImpact(reply'.price) /\ ~ ImpactTooHigh(reply'.impact)
      BY <1>9 DEF Reply
    <3>2. /\ SellTokenFeeAmount(fees)' = SellTokenFeeAmount(fees) /\ BuyTokenFeeAmount' = BuyTokenFeeAmount
          /\ Price(info.best, SellTokenFeeAmount(fees))' = Price(info.best, SellTokenFeeAmount(fees))
          /\ Price(info.worst, SellTokenFeeAmount(fees))' = Price(info.worst, SellTokenFeeAmount(fees))
      BY <2>1 DEF SellTokenFeeAmount, BuyTokenFeeAmount, BuyTokenPercentage, MakerPerEth, Price, RoundPrice
    <3>3. /\ EstimatedPriceImpact(reply.price)' = EstimatedPriceImpact(reply'.price)
          /\ ImpactTooHigh(reply.impact)' <=> ImpactTooHigh(reply'.impact)
      BY <2>1 DEF EstimatedPriceImpact, NormalizedPrice, SellTokenToEthRate, BuyTokenToEthRate, TakerPerEth,
                  MakerPerEth, ImpactTooHigh
    <3>. QED  BY <2>1, <3>1, <3>2, <3>3 DEF ReplyIsQuoted
  <2>. QED  BY <1>3, <1>4, <2>1, <2>2 DEF QuoteInv, Quoted, Answered, Trading
<1>10. CASE Respond
  <2>1. stage' = "answered"
    BY <1>10 DEF Respond
  <2>. QED  BY <2>1 DEF QuoteInv, Quoted, Answered, Trading
<1>11. CASE UNCHANGED vars
  <2>1. Same /\ UNCHANGED <<req, stage, path, info, reply>>
    BY <1>11 DEF vars
  <2>2. /\ SellTokenFeeAmount(fees)' = SellTokenFeeAmount(fees) /\ BuyTokenFeeAmount' = BuyTokenFeeAmount
        /\ Price(info.best, SellTokenFeeAmount(fees))' = Price(info.best, SellTokenFeeAmount(fees))
        /\ Price(info.worst, SellTokenFeeAmount(fees))' = Price(info.worst, SellTokenFeeAmount(fees))
    BY <2>1 DEF SellTokenFeeAmount, BuyTokenFeeAmount, BuyTokenPercentage, MakerPerEth, Price, RoundPrice
  <2>3. /\ EstimatedPriceImpact(reply.price)' = EstimatedPriceImpact(reply.price)
        /\ ImpactTooHigh(reply.impact)' <=> ImpactTooHigh(reply.impact)
    BY <2>1 DEF EstimatedPriceImpact, NormalizedPrice, SellTokenToEthRate, BuyTokenToEthRate, TakerPerEth,
                MakerPerEth, ImpactTooHigh
  <2>4. ReplyIsQuoted' <=> ReplyIsQuoted
    BY <2>1, <2>2, <2>3 DEF ReplyIsQuoted
  <2>5. (Answered' <=> Answered) /\ (Quoted' <=> Quoted)
    BY <2>1 DEF Answered, Quoted
  <2>. QED  BY <1>3, <1>4, <2>1, <2>4, <2>5 DEF QuoteInv
<1>. QED  BY <1>1, <1>2, <1>5, <1>6, <1>7, <1>8, <1>9, <1>10, <1>11 DEF Next

(* The second inductive invariant: the amount that is routed is the one of   *)
(* the request less its fees, or with the affiliate's percentage on top, and *)
(* the path, both cases and the answer are those of that amount.             *)
THEOREM QuoteInvariant == Spec => []QuoteInv
<1>. QED  BY InitQuote, NextQuote, AmountsInvariant, PTL DEF Spec

(* The path of a quote covers the amount if it takes at least as much.       *)
LEMMA InputsOfQuote ==
    ASSUME PathIsQuoted
    PROVE  /\ Taken(path) \in Nat
           /\ Leq(Num(amount), Inputs) <=> amount <= Taken(path)
<1>1. amount \in Nat /\ path # NoPath /\ ArePathFills(path, amount)
  BY DEF PathIsQuoted
<1>2. Inputs = Num(Taken(path)) /\ Taken(path) \in Nat
  BY <1>1, InputsAreTaken DEF Inputs
<1>. DEFINE k == Taken(path)
<1>. HIDE DEF k
<1>3. Inputs = Num(k) /\ k \in Nat
  BY <1>2 DEF k
<1>4. Leq(Num(amount), Num(k)) <=> amount <= k
  BY <1>1, <1>3, LeqOfInts
<1>. QED  BY <1>3, <1>4 DEF k

(* A sell that is answered and whose path covers the amount sells what the   *)
(* request says, fees included: no rounding on the way from the request to   *)
(* the answer loses any of it, and none adds to it but for a unit per fill   *)
(* where there is a two-hop to take it.                                      *)
THEOREM AnswerSellsAll == Spec => []AskedIsSold
<1>1. AmountsInv /\ QuoteInv => AskedIsSold
  <2>. SUFFICES ASSUME AmountsInv, QuoteInv, Answered, par.side = "sell", Leq(Num(amount), Inputs)
                PROVE  /\ reply.sellAmount >= par.amount
                       /\ reply.sellAmount <= par.amount + FillsOf
                       /\ (\A i \in 1 .. FillsOf : path[i].way.kind # "twoHop") => reply.sellAmount = par.amount
    BY DEF AskedIsSold
  <2>. DEFINE z == info.best.taker
              fee == SellTokenFeeAmount(fees)
              t == Taken(path)
              len == Len(path)
  <2>1. PathIsQuoted /\ ReplyIsQuoted /\ amount = par.amount - fee
    BY DEF QuoteInv, Quoted, AskedAmount
  <2>2. /\ amount \in Nat /\ IsInfo(info.best) /\ SmallerOf(t, amount) <= z /\ z <= t /\ t <= amount + len
        /\ (\A i \in DOMAIN path : path[i].way.kind # "twoHop") => z <= amount
    BY <2>1 DEF PathIsQuoted, TakenBy
  <2>3. DOMAIN path = 1 .. len /\ len \in Nat
    BY <2>1 DEF PathIsQuoted, ArePathFills
  <2>4. z \in Nat
    BY <2>2 DEF IsInfo
  <2>5. t \in Nat /\ amount <= t
    BY <2>1, InputsOfQuote
  <2>6. par.amount \in Nat
    BY DEF AmountsInv, ParametersAreValid, IsRequest, Answered
  <2>7. fee \in Nat
    <3>1. FeesInv(fees)
      BY DEF AmountsInv, FeesAreRight
    <3>. QED  BY <3>1, TransfersAddUp DEF SellTokenFeeAmount
  <2>8. reply.sellAmount = z + fee
    BY <2>1 DEF ReplyIsQuoted
  <2>. HIDE DEF z, fee, t, len
  <2>9. amount <= z /\ z <= amount + len
    BY <2>2, <2>3, <2>4, <2>5 DEF SmallerOf
  <2>10. reply.sellAmount >= par.amount /\ reply.sellAmount <= par.amount + len /\ (z <= amount => reply.sellAmount = par.amount)
    <3>. DEFINE n == par.amount
                s == reply.sellAmount
    <3>1. n \in Nat /\ amount \in Nat /\ amount = n - fee /\ s = z + fee
      BY <2>1, <2>2, <2>6, <2>8
    <3>. HIDE DEF n, s
    <3>2. s >= n /\ s <= n + len /\ (z <= amount => s = n)
      BY <2>3, <2>4, <2>7, <2>9, <3>1
    <3>. QED  BY <3>2 DEF n, s
  <2>. QED  BY <2>2, <2>3, <2>10 DEF FillsOf, len
<1>. QED  BY <1>1, AmountsInvariant, QuoteInvariant, PTL

(* The fee that a percentage p takes of what is bought.                      *)
LEMMA FeeOfBought ==
    ASSUME NEW p \in NonNeg, NEW z \in Nat
    PROVE  LET f == Floor(Over(Times(Num(z), p), Plus(One, p)))
           IN  f \in Nat /\ f * (p[1] + p[2]) <= z * p[1]
<1>. DEFINE a == p[1]
            b == p[2]
            q == Plus(One, p)
            w == Times(Num(z), p)
            y == Over(w, q)
            s == a + b
            one == 1
<1>1. a \in Nat /\ b \in Nat \ {0} /\ s \in Nat \ {0} /\ IsFrac(p, a, b) /\ a \in Int
  BY NumIsRat, RatParts, RatIsFrac
<1>2. one \in Nat \ {0} /\ one \in Int /\ IsFrac(One, one, one) /\ IsFrac(Num(z), z, one) /\ z \in Int
  BY NumIsRat DEF One, IsFrac
<1>. HIDE DEF a, b, s, one
<1>3. IsFrac(q, s, b)
  <2>1. IsFrac(q, one * b + a * one, one * b)
    BY <1>1, <1>2, SumOfFracs
  <2>2. one * b + a * one = s /\ one * b = b
    BY <1>1 DEF one, s
  <2>. QED  BY <2>1, <2>2
<1>4. IsFrac(w, z * a, b)
  <2>1. IsFrac(w, z * a, one * b)
    BY <1>1, <1>2, ProductOfFracs
  <2>2. one * b = b
    BY <1>1 DEF one
  <2>. QED  BY <2>1, <2>2
<1>. HIDE DEF q, w
<1>5. z * a \in Nat /\ (z * a) * b \in Nat /\ b * s \in Nat \ {0}
  BY <1>1
<1>6. IsFrac(y, (z * a) * b, b * s)
  BY <1>1, <1>3, <1>4, <1>5, QuotientOfFracs
<1>. HIDE DEF y
<1>7. y \in NonNeg
  BY <1>5, <1>6, SignOfFrac DEF NonNeg
<1>. DEFINE f == Floor(y)
<1>8. f \in Nat /\ f * (b * s) <= (z * a) * b
  BY <1>5, <1>6, <1>7, FloorOfNonNeg, FloorIsNear
<1>. HIDE DEF f
<1>9. f * s <= z * a
  <2>1. (f * s) * b <= (z * a) * b /\ f * s \in Int
    BY <1>1, <1>8
  <2>. QED  BY <1>1, <1>5, <2>1, CancelLeq
<1>. QED  BY <1>8, <1>9 DEF f, y, w, q, s, a, b

(* What the affiliate's percentage p adds to an amount n, rounded down, pays *)
(* for the fee that p takes of what is bought, rounded down as well.         *)
LEMMA FeeIsAdded ==
    ASSUME NEW n \in Nat, NEW p \in NonNeg, NEW z \in Nat, z >= Floor(Times(Num(n), Plus(One, p)))
    PROVE  LET f == Floor(Over(Times(Num(z), p), Plus(One, p)))
           IN  f \in Nat /\ z - f >= n
<1>. DEFINE a == p[1]
            b == p[2]
            q == Plus(One, p)
            x == Times(Num(n), q)
            A == Floor(x)
            f == Floor(Over(Times(Num(z), p), q))
            s == a + b
            one == 1
<1>1. a \in Nat /\ b \in Nat \ {0} /\ s \in Nat \ {0} /\ IsFrac(p, a, b) /\ a \in Int /\ s \in Int /\ s >= b
  BY NumIsRat, RatParts, RatIsFrac
<1>2. one \in Nat \ {0} /\ one \in Int /\ IsFrac(One, one, one) /\ IsFrac(Num(n), n, one) /\ n \in Int
  BY NumIsRat DEF One, IsFrac
<1>3. f \in Nat /\ f * s <= z * a
  BY FeeOfBought
<1>. HIDE DEF a, b, s, one, f
<1>4. IsFrac(q, s, b)
  <2>1. IsFrac(q, one * b + a * one, one * b)
    BY <1>1, <1>2, SumOfFracs
  <2>2. one * b + a * one = s /\ one * b = b
    BY <1>1 DEF one, s
  <2>. QED  BY <2>1, <2>2
<1>5. IsFrac(x, n * s, b)
  <2>. HIDE DEF q
  <2>1. IsFrac(x, n * s, one * b)
    BY <1>1, <1>2, <1>4, ProductOfFracs
  <2>2. one * b = b
    BY <1>1 DEF one
  <2>. QED  BY <2>1, <2>2
<1>6. A \in Int /\ n * s <= A * b + b - 1
  <2>1. n * s \in Int
    BY <1>1
  <2>. HIDE DEF x
  <2>. QED  BY <1>1, <1>5, <2>1, FloorIsNear
<1>7. z >= A
  BY DEF A, x, q
<1>. HIDE DEF A
<1>8. z - f >= n
  <2>. SUFFICES ASSUME z - f <= n - 1 PROVE FALSE
    BY <1>3
  <2>1. (z - f) * s <= (n - 1) * s
    BY <1>1, <1>3, ScaleLeq
  <2>2. A * b <= z * b
    BY <1>1, <1>6, <1>7, ScaleLeq
  <2>3. (z - f) * s = z * s - f * s /\ (n - 1) * s = n * s - s
    BY <1>1, <1>3
  <2>4. z * s = z * a + z * b
    BY <1>1 DEF s
  <2>. DEFINE m == f * s
              u == z * a
              v == z * b
              w == n * s
              k == A * b
  <2>5. m \in Int /\ u \in Int /\ v \in Int /\ w \in Int /\ k \in Int
    BY <1>1, <1>3, <1>6
  <2>6. (u + v) - m <= w - s /\ k <= v /\ m <= u /\ w <= k + b - 1
    BY <1>3, <1>6, <2>1, <2>2, <2>3, <2>4
  <2>. HIDE DEF m, u, v, w, k
  <2>. QED  BY <1>1, <2>5, <2>6
<1>. QED  BY <1>3, <1>8 DEF f, q

(* A gasless fee is a number.                                                *)
LEMMA GaslessFeeIsNumber ==
    ASSUME IsInfo(info.worst)
    PROVE  GaslessFee \in Nat
<1>1. GasPrice \in Nat /\ MakerPerEth \in Nat /\ info.worst.gas \in Nat
  BY PathAssumption DEF MakerPerEth, IsInfo
<1>2. GaslessFee = 0 \/ GaslessFee = MakerPerEth * GasPrice * info.worst.gas
  BY DEF GaslessFee, BuyTokenFeeAmount
<1>. DEFINE m == MakerPerEth
            g == info.worst.gas
<1>. HIDE DEF m, g
<1>3. m * GasPrice * g \in Nat
  BY <1>1 DEF m, g
<1>. QED  BY <1>2, <1>3 DEF m, g

(* A buy that is answered and whose path covers the amount buys no less than *)
(* the request says, once the affiliate's percentage is taken off, for every *)
(* amount and percentage; only a gasless fee is not bought on top.           *)
THEOREM AnswerBuysAll == Spec => []AskedIsBought
<1>1. AmountsInv /\ QuoteInv => AskedIsBought
  <2>. SUFFICES ASSUME AmountsInv, QuoteInv, Answered, par.side = "buy", Leq(Num(amount), Inputs)
                PROVE  reply.buyAmount + GaslessFee >= par.amount
    BY DEF AskedIsBought
  <2>. DEFINE z == info.best.maker
              p == BuyTokenPercentage
              n == par.amount
              t == Taken(path)
              f == Floor(Over(Times(Num(z), p), Plus(One, p)))
  <2>1. PathIsQuoted /\ ReplyIsQuoted /\ amount = Floor(Times(Num(n), Plus(One, p)))
    BY DEF QuoteInv, Quoted, AskedAmount
  <2>2. amount \in Nat /\ IsInfo(info.best) /\ info.worst.maker = z /\ SmallerOf(t, amount) <= z
    BY <2>1 DEF PathIsQuoted, TakenBy
  <2>3. z \in Nat
    BY <2>2 DEF IsInfo
  <2>4. t \in Nat /\ amount <= t
    BY <2>1, InputsOfQuote
  <2>5. n \in Nat /\ p \in NonNeg /\ Leq(p, One)
    <3>1. n \in Nat /\ par.affiliate.percentage \in NonNeg /\ Leq(par.affiliate.percentage, One)
      BY DEF AmountsInv, ParametersAreValid, IsRequest, Answered
    <3>2. Zero \in NonNeg /\ Leq(Zero, One)
      BY NumIsRat DEF Leq, Zero, One, Num
    <3>. QED  BY <3>1, <3>2 DEF BuyTokenPercentage
  <2>6. reply.buyAmount = z - BuyTokenFeeAmount
    BY <2>1 DEF ReplyIsQuoted
  <2>7. /\ GaslessFee \in Nat
        /\ BuyTokenFeeAmount = GaslessFee \/ (GaslessFee = 0 /\ BuyTokenFeeAmount = f)
    <3>1. GaslessFee \in Nat
      BY <2>1, GaslessFeeIsNumber DEF PathIsQuoted
    <3>. QED  BY <2>2, <3>1 DEF BuyTokenFeeAmount, GaslessFee
  <2>8. z >= amount
    <3>. HIDE DEF z, t
    <3>. QED  BY <2>2, <2>3, <2>4 DEF SmallerOf
  <2>9. amount >= n
    <3>. HIDE DEF n, p
    <3>1. Floor(Times(Num(n), Plus(One, p))) \in n .. (2 * n)
      BY <2>5, AmountToBuy
    <3>. QED  BY <2>1, <2>5, <3>1
  <2>10. f \in Int /\ z - f >= n
    <3>. HIDE DEF n, p, z
    <3>1. z >= Floor(Times(Num(n), Plus(One, p)))
      BY <2>1, <2>8
    <3>. QED  BY <2>3, <2>5, <3>1, FeeIsAdded
  <2>. HIDE DEF z, p, n, t, f
  <2>11. reply.buyAmount + GaslessFee >= n
    BY <2>2, <2>3, <2>5, <2>6, <2>7, <2>8, <2>9, <2>10
  <2>. QED  BY <2>11 DEF n
<1>. QED  BY <1>1, AmountsInvariant, QuoteInvariant, PTL

-----------------------------------------------------------------------------
(* Prices.  What the price says is bought, m, takes off the percentage of    *)
(* the worst case, and the fee F is no larger than that.                     *)

LEMMA FracsAreOrdered ==
    ASSUME NEW j \in Int, NEW k \in Int, NEW u \in Nat \ {0}
    PROVE  /\ Frac(j, u) \in Rat /\ IsFrac(Frac(j, u), j, u)
           /\ j >= 0 => Frac(j, u) \in NonNeg
           /\ j > 0 => Frac(j, u)[1] > 0
           /\ j <= k => Leq(Frac(j, u), Frac(k, u))
<1>1. IsFrac(Frac(j, u), j, u) /\ IsFrac(Frac(k, u), k, u)
  BY FracValue
<1>2. Frac(j, u) \in Rat /\ (j >= 0 => Frac(j, u)[1] >= 0) /\ (j > 0 => Frac(j, u)[1] > 0)
  BY <1>1, SignOfFrac
<1>3. j <= k => j * u <= k * u
  BY ScaleLeq
<1>4. j <= k => Leq(Frac(j, u), Frac(k, u))
  BY <1>1, <1>3, FracLeq
<1>. QED  BY <1>1, <1>2, <1>4 DEF NonNeg

(* What the price counts as bought, the percentage taken off without         *)
(* rounding, is no more than what is left after the rounded fee, in either   *)
(* case.                                                                     *)
LEMMA BoughtAtPrice ==
    ASSUME NEW u \in Nat \ {0}, NEW M \in Nat, NEW W \in Nat, W <= M, NEW p \in NonNeg, Leq(p, One),
           NEW F \in Nat, F * p[2] <= W * p[1]
    PROVE  LET c == Times(Frac(W, u), p)
               m == Minus(Frac(M, u), c)
           IN  /\ c \in Rat /\ m \in NonNeg /\ (m # Zero => m[1] > 0) /\ Leq(m, Frac(M - F, u))
               /\ Minus(Frac(W, u), c) \in NonNeg /\ Leq(Minus(Frac(W, u), c), m)
<1>. DEFINE a == p[1]
            b == p[2]
            c == Times(Frac(W, u), p)
<1>1. a \in Nat /\ b \in Nat \ {0} /\ a <= b /\ IsFrac(p, a, b)
  BY NumIsRat, RatParts, RatIsFrac DEF Leq, One, Num
<1>2. F * b <= W * a
  OBVIOUS
<1>. HIDE DEF a, b
<1>3. u * b \in Nat \ {0} /\ W * a \in Nat /\ u * (u * b) \in Nat \ {0} /\ W * a \in Int
  BY <1>1
<1>4. IsFrac(c, W * a, u * b)
  BY <1>1, FracsAreOrdered, ProductOfFracs
<1>. HIDE DEF c
<1>5. ASSUME NEW k \in Nat, W <= k
      PROVE  Minus(Frac(k, u), c) \in NonNeg /\ IsFrac(Minus(Frac(k, u), c), k * (u * b) - (W * a) * u, u * (u * b))
  <2>1. IsFrac(Minus(Frac(k, u), c), k * (u * b) - (W * a) * u, u * (u * b))
    <3>. DEFINE w == W * a
                d == u * b
                x == Frac(k, u)
    <3>1. w \in Int /\ d \in Nat \ {0} /\ IsFrac(c, w, d) /\ IsFrac(x, k, u) /\ k \in Int
      BY <1>3, <1>4, FracsAreOrdered
    <3>. HIDE DEF w, d, x
    <3>2. IsFrac(Minus(x, c), k * d - w * u, u * d)
      BY <3>1, DifferenceOfFracs
    <3>. QED  BY <3>2 DEF w, d, x
  <2>2. W * a <= k * b
    <3>1. W * a <= W * b
      BY <1>1
    <3>2. W * b <= k * b
      BY <1>1, <1>5, ScaleLeq
    <3>3. W * b \in Int /\ k * b \in Int
      BY <1>1
    <3>. QED  BY <1>3, <3>1, <3>2, <3>3
  <2>3. k * (u * b) - (W * a) * u \in Int /\ k * (u * b) - (W * a) * u >= 0
    <3>1. k * b \in Int /\ (W * a) * u <= (k * b) * u
      BY <1>1, <1>3, <2>2, ScaleLeq
    <3>2. k * (u * b) = (k * b) * u /\ (k * b) * u \in Int /\ (W * a) * u \in Int
      BY <1>1
    <3>. QED  BY <3>1, <3>2
  <2>. QED  BY <1>3, <2>1, <2>3, SignOfFrac DEF NonNeg
<1>. DEFINE m == Minus(Frac(M, u), c)
            n == M * (u * b) - (W * a) * u
            d == u * (u * b)
<1>6. m \in NonNeg /\ IsFrac(m, n, d) /\ Minus(Frac(W, u), c) \in NonNeg /\ n \in Int /\ d \in Nat \ {0}
  BY <1>1, <1>3, <1>5
<1>7. m # Zero => m[1] > 0
  <2>1. m[1] = 0 => m = Zero
    <3>1. Frac(M, u) \in Rat /\ c \in Rat
      BY <1>4, FracsAreOrdered DEF IsFrac
    <3>. QED  BY <3>1, DifferenceIsZero
  <2>2. m[1] \in Int /\ m[1] >= 0
    BY <1>6, NumIsRat, RatParts
  <2>. QED  BY <2>1, <2>2
<1>. HIDE DEF m
<1>8. Leq(m, Frac(M - F, u))
  <2>1. n * u <= (M - F) * d
    <3>. DEFINE v == u * u
                x == M * b
                y == W * a
                z == F * b
    <3>1. v \in Nat /\ x \in Int /\ y \in Int /\ z \in Int /\ z <= y
      BY <1>1, <1>2
    <3>2. n * u = (x - y) * v /\ (M - F) * d = (x - z) * v
      BY <1>1
    <3>. HIDE DEF v, x, y, z
    <3>3. x - y \in Int /\ x - z \in Int /\ x - y <= x - z
      BY <3>1
    <3>4. (x - y) * v <= (x - z) * v
      BY <3>1, <3>3, ScaleLeq
    <3>. QED  BY <3>2, <3>4
  <2>. HIDE DEF n, d
  <2>2. M - F \in Int
    OBVIOUS
  <2>3. IsFrac(Frac(M - F, u), M - F, u)
    BY <2>2, FracValue
  <2>. DEFINE k == M - F
  <2>4. k \in Int /\ IsFrac(Frac(k, u), k, u) /\ n * u <= k * d
    BY <2>1, <2>2, <2>3
  <2>. HIDE DEF k
  <2>5. Leq(m, Frac(k, u))
    BY <1>6, <2>4, FracLeq
  <2>. QED  BY <2>5 DEF k
<1>9. Leq(Minus(Frac(W, u), c), m)
  <2>1. c \in Rat /\ Frac(W, u) \in Rat /\ Frac(M, u) \in Rat /\ Leq(Frac(W, u), Frac(M, u))
    BY <1>4, FracsAreOrdered DEF IsFrac
  <2>2. Neg(c) \in Rat
    BY <2>1, NegValue
  <2>. QED  BY <2>1, <2>2, PlusIsMonotone DEF Minus, m
<1>10. c \in Rat
  BY <1>4 DEF IsFrac
<1>. QED  BY <1>6, <1>7, <1>8, <1>9, <1>10 DEF m, c

(* The price of a sell, rounded down, is no better than what is bought for   *)
(* what is sold, nor the guaranteed price better than the price.             *)
LEMMA SellPrice ==
    ASSUME NEW u \in Nat \ {0}, NEW s \in Nat \ {0}, NEW M \in Nat, NEW W \in Nat, W <= M, NEW T \in Nat \ {0},
           NEW p \in NonNeg, Leq(p, One), NEW F \in Nat, F * p[2] <= W * p[1]
    PROVE  LET m(k) == Minus(Frac(k, u), Times(Frac(W, u), p))
               price(k) == Frac(Floor(Times(Over(m(k), Frac(T, s)), Num(u))), u)
           IN  price(M) \in Rat /\ Leq(Times(price(M), Frac(T, s)), Frac(M - F, u)) /\ Leq(price(W), price(M))
<1>. DEFINE m == Minus(Frac(M, u), Times(Frac(W, u), p))
            n == Minus(Frac(W, u), Times(Frac(W, u), p))
            t == Frac(T, s)
            x == Over(m, t)
            y == Over(n, t)
            low(r) == Frac(Floor(Times(r, Num(u))), u)
            bought == Frac(M - F, u)
<1>1. m \in NonNeg /\ n \in NonNeg /\ Leq(n, m) /\ Leq(m, bought)
  BY BoughtAtPrice
<1>2. m \in Rat /\ n \in Rat
  BY <1>1, NumIsRat
<1>3. t \in Rat /\ t[1] > 0
  BY FracsAreOrdered
<1>4. bought \in Rat
  BY FracsAreOrdered
<1>. HIDE DEF m, n, t, bought
<1>5. x \in Rat /\ y \in Rat /\ Leq(y, x)
  BY <1>1, <1>2, <1>3, OverAsFactor, OverIsMonotone
<1>. HIDE DEF y
<1>6. low(x) \in Rat /\ Leq(low(x), x) /\ Leq(low(y), low(x))
  BY <1>5, RoundedToUnits
<1>. HIDE DEF low
<1>7. Leq(Times(low(x), t), m)
  BY <1>2, <1>3, <1>6, OverAsFactor
<1>. DEFINE z == Times(low(x), t)
<1>8. z \in Rat
  BY <1>3, <1>6, TimesValue DEF IsFrac
<1>9. Leq(z, m)
  BY <1>7
<1>. HIDE DEF x, z
<1>10. Leq(z, bought)
  BY <1>1, <1>2, <1>4, <1>8, <1>9, LeqIsTransitive
<1>. QED  BY <1>6, <1>10 DEF z, low, x, y, m, n, t, bought

(* The price of a buy, rounded up, is no better than what is sold for what   *)
(* is bought, nor the guaranteed price better than the price.                *)
LEMMA BuyPrice ==
    ASSUME NEW u \in Nat \ {0}, NEW s \in Nat \ {0}, NEW M \in Nat, NEW T \in Nat, NEW V \in Nat, T <= V,
           NEW p \in NonNeg, Leq(p, One), NEW F \in Nat, F * p[2] <= M * p[1],
           Minus(Frac(M, u), Times(Frac(M, u), p)) # Zero
    PROVE  LET m == Minus(Frac(M, u), Times(Frac(M, u), p))
               price(k) == Frac(Ceil(Times(Over(Frac(k, s), m), Num(s))), s)
           IN  /\ price(T) \in Rat /\ price(V) \in Rat /\ Leq(price(T), price(V))
               /\ Leq(Frac(T, s), Times(price(T), Frac(M - F, u)))
<1>. DEFINE m == Minus(Frac(M, u), Times(Frac(M, u), p))
            t == Frac(T, s)
            v == Frac(V, s)
            x == Over(t, m)
            y == Over(v, m)
            high(r) == Frac(Ceil(Times(r, Num(s))), s)
            bought == Frac(M - F, u)
<1>1. m \in NonNeg /\ m[1] > 0 /\ Leq(m, bought)
  BY BoughtAtPrice
<1>2. m \in Rat
  BY <1>1, NumIsRat
<1>3. t \in Rat /\ v \in Rat /\ t \in NonNeg /\ Leq(t, v)
  BY FracsAreOrdered
<1>4. bought \in Rat
  BY FracsAreOrdered
<1>. HIDE DEF m, t, v, bought
<1>5. x \in Rat /\ y \in Rat /\ Leq(x, y) /\ x \in NonNeg
  BY <1>1, <1>2, <1>3, OverAsFactor, OverIsMonotone, NonNegIsClosed
<1>. HIDE DEF y
<1>6. high(x) \in Rat /\ Leq(x, high(x)) /\ Leq(high(x), high(y)) /\ high(y) \in Rat
  BY <1>5, RoundedToUnits
<1>7. high(x) \in NonNeg
  <2>1. Num(s) \in NonNeg
    BY NumIsRat
  <2>2. Times(x, Num(s)) \in NonNeg
    BY <1>5, <2>1, NonNegIsClosed
  <2>. DEFINE w == Times(x, Num(s))
  <2>. HIDE DEF w
  <2>3. Ceil(w) \in Nat
    BY <2>2, FloorOfNonNeg DEF w
  <2>. DEFINE k == Ceil(w)
  <2>. HIDE DEF k
  <2>4. k \in Int /\ k >= 0
    BY <2>3 DEF k
  <2>5. Frac(k, s) \in NonNeg
    BY <2>4, FracsAreOrdered
  <2>. QED  BY <2>5 DEF k, w
<1>. HIDE DEF high
<1>8. Leq(t, Times(high(x), m))
  BY <1>1, <1>2, <1>3, <1>6, OverAsFactor
<1>. HIDE DEF x
<1>9. Leq(Times(high(x), m), Times(high(x), bought))
  BY <1>1, <1>2, <1>4, <1>7, TimesIsMonotone
<1>10. Times(high(x), m) \in Rat /\ Times(high(x), bought) \in Rat
  BY <1>2, <1>4, <1>6, TimesValue DEF IsFrac
<1>11. Leq(t, Times(high(x), bought))
  BY <1>3, <1>8, <1>9, <1>10, LeqIsTransitive
<1>. QED  BY <1>6, <1>11 DEF high, x, y, m, t, v, bought

(* What the affiliate's fee is, but for a gasless one.                       *)
LEMMA FeeIsShare ==
    ASSUME NEW p, p = BuyTokenPercentage, p \in NonNeg, info.worst.maker \in Nat
    PROVE  LET fee == IF par.affiliate.feeType = "gasless" THEN 0 ELSE BuyTokenFeeAmount
           IN  fee \in Nat /\ fee * p[2] <= info.worst.maker * p[1]
<1>. DEFINE W == info.worst.maker
            f == Floor(Over(Times(Num(W), p), Plus(One, p)))
            a == p[1]
            b == p[2]
            fee == IF par.affiliate.feeType = "gasless" THEN 0 ELSE BuyTokenFeeAmount
<1>1. fee = 0 \/ fee = f
  BY DEF BuyTokenFeeAmount
<1>2. f \in Nat /\ f * (a + b) <= W * a
  BY FeeOfBought
<1>3. a \in Nat /\ b \in Nat \ {0} /\ W \in Nat
  BY NumIsRat, RatParts
<1>. HIDE DEF f, a, b, W, fee
<1>4. f * (a + b) = f * a + f * b /\ f * a \in Nat /\ f * b \in Nat /\ W * a \in Nat /\ 0 * b = 0
  BY <1>2, <1>3
<1>5. f * b <= W * a
  BY <1>2, <1>4
<1>6. fee \in Nat /\ fee * b <= W * a
  BY <1>1, <1>2, <1>4, <1>5
<1>. QED  BY <1>6 DEF fee, W, a, b

(* The amounts of an answer are numbers; its price is one as well, or        *)
(* infinite on a buy that gets nothing, and it omits no fee but a gasless    *)
(* one.                                                                      *)
LEMMA HonestPrices ==
    ASSUME AmountsInv, QuoteInv, Answered
    PROVE  /\ NoBetterPrice(reply.buyAmount + GaslessFee)
           /\ reply.price \in Rat \/ (par.side # "sell" /\ reply.price = Infinity)
           /\ reply.sellAmount \in Nat /\ reply.buyAmount \in Nat /\ GaslessFee \in Nat
<1>. DEFINE p == BuyTokenPercentage
            M == info.best.maker
            W == info.worst.maker
            fee == SellTokenFeeAmount(fees)
            T == info.best.taker + fee
            V == info.worst.taker + fee
            F == IF par.affiliate.feeType = "gasless" THEN 0 ELSE BuyTokenFeeAmount
            u == TenTo[BuyDecimals]
            s == TenTo[SellDecimals]
            m(k) == Minus(Frac(k, u), Times(Frac(W, u), p))
<1>1. PathIsQuoted /\ ReplyIsQuoted
  BY DEF QuoteInv, Quoted
<1>2. /\ M \in Nat /\ W \in Nat /\ W <= M /\ info.best.taker \in Nat /\ info.worst.taker \in Nat
      /\ info.best.taker <= info.worst.taker
  BY <1>1 DEF PathIsQuoted, IsInfo, Worse
<1>3. /\ par.side = "sell" => info.worst.taker = info.best.taker /\ info.best.taker > 0
      /\ par.side # "sell" => W = M
  BY <1>1 DEF PathIsQuoted, TakenBy
<1>4. fee \in Nat
  <2>1. FeesInv(fees)
    BY DEF AmountsInv, FeesAreRight
  <2>. QED  BY <2>1, TransfersAddUp DEF SellTokenFeeAmount
<1>5. p \in NonNeg /\ Leq(p, One)
  <2>1. par.affiliate.percentage \in NonNeg /\ Leq(par.affiliate.percentage, One)
    BY DEF AmountsInv, ParametersAreValid, Answered
  <2>2. Zero \in NonNeg /\ Leq(Zero, One)
    BY NumIsRat DEF Leq, Zero, One, Num
  <2>. QED  BY <2>1, <2>2 DEF BuyTokenPercentage
<1>6. F \in Nat /\ F * p[2] <= W * p[1]
  BY <1>2, <1>5, FeeIsShare
<1>7. u \in Nat \ {0} /\ s \in Nat \ {0}
  BY NumbersAssumption, TenIsPositive
<1>8. /\ reply.sellAmount = T /\ reply.buyAmount = M - BuyTokenFeeAmount
      /\ reply.price = Price(info.best, fee) /\ reply.guaranteedPrice = Price(info.worst, fee)
  BY <1>1 DEF ReplyIsQuoted
<1>8a. /\ GaslessFee \in Nat /\ BuyTokenFeeAmount \in Nat
      /\ F = BuyTokenFeeAmount - GaslessFee /\ reply.buyAmount + GaslessFee = M - F
  <2>1. GaslessFee \in Nat
    BY <1>1, GaslessFeeIsNumber DEF PathIsQuoted
  <2>2. CASE par.affiliate.feeType = "gasless"
    <3>1. GaslessFee = BuyTokenFeeAmount /\ F = 0
      BY <2>2 DEF GaslessFee
    <3>. HIDE DEF M, F
    <3>. QED  BY <1>2, <1>8, <2>1, <3>1
  <2>3. CASE par.affiliate.feeType # "gasless"
    <3>1. GaslessFee = 0 /\ F = BuyTokenFeeAmount
      BY <2>3 DEF GaslessFee
    <3>. HIDE DEF M, F
    <3>. QED  BY <1>2, <1>6, <1>8, <2>1, <3>1
  <2>. QED  BY <2>2, <2>3
<1>9. /\ Unit(reply.buyAmount + GaslessFee, BuyDecimals) = Frac(M - F, u)
      /\ Unit(reply.sellAmount, SellDecimals) = Frac(T, s)
  BY <1>8a, <1>8 DEF Unit
<1>10. reply.sellAmount \in Nat /\ reply.buyAmount \in Nat /\ GaslessFee \in Nat
  <2>1. ~ (reply.buyAmount <= 0)
    BY <1>1 DEF ReplyIsQuoted
  <2>. HIDE DEF M, T
  <2>2. T \in Nat /\ M - BuyTokenFeeAmount \in Int
    BY <1>8a, <1>2, <1>4 DEF T
  <2>. QED  BY <1>8a, <1>8, <2>1, <2>2
<1>11. CASE par.side = "sell"
  <2>. DEFINE price(k) == Frac(Floor(Times(Over(m(k), Frac(T, s)), Num(u))), u)
  <2>1. T = V /\ T \in Nat \ {0}
    BY <1>2, <1>3, <1>4, <1>11
  <2>2. reply.price = price(M)
    BY <1>8, <1>11 DEF Price, RoundPrice, Unit
  <2>3. reply.guaranteedPrice = price(W)
    BY <1>8, <1>11, <2>1 DEF Price, RoundPrice, Unit
  <2>. HIDE DEF p, M, W, T, V, F, u, s
  <2>4. price(M) \in Rat /\ Leq(Times(price(M), Frac(T, s)), Frac(M - F, u)) /\ Leq(price(W), price(M))
    BY <1>2, <1>5, <1>6, <1>7, <2>1, SellPrice
  <2>. HIDE DEF price
  <2>5. /\ reply.price \in Rat
        /\ Leq(Times(reply.price, Frac(T, s)), Frac(M - F, u)) /\ Leq(reply.guaranteedPrice, reply.price)
    BY <2>2, <2>3, <2>4
  <2>6. NoBetterPrice(reply.buyAmount + GaslessFee)
    BY <1>9, <1>11, <2>5 DEF NoBetterPrice
  <2>. QED  BY <1>10, <2>5, <2>6
<1>12. CASE par.side # "sell"
  <2>. DEFINE price(k) == Frac(Ceil(Times(Over(Frac(k, s), m(M)), Num(s))), s)
  <2>1. T \in Nat /\ V \in Nat /\ T <= V /\ W = M
    BY <1>2, <1>3, <1>4, <1>12
  <2>2. reply.price = IF m(M) = Zero THEN Infinity ELSE price(T)
    BY <1>8, <1>12 DEF Price, RoundPrice, Unit
  <2>3. reply.guaranteedPrice = IF m(M) = Zero THEN Infinity ELSE price(V)
    BY <1>8, <1>12, <2>1 DEF Price, RoundPrice, Unit
  <2>4. CASE m(M) = Zero
    <3>1. reply.price = Infinity /\ reply.guaranteedPrice = Infinity
      BY <2>2, <2>3, <2>4
    <3>. QED  BY <1>12, <1>10, <3>1 DEF NoBetterPrice
  <2>5. CASE m(M) # Zero
    <3>1. m(M) = Minus(Frac(M, u), Times(Frac(M, u), p))
      BY <2>1
    <3>2. F * p[2] <= M * p[1]
      BY <1>6, <2>1
    <3>3. reply.price = price(T) /\ reply.guaranteedPrice = price(V)
      BY <2>2, <2>3, <2>5
    <3>. HIDE DEF p, M, W, T, V, F, u, s
    <3>4. /\ price(T) \in Rat /\ price(V) \in Rat /\ Leq(price(T), price(V))
          /\ Leq(Frac(T, s), Times(price(T), Frac(M - F, u)))
      BY <1>2, <1>5, <1>6, <1>7, <2>1, <2>5, <3>1, <3>2, BuyPrice
    <3>. HIDE DEF price
    <3>5. /\ reply.price # Infinity /\ reply.guaranteedPrice # Infinity /\ Leq(reply.price, reply.guaranteedPrice)
          /\ Leq(Frac(T, s), Times(reply.price, Frac(M - F, u)))
      BY <3>3, <3>4, NumbersAssumption
    <3>6. reply.price \in Rat
      BY <3>3, <3>4
    <3>7. NoBetterPrice(reply.buyAmount + GaslessFee)
      BY <1>9, <1>12, <3>5 DEF NoBetterPrice
    <3>. QED  BY <1>10, <3>6, <3>7
  <2>. QED  BY <2>4, <2>5
<1>. QED  BY <1>11, <1>12

(* _getSwapQuotePrice: whatever the decimals of the tokens, the affiliate's  *)
(* percentage and the slippage, the price of an answer is no better than     *)
(* that of its amounts before a gasless fee (0 unless it is enabled), and    *)
(* the guaranteed price no better than the price.                            *)
THEOREM PricesOmitOnlyGasless == Spec => []PriceOmitsOnlyGasless
<1>1. AmountsInv /\ QuoteInv => PriceOmitsOnlyGasless
  BY HonestPrices DEF PriceOmitsOnlyGasless
<1>. QED  BY <1>1, AmountsInvariant, QuoteInvariant, PTL

-----------------------------------------------------------------------------
(* The rates of the tokens to the native one are numbers that are not        *)
(* negative, and positive unless they are unknown.                           *)
LEMMA RateIsKnown ==
    ASSUME NEW perEth \in Nat, NEW decimals \in {BuyDecimals, SellDecimals}
    PROVE  LET rate == TokenToEthRate(perEth, decimals)
           IN  rate \in Rat /\ rate \in NonNeg /\ (rate # Zero => rate[1] > 0)
<1>. DEFINE u == TenTo[decimals]
            w == TenTo[WethDecimals]
            a == Num(perEth * w)
            b == Num(u)
            x == Times(Over(a, b), b)
            k == HalfUp(x)
<1>1. u \in Nat \ {0} /\ w \in Nat \ {0}
  BY NumbersAssumption, TenIsPositive
<1>2. TokenToEthRate(perEth, decimals) = Frac(k, u)
  BY DEF TokenToEthRate, Unit
<1>. HIDE DEF u, w
<1>3. a \in NonNeg /\ b \in NonNeg /\ b[1] > 0
  <2>1. perEth * w \in Nat
    BY <1>1
  <2>. DEFINE n == perEth * w
  <2>. HIDE DEF n
  <2>2. Num(n) \in NonNeg
    BY <2>1, NumIsRat DEF n
  <2>3. Num(u) \in NonNeg /\ Num(u)[1] = u
    BY <1>1, NumIsRat
  <2>. QED  BY <1>1, <2>2, <2>3 DEF n
<1>. HIDE DEF a, b
<1>4. x \in NonNeg
  <2>1. Over(a, b) \in NonNeg
    BY <1>3, NonNegIsClosed
  <2>. DEFINE y == Over(a, b)
  <2>. HIDE DEF y
  <2>2. Times(y, b) \in NonNeg
    BY <1>3, <2>1, NonNegIsClosed DEF y
  <2>. QED  BY <2>2 DEF y
<1>. HIDE DEF x
<1>5. k \in Nat
  <2>. DEFINE n == x[1]
              d == x[2]
  <2>1. n \in Nat /\ d \in Nat \ {0} /\ IsFrac(x, n, d)
    BY <1>4, NumIsRat, RatParts, RatIsFrac
  <2>. HIDE DEF n, d
  <2>. QED  BY <1>4, <2>1, HalfUpIsNear
<1>. HIDE DEF k
<1>6. Frac(k, u) \in Rat /\ Frac(k, u) \in NonNeg /\ (k > 0 => Frac(k, u)[1] > 0)
  BY <1>1, <1>5, FracsAreOrdered
<1>7. k = 0 => Frac(k, u) = Zero
  BY <1>1, FracOfNothing
<1>. QED  BY <1>2, <1>5, <1>6, <1>7

(* What a quote that is answered may differ from the rates of the fee        *)
(* sources.                                                                  *)
WithinImpact ==
    par.endpoint = "quote" /\ reply.impact # Absent =>
        LET bought == Unit(reply.buyAmount + GaslessFee, BuyDecimals)
            sold == Unit(reply.sellAmount, SellDecimals)
        IN Leq(Times(Minus(One, par.impact), Times(sold, BuyTokenToEthRate)), Times(bought, SellTokenToEthRate))

(* The rate that is compared is one at which no more is bought than what is  *)
(* bought, unless a buy sells nothing: a price rounded against the taker     *)
(* remains so when it is inverted.                                           *)
LEMMA NormalizedRate ==
    ASSUME AmountsInv, QuoteInv, Answered
    PROVE  LET q == NormalizedPrice(reply.price)
               bought == Unit(reply.buyAmount + GaslessFee, BuyDecimals)
               sold == Unit(reply.sellAmount, SellDecimals)
           IN  /\ sold \in NonNeg /\ bought \in NonNeg /\ bought \in Rat
               /\ sold[1] > 0 => q \in Rat /\ Leq(Times(q, sold), bought)
<1>. DEFINE bought == Unit(reply.buyAmount + GaslessFee, BuyDecimals)
            sold == Unit(reply.sellAmount, SellDecimals)
            price == reply.price
<1>1. /\ NoBetterPrice(reply.buyAmount + GaslessFee) /\ (price \in Rat \/ (par.side # "sell" /\ price = Infinity))
      /\ reply.sellAmount \in Nat /\ reply.buyAmount \in Nat /\ GaslessFee \in Nat
  BY HonestPrices
<1>2. sold \in NonNeg /\ sold \in Rat /\ bought \in NonNeg /\ bought \in Rat
  <2>. DEFINE u == TenTo[BuyDecimals]
              s == TenTo[SellDecimals]
              m == reply.buyAmount + GaslessFee
              t == reply.sellAmount
  <2>1. u \in Nat \ {0} /\ s \in Nat \ {0}
    BY NumbersAssumption, TenIsPositive
  <2>2. m \in Int /\ m >= 0 /\ t \in Int /\ t >= 0
    BY <1>1
  <2>3. bought = Frac(m, u) /\ sold = Frac(t, s)
    BY DEF Unit
  <2>. HIDE DEF u, s, m, t
  <2>4. Frac(m, u) \in NonNeg /\ Frac(m, u) \in Rat /\ Frac(t, s) \in NonNeg /\ Frac(t, s) \in Rat
    BY <2>1, <2>2, FracsAreOrdered
  <2>. QED  BY <2>3, <2>4
<1>3. CASE par.side = "sell"
  <2>1. price \in Rat /\ NormalizedPrice(price) = price /\ Leq(Times(price, sold), bought)
    BY <1>1, <1>3, NumbersAssumption DEF NormalizedPrice, NoBetterPrice
  <2>. QED  BY <1>2, <2>1
<1>4. CASE par.side # "sell" /\ price = Infinity
  <2>1. NormalizedPrice(price) = Zero
    BY <1>4 DEF NormalizedPrice
  <2>2. Zero \in Rat /\ Leq(Times(Zero, sold), bought)
    <3>. DEFINE zero == 0
                one == 1
                a == sold[1]
                b == sold[2]
                c == bought[1]
                d == bought[2]
    <3>1. a \in Int /\ b \in Nat \ {0} /\ IsFrac(sold, a, b) /\ c \in Nat /\ d \in Nat \ {0} /\ IsFrac(bought, c, d)
      BY <1>2, NumIsRat, RatParts, RatIsFrac
    <3>2. zero \in Int /\ one \in Nat \ {0} /\ IsFrac(Zero, zero, one) /\ Zero \in Rat
      BY NumIsRat DEF Zero, IsFrac
    <3>. HIDE DEF zero, one, a, b, c, d
    <3>3. IsFrac(Times(Zero, sold), zero * a, one * b)
      BY <3>1, <3>2, ProductOfFracs
    <3>4. zero * a \in Int /\ one * b \in Nat \ {0} /\ (zero * a) * d <= c * (one * b)
      BY <3>1 DEF zero, one
    <3>. QED  BY <3>1, <3>2, <3>3, <3>4, FracLeq
  <2>. QED  BY <1>2, <2>1, <2>2
<1>5. CASE par.side # "sell" /\ price # Infinity /\ sold[1] > 0
  <2>1. price \in Rat /\ NormalizedPrice(price) = Over(One, price) /\ Leq(sold, Times(price, bought))
    BY <1>1, <1>5 DEF NormalizedPrice, NoBetterPrice
  <2>. DEFINE one == 1
              a == sold[1]
              b == sold[2]
              c == bought[1]
              d == bought[2]
              p == price[1]
              q == price[2]
  <2>2. a \in Nat \ {0} /\ b \in Nat \ {0} /\ IsFrac(sold, a, b) /\ c \in Nat /\ d \in Nat \ {0} /\ IsFrac(bought, c, d)
    BY <1>2, <1>5, NumIsRat, RatParts, RatIsFrac
  <2>3. p \in Int /\ q \in Nat \ {0} /\ IsFrac(price, p, q)
    BY <2>1, RatParts, RatIsFrac
  <2>4. one \in Nat \ {0} /\ one \in Int /\ IsFrac(One, one, one)
    BY NumIsRat DEF One, IsFrac
  <2>. HIDE DEF one, a, b, c, d, p, q, price, sold, bought
  <2>5. a * (q * d) <= (p * c) * b
    <3>1. IsFrac(Times(price, bought), p * c, q * d) /\ p * c \in Int /\ q * d \in Nat \ {0}
      BY <2>2, <2>3, ProductOfFracs
    <3>. QED  BY <2>1, <2>2, <3>1, FracLeq
  <2>6. p \in Nat \ {0}
    <3>1. a * (q * d) \in Nat \ {0}
      BY <2>2, <2>3
    <3>2. c * b \in Nat /\ (p * c) * b = p * (c * b)
      BY <2>2, <2>3
    <3>. DEFINE m == c * b
                n == a * (q * d)
    <3>3. m \in Nat /\ n > 0 /\ n \in Int /\ n <= p * m
      BY <2>5, <3>1, <3>2
    <3>. HIDE DEF m, n
    <3>. QED  BY <2>3, <3>3
  <2>. DEFINE r == Over(One, price)
  <2>7. IsFrac(r, one * q, one * p) /\ one * q = q /\ one * p = p
    BY <2>3, <2>4, <2>6, QuotientOfFracs DEF one
  <2>8. IsFrac(r, q, p)
    BY <2>7
  <2>. HIDE DEF r
  <2>9. IsFrac(Times(r, sold), q * a, p * b) /\ q * a \in Int /\ p * b \in Nat \ {0}
    BY <2>2, <2>3, <2>6, <2>8, ProductOfFracs
  <2>10. (q * a) * d <= c * (p * b)
    <3>1. (q * a) * d = a * (q * d) /\ c * (p * b) = (p * c) * b
      BY <2>2, <2>3
    <3>. QED  BY <2>5, <3>1
  <2>11. Leq(Times(r, sold), bought) /\ r \in Rat
    <3>. DEFINE x == Times(r, sold)
                m == q * a
                n == p * b
    <3>1. m \in Int /\ n \in Nat \ {0} /\ IsFrac(x, m, n) /\ m * d <= c * n
      BY <2>9, <2>10
    <3>. HIDE DEF x, m, n
    <3>2. Leq(x, bought)
      BY <2>2, <3>1, FracLeq
    <3>3. r \in Rat
      BY <2>8 DEF IsFrac
    <3>. QED  BY <3>2, <3>3 DEF x
  <2>12. NormalizedPrice(price) = r
    BY <2>1 DEF r
  <2>. QED  BY <1>2, <2>11, <2>12 DEF price, sold, bought
<1>. QED  BY <1>2, <1>3, <1>4, <1>5

(* An answer whose estimated impact is no more than the request allows       *)
(* differs from the rates of the fee sources by no more than that, whatever  *)
(* was rounded on the way from the amounts to the estimate.                  *)
LEMMA AnswerIsWithin ==
    ASSUME AmountsInv, QuoteInv, Answered
    PROVE  WithinImpact
<1>. SUFFICES ASSUME par.endpoint = "quote", reply.impact # Absent
              PROVE  Leq(Times(Minus(One, par.impact), Times(Unit(reply.sellAmount, SellDecimals), BuyTokenToEthRate)),
                         Times(Unit(reply.buyAmount + GaslessFee, BuyDecimals), SellTokenToEthRate))
  BY DEF WithinImpact
<1>. DEFINE bought == Unit(reply.buyAmount + GaslessFee, BuyDecimals)
            sold == Unit(reply.sellAmount, SellDecimals)
            q == NormalizedPrice(reply.price)
            i == par.impact
            b == BuyTokenToEthRate
            s == SellTokenToEthRate
            x == Minus(One, Over(q, Over(b, s)))
            k == Ceil(Times(x, Num(1000000)))
            percent == Frac(k, 10000)
            limit == Times(i, Num(100))
<1>1. sold \in NonNeg /\ bought \in NonNeg /\ bought \in Rat /\ (sold[1] > 0 => q \in Rat /\ Leq(Times(q, sold), bought))
  BY NormalizedRate
<1>2. i \in Rat
  <2>1. i \in NonNeg
    BY DEF AmountsInv, ParametersAreValid, Answered
  <2>. QED  BY <2>1, NumIsRat
<1>3. reply.impact = EstimatedPriceImpact(reply.price) /\ ~ ImpactTooHigh(reply.impact)
  BY DEF QuoteInv, ReplyIsQuoted
<1>4. s # Zero /\ b # Zero /\ reply.impact = MaxOf(Zero, percent)
  BY <1>3 DEF EstimatedPriceImpact
<1>5. b \in Rat /\ b \in NonNeg /\ b[1] > 0 /\ s \in Rat /\ s \in NonNeg /\ s[1] > 0
  <2>1. MakerPerEth \in Nat /\ TakerPerEth \in Nat
    BY PathAssumption DEF MakerPerEth, TakerPerEth
  <2>2. b \in Rat /\ b \in NonNeg /\ (b # Zero => b[1] > 0)
    BY <2>1, RateIsKnown DEF BuyTokenToEthRate
  <2>3. s \in Rat /\ s \in NonNeg /\ (s # Zero => s[1] > 0)
    BY <2>1, RateIsKnown DEF SellTokenToEthRate
  <2>. QED  BY <1>4, <2>2, <2>3
<1>6. Leq(MaxOf(Zero, percent), limit)
  BY <1>3, <1>4 DEF ImpactTooHigh, Less
<1>. HIDE DEF bought, sold, q, i, b, s
<1>7. CASE sold[1] > 0
  <2>1. x \in Rat
    <3>1. Over(b, s) \in NonNeg /\ Over(b, s)[1] > 0
      BY <1>5, NonNegIsClosed
    <3>. DEFINE r == Over(b, s)
    <3>2. r \in Rat /\ r[1] > 0
      BY <3>1, NumIsRat
    <3>. HIDE DEF r
    <3>3. Over(q, r) \in Rat
      BY <1>1, <1>7, <3>2, OverAsFactor
    <3>. DEFINE v == Over(q, r)
    <3>4. One \in Rat
      BY NumIsRat
    <3>5. v \in Rat
      BY <3>3
    <3>. HIDE DEF v
    <3>6. Minus(One, v) \in Rat
      BY <3>4, <3>5, MinusValue DEF IsFrac
    <3>. QED  BY <3>6 DEF v, r
  <2>2. Leq(percent, limit)
    <3>. HIDE DEF x, limit
    <3>1. Times(x, Num(1000000)) \in Rat
      <4>. DEFINE n == 1000000
      <4>1. Num(n) \in Rat
        BY NumIsRat
      <4>. HIDE DEF n
      <4>2. Times(x, Num(n)) \in Rat
        BY <2>1, <4>1, TimesValue DEF IsFrac
      <4>. QED  BY <4>2 DEF n
    <3>2. k \in Int
      BY <3>1, CeilIsAbove
    <3>. HIDE DEF k
    <3>3. percent \in Rat
      <4>. DEFINE n == 10000
      <4>1. n \in Nat \ {0}
        OBVIOUS
      <4>. HIDE DEF n
      <4>2. Frac(k, n) \in Rat
        BY <3>2, <4>1, FracValue DEF IsFrac
      <4>. QED  BY <4>2 DEF n
    <3>. HIDE DEF percent
    <3>4. Zero \in Rat /\ limit \in Rat
      <4>. DEFINE n == 100
      <4>1. Num(n) \in Rat /\ Zero \in Rat
        BY NumIsRat
      <4>. HIDE DEF n
      <4>2. Times(i, Num(n)) \in Rat
        BY <1>2, <4>1, TimesValue DEF IsFrac
      <4>. QED  BY <4>1, <4>2 DEF n, limit
    <3>5. Leq(percent, MaxOf(Zero, percent)) /\ MaxOf(Zero, percent) \in Rat
      BY <3>3, <3>4, LeqIsTotal DEF MaxOf
    <3>. DEFINE m == MaxOf(Zero, percent)
    <3>. HIDE DEF m
    <3>6. Leq(percent, m) /\ Leq(m, limit) /\ m \in Rat
      BY <1>6, <3>5 DEF m
    <3>. QED  BY <3>3, <3>4, <3>6, LeqIsTransitive
  <2>3. Leq(x, i)
    <3>. HIDE DEF x
    <3>. DEFINE c == 100
                e == 10000
    <3>1. c \in Nat \ {0} /\ e \in Nat \ {0} /\ c * e = 1000000
      OBVIOUS
    <3>2. Leq(Frac(Ceil(Times(x, Num(c * e))), e), Times(i, Num(c)))
      BY <2>2, <3>1
    <3>. HIDE DEF c, e
    <3>. QED  BY <1>2, <2>1, <3>1, <3>2, LimitOfPercent
  <2>4. Leq(Times(Minus(One, i), Times(sold, b)), Times(bought, s))
    BY <1>1, <1>2, <1>5, <1>7, <2>3, RateIsLimited
  <2>. QED  BY <2>4 DEF bought, sold, i, b, s
<1>8. CASE ~ (sold[1] > 0)
  <2>. DEFINE zero == 0
              y == Times(sold, b)
              z == Minus(One, i)
              d1 == sold[2]
              d2 == b[2]
              c2 == b[1]
              n3 == z[1]
              d3 == z[2]
              right == Times(bought, s)
  <2>1. sold[1] = zero /\ d1 \in Nat \ {0} /\ IsFrac(sold, zero, d1)
    BY <1>1, <1>8, NumIsRat, RatParts, RatIsFrac
  <2>2. d2 \in Nat \ {0} /\ c2 \in Int /\ IsFrac(b, c2, d2)
    BY <1>5, RatParts, RatIsFrac
  <2>3. z \in Rat
    BY <1>2, NumIsRat, MinusValue DEF IsFrac
  <2>. HIDE DEF z
  <2>4. n3 \in Int /\ d3 \in Nat \ {0} /\ IsFrac(z, n3, d3)
    BY <2>3, RatParts, RatIsFrac
  <2>5. zero \in Int
    OBVIOUS
  <2>. HIDE DEF zero, d1, c2, d2, n3, d3
  <2>6. IsFrac(y, zero * c2, d1 * d2) /\ zero * c2 = zero /\ d1 * d2 \in Nat \ {0}
    <3>1. IsFrac(y, zero * c2, d1 * d2)
      BY <2>1, <2>2, <2>5, ProductOfFracs
    <3>. QED  BY <2>1, <2>2, <3>1 DEF zero
  <2>. DEFINE d4 == d1 * d2
  <2>7. IsFrac(y, zero, d4) /\ d4 \in Nat \ {0}
    BY <2>6
  <2>. HIDE DEF y, d4
  <2>8. IsFrac(Times(z, y), n3 * zero, d3 * d4) /\ n3 * zero = zero /\ d3 * d4 \in Nat \ {0}
    <3>1. IsFrac(Times(z, y), n3 * zero, d3 * d4)
      BY <2>4, <2>5, <2>7, ProductOfFracs
    <3>. QED  BY <2>4, <2>7, <3>1 DEF zero
  <2>9. right \in NonNeg
    BY <1>1, <1>5, NonNegIsClosed
  <2>. DEFINE left == Times(z, y)
              d5 == d3 * d4
              n6 == right[1]
              d6 == right[2]
  <2>10. n6 \in Int /\ n6 >= 0 /\ d6 \in Nat \ {0} /\ IsFrac(right, n6, d6) /\ IsFrac(left, zero, d5) /\ d5 \in Nat \ {0}
    BY <2>8, <2>9, NumIsRat, RatParts, RatIsFrac
  <2>. HIDE DEF left, right, d5, n6, d6
  <2>11. zero * d6 <= n6 * d5
    BY <2>10 DEF zero
  <2>12. Leq(left, right)
    BY <2>5, <2>10, <2>11, FracLeq
  <2>. QED  BY <2>12 DEF left, right, z, y, bought, sold, i, b, s
<1>. QED  BY <1>1, <1>7, <1>8

(* What remains of a quote once it has been answered.                        *)
ImpactInv ==
    (stage = "done" \/ (stage = "answered" /\ response = "ok")) /\ ~ par.wrap /\ ~ par.unwrap => WithinImpact

(* Every step keeps it: an answer that is sent is one that was calculated.   *)
LEMMA NextImpact ==
    (Answered => WithinImpact)' /\ ImpactInv /\ [Next]_vars => ImpactInv'
<1>. SUFFICES ASSUME (Answered => WithinImpact)', ImpactInv, [Next]_vars,
                     stage' = "answered" /\ response' = "ok", ~ par'.wrap /\ ~ par'.unwrap
              PROVE  WithinImpact'
  BY DEF ImpactInv, Answered
<1>1. ASSUME par' = par, reply' = reply, req' = req, info' = info PROVE WithinImpact' <=> WithinImpact
  <2>1. GaslessFee' = GaslessFee
    BY <1>1 DEF GaslessFee, BuyTokenFeeAmount, BuyTokenPercentage, MakerPerEth
  <2>2. BuyTokenToEthRate' = BuyTokenToEthRate /\ SellTokenToEthRate' = SellTokenToEthRate
    BY <1>1 DEF BuyTokenToEthRate, SellTokenToEthRate, MakerPerEth, TakerPerEth
  <2>. QED  BY <1>1, <2>1, <2>2 DEF WithinImpact
<1>2. CASE Respond
  <2>1. par' = par /\ reply' = reply /\ req' = req /\ info' = info /\ response' = ResponseTo(Outcome)
    BY <1>2 DEF Respond
  <2>2. stage = "done"
    <3>1. stage \in {"done", "invalid", "noOptimalPath", "insufficientFunds", "revert", "gasEstimation", "error"}
      BY <1>2 DEF Respond, EstimateErrors
    <3>2. Outcome = stage \/ Outcome = "error"
      BY DEF Outcome
    <3>. QED  BY <2>1, <3>1, <3>2 DEF ResponseTo
  <2>. QED  BY <1>1, <2>1, <2>2 DEF ImpactInv
<1>3. CASE UNCHANGED vars
  <2>1. par' = par /\ reply' = reply /\ req' = req /\ info' = info /\ stage' = stage /\ response' = response
    BY <1>3 DEF vars
  <2>. QED  BY <1>1, <2>1 DEF ImpactInv
<1>4. CASE Parse \/ Start \/ Route \/ CreateQuote \/ Encode \/ Estimate \/ Reply
  <2>1. stage' # "answered"
    BY <1>4 DEF Parse, Start, Route, CreateQuote, Encode, Estimate, EstimateErrors, Reply
  <2>. QED  BY <2>1
<1>. QED  BY <1>2, <1>3, <1>4 DEF Next

(* priceImpactProtectionPercentage: whatever the prices, the decimals, the   *)
(* fees and the roundings, a quote that is sent trades at a rate that is     *)
(* worse than the one of the fee sources by no more than the request allows  *)
(* and a gasless fee, which is 0 unless it is enabled, takes.                *)
THEOREM ImpactIsProtected == Spec => []ImpactIsLimited
<1>1. Init => ImpactInv
  BY DEF Init, ImpactInv
<1>2. AmountsInv /\ QuoteInv => (Answered => WithinImpact)
  BY AnswerIsWithin
<1>3. ImpactInv => ImpactIsLimited
  BY DEF ImpactInv, WithinImpact, ImpactIsLimited, Executable
<1>. QED  BY <1>1, <1>2, <1>3, NextImpact, AmountsInvariant, QuoteInvariant, PTL DEF Spec

-----------------------------------------------------------------------------
(* The trade of a request, from its parameters to the transaction that is    *)
(* sent.                                                                     *)

CasesOfPath ==
    LET q == calculateQuoteInfo(par.side, amount, par.slippage, path)
    IN  /\ info.best = [q.best EXCEPT !.gas = @ + GasOverhead(path)]
        /\ info.worst = [q.worst EXCEPT !.gas = @ + GasOverhead(path)]
        /\ info.sources = convertToLiquiditySources(q.breakdown)

TradeInv ==
    /\ stage \in {"parsed", "done"} \cup Trading => RequestAccepted(req) /\ par = Params(req)
    /\ stage \in Trading \/ Answered => (par.feeConfigs = NoFees => fees = NoFees)
    /\ Quoted => CasesOfPath
    /\ stage \in {"encoded", "estimated"} \/ Answered => tx = Transaction(Quote, Options(fees))
    /\ Answered => /\ reply.value = AdjustedValue
                   /\ reply.expected = ExpectedSlippageOf(reply.buyAmount, reply.sellAmount)

(* No configuration of fees makes no fee.                                    *)
LEMMA NoConfigsNoFees ==
    ASSUME NEW a, NEW b, NEW c, NEW d, NEW e
    PROVE  calculateFees(NoFees, a, b, c, d, e) = NoFees
BY DEF calculateFees, NoFees, IntegratorFee, ZeroExFee, GasFee

(* What depends on the request, its path and its cases stays with them.      *)
LEMMA SameTrade ==
    ASSUME UNCHANGED <<req, par, amount, fees, path, info>>
    PROVE  /\ Transaction(Quote, Options(fees))' = Transaction(Quote, Options(fees))
           /\ AdjustedValue' = AdjustedValue /\ (CasesOfPath' <=> CasesOfPath)
           /\ \A a, b : ExpectedSlippageOf(a, b)' = ExpectedSlippageOf(a, b)
<1>1. Quote' = Quote
  BY DEF Quote
<1>2. Options(fees)' = Options(fees)
  <2>1. BuyTokenFeeAmount' = BuyTokenFeeAmount /\ PositiveSlippageFee' = PositiveSlippageFee /\ MakerPerEth' = MakerPerEth
    BY DEF BuyTokenFeeAmount, BuyTokenPercentage, PositiveSlippageFee, MakerPerEth
  <2>. QED  BY <2>1 DEF Options
<1>3. Transaction(Quote, Options(fees))' = Transaction(Quote', Options(fees)')
  OBVIOUS
<1>. QED  BY <1>1, <1>2, <1>3 DEF AdjustedValue, CasesOfPath, ExpectedSlippageOf

(* Every step keeps the fourth invariant.                                    *)
LEMMA NextTrade == TradeInv /\ [Next]_vars => TradeInv'
<1>. SUFFICES ASSUME TradeInv, [Next]_vars PROVE TradeInv'
  OBVIOUS
<1>1. CASE Parse
  <2>1. stage' \in {"invalid", "parsed", "done"} /\ (stage' = "done" => par'.wrap \/ par'.unwrap) /\ req' = req
    BY <1>1 DEF Parse
  <2>2. stage' # "invalid" => RequestAccepted(req) /\ par' = Params(req)
    BY <1>1 DEF Parse
  <2>3. (stage \in {"parsed", "done"} \cup Trading => RequestAccepted(req) /\ par = Params(req))'
    BY <2>1, <2>2 DEF Trading
  <2>4. (~ (stage \in Trading) /\ ~ Answered /\ ~ Quoted /\ ~ (stage \in {"encoded", "estimated"}))'
    BY <2>1 DEF Answered, Quoted, Trading
  <2>. QED  BY <2>3, <2>4 DEF TradeInv
<1>2. CASE Start
  <2>1. stage = "parsed" /\ stage' \in {"insufficientFunds", "routed"} /\ req' = req /\ par' = par
    BY <1>2 DEF Start
  <2>2. RequestAccepted(req) /\ par = Params(req)
    BY <2>1 DEF TradeInv
  <2>3. (~ Answered /\ ~ Quoted /\ ~ (stage \in {"encoded", "estimated"}))'
    BY <2>1 DEF Answered, Quoted
  <2>4. par.feeConfigs = NoFees => fees' = NoFees
    BY <1>2, NoConfigsNoFees DEF Start, SellTokenFees
  <2>5. (stage \in {"parsed", "done"} \cup Trading => RequestAccepted(req) /\ par = Params(req))'
    BY <2>1, <2>2
  <2>6. (stage \in Trading \/ Answered => (par.feeConfigs = NoFees => fees = NoFees))'
    BY <2>1, <2>4
  <2>. QED  BY <2>3, <2>5, <2>6 DEF TradeInv
<1>3. CASE Route
  <2>1. stage = "routed" /\ stage' \in {"noOptimalPath", "path"} /\ req' = req /\ par' = par /\ fees' = fees
    BY <1>3 DEF Route
  <2>2. RequestAccepted(req) /\ par = Params(req) /\ (par.feeConfigs = NoFees => fees = NoFees)
    BY <2>1 DEF TradeInv, Trading
  <2>3. (~ Answered /\ ~ Quoted /\ ~ (stage \in {"encoded", "estimated"}))'
    BY <2>1 DEF Answered, Quoted
  <2>4. (stage \in {"parsed", "done"} \cup Trading => RequestAccepted(req) /\ par = Params(req))'
    BY <2>1, <2>2
  <2>5. (stage \in Trading \/ Answered => (par.feeConfigs = NoFees => fees = NoFees))'
    BY <2>1, <2>2
  <2>. QED  BY <2>3, <2>4, <2>5 DEF TradeInv
<1>4. CASE CreateQuote
  <2>1. stage = "path" /\ stage' \in {"noOptimalPath", "priced"} /\ req' = req /\ par' = par /\ fees' = fees /\ amount' = amount
    BY <1>4 DEF CreateQuote
  <2>2. RequestAccepted(req) /\ par = Params(req) /\ (par.feeConfigs = NoFees => fees = NoFees)
    BY <2>1 DEF TradeInv, Trading
  <2>3. (~ Answered /\ ~ (stage \in {"encoded", "estimated"}))'
    BY <2>1 DEF Answered
  <2>4. stage' = "priced" => CasesOfPath'
    BY <1>4 DEF CreateQuote, CasesOfPath
  <2>5. (stage \in {"parsed", "done"} \cup Trading => RequestAccepted(req) /\ par = Params(req))'
    BY <2>1, <2>2
  <2>6. (stage \in Trading \/ Answered => (par.feeConfigs = NoFees => fees = NoFees))'
    BY <2>1, <2>2
  <2>7. (Quoted => CasesOfPath)'
    BY <2>1, <2>3, <2>4 DEF Quoted
  <2>. QED  BY <2>3, <2>5, <2>6, <2>7 DEF TradeInv
<1>5. CASE Encode
  <2>1. stage = "priced" /\ stage' = "encoded" /\ UNCHANGED <<req, par, amount, path, info>>
    BY <1>5 DEF Encode
  <2>2. RequestAccepted(req) /\ par = Params(req) /\ (par.feeConfigs = NoFees => fees = NoFees) /\ CasesOfPath
    BY <2>1 DEF TradeInv, Trading, Quoted
  <2>3. ~ Answered'
    BY <2>1 DEF Answered
  <2>4. CasesOfPath'
    BY <2>1, <2>2 DEF CasesOfPath
  <2>5. par.feeConfigs = NoFees => fees' = NoFees
    BY <1>5, <2>2, NoConfigsNoFees DEF Encode, FinalFees, SellTokenFees
  <2>6. tx' = Transaction(Quote, Options(fees))'
    <3>1. tx' = Transaction(Quote, Options(fees'))
      BY <1>5 DEF Encode
    <3>2. Quote' = Quote
      BY <2>1 DEF Quote
    <3>3. Options(fees)' = Options(fees')
      <4>1. BuyTokenFeeAmount' = BuyTokenFeeAmount /\ PositiveSlippageFee' = PositiveSlippageFee /\ MakerPerEth' = MakerPerEth
        BY <2>1 DEF BuyTokenFeeAmount, BuyTokenPercentage, PositiveSlippageFee, MakerPerEth
      <4>. QED  BY <2>1, <4>1 DEF Options
    <3>. QED  BY <3>1, <3>2, <3>3
  <2>7. (stage \in {"parsed", "done"} \cup Trading => RequestAccepted(req) /\ par = Params(req))'
    BY <2>1, <2>2
  <2>8. (stage \in Trading \/ Answered => (par.feeConfigs = NoFees => fees = NoFees))'
    BY <2>1, <2>5
  <2>. QED  BY <2>3, <2>4, <2>6, <2>7, <2>8 DEF TradeInv
<1>6. CASE Estimate
  <2>1. stage = "encoded" /\ stage' \in {"estimated"} \cup EstimateErrors /\ UNCHANGED <<req, par, amount, fees, path, info, tx>>
    BY <1>6 DEF Estimate
  <2>2. /\ RequestAccepted(req) /\ par = Params(req) /\ (par.feeConfigs = NoFees => fees = NoFees) /\ CasesOfPath
        /\ tx = Transaction(Quote, Options(fees))
    BY <2>1 DEF TradeInv, Trading, Quoted
  <2>3. ~ Answered'
    BY <2>1 DEF Answered, EstimateErrors
  <2>4. CasesOfPath' /\ tx' = Transaction(Quote, Options(fees))'
    BY <2>1, <2>2, SameTrade
  <2>5. (stage \in {"parsed", "done"} \cup Trading => RequestAccepted(req) /\ par = Params(req))'
    BY <2>1, <2>2
  <2>6. (stage \in Trading \/ Answered => (par.feeConfigs = NoFees => fees = NoFees))'
    BY <2>1, <2>2
  <2>. QED  BY <2>3, <2>4, <2>5, <2>6 DEF TradeInv
<1>7. CASE Reply
  <2>1. stage = "estimated" /\ stage' \in {"insufficientFunds", "invalid", "done"} /\ UNCHANGED <<req, par, amount, fees, path, info, tx>>
    BY <1>7 DEF Reply
  <2>2. /\ RequestAccepted(req) /\ par = Params(req) /\ (par.feeConfigs = NoFees => fees = NoFees) /\ CasesOfPath
        /\ tx = Transaction(Quote, Options(fees))
    BY <2>1 DEF TradeInv, Trading, Quoted
  <2>3. CasesOfPath' /\ tx' = Transaction(Quote, Options(fees))'
    BY <2>1, <2>2, SameTrade
  <2>4. stage' = "done" => /\ reply'.value = AdjustedValue
                           /\ reply'.expected = ExpectedSlippageOf(reply'.buyAmount, reply'.sellAmount)
    BY <1>7 DEF Reply
  <2>5. stage' = "done" => /\ reply'.value = AdjustedValue'
                           /\ reply'.expected = ExpectedSlippageOf(reply.buyAmount, reply.sellAmount)'
    <3>1. ExpectedSlippageOf(reply.buyAmount, reply.sellAmount)' = ExpectedSlippageOf(reply'.buyAmount, reply'.sellAmount)
      BY <2>1 DEF ExpectedSlippageOf
    <3>2. AdjustedValue' = AdjustedValue
      BY <2>1, SameTrade
    <3>. QED  BY <2>4, <3>1, <3>2
  <2>6. (stage \in {"parsed", "done"} \cup Trading => RequestAccepted(req) /\ par = Params(req))'
    BY <2>1, <2>2
  <2>7. (stage \in Trading \/ Answered => (par.feeConfigs = NoFees => fees = NoFees))'
    BY <2>1, <2>2
  <2>8. Answered' => stage' = "done"
    BY DEF Answered
  <2>. QED  BY <2>3, <2>5, <2>6, <2>7, <2>8 DEF TradeInv
<1>8. CASE Respond
  <2>1. stage' = "answered"
    BY <1>8 DEF Respond
  <2>. QED  BY <2>1 DEF TradeInv, Quoted, Answered, Trading
<1>9. CASE UNCHANGED vars
  <2>1. UNCHANGED <<stage, req, par, amount, fees, path, info, tx, reply>>
    BY <1>9 DEF vars
  <2>2. (Answered' <=> Answered) /\ (Quoted' <=> Quoted)
    BY <2>1 DEF Answered, Quoted
  <2>3. /\ Transaction(Quote, Options(fees))' = Transaction(Quote, Options(fees))
        /\ AdjustedValue' = AdjustedValue /\ (CasesOfPath' <=> CasesOfPath)
    BY <2>1, SameTrade
  <2>4. ExpectedSlippageOf(reply.buyAmount, reply.sellAmount)' = ExpectedSlippageOf(reply.buyAmount, reply.sellAmount)
    BY <2>1 DEF ExpectedSlippageOf
  <2>. QED  BY <2>1, <2>2, <2>3, <2>4 DEF TradeInv
<1>. QED  BY <1>1, <1>2, <1>3, <1>4, <1>5, <1>6, <1>7, <1>8, <1>9 DEF Next

(* The fourth inductive invariant: the parameters are those of the request,  *)
(* the cases those of the path, the transaction the one of the quote and its *)
(* fees, and the answer carries the value and the slippage of the quote.     *)
THEOREM TradeInvariant == Spec => []TradeInv
<1>1. Init => TradeInv
  BY DEF Init, TradeInv, Trading, Answered, Quoted
<1>. QED  BY <1>1, NextTrade, PTL DEF Spec

-----------------------------------------------------------------------------
(* What is known of a quote when its answer has been sent.                   *)

Sent == stage = "answered" /\ response = "ok" /\ ~ par.wrap /\ ~ par.unwrap

SentTrade ==
    /\ IsRequest(req) /\ RequestAccepted(req) /\ par = Params(req) /\ FeesInv(fees)
    /\ par.feeConfigs = NoFees => fees = NoFees
    /\ amount = AskedAmount /\ PathIsQuoted /\ CasesOfPath /\ ReplyIsQuoted
    /\ reply.value = AdjustedValue
    /\ par.endpoint = "quote" => par.mtx # "v2"
    /\ tx = IF par.mtx = "none" THEN Transaction(Quote, Options(fees))
            ELSE [Transaction(Quote, Options(fees)) EXCEPT !.value = 0]

SentInv == Sent => SentTrade

(* Every step keeps it: what is sent is what was calculated.                 *)
LEMMA NextSent == AmountsInv /\ QuoteInv /\ TradeInv /\ SentInv /\ [Next]_vars => SentInv'
<1>. SUFFICES ASSUME AmountsInv, QuoteInv, TradeInv, SentInv, [Next]_vars,
                     stage' = "answered" /\ response' = "ok", ~ par'.wrap /\ ~ par'.unwrap
              PROVE  SentTrade'
  BY DEF SentInv, Sent
<1>1. ASSUME UNCHANGED <<req, par, amount, fees, path, info, reply>>
      PROVE  /\ Transaction(Quote, Options(fees))' = Transaction(Quote, Options(fees))
             /\ AdjustedValue' = AdjustedValue /\ (CasesOfPath' <=> CasesOfPath)
             /\ AskedAmount' = AskedAmount /\ (PathIsQuoted' <=> PathIsQuoted) /\ (ReplyIsQuoted' <=> ReplyIsQuoted)
  <2>1. /\ Transaction(Quote, Options(fees))' = Transaction(Quote, Options(fees))
        /\ AdjustedValue' = AdjustedValue /\ (CasesOfPath' <=> CasesOfPath)
    BY <1>1, SameTrade
  <2>2. AskedAmount' = AskedAmount /\ (PathIsQuoted' <=> PathIsQuoted)
    BY <1>1 DEF AskedAmount, SellTokenFeeAmount, BuyTokenPercentage, PathIsQuoted
  <2>3. /\ SellTokenFeeAmount(fees)' = SellTokenFeeAmount(fees) /\ BuyTokenFeeAmount' = BuyTokenFeeAmount
        /\ Price(info.best, SellTokenFeeAmount(fees))' = Price(info.best, SellTokenFeeAmount(fees))
        /\ Price(info.worst, SellTokenFeeAmount(fees))' = Price(info.worst, SellTokenFeeAmount(fees))
    BY <1>1 DEF SellTokenFeeAmount, BuyTokenFeeAmount, BuyTokenPercentage, MakerPerEth, Price, RoundPrice
  <2>4. /\ EstimatedPriceImpact(reply.price)' = EstimatedPriceImpact(reply.price)
        /\ ImpactTooHigh(reply.impact)' <=> ImpactTooHigh(reply.impact)
    BY <1>1 DEF EstimatedPriceImpact, NormalizedPrice, SellTokenToEthRate, BuyTokenToEthRate, TakerPerEth,
                MakerPerEth, ImpactTooHigh
  <2>5. ReplyIsQuoted' <=> ReplyIsQuoted
    BY <1>1, <2>3, <2>4 DEF ReplyIsQuoted
  <2>. QED  BY <2>1, <2>2, <2>5
<1>2. CASE Respond
  <2>1. /\ UNCHANGED <<req, par, amount, fees, path, info, reply>> /\ response' = ResponseTo(Outcome)
        /\ tx' = IF stage = "done" /\ par.mtx # "none" THEN MetaTransaction ELSE tx
    BY <1>2 DEF Respond
  <2>2. stage = "done" /\ (par.endpoint = "quote" => par.mtx # "v2")
    <3>1. stage \in {"done", "invalid", "noOptimalPath", "insufficientFunds", "revert", "gasEstimation", "error"}
      BY <1>2 DEF Respond, EstimateErrors
    <3>2. Outcome = "done"
      <4>1. Outcome = stage \/ Outcome = "error"
        BY DEF Outcome
      <4>. QED  BY <2>1, <3>1, <4>1 DEF ResponseTo
    <3>. QED  BY <3>2 DEF Outcome
  <2>3. Answered
    BY <2>1, <2>2 DEF Answered
  <2>4. /\ IsRequest(req) /\ RequestAccepted(req) /\ par = Params(req) /\ FeesInv(fees)
        /\ (par.feeConfigs = NoFees => fees = NoFees)
        /\ amount = AskedAmount /\ PathIsQuoted /\ CasesOfPath /\ ReplyIsQuoted
        /\ reply.value = AdjustedValue /\ tx = Transaction(Quote, Options(fees))
    BY <2>2, <2>3 DEF AmountsInv, FeesAreRight, QuoteInv, TradeInv, Quoted
  <2>5. tx' = IF par.mtx = "none" THEN Transaction(Quote, Options(fees))
              ELSE [Transaction(Quote, Options(fees)) EXCEPT !.value = 0]
    BY <2>1, <2>2, <2>4 DEF MetaTransaction
  <2>6. IsRequest(req)' /\ RequestAccepted(req)' /\ Params(req)' = Params(req) /\ FeesInv(fees)'
    BY <2>1, <2>4
  <2>. QED  BY <1>1, <2>1, <2>2, <2>4, <2>5, <2>6 DEF SentTrade
<1>3. CASE UNCHANGED vars
  <2>1. UNCHANGED <<stage, req, par, amount, fees, path, info, tx, reply, response>>
    BY <1>3 DEF vars
  <2>2. SentTrade
    BY <2>1 DEF SentInv, Sent
  <2>3. IsRequest(req)' /\ RequestAccepted(req)' /\ Params(req)' = Params(req) /\ FeesInv(fees)'
    BY <2>1, <2>2 DEF SentTrade
  <2>. QED  BY <1>1, <2>1, <2>2, <2>3 DEF SentTrade
<1>4. CASE Parse \/ Start \/ Route \/ CreateQuote \/ Encode \/ Estimate \/ Reply
  <2>1. stage' # "answered"
    BY <1>4 DEF Parse, Start, Route, CreateQuote, Encode, Estimate, EstimateErrors, Reply
  <2>. QED  BY <2>1
<1>. QED  BY <1>2, <1>3, <1>4 DEF Next

(* A quote that has been sent is the one that was calculated.                *)
LEMMA SentInvariant == Spec => []SentInv
<1>1. Init => SentInv
  BY DEF Init, SentInv, Sent
<1>. QED  BY <1>1, NextSent, AmountsInvariant, QuoteInvariant, TradeInvariant, PTL DEF Spec

(* The parameters of a request that is accepted: what is sold is not what is *)
(* bought, and meta-transactions sell a token.                               *)
LEMMA ParametersOfTrade ==
    ASSUME NEW r, RequestAccepted(r), ~ Params(r).wrap, ~ Params(r).unwrap
    PROVE  LET p == Params(r)
           IN /\ p.fromEth \in BOOLEAN /\ p.toEth \in BOOLEAN /\ ~ (p.fromEth /\ p.toEth)
              /\ p.mtx \in {"none", "v1", "v2"}
              /\ p.mtx # "none" => ~ p.fromEth /\ ~ p.entire
              /\ p.mtx = "none" => p.feeConfigs = NoFees
<1>1. CASE r.route = "swap"
  <2>. DEFINE p == SwapParams(r)
  <2>1. Params(r) = p
    BY <1>1 DEF Params
  <2>2. /\ p.fromEth = (r.sellToken = "ETH") /\ p.toEth = (r.buyToken = "ETH") /\ p.mtx = "none"
        /\ p.feeConfigs = NoFees /\ p.unwrap = IsUnwrap(r)
    BY DEF SwapParams
  <2>3. r.sellToken = "ETH" /\ r.buyToken = "ETH" => IsUnwrap(r)
    BY DEF IsUnwrap, Wrapped
  <2>4. p.fromEth \in BOOLEAN /\ p.toEth \in BOOLEAN
    BY <2>2
  <2>5. ~ (p.fromEth /\ p.toEth)
    BY <2>1, <2>2, <2>3
  <2>. HIDE DEF p
  <2>. QED  BY <2>1, <2>2, <2>4, <2>5
<1>2. CASE r.route # "swap"
  <2>. DEFINE p == MtxParams(r)
  <2>1. Params(r) = p /\ MtxAccepted(r)
    BY <1>2 DEF Params, RequestAccepted
  <2>2. p.fromEth = FALSE /\ p.toEth = (r.buyToken = "ETH") /\ p.mtx = MtxVersion(r) /\ p.entire = FALSE
    BY DEF MtxParams
  <2>3. MtxVersion(r) \in {"v1", "v2"}
    BY <2>1 DEF MtxAccepted
  <2>4. p.fromEth \in BOOLEAN /\ p.toEth \in BOOLEAN
    BY <2>2
  <2>. HIDE DEF p
  <2>. QED  BY <2>1, <2>2, <2>3, <2>4
<1>. QED  BY <1>1, <1>2

(* The fee in the bought token is a number.                                  *)
LEMMA BuyFeeIsNumber ==
    ASSUME IsParameters(par, req), IsInfo(info.worst)
    PROVE  BuyTokenFeeAmount \in Nat /\ SurplusGas * GasPrice * MakerPerEth \in Nat
<1>1. GasPrice \in Nat /\ MakerPerEth \in Nat /\ SurplusGas \in Nat /\ info.worst.gas \in Nat /\ info.worst.maker \in Nat
  BY PathAssumption, NumbersAssumption DEF MakerPerEth, IsInfo
<1>2. BuyTokenPercentage \in NonNeg
  <2>1. Zero \in NonNeg
    BY NumIsRat DEF Zero
  <2>. QED  BY <2>1 DEF BuyTokenPercentage, IsParameters
<1>3. ASSUME par.affiliate.feeType # "gasless" PROVE BuyTokenFeeAmount \in Nat
  BY <1>1, <1>2, <1>3, FeeIsShare
<1>4. ASSUME par.affiliate.feeType = "gasless" PROVE BuyTokenFeeAmount \in Nat
  BY <1>4, GaslessFeeIsNumber DEF GaslessFee
<1>5. SurplusGas * GasPrice * MakerPerEth \in Nat
  <2>. DEFINE m == MakerPerEth
  <2>1. m \in Nat
    BY <1>1
  <2>. HIDE DEF m
  <2>2. SurplusGas * GasPrice * m \in Nat
    BY <1>1, <2>1
  <2>. QED  BY <2>2 DEF m
<1>. QED  BY <1>3, <1>4, <1>5

(* The quote and the options of a transaction that is sent.                  *)
LEMMA SentIsTraded ==
    ASSUME SentTrade, ~ par.wrap, ~ par.unwrap, par.endpoint = "quote"
    PROVE  LET o == Options(fees)
               t == Transaction(Quote, o)
           IN /\ IsQuote(Quote) /\ AreOptions(o) /\ InToken(o) # OutToken(o)
              /\ par.mtx \in {"none", "v1"} /\ o.buyFee = BuyTokenFeeAmount /\ SellFeeAmount(o) = SellTokenFeeAmount(fees)
              /\ tx.feature = t.feature /\ tx.takes = t.takes /\ tx.minBuy = t.minBuy /\ tx.steps = t.steps
              /\ tx.in = InToken(o) /\ tx.out = OutToken(o)
              /\ tx.feature = Feature(Quote, o)
              /\ tx.steps = IF tx.feature = "transformERC20" THEN TransformSteps(Quote, o) ELSE DirectSteps(Quote, o, tx.feature)
              /\ tx.takes = IF tx.feature = "transformERC20" /\ o.entire THEN All
                            ELSE IF tx.feature = "transformERC20" THEN TransformedAmount(Quote, o) ELSE sellAmount(Quote)
              /\ par.mtx # "none" => tx.value = 0
<1>. DEFINE q == Quote
            o == Options(fees)
            t == Transaction(q, o)
<1>1. /\ IsRequest(req) /\ RequestAccepted(req) /\ par = Params(req) /\ FeesInv(fees)
      /\ (par.feeConfigs = NoFees => fees = NoFees) /\ PathIsQuoted /\ par.mtx # "v2"
      /\ tx = IF par.mtx = "none" THEN t ELSE [t EXCEPT !.value = 0]
  BY DEF SentTrade
<1>2. IsParameters(par, req)
  BY <1>1, AcceptedIsValid
<1>3. /\ par.fromEth \in BOOLEAN /\ par.toEth \in BOOLEAN /\ ~ (par.fromEth /\ par.toEth)
      /\ par.mtx \in {"none", "v1", "v2"} /\ (par.mtx # "none" => ~ par.fromEth)
      /\ (par.mtx = "none" => par.feeConfigs = NoFees)
  <2>. DEFINE p == Params(req)
  <2>1. /\ p.fromEth \in BOOLEAN /\ p.toEth \in BOOLEAN /\ ~ (p.fromEth /\ p.toEth)
        /\ p.mtx \in {"none", "v1", "v2"}
        /\ p.mtx # "none" => ~ p.fromEth /\ ~ p.entire
        /\ p.mtx = "none" => p.feeConfigs = NoFees
    BY <1>1, ParametersOfTrade
  <2>. HIDE DEF p
  <2>2. par = p
    BY <1>1 DEF p
  <2>. QED  BY <2>1, <2>2
<1>4. IsQuote(q)
  <2>1. /\ q.side = par.side /\ q.amount = amount /\ q.slippage = par.slippage /\ q.path = path /\ q.info = info
    BY DEF Quote
  <2>. HIDE DEF q
  <2>. QED  BY <1>1, <1>2, <2>1 DEF IsQuote, PathIsQuoted, IsParameters
<1>5. /\ o.buyFee = BuyTokenFeeAmount /\ o.surplusCost = SurplusGas * GasPrice * MakerPerEth
      /\ o.sellFees = OnChainTransfers(fees) /\ o.mtx = par.mtx /\ o.fromEth = par.fromEth /\ o.toEth = par.toEth
  BY DEF Options
<1>6. o.buyFee \in Nat /\ o.surplusCost \in Nat
  BY <1>1, <1>2, <1>5, BuyFeeIsNumber DEF PathIsQuoted
<1>7. SellFeeAmount(o) = SellTokenFeeAmount(fees) /\ SellFeeAmount(o) \in Nat
  <2>1. SellFeeAmount(o) = TotalOnChain(OnChainTransfers(fees))
    BY <1>5 DEF SellFeeAmount, TotalOnChain
  <2>. QED  BY <1>1, <2>1, TransfersAddUp DEF SellTokenFeeAmount
<1>8. IF DOMAIN o.sellFees = {} THEN SellFeeAmount(o) = 0 ELSE o.mtx = "v1" /\ ~ o.fromEth
  <2>1. CASE DOMAIN o.sellFees = {}
    <3>. DEFINE g == o.sellFees
    <3>1. SumFunction(g) = SumFunctionOnSet(g, DOMAIN g)
      BY DEF SumFunction, SumFunctionOnSet
    <3>2. SellFeeAmount(o) = SumFunction(g)
      BY DEF SellFeeAmount
    <3>3. DOMAIN g = {}
      BY <2>1
    <3>. HIDE DEF g, o
    <3>4. SellFeeAmount(o) = 0
      BY <3>1, <3>2, <3>3, SumOfNothing
    <3>. QED  BY <2>1, <3>4
  <2>2. CASE DOMAIN o.sellFees # {}
    <3>1. fees # NoFees
      <4>1. ChargedKinds(NoFees) = {}
        BY DEF ChargedKinds, Charged, BilledOnChain, NoFees
      <4>2. DOMAIN OnChainTransfers(fees) = {fees[k].feeRecipient : k \in ChargedKinds(fees)}
        BY <1>1, TransfersByRecipient
      <4>. QED  BY <1>5, <2>2, <4>1, <4>2
    <3>. HIDE DEF o
    <3>. QED  BY <1>1, <1>3, <1>5, <2>2, <3>1
  <2>. QED  BY <2>1, <2>2
<1>9. AreOptions(o)
  <2>. HIDE DEF o
  <2>. QED  BY <1>3, <1>5, <1>6, <1>7, <1>8 DEF AreOptions
<1>10. InToken(o) # OutToken(o)
  <2>. HIDE DEF o
  <2>. QED  BY <1>3, <1>5 DEF InToken, OutToken
<1>11. /\ DOMAIN t = {"feature", "takes", "value", "minBuy", "steps", "in", "out", "gasOverhead"}
       /\ t.feature = Feature(q, o) /\ t.in = InToken(o) /\ t.out = OutToken(o)
       /\ t.steps = IF t.feature = "transformERC20" THEN TransformSteps(q, o) ELSE DirectSteps(q, o, t.feature)
       /\ t.takes = IF t.feature = "transformERC20" /\ o.entire THEN All
                    ELSE IF t.feature = "transformERC20" THEN TransformedAmount(q, o) ELSE sellAmount(q)
  <2>. HIDE DEF q, o
  <2>. QED  BY DEF Transaction
<1>. HIDE DEF q, o, t
<1>12. /\ tx.feature = t.feature /\ tx.takes = t.takes /\ tx.minBuy = t.minBuy /\ tx.steps = t.steps
       /\ tx.in = t.in /\ tx.out = t.out /\ (par.mtx # "none" => tx.value = 0)
  BY <1>1, <1>11
<1>13. par.mtx \in {"none", "v1"}
  BY <1>1, <1>3
<1>. QED  BY <1>4, <1>5, <1>7, <1>9, <1>10, <1>11, <1>12, <1>13 DEF q, o, t

(* What the proxy holds before the first step.                               *)
LEMMA SentStart ==
    ASSUME SentTrade, ~ par.wrap, ~ par.unwrap, par.endpoint = "quote"
    PROVE  LET s == AtStart(tx, SentValue, Larger(reply.sellAmount, info.worst.taker))
           IN s \in Positions /\ s.fees = Nothing /\ s.back = Nothing /\ s.ok /\ s.held["mid"] = 0 /\ s.held["buy"] = 0
<1>. DEFINE b == Larger(reply.sellAmount, info.worst.taker)
            v == SentValue
            s == AtStart(tx, v, b)
            o == Options(fees)
            q == Quote
<1>1. /\ IsQuote(q) /\ AreOptions(o) /\ par.mtx \in {"none", "v1"}
      /\ tx.takes = IF tx.feature = "transformERC20" /\ o.entire THEN All
                    ELSE IF tx.feature = "transformERC20" THEN TransformedAmount(q, o) ELSE sellAmount(q)
      /\ par.mtx # "none" => tx.value = 0
  BY SentIsTraded
<1>2. SellFeeAmount(o) \in Nat /\ q.info.best.taker \in Nat /\ q.info.worst.taker \in Nat
  <2>. HIDE DEF q, o
  <2>. QED  BY <1>1 DEF AreOptions, IsQuote, IsInfo
<1>3. tx.takes \in Int \cup {All}
  <2>. HIDE DEF q, o
  <2>1. sellAmount(q) \in Int /\ TransformedAmount(q, o) \in Int
    BY <1>2 DEF sellAmount, Larger, TransformedAmount
  <2>. QED  BY <1>1, <2>1
<1>4. info.best.taker \in Nat /\ info.worst.taker \in Nat /\ info.worst.protocolFee \in Nat /\ reply.value = AdjustedValue
  BY DEF SentTrade, PathIsQuoted, IsInfo
<1>5. b \in Int
  <2>1. reply.sellAmount = info.best.taker + SellTokenFeeAmount(fees)
    BY DEF SentTrade, ReplyIsQuoted
  <2>2. SellTokenFeeAmount(fees) \in Nat
    BY TransfersAddUp DEF SentTrade, SellTokenFeeAmount
  <2>. QED  BY <1>4, <2>1, <2>2 DEF Larger
<1>6. v \in Int
  <2>1. reply.value \in Int
    BY <1>4 DEF AdjustedValue
  <2>. QED  BY <1>1, <1>4, <2>1 DEF SentValue
<1>. HIDE DEF b, v
<1>. DEFINE c == IF tx.in = "eth" THEN 0 ELSE IF tx.takes = All THEN b ELSE tx.takes
<1>7. c \in Int
  BY <1>3, <1>5
<1>8. s = [held |-> [Nothing EXCEPT !["eth"] = v, !["sell"] = c], fees |-> Nothing, back |-> Nothing, ok |-> TRUE]
  BY DEF AtStart
<1>. HIDE DEF c, s
<1>9. Nothing \in Balances /\ Nothing["mid"] = 0 /\ Nothing["buy"] = 0 /\ DOMAIN Nothing = CurrencyTokens
  BY DEF Nothing, Balances, CurrencyTokens
<1>. DEFINE h == [Nothing EXCEPT !["eth"] = v, !["sell"] = c]
<1>10. h \in Balances /\ h["mid"] = 0 /\ h["buy"] = 0
  BY <1>6, <1>7, <1>9 DEF Balances, CurrencyTokens
<1>. HIDE DEF h
<1>11. s = [held |-> h, fees |-> Nothing, back |-> Nothing, ok |-> TRUE]
  BY <1>8 DEF h
<1>12. s \in Positions /\ s.fees = Nothing /\ s.back = Nothing /\ s.ok /\ s.held["mid"] = 0 /\ s.held["buy"] = 0
  BY <1>9, <1>10, <1>11 DEF Positions
<1>. QED  BY <1>12 DEF s, v, b

(* A transaction that is sent, when it is executed: by transformERC20, part  *)
(* by part, or by a feature that fills its orders.                           *)
LEMMA SentIsExecuted ==
    ASSUME SentTrade, ~ par.wrap, ~ par.unwrap, par.endpoint = "quote", NEW worst
    PROVE  LET o == Options(fees)
               s == AtStart(tx, SentValue, Larger(reply.sellAmount, info.worst.taker))
           IN IF tx.feature = "transformERC20" THEN Executed(worst) = AfterReturn(worst, s, Quote, o)
              ELSE /\ tx.feature \in DirectFeatures /\ Compatible(tx.feature, Quote, o) /\ ~ requiresTransformERC20(o)
                   /\ Executed(worst) = Run(worst, s, DirectSteps(Quote, o, tx.feature))
<1>. DEFINE q == Quote
            o == Options(fees)
            b == Larger(reply.sellAmount, info.worst.taker)
            s == AtStart(tx, SentValue, b)
            f == tx.feature
<1>1. /\ IsQuote(q) /\ AreOptions(o) /\ InToken(o) # OutToken(o) /\ f = Feature(q, o)
      /\ tx.steps = IF f = "transformERC20" THEN TransformSteps(q, o) ELSE DirectSteps(q, o, f)
  BY SentIsTraded
<1>2. Executed(worst) = Execute(tx, SentValue, b, worst)
  BY DEF Executed
<1>. HIDE DEF q, o, s, f, b
<1>3. /\ f \in {"uniswapV2", "uniswapV3", "pancake", "curve", "rfq", "otc",
                "multiplexBatch", "multiplexMultiHop", "transformERC20"}
      /\ Compatible(f, q, o) /\ (f # "transformERC20" => ~ requiresTransformERC20(o))
  BY <1>1, FeatureFits
<1>4. CASE f = "transformERC20"
  <2>1. /\ TransformSteps(q, o) \in Seq(Range(TransformSteps(q, o)))
        /\ Run(worst, s, TransformSteps(q, o)) = AfterReturn(worst, s, q, o)
    BY <1>1, RunOfTransform
  <2>2. tx.steps = TransformSteps(q, o)
    BY <1>1, <1>4
  <2>. DEFINE S == Range(TransformSteps(q, o))
  <2>3. tx.steps \in Seq(S)
    BY <2>1, <2>2
  <2>. HIDE DEF S
  <2>4. Execute(tx, SentValue, b, worst) = Run(worst, AtStart(tx, SentValue, b), tx.steps)
    BY <2>3, ExecuteRuns
  <2>. QED  BY <1>2, <1>4, <2>1, <2>2, <2>4 DEF q, o, s, f, b
<1>5. CASE f # "transformERC20"
  <2>0. f \in DirectFeatures
    BY <1>3, <1>5 DEF DirectFeatures
  <2>. DEFINE steps == DirectSteps(q, o, f)
              S == Range(steps)
  <2>1. steps \in Seq(S)
    BY <1>1, <1>3, <2>0, DirectStepsFill
  <2>2. tx.steps = steps
    BY <1>1, <1>5
  <2>3. tx.steps \in Seq(S)
    <3>. HIDE DEF S, steps
    <3>. QED  BY <2>1, <2>2
  <2>. HIDE DEF S
  <2>4. Execute(tx, SentValue, b, worst) = Run(worst, AtStart(tx, SentValue, b), tx.steps)
    BY <2>3, ExecuteRuns
  <2>. QED  BY <1>2, <1>3, <1>5, <2>0, <2>2, <2>4 DEF q, o, s, f, b
<1>. QED  BY <1>4, <1>5

(* What is paid, and what is left, by a transaction that is sent.            *)
LEMMA SentDelivers ==
    ASSUME SentTrade, ~ par.wrap, ~ par.unwrap, par.endpoint = "quote", NEW worst, Executed(worst).ok
    PROVE  /\ Executed(worst).fees[tx.in] = SellTokenFeeAmount(fees)
           /\ Executed(worst).fees[tx.out] = BuyTokenFeeAmount
           /\ tx.feature = "transformERC20" =>
                  \A t \in CurrencyTokens \ (IF par.toEth THEN {tx.out, "eth"} ELSE {tx.out}) : Executed(worst).held[t] = 0
<1>. DEFINE q == Quote
            o == Options(fees)
            s == AtStart(tx, SentValue, Larger(reply.sellAmount, info.worst.taker))
            e == Executed(worst)
            f == tx.feature
<1>1. /\ IsQuote(q) /\ AreOptions(o) /\ InToken(o) # OutToken(o)
      /\ o.buyFee = BuyTokenFeeAmount /\ SellFeeAmount(o) = SellTokenFeeAmount(fees)
      /\ tx.in = InToken(o) /\ tx.out = OutToken(o)
  BY SentIsTraded
<1>2. s \in Positions /\ s.fees = Nothing /\ s.held["mid"] = 0
  BY SentStart
<1>3. IF f = "transformERC20" THEN e = AfterReturn(worst, s, q, o)
      ELSE /\ f \in DirectFeatures /\ Compatible(f, q, o) /\ ~ requiresTransformERC20(o)
           /\ e = Run(worst, s, DirectSteps(q, o, f))
  BY SentIsExecuted
<1>4. e.ok /\ o.toEth = par.toEth
  BY DEF Options
<1>5. InToken(o) \in CurrencyTokens /\ OutToken(o) \in CurrencyTokens
  BY DEF InToken, OutToken, CurrencyTokens
<1>. HIDE DEF q, o, s, e, f
<1>6. CASE f = "transformERC20"
  <2>. DEFINE d == AfterReturn(worst, s, q, o)
  <2>1. d.ok
    BY <1>3, <1>4, <1>6
  <2>2. /\ d.fees[InToken(o)] = SellFeeAmount(o) /\ d.fees[OutToken(o)] = o.buyFee
        /\ \A t \in CurrencyTokens \ (IF o.toEth THEN {OutToken(o), "eth"} ELSE {OutToken(o)}) : d.held[t] = 0
    BY <1>1, <1>2, <2>1, TransformDelivers
  <2>3. e = d
    BY <1>3, <1>6
  <2>. HIDE DEF d
  <2>. QED  BY <1>1, <1>4, <2>2, <2>3 DEF e
<1>7. CASE f # "transformERC20"
  <2>. DEFINE d == Run(worst, s, DirectSteps(q, o, f))
  <2>1. d \in Positions /\ d.fees = s.fees
    BY <1>1, <1>2, <1>3, <1>7, DirectPaysNobody
  <2>2. e = d /\ ~ requiresTransformERC20(o)
    BY <1>3, <1>7
  <2>. HIDE DEF d
  <2>3. \A t \in CurrencyTokens : e.fees[t] = 0
    BY <1>2, <2>1, <2>2 DEF Nothing
  <2>4. o.buyFee = 0 /\ SellFeeAmount(o) = 0
    BY <1>1, <2>2 DEF requiresTransformERC20, AreOptions
  <2>. QED  BY <1>1, <1>5, <1>7, <2>3, <2>4 DEF e, f
<1>. QED  BY <1>6, <1>7

(* requiresTransformERC20 and the steps of transformERC20: whatever feature  *)
(* is chosen and however the quote is split, a transaction that succeeds has *)
(* paid the fees in the sold and in the bought token, each of them once.     *)
THEOREM FeesReachRecipients == Spec => []FeesAreDelivered
<1>1. SentInv => FeesAreDelivered
  <2>. SUFFICES ASSUME SentInv, Executable, NEW worst \in BOOLEAN, Executed(worst).ok
                PROVE  /\ Executed(worst).fees[tx.in] = SellTokenFeeAmount(fees)
                       /\ Executed(worst).fees[tx.out] = BuyTokenFeeAmount
    BY DEF FeesAreDelivered
  <2>1. SentTrade /\ ~ par.wrap /\ ~ par.unwrap /\ par.endpoint = "quote"
    BY DEF SentInv, Sent, Executable
  <2>. QED  BY <2>1, SentDelivers
<1>. QED  BY <1>1, SentInvariant, PTL

(* createPayTakerTransformation: whatever is not sold, of any token that is  *)
(* not the bought one, is back with the taker when a transformation ends.    *)
THEOREM WalletIsEmptied == Spec => []NothingIsStranded
<1>1. SentInv => NothingIsStranded
  <2>. SUFFICES ASSUME SentInv, Executable, tx.feature = "transformERC20", NEW worst \in BOOLEAN, Executed(worst).ok,
                       NEW t \in CurrencyTokens \ (IF par.toEth THEN {tx.out, "eth"} ELSE {tx.out})
                PROVE  Executed(worst).held[t] = 0
    BY DEF NothingIsStranded
  <2>1. SentTrade /\ ~ par.wrap /\ ~ par.unwrap /\ par.endpoint = "quote"
    BY DEF SentInv, Sent, Executable
  <2>. QED  BY <2>1, SentDelivers
<1>. QED  BY <1>1, SentInvariant, PTL

-----------------------------------------------------------------------------
(* Two orders that give at most a and b after slippage give together at      *)
(* most a + b, also if the second is filled in part.                         *)
LEMMA SlippedTogether ==
    ASSUME NEW x \in NonNeg, NEW y \in NonNeg, NEW z \in NonNeg, NEW c \in NonNeg, NEW a \in Int, NEW b \in Int,
           Leq(Times(x, c), Num(a)), Leq(Times(y, c), Num(b)), Leq(z, y)
    PROVE  Leq(Times(Plus(x, z), c), Num(a + b))
<1>. DEFINE p == x[1]
            q == x[2]
            r == y[1]
            s == y[2]
            g == z[1]
            h == z[2]
            u == c[1]
            v == c[2]
            xz == Plus(x, z)
            n == p * h + g * q
            d == q * h
<1>1. /\ x \in Rat /\ y \in Rat /\ z \in Rat /\ c \in Rat
      /\ p \in Nat /\ r \in Nat /\ g \in Nat /\ u \in Nat
      /\ q \in Nat \ {0} /\ s \in Nat \ {0} /\ h \in Nat \ {0} /\ v \in Nat \ {0}
  BY NumIsRat, RatParts
<1>2. /\ IsFrac(Num(a), a, 1) /\ IsFrac(Num(b), b, 1) /\ IsFrac(Num(a + b), a + b, 1)
  <2>1. \A k \in Int : Num(k) \in Rat /\ Num(k)[1] = k /\ Num(k)[2] = 1
    BY NumIsRat
  <2>2. \A k \in Int : IsFrac(Num(k), k, 1)
    BY <2>1, RatIsFrac
  <2>. QED  BY <2>2
<1>3. IsFrac(Times(x, c), p * u, q * v) /\ IsFrac(Times(y, c), r * u, s * v) /\ IsFrac(xz, n, d)
  BY <1>1, TimesValue, PlusValue
<1>4. g * s <= r * h
  BY DEF Leq
<1>. HIDE DEF p, q, r, s, g, h, u, v, xz
<1>5. n \in Int /\ d \in Nat \ {0} /\ q * v \in Nat \ {0} /\ s * v \in Nat \ {0} /\ p * u \in Int /\ r * u \in Int
  BY <1>1
<1>6. (p * u) * 1 <= a * (q * v) /\ (r * u) * 1 <= b * (s * v)
  <2>1. Leq(Times(x, c), Num(a)) <=> (p * u) * 1 <= a * (q * v)
    BY <1>2, <1>3, <1>5, FracLeq
  <2>2. Leq(Times(y, c), Num(b)) <=> (r * u) * 1 <= b * (s * v)
    BY <1>2, <1>3, <1>5, FracLeq
  <2>. QED  BY <2>1, <2>2
<1>7. g * u <= b * (h * v)
  <2>1. (g * s) * u <= (r * h) * u
    BY <1>1, <1>4, ScaleLeq
  <2>2. ((r * u) * 1) * h <= (b * (s * v)) * h
    BY <1>1, <1>5, <1>6, ScaleLeq
  <2>3. /\ (g * s) * u = (g * u) * s /\ (r * h) * u = ((r * u) * 1) * h
        /\ (b * (s * v)) * h = (b * (h * v)) * s
    BY <1>1
  <2>. DEFINE A == (g * u) * s
              B == ((r * u) * 1) * h
              C == (b * (h * v)) * s
  <2>4. A \in Int /\ B \in Int /\ C \in Int /\ A <= B /\ B <= C
    BY <1>1, <2>1, <2>2, <2>3
  <2>. HIDE DEF A, B, C
  <2>5. A <= C
    BY <2>4
  <2>6. (g * u) * s <= (b * (h * v)) * s
    BY <2>5 DEF A, C
  <2>7. g * u \in Int /\ b * (h * v) \in Int
    BY <1>1
  <2>. QED  BY <1>1, <2>6, <2>7, CancelLeq
<1>8. n * u <= (a + b) * (d * v)
  <2>1. ((p * u) * 1) * h <= (a * (q * v)) * h
    BY <1>1, <1>5, <1>6, ScaleLeq
  <2>2. (g * u) * q <= (b * (h * v)) * q
    BY <1>1, <1>7, ScaleLeq
  <2>. DEFINE A == ((p * u) * 1) * h
              B == (g * u) * q
              C == (a * (q * v)) * h
              D == (b * (h * v)) * q
  <2>3. n * u = A + B
    BY <1>1
  <2>4. (a + b) * (d * v) = C + D
    BY <1>1
  <2>5. A \in Int /\ B \in Int /\ C \in Int /\ D \in Int /\ A <= C /\ B <= D
    BY <1>1, <2>1, <2>2
  <2>. HIDE DEF A, B, C, D, n, d
  <2>. QED  BY <2>3, <2>4, <2>5
<1>. HIDE DEF n, d
<1>9. xz \in Rat /\ IsFrac(Times(xz, c), xz[1] * u, xz[2] * v)
  <2>1. xz \in Rat
    BY <1>3 DEF IsFrac
  <2>. QED  BY <1>1, <2>1, TimesValue DEF u, v
<1>10. IsFrac(Times(xz, c), n * u, d * v)
  <2>1. IsFrac(c, u, v)
    BY <1>1, RatIsFrac DEF u, v
  <2>. QED  BY <1>1, <1>3, <1>5, <2>1, ProductOfFracs
<1>11. n * u \in Int /\ d * v \in Nat \ {0} /\ (n * u) * 1 = n * u
  BY <1>1, <1>5
<1>12. Leq(Times(xz, c), Num(a + b)) <=> (n * u) * 1 <= (a + b) * (d * v)
  BY <1>2, <1>10, <1>11, FracLeq
<1>. QED  BY <1>8, <1>11, <1>12 DEF xz

SlippedMaker(s, o) == SlipOrder("sell", s, o).maker[1]

(* An order of a sell that is slipped on its own still gives what slippage   *)
(* leaves of its fill, up to a unit; so does a two-hop in the worst case.    *)
LEMMA OrderIsSlipped ==
    ASSUME NEW amt \in Nat, NEW o, IsOrder(o, amt), o = OrderOf("sell", o.fill), NEW s \in NonNeg, Leq(s, One)
    PROVE  /\ SlippedMaker(s, o) \in Nat /\ SlipOrder("sell", s, o).maker = Num(SlippedMaker(s, o))
           /\ Leq(Times(o.fill.output, Minus(One, s)), Num(SlippedMaker(s, o) + 1))
           /\ o.way.kind = "twoHop" =>
                /\ TwoHopWorst("sell", s, o).maker \in Nat
                /\ TwoHopWorst("sell", s, o).maker <= SlippedMaker(s, o) + 1
<1>. DEFINE f == o.fill
            c == Minus(One, s)
            x == Times(f.output, c)
            m == Floor(f.output)
            lo == Floor(Times(Num(m), c))
            w == TwoHopWorst("sell", s, o).maker
<1>1. f.output \in NonNeg /\ f.output \in Rat /\ o.way = f.way /\ (f.way.kind # "native" => \E n \in Nat : f.output = Num(n))
  BY NumIsRat DEF IsOrder, IsFill
<1>2. c \in NonNeg /\ Leq(c, One)
  BY SlippageFactors
<1>3. m \in Nat /\ o.maker = Num(m) /\ o = [way |-> f.way, fill |-> f, maker |-> Num(m), taker |-> f.input]
  <2>1. m \in Nat
    BY <1>1, FloorOfNonNeg
  <2>2. o = OrderOf("sell", f)
    OBVIOUS
  <2>. HIDE DEF f
  <2>3. o = [way |-> f.way, fill |-> f, maker |-> Num(m), taker |-> f.input]
    BY <2>2 DEF OrderOf, makerAmount, takerAmount
  <2>. QED  BY <2>1, <2>3
<1>. HIDE DEF f, c
<1>4. /\ x \in NonNeg /\ x \in Rat /\ Leq(x, f.output)
      /\ Num(m) \in NonNeg /\ Times(Num(m), c) \in NonNeg /\ lo \in Nat
  <2>1. x \in NonNeg /\ Leq(x, f.output)
    BY <1>1, <1>2, NonNegIsClosed, ShareIsSmaller
  <2>2. Num(m) \in NonNeg /\ x \in Rat
    BY <1>3, <2>1, NumIsRat
  <2>3. Times(Num(m), c) \in NonNeg
    BY <1>2, <2>2, NonNegIsClosed
  <2>. QED  BY <2>1, <2>2, <2>3, FloorOfNonNeg
<1>5. \A y \in Rat : Leq(y, Num(Floor(y) + 1))
  <2>. SUFFICES ASSUME NEW y \in Rat PROVE Leq(y, Num(Floor(y) + 1))
    OBVIOUS
  <2>. DEFINE k == Floor(y) + 1
  <2>1. Floor(y) \in Int /\ (k <= Floor(y) <=> Leq(Num(k), y))
    BY FloorIsBelow
  <2>2. k \in Int /\ ~ (k <= Floor(y))
    BY <2>1
  <2>3. Num(k) \in Rat
    BY <2>2, NumIsRat
  <2>. HIDE DEF k
  <2>4. Leq(y, Num(k))
    BY <2>1, <2>2, <2>3, LeqIsTotal
  <2>. QED  BY <2>4 DEF k
<1>6. o.way.kind = "native" => SlipOrder("sell", s, o).maker = Num(m)
  BY <1>3 DEF SlipOrder
<1>7. o.way.kind # "native" => SlipOrder("sell", s, o).maker = Num(lo)
  <2>1. o.way.kind # "native" => SlipOrder("sell", s, o) = [o EXCEPT !.maker = Num(Floor(Times(@, c)))]
    BY DEF SlipOrder, c
  <2>2. [o EXCEPT !.maker = Num(Floor(Times(@, c)))].maker = Num(Floor(Times(o.maker, c)))
    BY <1>3
  <2>. QED  BY <1>3, <2>1, <2>2
<1>8. TwoHopWorst("sell", s, o).maker = HalfUp(Times(Num(m), c))
  <2>. DEFINE best == TwoHopBest(o)
  <2>1. Floor(Num(m)) = m
    BY <1>3, RoundingOfInt
  <2>2. best.maker = m /\ best = [maker |-> m, taker |-> Floor(o.taker), gas |-> o.way.gas, protocolFee |-> 0]
    BY <1>3, <2>1 DEF TwoHopBest
  <2>3. TwoHopWorst("sell", s, o) = [best EXCEPT !.maker = HalfUp(Times(Num(@), c))]
    BY DEF TwoHopWorst, c
  <2>. HIDE DEF best
  <2>. QED  BY <2>2, <2>3
<1>. HIDE DEF lo, w
<1>9. CASE o.way.kind = "native"
  <2>1. SlippedMaker(s, o) = m /\ SlipOrder("sell", s, o).maker = Num(m)
    BY <1>3, <1>6, <1>9, NumIsRat DEF SlippedMaker
  <2>2. Leq(f.output, Num(m + 1)) /\ Num(m + 1) \in Rat
    BY <1>1, <1>3, <1>5, NumIsRat
  <2>. HIDE DEF m, x
  <2>3. Leq(x, Num(m + 1))
    BY <1>1, <1>4, <2>2, LeqIsTransitive
  <2>. QED  BY <1>3, <1>9, <2>1, <2>3 DEF x, f, c
<1>10. CASE o.way.kind # "native"
  <2>1. SlippedMaker(s, o) = lo /\ SlipOrder("sell", s, o).maker = Num(lo)
    BY <1>4, <1>7, <1>10, NumIsRat DEF SlippedMaker
  <2>2. f.output = Num(m)
    BY <1>1, <1>10, RoundingOfInt
  <2>3. x = Times(Num(m), c)
    BY <2>2
  <2>. HIDE DEF m, x
  <2>4. Leq(x, Num(lo + 1))
    BY <1>4, <1>5, <2>3 DEF lo
  <2>5. HalfUp(x) \in Nat /\ HalfUp(x) <= lo + 1
    BY <1>4, <2>4, HalfUpOfNonNeg
  <2>. QED  BY <1>4, <1>8, <2>1, <2>3, <2>4, <2>5 DEF x, f, c
<1>. QED  BY <1>9, <1>10

(* A sum of natural numbers adds them one after the other.                   *)
LEMMA SumsInTurn ==
    ASSUME NEW len \in Nat, NEW f, \A n \in 1 .. len : f[n] \in Nat
    PROVE  /\ SumFunctionOnSet(f, 1 .. 0) = 0
           /\ \A n \in 0 .. len : SumFunctionOnSet(f, 1 .. n) \in Nat
           /\ \A n \in 1 .. len : SumFunctionOnSet(f, 1 .. n) = SumFunctionOnSet(f, 1 .. (n - 1)) + f[n]
<1>1. \A n \in 1 .. len : f[n] \in Nat
  OBVIOUS
<1>2. ASSUME NEW n \in 0 .. len PROVE SumFunctionOnSet(f, 1 .. n) \in Nat
  <2>. DEFINE D == 1 .. n
  <2>0. IsFiniteSet(D)
    BY FS_Interval
  <2>1. \A x \in D : f[x] \in Nat
    BY <1>1
  <2>. HIDE DEF D
  <2>2. SumFunctionOnSet(f, D) \in Nat
    BY <2>0, <2>1, SumIsNat
  <2>. QED  BY <2>2 DEF D
<1>3. ASSUME NEW n \in 1 .. len PROVE SumFunctionOnSet(f, 1 .. n) = SumFunctionOnSet(f, 1 .. (n - 1)) + f[n]
  <2>. DEFINE D == 1 .. n
              E == 1 .. (n - 1)
  <2>0. IsFiniteSet(D)
    BY FS_Interval
  <2>1. n \in D /\ D \ {n} = E /\ n - 1 \in 0 .. len
    OBVIOUS
  <2>2. \A i \in D : f[i] \in Int
    BY <1>1
  <2>3. SumFunctionOnSet(f, E) \in Nat /\ f[n] \in Nat
    BY <1>1, <1>2, <2>1
  <2>. HIDE DEF D, E
  <2>4. SumFunctionOnSet(f, D) = f[n] + SumFunctionOnSet(f, D \ {n})
    <3>1. n \in D
      BY <2>1
    <3>. QED  BY <2>0, <2>2, <3>1, SumWithout
  <2>. DEFINE x == SumFunctionOnSet(f, D)
              y == SumFunctionOnSet(f, E)
              z == f[n]
  <2>5. x = z + y /\ y \in Nat /\ z \in Nat
    BY <2>1, <2>3, <2>4, Zenon
  <2>. HIDE DEF x, y, z
  <2>6. x = y + z
    BY <2>5
  <2>. QED  BY <2>6 DEF x, y, z, D, E
<1>4. SumFunctionOnSet(f, 1 .. 0) = 0
  <2>1. 1 .. 0 = {}
    OBVIOUS
  <2>. QED  BY <2>1, SumOfNothing
<1>. QED  BY <1>2, <1>3, <1>4

(* An order gives at most what its fill gives.                               *)
LEMMA FillGivesPart ==
    ASSUME NEW r, NEW e \in Nat, r.remaining = Num(e), NEW o, o.fill.output \in NonNeg,
           NEW k \in Nat \ {0}, o.fill.input = Num(k)
    PROVE  \/ FillOrder(r, o).output = r.output
           \/ \E z \in NonNeg : Leq(z, o.fill.output) /\ FillOrder(r, o).output = Plus(r.output, z)
<1>. DEFINE m == IF k <= e THEN k ELSE e
            d == Over(Num(m), Num(k))
            z == Times(o.fill.output, d)
<1>1. m \in Nat /\ m <= k
  OBVIOUS
<1>2. MinOf(o.fill.input, r.remaining) = Num(m)
  BY LeqOfInts
<1>. HIDE DEF m
<1>3. FillOrder(r, o).output = r.output \/ FillOrder(r, o).output = Plus(r.output, z)
  BY <1>2 DEF FillOrder
<1>4. d \in NonNeg /\ Leq(d, One)
  <2>1. /\ Num(m) \in NonNeg /\ Num(k) \in NonNeg /\ Num(k)[1] > 0 /\ Num(k)[1] = k /\ Num(k)[2] = 1
        /\ Num(m)[1] = m /\ Num(m)[2] = 1 /\ Num(m) \in Rat /\ Num(k) \in Rat
    BY <1>1, NumIsRat
  <2>2. d \in NonNeg
    BY <2>1, NonNegIsClosed
  <2>3. IsFrac(d, m * 1, 1 * k)
    BY <2>1, OverValue
  <2>4. m * 1 = m /\ 1 * k = k
    BY <1>1
  <2>5. IsFrac(d, m, k)
    BY <2>3, <2>4
  <2>6. IsFrac(One, 1, 1)
    BY NumIsRat, RatIsFrac DEF One
  <2>. HIDE DEF d
  <2>7. Leq(d, One) <=> m * 1 <= 1 * k
    <3>1. m \in Int /\ 1 \in Int /\ 1 \in Nat \ {0} /\ k \in Nat \ {0}
      BY <1>1
    <3>. QED  BY <2>5, <2>6, <3>1, FracLeq
  <2>. QED  BY <1>1, <2>2, <2>7
<1>. HIDE DEF d
<1>5. z \in NonNeg /\ Leq(z, o.fill.output)
  BY <1>4, NonNegIsClosed, ShareIsSmaller
<1>. QED  BY <1>3, <1>5

SellOrders(os, amt) == AreOrders(os, amt) /\ \A i \in DOMAIN os : os[i] = OrderOf("sell", os[i].fill)
SlippedMakers(s, os) == [i \in DOMAIN os |-> SlippedMaker(s, os[i])]
SlippedUpTo(s, os, n) == SumFunctionOnSet(SlippedMakers(s, os), 1 .. n)

(* What slippage leaves of orders adds up one after the other.               *)
LEMMA SlippedInTurn ==
    ASSUME NEW amt \in Nat, NEW os, SellOrders(os, amt), NEW s \in NonNeg, Leq(s, One)
    PROVE  /\ DOMAIN os = 1 .. Len(os) /\ Len(os) \in Nat
           /\ SlippedUpTo(s, os, 0) = 0
           /\ \A n \in 0 .. Len(os) : SlippedUpTo(s, os, n) \in Nat
           /\ \A n \in 1 .. Len(os) : /\ SlippedUpTo(s, os, n) = SlippedUpTo(s, os, n - 1) + SlippedMaker(s, os[n])
                                      /\ SlippedMaker(s, os[n]) \in Nat
<1>. DEFINE f == SlippedMakers(s, os)
<1>1. DOMAIN os = 1 .. Len(os) /\ Len(os) \in Nat
  BY DEF SellOrders, AreOrders
<1>2. ASSUME NEW n \in 1 .. Len(os) PROVE f[n] = SlippedMaker(s, os[n]) /\ f[n] \in Nat
  <2>. DEFINE o == os[n]
  <2>1. IsOrder(o, amt) /\ o = OrderOf("sell", o.fill)
    BY <1>1 DEF SellOrders, AreOrders
  <2>2. f[n] = SlippedMaker(s, o)
    BY <1>1 DEF SlippedMakers
  <2>. HIDE DEF o
  <2>3. SlippedMaker(s, o) \in Nat
    BY <2>1, OrderIsSlipped
  <2>. QED  BY <2>2, <2>3 DEF o
<1>. HIDE DEF f
<1>3. /\ SumFunctionOnSet(f, 1 .. 0) = 0
      /\ \A n \in 0 .. Len(os) : SumFunctionOnSet(f, 1 .. n) \in Nat
      /\ \A n \in 1 .. Len(os) : SumFunctionOnSet(f, 1 .. n) = SumFunctionOnSet(f, 1 .. (n - 1)) + f[n]
  BY <1>1, <1>2, SumsInTurn
<1>. QED  BY <1>1, <1>2, <1>3 DEF SlippedUpTo, f

(* The worst case of the single hops of a sell promises at most what         *)
(* slippage leaves of each of them, and a unit per order.                    *)
LEMMA SinglesPromise ==
    ASSUME NEW amt \in Nat, NEW os, SellOrders(os, amt), NEW s \in NonNeg, Leq(s, One)
    PROVE  LET w == simulateWorstCaseFill("sell", amt, s, os).maker
           IN  w \in Nat /\ w <= SlippedUpTo(s, os, Len(os)) + Len(os)
<1>. DEFINE c == Minus(One, s)
            len == Len(os)
            r(n) == FilledUpTo(amt, os, n)
            k(n) == SlippedUpTo(s, os, n)
            T == {n \in Nat : n <= len => Leq(Times(r(n).output, c), Num(k(n) + n))}
            w == simulateWorstCaseFill("sell", amt, s, os).maker
<1>1. AreOrders(os, amt) /\ os \in Seq(Range(os)) /\ DOMAIN os = 1 .. len /\ len \in Nat
  BY DEF SellOrders, AreOrders
<1>2. /\ k(0) = 0 /\ \A n \in 0 .. len : k(n) \in Nat
      /\ \A n \in 1 .. len : k(n) = k(n - 1) + SlippedMaker(s, os[n]) /\ SlippedMaker(s, os[n]) \in Nat
  BY SlippedInTurn
<1>3. /\ fillQuoteOrders(amt, os) = r(len) /\ r(0) = NothingFilled(amt)
      /\ \A n \in 1 .. len : r(n) = FillOrder(r(n - 1), os[n])
  BY <1>1, FilledInTurn
<1>4. ASSUME NEW n \in 0 .. len PROVE r(n).output \in NonNeg /\ \E e \in Nat : r(n).remaining = Num(e)
  <2>1. FilledInv(amt, os, n)
    BY <1>1, SimulatedFill
  <2>2. SizesUpTo(os, n) \in Nat
    BY <1>1, SizesInTurn
  <2>3. amt - SmallerOf(SizesUpTo(os, n), amt) \in Nat
    <3>. DEFINE z == SizesUpTo(os, n)
    <3>. HIDE DEF z
    <3>1. z \in Nat
      BY <2>2 DEF z
    <3>2. amt - SmallerOf(z, amt) \in Nat
      BY <3>1 DEF SmallerOf
    <3>. QED  BY <3>2 DEF z
  <2>. QED  BY <2>1, <2>3 DEF FilledInv
<1>5. c \in NonNeg
  BY SlippageFactors
<1>. HIDE DEF c, r, k
<1>6. 0 \in T
  <2>1. r(0).output = Zero /\ Zero \in NonNeg
    BY <1>3, NumIsRat DEF NothingFilled
  <2>2. Leq(Times(Zero, c), Zero)
    <3>1. IsFrac(Times(Zero, c), Zero[1] * c[1], Zero[2] * c[2]) /\ c \in Rat /\ Zero \in Rat
      BY <1>5, <2>1, NumIsRat, TimesValue
    <3>2. Zero[1] = 0 /\ Zero[2] = 1 /\ c[1] \in Int /\ c[2] \in Nat \ {0}
      BY <3>1, RatParts, NumIsRat DEF Zero
    <3>3. Zero[1] * c[1] = 0 /\ Zero[2] * c[2] = c[2]
      BY <3>2
    <3>4. IsFrac(Times(Zero, c), 0, c[2]) /\ IsFrac(Zero, 0, 1)
      BY <3>1, <3>2, <3>3, RatIsFrac
    <3>5. Leq(Times(Zero, c), Zero) <=> 0 * 1 <= 0 * c[2]
      BY <3>2, <3>4, FracLeq
    <3>. QED  BY <3>2, <3>5
  <2>3. Num(k(0) + 0) = Zero
    BY <1>2 DEF Zero
  <2>. QED  BY <2>1, <2>2, <2>3
<1>7. ASSUME NEW n \in Nat, n \in T PROVE n + 1 \in T
  <2>. SUFFICES ASSUME n + 1 <= len PROVE Leq(Times(r(n + 1).output, c), Num(k(n + 1) + (n + 1)))
    OBVIOUS
  <2>1. n + 1 \in 1 .. len /\ (n + 1) - 1 = n /\ n \in 0 .. len /\ n <= len /\ n + 1 \in 0 .. len
    BY <1>1
  <2>. DEFINE o == os[n + 1]
              t == SlippedMaker(s, o)
              a == k(n) + n
              x == r(n).output
              y == o.fill.output
  <2>2. r(n + 1) = FillOrder(r(n), o)
    BY <1>3, <2>1
  <2>3. k(n + 1) = k(n) + t /\ t \in Nat /\ k(n) \in Nat
    BY <1>2, <2>1
  <2>4. IsOrder(o, amt) /\ o = OrderOf("sell", o.fill)
    BY <1>1, <2>1 DEF SellOrders, AreOrders
  <2>5. x \in NonNeg /\ r(n + 1).output \in NonNeg
    BY <1>4, <2>1
  <2>6. PICK e \in Nat : r(n).remaining = Num(e)
    BY <1>4, <2>1
  <2>7. Leq(Times(x, c), Num(a))
    BY <1>7, <2>1
  <2>. HIDE DEF o
  <2>8. y \in NonNeg /\ \E j \in Nat \ {0} : o.fill.input = Num(j)
    BY <2>4 DEF IsOrder, IsFill
  <2>9. Leq(Times(y, c), Num(t + 1))
    BY <2>4, OrderIsSlipped DEF c
  <2>10. \/ FillOrder(r(n), o).output = r(n).output
         \/ \E z \in NonNeg : Leq(z, o.fill.output) /\ FillOrder(r(n), o).output = Plus(r(n).output, z)
    BY <2>6, <2>8, FillGivesPart
  <2>11. a \in Int /\ t + 1 \in Int /\ a + (t + 1) = k(n + 1) + (n + 1) /\ a <= a + (t + 1)
    <3>. HIDE DEF t
    <3>. QED  BY <2>3
  <2>. HIDE DEF t, a, x, y
  <2>12. CASE FillOrder(r(n), o).output = r(n).output
    <3>1. Leq(Num(a), Num(a + (t + 1))) /\ Num(a) \in Rat /\ Num(a + (t + 1)) \in Rat
      BY <2>11, LeqOfInts, NumIsRat
    <3>2. Times(x, c) \in Rat
      BY <1>5, <2>5, NonNegIsClosed, NumIsRat
    <3>3. Leq(Times(x, c), Num(a + (t + 1)))
      BY <2>7, <3>1, <3>2, LeqIsTransitive
    <3>. QED  BY <2>2, <2>11, <2>12, <3>3 DEF x
  <2>13. CASE \E z \in NonNeg : Leq(z, o.fill.output) /\ FillOrder(r(n), o).output = Plus(r(n).output, z)
    <3>1. PICK z \in NonNeg : Leq(z, y) /\ FillOrder(r(n), o).output = Plus(x, z)
      BY <2>13 DEF x, y
    <3>2. Leq(Times(Plus(x, z), c), Num(a + (t + 1)))
      BY <1>5, <2>5, <2>7, <2>8, <2>9, <2>11, <3>1, SlippedTogether
    <3>. QED  BY <2>2, <2>11, <3>1, <3>2
  <2>. QED  BY <2>10, <2>12, <2>13
<1>. HIDE DEF T
<1>8. Nat \subseteq T
  BY <1>6, <1>7, SetInduction
<1>9. Leq(Times(r(len).output, c), Num(k(len) + len)) /\ k(len) \in Nat /\ r(len).output \in NonNeg
  <2>1. len \in 0 .. len /\ len \in Nat /\ len <= len
    BY <1>1
  <2>. HIDE DEF len
  <2>2. k(len) \in Nat /\ r(len).output \in NonNeg
    BY <1>2, <1>4, <2>1
  <2>3. len \in T
    BY <1>8, <2>1
  <2>4. Leq(Times(r(len).output, c), Num(k(len) + len))
    BY <2>1, <2>3 DEF T
  <2>. QED  BY <2>2, <2>4
<1>10. w = Floor(Times(r(len).output, c))
  BY <1>3 DEF simulateWorstCaseFill, Info, Slip, c
<1>. DEFINE x == Times(r(len).output, c)
            b == k(len) + len
<1>11. x \in NonNeg /\ x \in Rat /\ b \in Int /\ Num(b) \in Rat /\ Leq(x, Num(b)) /\ w = Floor(x)
  BY <1>1, <1>5, <1>9, <1>10, NonNegIsClosed, NumIsRat
<1>. HIDE DEF x, w, b
<1>12. w \in Nat /\ w <= b
  BY <1>11, FloorOfNonNeg, RoundingIsMonotone, RoundingOfInt
<1>. QED  BY <1>12 DEF w, b, k

InARow(f, g, h, m, n) ==
    /\ \A i \in 1 .. m : f[i] = g[i] /\ g[i] \in Nat
    /\ \A i \in 1 .. n : f[m + i] = h[i] /\ h[i] \in Nat

(* The sum over two sequences in a row is the sum of the two sums.           *)
LEMMA SumOfBoth ==
    ASSUME NEW m \in Nat, NEW n \in Nat, NEW f, NEW g, NEW h, InARow(f, g, h, m, n)
    PROVE  /\ SumFunctionOnSet(f, 1 .. (m + n)) = SumFunctionOnSet(g, 1 .. m) + SumFunctionOnSet(h, 1 .. n)
           /\ \A i \in 1 .. (m + n) : f[i] \in Nat
<1>. DEFINE F(j) == SumFunctionOnSet(f, 1 .. j)
            G == SumFunctionOnSet(g, 1 .. m)
            H(j) == SumFunctionOnSet(h, 1 .. j)
            T == {j \in Nat : j <= n => F(m + j) = G + H(j)}
<1>0. /\ \A i \in 1 .. m : f[i] = g[i] /\ g[i] \in Nat
      /\ \A i \in 1 .. n : f[m + i] = h[i] /\ h[i] \in Nat
  BY DEF InARow
<1>1. ASSUME NEW i \in 1 .. (m + n) PROVE f[i] \in Nat
  <2>1. CASE i <= m
    <3>1. i \in 1 .. m
      BY <2>1
    <3>. QED  BY <1>0, <3>1
  <2>2. CASE ~ (i <= m)
    <3>1. i - m \in 1 .. n /\ m + (i - m) = i
      BY <2>2
    <3>. QED  BY <1>0, <3>1
  <2>. QED  BY <2>1, <2>2
<1>2. m + n \in Nat
  OBVIOUS
<1>3. /\ \A j \in 0 .. (m + n) : F(j) \in Nat
      /\ \A j \in 1 .. (m + n) : F(j) = F(j - 1) + f[j]
  BY <1>1, <1>2, SumsInTurn
<1>4. /\ H(0) = 0 /\ \A j \in 0 .. n : H(j) \in Nat
      /\ \A j \in 1 .. n : H(j) = H(j - 1) + h[j]
  BY <1>0, SumsInTurn
<1>5. F(m) = G
  <2>. DEFINE D == 1 .. m
  <2>1. IsFiniteSet(D)
    BY FS_Interval
  <2>2. \A i \in D : f[i] = g[i]
    BY <1>0
  <2>. HIDE DEF D
  <2>3. SumFunctionOnSet(f, D) = SumFunctionOnSet(g, D)
    BY <2>1, <2>2, SumAgrees
  <2>. QED  BY <2>3 DEF D
<1>6. G \in Nat
  <2>1. m \in 0 .. (m + n)
    OBVIOUS
  <2>. HIDE DEF F, G
  <2>. QED  BY <1>3, <1>5, <2>1
<1>. HIDE DEF F, G, H
<1>7. 0 \in T
  <2>1. m + 0 = m /\ G + 0 = G
    BY <1>6
  <2>. QED  BY <1>4, <1>5, <2>1
<1>8. ASSUME NEW j \in Nat, j \in T PROVE j + 1 \in T
  <2>. SUFFICES ASSUME j + 1 <= n PROVE F(m + (j + 1)) = G + H(j + 1)
    OBVIOUS
  <2>1. /\ j + 1 \in 1 .. n /\ m + (j + 1) \in 1 .. (m + n) /\ (m + (j + 1)) - 1 = m + j /\ (j + 1) - 1 = j
        /\ j <= n /\ j \in 0 .. n
    OBVIOUS
  <2>2. F(m + (j + 1)) = F(m + j) + f[m + (j + 1)]
    BY <1>3, <2>1
  <2>3. H(j + 1) = H(j) + h[j + 1] /\ H(j) \in Nat /\ h[j + 1] \in Nat /\ f[m + (j + 1)] = h[j + 1]
    BY <1>0, <1>4, <2>1
  <2>4. F(m + j) = G + H(j)
    BY <1>8, <2>1
  <2>. QED  BY <1>6, <2>2, <2>3, <2>4
<1>. HIDE DEF T
<1>9. Nat \subseteq T
  BY <1>7, <1>8, SetInduction
<1>10. F(m + n) = G + H(n)
  BY <1>9 DEF T
<1>. QED  BY <1>1, <1>10 DEF F, G, H

Slipped(s, os) == [i \in DOMAIN os |-> SlipOrder("sell", s, os[i])]

(* The slipped orders of two sequences are those of both in a row.           *)
LEMMA SlippedOfBoth ==
    ASSUME NEW s, NEW S, NEW a \in Seq(S), NEW b \in Seq(S)
    PROVE  Slipped(s, a) \o Slipped(s, b) = Slipped(s, a \o b)
<1>. DEFINE C == {SlipOrder("sell", s, x) : x \in S}
            slip(x) == SlipOrder("sell", s, x)
            ab == a \o b
            u == Slipped(s, a)
            v == Slipped(s, b)
            w == Slipped(s, ab)
            uv == u \o v
<1>1. ab \in Seq(S) /\ Len(ab) = Len(a) + Len(b)
      /\ \A i \in 1 .. Len(a) + Len(b) : ab[i] = IF i <= Len(a) THEN a[i] ELSE b[i - Len(a)]
  BY ConcatProperties
<1>. HIDE DEF ab
<1>2. ASSUME NEW q \in Seq(S) PROVE Slipped(s, q) \in Seq(C) /\ Len(Slipped(s, q)) = Len(q) /\ \A i \in 1 .. Len(q) : Slipped(s, q)[i] = slip(q[i])
  <2>. DEFINE n == Len(q)
              t == Slipped(s, q)
  <2>1. DOMAIN q = 1 .. n /\ n \in Nat /\ \A i \in 1 .. n : q[i] \in S
    OBVIOUS
  <2>2. t = [i \in 1 .. n |-> slip(q[i])]
    BY <2>1 DEF Slipped
  <2>3. \A i \in 1 .. n : slip(q[i]) \in C
    BY <2>1
  <2>. HIDE DEF C, slip, n, t
  <2>4. t \in [1 .. n -> C] /\ \A i \in 1 .. n : t[i] = slip(q[i])
    BY <2>2, <2>3
  <2>5. t \in Seq(C) /\ Len(t) = n
    BY <2>1, <2>4, SeqDef
  <2>. QED  BY <2>4, <2>5 DEF n, t
<1>. HIDE DEF C, slip
<1>3. u \in Seq(C) /\ Len(u) = Len(a) /\ \A i \in 1 .. Len(a) : u[i] = slip(a[i])
  BY <1>2
<1>4. v \in Seq(C) /\ Len(v) = Len(b) /\ \A i \in 1 .. Len(b) : v[i] = slip(b[i])
  BY <1>2
<1>5. w \in Seq(C) /\ Len(w) = Len(ab) /\ \A i \in 1 .. Len(ab) : w[i] = slip(ab[i])
  BY <1>1, <1>2
<1>. HIDE DEF u, v, w
<1>6. uv \in Seq(C) /\ Len(uv) = Len(u) + Len(v)
      /\ \A i \in 1 .. Len(u) + Len(v) : uv[i] = IF i <= Len(u) THEN u[i] ELSE v[i - Len(u)]
  <2>1. u \in Seq(C) /\ v \in Seq(C)
    BY <1>3, <1>4
  <2>. QED  BY <2>1, ConcatProperties
<1>. HIDE DEF uv
<1>7. ASSUME NEW i \in 1 .. Len(uv) PROVE uv[i] = w[i]
  <2>0. Len(a) \in Nat /\ Len(b) \in Nat /\ Len(uv) = Len(a) + Len(b)
    BY <1>3, <1>4, <1>6
  <2>1. i \in 1 .. Len(u) + Len(v) /\ i \in 1 .. Len(a) + Len(b) /\ i \in 1 .. Len(ab)
    BY <1>1, <1>3, <1>4, <1>6
  <2>2. CASE i <= Len(a)
    <3>1. i \in 1 .. Len(a)
      BY <2>0, <2>1, <2>2
    <3>. QED  BY <1>1, <1>3, <1>5, <1>6, <2>1, <2>2, <3>1
  <2>3. CASE ~ (i <= Len(a))
    <3>1. i - Len(a) \in 1 .. Len(b)
      BY <2>0, <2>1, <2>3
    <3>2. uv[i] = v[i - Len(a)] /\ ab[i] = b[i - Len(a)]
      BY <1>1, <1>3, <1>6, <2>1, <2>3
    <3>. QED  BY <1>4, <1>5, <2>1, <3>1, <3>2
  <2>. QED  BY <2>2, <2>3
<1>8. Len(uv) = Len(w)
  BY <1>1, <1>3, <1>4, <1>5, <1>6
<1>9. uv = w
  BY <1>5, <1>6, <1>7, <1>8, SeqEqual
<1>. QED  BY <1>9 DEF uv, u, v, w, ab

(* Merged with those of the two-hops, the promise of the single hops grows   *)
(* by at most what slippage leaves of each and a unit per order.             *)
LEMMA MergedPromise ==
    ASSUME NEW amt \in Nat, NEW hops, SellOrders(hops, amt), NEW s \in NonNeg, Leq(s, One),
           NEW x, IsInfo(x), NEW f, AreInfos(f), Len(f) = Len(hops),
           \A i \in 1 .. Len(f) : f[i].maker <= SlippedMaker(s, hops[i]) + 1
    PROVE  mergeSwapQuoteInfos(<<x>> \o f).maker <= x.maker + SlippedUpTo(s, hops, Len(hops)) + Len(hops)
<1>. DEFINE bs == <<x>> \o f
            len == Len(f)
            b(n) == MergedUpTo(bs, n)
            k(n) == SlippedUpTo(s, hops, n)
            T == {n \in Nat : n <= len => IsInfo(b(n + 1)) /\ b(n + 1).maker <= x.maker + k(n) + n}
<1>1. len \in Nat /\ Len(hops) = len
  BY DEF AreInfos
<1>2. AreInfos(bs) /\ Len(bs) = len + 1 /\ bs[1] = x /\ \A i \in 1 .. len : bs[i + 1] = f[i]
  BY OneAndMore
<1>3. \A i \in 1 .. len : IsInfo(f[i]) /\ f[i].maker <= SlippedMaker(s, hops[i]) + 1
  BY DEF AreInfos
<1>. HIDE DEF bs, len
<1>4. /\ mergeSwapQuoteInfos(bs) = b(len + 1) /\ b(0) = NoInfo
      /\ \A n \in 1 .. (len + 1) : b(n) = AddInfo(b(n - 1), bs[n])
  BY <1>2, MergedInTurn DEF NextInfo, AddInfo, AreInfos
<1>5. /\ k(0) = 0 /\ \A n \in 0 .. len : k(n) \in Nat
      /\ \A n \in 1 .. len : k(n) = k(n - 1) + SlippedMaker(s, hops[n]) /\ SlippedMaker(s, hops[n]) \in Nat
  BY <1>1, SlippedInTurn
<1>6. \A y : IsInfo(y) => y.maker \in Nat
  BY DEF IsInfo
<1>7. ASSUME NEW y, IsInfo(y), NEW w, IsInfo(w)
      PROVE  IsInfo(AddInfo(y, w)) /\ AddInfo(y, w).maker = y.maker + w.maker
  BY <1>7, AddedInfos
<1>. HIDE DEF b, k
<1>8. 0 \in T
  <2>1. b(1) = AddInfo(NoInfo, x)
    <3>1. 1 \in 1 .. (len + 1) /\ 1 - 1 = 0
      BY <1>1
    <3>. QED  BY <1>2, <1>4, <3>1
  <2>2. IsInfo(NoInfo) /\ NoInfo.maker = 0
    BY DEF IsInfo, NoInfo
  <2>3. IsInfo(b(1)) /\ b(1).maker = 0 + x.maker /\ x.maker \in Nat
    BY <1>6, <1>7, <2>1, <2>2
  <2>4. b(1).maker <= x.maker + k(0) + 0 /\ 0 + 1 = 1
    BY <1>5, <2>3
  <2>. QED  BY <2>3, <2>4
<1>9. ASSUME NEW n \in Nat, n \in T PROVE n + 1 \in T
  <2>. SUFFICES ASSUME n + 1 <= len
                PROVE  IsInfo(b((n + 1) + 1)) /\ b((n + 1) + 1).maker <= x.maker + k(n + 1) + (n + 1)
    OBVIOUS
  <2>. DEFINE j == n + 1
  <2>1. /\ j \in 1 .. len /\ j + 1 \in 1 .. (len + 1) /\ (j + 1) - 1 = j /\ j - 1 = n /\ n <= len /\ n \in 0 .. len
        /\ j \in Nat
    BY <1>1
  <2>2. IsInfo(b(j)) /\ b(j).maker <= x.maker + k(n) + n
    BY <1>9, <2>1
  <2>2a. j = n + 1
    OBVIOUS
  <2>. HIDE DEF j
  <2>3. b(j + 1) = AddInfo(b(j), f[j])
    BY <1>2, <1>4, <2>1
  <2>4. IsInfo(b(j + 1)) /\ b(j + 1).maker = b(j).maker + f[j].maker
    BY <1>3, <1>7, <2>1, <2>2, <2>3
  <2>5. k(j) = k(n) + SlippedMaker(s, hops[j]) /\ k(n) \in Nat /\ SlippedMaker(s, hops[j]) \in Nat
    BY <1>5, <2>1
  <2>6. x.maker \in Nat /\ b(j).maker \in Nat /\ f[j].maker \in Nat /\ f[j].maker <= SlippedMaker(s, hops[j]) + 1
    BY <1>3, <1>6, <2>1, <2>2
  <2>7. b(j + 1).maker <= x.maker + k(j) + j
    <3>. DEFINE p == b(j + 1).maker
                q == b(j).maker
                r == f[j].maker
                t == SlippedMaker(s, hops[j])
                y == x.maker
                c == k(n)
                d == k(j)
    <3>1. /\ y \in Nat /\ q \in Nat /\ r \in Nat /\ t \in Nat /\ c \in Nat
          /\ p = q + r /\ q <= y + c + n /\ r <= t + 1 /\ d = c + t
      BY <2>2, <2>4, <2>5, <2>6
    <3>. HIDE DEF p, q, r, t, y, c, d
    <3>2. p <= y + d + (n + 1)
      BY <3>1
    <3>. QED  BY <2>2a, <3>2 DEF p, y, d
  <2>. QED  BY <2>4, <2>7 DEF j
<1>. HIDE DEF T
<1>10. Nat \subseteq T
  BY <1>8, <1>9, SetInduction
<1>11. b(len + 1).maker <= x.maker + k(len) + len
  BY <1>1, <1>10 DEF T
<1>. QED  BY <1>1, <1>4, <1>11 DEF bs, k

(* The orders of a kind are of that kind, one for each of its fills.         *)
LEMMA OrdersOfKind ==
    ASSUME NEW side, NEW amt \in Nat, NEW fills, ArePathFills(fills, amt), NEW kind
    PROVE  /\ Len(OrdersOf(side, fills, kind)) = Cardinality(KindOf(fills, kind))
           /\ \A j \in DOMAIN OrdersOf(side, fills, kind) : OrdersOf(side, fills, kind)[j].way.kind = kind
<1>. DEFINE order(i) == OrderOf(side, fills[i])
            os == [i \in DOMAIN fills |-> order(i)]
            I == KindOf(fills, kind)
            A == {os[i] : i \in DOMAIN os}
            E == {os[i] : i \in I \cap DOMAIN os}
            c == OrdersOf(side, fills, kind)
            len == Len(fills)
            v == [o \in A |-> 0]
<1>1. c = Chosen(os, I)
  BY DEF OrdersOf, KindOf
<1>2. DOMAIN fills = 1 .. len /\ len \in Nat /\ I \subseteq DOMAIN fills
  BY DEF ArePathFills, KindOf
<1>3. \A i \in I : order(i).way.kind = kind
  BY DEF OrderOf, KindOf
<1>. HIDE DEF order, len, c, I
<1>4. \A o \in E : o.way.kind = kind
  BY <1>3
<1>5. os \in Seq(A) /\ DOMAIN os = DOMAIN fills
  <2>1. DOMAIN os = 1 .. len /\ \A i \in 1 .. len : os[i] \in A
    BY <1>2
  <2>2. os = [i \in 1 .. len |-> os[i]]
    BY <1>2
  <2>. HIDE DEF os, A
  <2>4. os \in [1 .. len -> A]
    BY <2>1, <2>2
  <2>5. os \in Seq(A)
    BY <1>2, <2>4, SeqDef
  <2>. QED  BY <1>2, <2>1, <2>5
<1>6. \A o \in A : v[o] \in Int
  OBVIOUS
<1>. HIDE DEF os, v
<1>7. Chosen(os, I) \in Seq(E)
  <2>. HIDE DEF A
  <2>. QED  BY <1>5, ChosenIsSeq
<1>8. Len(Chosen(os, I)) = Cardinality(I)
  <2>. HIDE DEF A
  <2>. QED  BY <1>2, <1>5, <1>6, ChosenAddsUp
<1>. HIDE DEF E
<1>9. c \in Seq(E) /\ \A j \in DOMAIN c : c[j] \in E
  <2>1. c \in Seq(E)
    BY <1>1, <1>7, Zenon
  <2>. QED  BY <2>1
<1>. QED  BY <1>1, <1>4, <1>8, <1>9 DEF c, I

(* No more orders than fills.                                                *)
LEMMA OrdersAreCounted ==
    ASSUME NEW side, NEW amt \in Nat, NEW fills, ArePathFills(fills, amt)
    PROVE  LET n == Len(OrdersOf(side, fills, "native"))
               b == Len(OrdersOf(side, fills, "bridge"))
               h == Len(OrdersOf(side, fills, "twoHop"))
           IN  n \in Nat /\ b \in Nat /\ h \in Nat /\ n + b + h <= Len(fills)
<1>. DEFINE N == KindOf(fills, "native")
            B == KindOf(fills, "bridge")
            H == KindOf(fills, "twoHop")
            D == DOMAIN fills
<1>1. IsFiniteSet(D) /\ Cardinality(D) = Len(fills)
  <2>1. D = 1 .. Len(fills) /\ Len(fills) \in Nat
    BY DEF ArePathFills
  <2>. DEFINE len == Len(fills)
  <2>2. IsFiniteSet(1 .. len) /\ Cardinality(1 .. len) = len
    <3>. HIDE DEF len
    <3>1. len \in Nat
      BY <2>1 DEF len
    <3>2. IsFiniteSet(1 .. len)
      BY <3>1, FS_Interval
    <3>3. Cardinality(1 .. len) = IF 1 > len THEN 0 ELSE len - 1 + 1
      BY <3>1, FS_Interval
    <3>. QED  BY <3>1, <3>2, <3>3
  <2>. HIDE DEF D
  <2>. QED  BY <2>1, <2>2
<1>2. N \subseteq D /\ B \subseteq D /\ H \subseteq D /\ N \cap B = {} /\ (N \cup B) \cap H = {}
  BY DEF KindOf
<1>3. ASSUME NEW kind PROVE Len(OrdersOf(side, fills, kind)) = Cardinality(KindOf(fills, kind))
  BY OrdersOfKind
<1>. DEFINE n == Cardinality(N)
            b == Cardinality(B)
            h == Cardinality(H)
            nb == Cardinality(N \cup B)
            all == Cardinality((N \cup B) \cup H)
<1>4. /\ Len(OrdersOf(side, fills, "native")) = n /\ Len(OrdersOf(side, fills, "bridge")) = b
      /\ Len(OrdersOf(side, fills, "twoHop")) = h
  BY <1>3
<1>. HIDE DEF N, B, H, D
<1>5. IsFiniteSet(N) /\ IsFiniteSet(B) /\ IsFiniteSet(H)
  BY <1>1, <1>2, FS_Subset
<1>6. n \in Nat /\ b \in Nat /\ h \in Nat
  BY <1>5, FS_CardinalityType
<1>7. IsFiniteSet(N \cup B) /\ nb = n + b - 0
  <2>1. IsFiniteSet(N \cup B) /\ Cardinality(N \cup B) = Cardinality(N) + Cardinality(B) - Cardinality(N \cap B)
    BY <1>5, FS_Union
  <2>2. Cardinality(N \cap B) = 0
    BY <1>2, FS_EmptySet
  <2>. QED  BY <2>1, <2>2
<1>8. all = nb + h - 0
  <2>. DEFINE S == N \cup B
  <2>. HIDE DEF S
  <2>1. IsFiniteSet(S) /\ S \cap H = {}
    BY <1>2, <1>7 DEF S
  <2>2. Cardinality(S \cup H) = Cardinality(S) + Cardinality(H) - Cardinality(S \cap H)
    BY <1>5, <2>1, FS_Union
  <2>3. Cardinality(S \cap H) = 0
    BY <2>1, FS_EmptySet
  <2>. QED  BY <2>2, <2>3 DEF S
<1>9. all <= Len(fills)
  <2>. DEFINE S == (N \cup B) \cup H
  <2>1. S \subseteq D
    BY <1>2
  <2>. HIDE DEF S
  <2>2. Cardinality(S) <= Cardinality(D)
    BY <1>1, <2>1, FS_Subset
  <2>. QED  BY <1>1, <2>2 DEF S
<1>. HIDE DEF n, b, h, nb, all
<1>10. n + b + h <= Len(fills)
  BY <1>6, <1>7, <1>8, <1>9
<1>. QED  BY <1>4, <1>6, <1>10

(* The slipped orders give together what each gives.                         *)
LEMMA SlippedAddUp ==
    ASSUME NEW amt \in Nat, NEW os, SellOrders(os, amt), NEW s \in NonNeg, Leq(s, One)
    PROVE  SumQ(LAMBDA o : o.maker, Slipped(s, os)) = Num(SlippedUpTo(s, os, Len(os)))
<1>. DEFINE k == SlippedMakers(s, os)
            len == Len(os)
            sl == Slipped(s, os)
<1>1. DOMAIN os = 1 .. len /\ len \in Nat
  BY DEF SellOrders, AreOrders
<1>2. ASSUME NEW i \in 1 .. len PROVE k[i] \in Nat /\ sl[i].maker = Num(k[i])
  <2>. DEFINE o == os[i]
  <2>1. IsOrder(o, amt) /\ o = OrderOf("sell", o.fill)
    BY <1>1 DEF SellOrders, AreOrders
  <2>2. k[i] = SlippedMaker(s, o) /\ sl[i] = SlipOrder("sell", s, o)
    BY <1>1 DEF SlippedMakers, Slipped
  <2>. HIDE DEF o, k, sl
  <2>3. SlippedMaker(s, o) \in Nat /\ SlipOrder("sell", s, o).maker = Num(SlippedMaker(s, o))
    BY <2>1, OrderIsSlipped
  <2>. QED  BY <2>2, <2>3
<1>3. k \in [1 .. len -> Nat] /\ DOMAIN k = 1 .. len /\ DOMAIN sl = 1 .. len
  <2>1. k = [i \in 1 .. len |-> SlippedMaker(s, os[i])]
    BY <1>1 DEF SlippedMakers
  <2>2. DOMAIN k = 1 .. len /\ DOMAIN sl = 1 .. len
    BY <1>1 DEF SlippedMakers, Slipped
  <2>3. \A i \in 1 .. len : k[i] \in Nat
    BY <1>2
  <2>4. k = [i \in 1 .. len |-> k[i]]
    BY <2>1
  <2>. HIDE DEF k, len
  <2>. QED  BY <2>2, <2>3, <2>4
<1>. HIDE DEF k, sl, len
<1>4. SumQ(LAMBDA n : Num(n), k) = Num(SumFunction(k))
  BY <1>1, <1>3, TotalOfInputs
<1>5. SumQ(LAMBDA n : Num(n), k) = SumQ(LAMBDA o : o.maker, sl)
  <2>1. [i \in DOMAIN k |-> Num(k[i])] = [i \in DOMAIN sl |-> sl[i].maker]
    BY <1>2, <1>3
  <2>. QED  BY <2>1 DEF SumQ
<1>6. SumFunction(k) = SumFunctionOnSet(k, 1 .. len)
  BY <1>3 DEF SumFunction
<1>. QED  BY <1>4, <1>5, <1>6 DEF SlippedUpTo, k, sl, len

(* Sequences of orders of a sell make one, whose slipped orders give         *)
(* together what those of both give.                                         *)
LEMMA SellOrdersTogether ==
    ASSUME NEW amt \in Nat, NEW a, SellOrders(a, amt), NEW b, SellOrders(b, amt), NEW s \in NonNeg, Leq(s, One)
    PROVE  /\ SellOrders(a \o b, amt) /\ Len(a \o b) = Len(a) + Len(b)
           /\ SlippedUpTo(s, a \o b, Len(a) + Len(b)) = SlippedUpTo(s, a, Len(a)) + SlippedUpTo(s, b, Len(b))
           /\ Slipped(s, a) \o Slipped(s, b) = Slipped(s, a \o b)
<1>. DEFINE R == Range(a) \cup Range(b)
            u == a \o b
            m == Len(a)
            n == Len(b)
            f == SlippedMakers(s, u)
            g == SlippedMakers(s, a)
            h == SlippedMakers(s, b)
<1>1. /\ AreOrders(a, amt) /\ AreOrders(b, amt)
      /\ DOMAIN a = 1 .. m /\ DOMAIN b = 1 .. n /\ m \in Nat /\ n \in Nat
      /\ \A i \in DOMAIN a : a[i] = OrderOf("sell", a[i].fill)
      /\ \A i \in DOMAIN b : b[i] = OrderOf("sell", b[i].fill)
  BY DEF SellOrders, AreOrders
<1>2. a \in Seq(R) /\ b \in Seq(R)
  <2>1. a \in Seq(Range(a)) /\ Range(a) \subseteq R
    BY <1>1 DEF AreOrders
  <2>2. b \in Seq(Range(b)) /\ Range(b) \subseteq R
    BY <1>1 DEF AreOrders
  <2>. HIDE DEF R
  <2>. QED  BY <2>1, <2>2, SeqMonotonic
<1>. HIDE DEF R
<1>3. Len(u) = m + n /\ DOMAIN u = 1 .. (m + n) /\ \A i \in 1 .. m + n : u[i] = IF i <= m THEN a[i] ELSE b[i - m]
  BY <1>2, ConcatProperties
<1>4. AreOrders(u, amt)
  BY <1>1, OrdersTogether
<1>5. Slipped(s, a) \o Slipped(s, b) = Slipped(s, u)
  BY <1>2, SlippedOfBoth
<1>. HIDE DEF u, m, n
<1>6. ASSUME NEW i \in DOMAIN u PROVE u[i] = OrderOf("sell", u[i].fill)
  <2>1. CASE i <= m
    <3>1. i \in DOMAIN a /\ u[i] = a[i]
      BY <1>1, <1>3, <2>1
    <3>. QED  BY <1>1, <3>1
  <2>2. CASE ~ (i <= m)
    <3>1. i - m \in DOMAIN b /\ u[i] = b[i - m]
      BY <1>1, <1>3, <2>2
    <3>. QED  BY <1>1, <3>1
  <2>. QED  BY <2>1, <2>2
<1>7. SellOrders(u, amt)
  BY <1>4, <1>6 DEF SellOrders
<1>8. \A i \in 1 .. m : f[i] = g[i] /\ g[i] \in Nat
  <2>. SUFFICES ASSUME NEW i \in 1 .. m PROVE f[i] = g[i] /\ g[i] \in Nat
    OBVIOUS
  <2>1. i \in DOMAIN a /\ i \in DOMAIN u /\ u[i] = a[i]
    BY <1>1, <1>3
  <2>2. f[i] = SlippedMaker(s, a[i]) /\ g[i] = SlippedMaker(s, a[i])
    BY <2>1 DEF SlippedMakers
  <2>3. SlippedMaker(s, a[i]) \in Nat
    BY SlippedInTurn DEF m
  <2>. QED  BY <2>2, <2>3
<1>9. \A i \in 1 .. n : f[m + i] = h[i] /\ h[i] \in Nat
  <2>. SUFFICES ASSUME NEW i \in 1 .. n PROVE f[m + i] = h[i] /\ h[i] \in Nat
    OBVIOUS
  <2>1. i \in DOMAIN b /\ m + i \in DOMAIN u /\ ~ (m + i <= m) /\ (m + i) - m = i
    BY <1>1, <1>3
  <2>2. u[m + i] = b[i]
    BY <1>3, <2>1
  <2>3. f[m + i] = SlippedMaker(s, b[i]) /\ h[i] = SlippedMaker(s, b[i])
    BY <2>1, <2>2 DEF SlippedMakers
  <2>4. SlippedMaker(s, b[i]) \in Nat
    BY SlippedInTurn DEF n
  <2>. QED  BY <2>3, <2>4
<1>. HIDE DEF f, g, h
<1>10. SumFunctionOnSet(f, 1 .. (m + n)) = SumFunctionOnSet(g, 1 .. m) + SumFunctionOnSet(h, 1 .. n)
  <2>1. m \in Nat /\ n \in Nat
    BY <1>1
  <2>2. /\ SumFunctionOnSet(f, 1 .. (m + n)) = SumFunctionOnSet(g, 1 .. m) + SumFunctionOnSet(h, 1 .. n)
        /\ \A i \in 1 .. (m + n) : f[i] \in Nat
    <3>1. InARow(f, g, h, m, n)
      BY <1>8, <1>9 DEF InARow
    <3>. QED  BY <2>1, <3>1, SumOfBoth
  <2>. QED  BY <2>2
<1>. QED  BY <1>3, <1>5, <1>7, <1>10 DEF SlippedUpTo, f, g, h, u, m, n

(* The worst case of a sell promises at most what its orders give that are   *)
(* slipped one by one, and a unit per order.                                 *)
LEMMA PathKeepsPromise ==
    ASSUME NEW amt \in Nat, NEW fills, ArePathFills(fills, amt), NEW s \in NonNeg, Leq(s, One)
    PROVE  LET sl(kind) == Slipped(s, OrdersOf("sell", fills, kind))
           IN  Leq(Num(calculateQuoteInfo("sell", amt, s, fills).worst.maker),
                   Plus(SumQ(LAMBDA o : o.maker, sl("native") \o sl("bridge") \o sl("twoHop")), Num(Len(fills))))
<1>. DEFINE q == calculateQuoteInfo("sell", amt, s, fills)
            nat == OrdersOf("sell", fills, "native")
            bri == OrdersOf("sell", fills, "bridge")
            single == nat \o bri
            hops == OrdersOf("sell", fills, "twoHop")
            w1 == simulateWorstCaseFill("sell", amt, s, single)
            hw(i) == TwoHopWorst("sell", s, hops[i])
            wf == [i \in DOMAIN hops |-> hw(i)]
            len == Len(hops)
            up(os) == SlippedUpTo(s, os, Len(os))
            all == single \o hops
<1>1. q.worst = mergeSwapQuoteInfos(<<w1>> \o wf)
  BY DEF calculateQuoteInfo
<1>2. SellOrders(nat, amt) /\ SellOrders(bri, amt) /\ SellOrders(hops, amt)
  BY OrdersAreOrders DEF SellOrders
<1>3. \A j \in DOMAIN hops : hops[j].way.kind = "twoHop"
  BY OrdersOfKind
<1>4. /\ Len(nat) \in Nat /\ Len(bri) \in Nat /\ len \in Nat /\ Len(nat) + Len(bri) + len <= Len(fills)
  BY OrdersAreCounted
<1>. HIDE DEF nat, bri, hops
<1>5. SellOrders(single, amt) /\ Len(single) = Len(nat) + Len(bri) /\ Slipped(s, nat) \o Slipped(s, bri) = Slipped(s, single)
  BY <1>2, SellOrdersTogether
<1>. HIDE DEF single
<1>6. /\ SellOrders(all, amt) /\ Len(all) = Len(single) + len
      /\ SlippedUpTo(s, all, Len(single) + len) = up(single) + up(hops)
      /\ Slipped(s, single) \o Slipped(s, hops) = Slipped(s, all)
  BY <1>2, <1>5, SellOrdersTogether
<1>. HIDE DEF all
<1>7. up(single) \in Nat /\ up(hops) \in Nat
  <2>1. Len(single) \in 0 .. Len(single) /\ Len(hops) \in 0 .. Len(hops)
    BY <1>4, <1>5
  <2>. QED  BY <1>2, <1>5, <2>1, SlippedInTurn
<1>8. w1.maker \in Nat /\ w1.maker <= up(single) + Len(single)
  BY <1>5, SinglesPromise
<1>9. AreOrders(single, amt) /\ AreOrders(hops, amt) /\ DOMAIN hops = 1 .. len
  BY <1>2, <1>5 DEF SellOrders, AreOrders
<1>10. IsInfo(w1)
  BY <1>9, SinglesAreWorse
<1>11. ASSUME NEW i \in 1 .. len PROVE IsInfo(hw(i)) /\ hw(i).maker <= SlippedMaker(s, hops[i]) + 1
  <2>1. IsOrder(hops[i], amt) /\ hops[i] = OrderOf("sell", hops[i].fill) /\ hops[i].way.kind = "twoHop"
    BY <1>2, <1>3, <1>9 DEF SellOrders, AreOrders
  <2>2. IsInfo(hw(i))
    BY <2>1, TwoHopsAreWorse
  <2>3. hw(i).maker <= SlippedMaker(s, hops[i]) + 1
    BY <2>1, OrderIsSlipped
  <2>. QED  BY <2>2, <2>3
<1>. HIDE DEF w1, hw
<1>12. AreInfos(wf) /\ Len(wf) = len /\ \A i \in 1 .. len : wf[i] = hw(i)
  <2>. HIDE DEF len
  <2>. DEFINE S == {hw(i) : i \in 1 .. len}
  <2>1. wf \in [1 .. len -> S] /\ \A i \in 1 .. len : wf[i] = hw(i)
    BY <1>9
  <2>2. \A y \in S : IsInfo(y)
    BY <1>11
  <2>. HIDE DEF S, wf
  <2>3. wf \in Seq(S) /\ Len(wf) = len
    BY <1>4, <2>1, SeqDef
  <2>4. wf \in Seq(Range(wf)) /\ \A i \in DOMAIN wf : wf[i] \in S
    BY <2>3, IsSeqOfRange
  <2>. QED  BY <2>1, <2>2, <2>3, <2>4 DEF AreInfos
<1>. HIDE DEF wf
<1>13. mergeSwapQuoteInfos(<<w1>> \o wf).maker <= w1.maker + SlippedUpTo(s, hops, Len(hops)) + Len(hops)
  <2>1. \A i \in 1 .. Len(wf) : wf[i].maker <= SlippedMaker(s, hops[i]) + 1
    BY <1>11, <1>12
  <2>. QED  BY <1>2, <1>10, <1>12, <2>1, MergedPromise
<1>14. q.worst.maker \in Nat
  <2>1. IsInfo(q.worst)
    BY QuoteInfoIsWorse
  <2>. QED  BY <2>1 DEF IsInfo
<1>. HIDE DEF q
<1>. DEFINE W == q.worst.maker
            x == w1.maker
            a == up(single)
            b == up(hops)
            n == Len(single)
            F == Len(fills)
<1>15. /\ W \in Nat /\ x \in Nat /\ a \in Nat /\ b \in Nat /\ n \in Nat /\ len \in Nat /\ F \in Int
       /\ W <= x + b + len /\ x <= a + n /\ n + len <= F
  <2>1. F \in Nat
    BY DEF ArePathFills
  <2>2. n \in Nat /\ n + len <= F
    BY <1>4, <1>5
  <2>3. W <= x + b + len
    BY <1>1, <1>13
  <2>. QED  BY <1>4, <1>7, <1>8, <1>14, <2>1, <2>2, <2>3
<1>16. SumQ(LAMBDA o : o.maker, Slipped(s, all)) = Num(a + b)
  <2>1. SumQ(LAMBDA o : o.maker, Slipped(s, all)) = Num(SlippedUpTo(s, all, Len(all)))
    BY <1>6, SlippedAddUp
  <2>. QED  BY <1>6, <2>1
<1>17. (Slipped(s, nat) \o Slipped(s, bri)) \o Slipped(s, hops) = Slipped(s, all)
  BY <1>5, <1>6
<1>. HIDE DEF W, x, a, b, n, F, len
<1>18. W <= (a + b) + F /\ a + b \in Int /\ (a + b) + F \in Int /\ W \in Int
  BY <1>15
<1>19. Leq(Num(W), Num((a + b) + F)) /\ Plus(Num(a + b), Num(F)) = Num((a + b) + F)
  BY <1>15, <1>18, LeqOfInts, PlusOfInts
<1>20. Leq(Num(W), Plus(SumQ(LAMBDA o : o.maker, (Slipped(s, nat) \o Slipped(s, bri)) \o Slipped(s, hops)), Num(F)))
  BY <1>16, <1>17, <1>19
<1>. QED  BY <1>20 DEF W, F, q, nat, bri, hops

(* Orders that give what they must keep the promise of a sell, up to a unit  *)
(* per order, whatever the route and the slippage (createSlipOrderFunction,  *)
(* calculateQuoteInfo).                                                      *)
THEOREM PromiseIsAlwaysKept == Spec => []PromiseIsKept
<1>1. AmountsInv /\ QuoteInv /\ TradeInv => PromiseIsKept
  <2>. SUFFICES ASSUME AmountsInv, QuoteInv, TradeInv, stage = "priced", par.side = "sell"
                PROVE  Leq(Num(info.worst.maker), Plus(SumQ(LAMBDA o : o.maker, SlippedOrders), Num(FillsOf)))
    BY DEF PromiseIsKept
  <2>1. par.slippage \in NonNeg /\ Leq(par.slippage, One)
    BY DEF AmountsInv, ParametersAreValid, Trading
  <2>2. amount \in Nat /\ ArePathFills(path, amount)
    BY DEF QuoteInv, PathIsQuoted, Quoted
  <2>. DEFINE q == calculateQuoteInfo("sell", amount, par.slippage, path)
              sl(kind) == Slipped(par.slippage, OrdersOf("sell", path, kind))
  <2>3. info.worst = [q.worst EXCEPT !.gas = @ + GasOverhead(path)]
    BY DEF TradeInv, CasesOfPath, Quoted
  <2>4. IsInfo(q.worst)
    BY <2>1, <2>2, QuoteInfoIsWorse
  <2>5. SlippedOrders = sl("native") \o sl("bridge") \o sl("twoHop")
    BY DEF SlippedOrders, Slipped
  <2>6. Leq(Num(q.worst.maker), Plus(SumQ(LAMBDA o : o.maker, sl("native") \o sl("bridge") \o sl("twoHop")), Num(Len(path))))
    BY <2>1, <2>2, PathKeepsPromise
  <2>. HIDE DEF q, sl
  <2>7. info.worst.maker = q.worst.maker
    BY <2>3, <2>4 DEF IsInfo
  <2>. QED  BY <2>5, <2>6, <2>7 DEF FillsOf
<1>. QED  BY <1>1, AmountsInvariant, QuoteInvariant, TradeInvariant, PTL

-----------------------------------------------------------------------------
(* The shares of the sources.                                                *)

SumOf(f) == FoldLeft(Plus, Zero, f)

(* A factor can be taken out of a sum.                                       *)
LEMMA FactorOut ==
    ASSUME NEW c \in Rat, NEW x \in Rat, NEW y \in Rat
    PROVE  /\ Leq(Plus(Times(c, x), Times(c, y)), Times(c, Plus(x, y)))
           /\ Leq(Times(c, Plus(x, y)), Plus(Times(c, x), Times(c, y)))
<1>. DEFINE k == c[1]
            l == c[2]
            n == x[1]
            d == x[2]
            m == y[1]
            e == y[2]
<1>1. k \in Int /\ l \in Nat \ {0} /\ n \in Int /\ d \in Nat \ {0} /\ m \in Int /\ e \in Nat \ {0}
  BY RatParts
<1>2. IsFrac(c, k, l) /\ IsFrac(Plus(x, y), n * e + m * d, d * e)
  BY RatIsFrac, PlusValue
<1>3. IsFrac(Times(c, x), k * n, l * d) /\ IsFrac(Times(c, y), k * m, l * e)
  BY TimesValue
<1>. HIDE DEF k, l, n, d, m, e
<1>. DEFINE a == (k * n) * (l * e) + (k * m) * (l * d)
            b == (l * d) * (l * e)
            f == k * (n * e + m * d)
            g == l * (d * e)
<1>4. /\ k * n \in Int /\ k * m \in Int /\ l * d \in Nat \ {0} /\ l * e \in Nat \ {0}
      /\ n * e + m * d \in Int /\ d * e \in Nat \ {0}
  BY <1>1
<1>5. IsFrac(Plus(Times(c, x), Times(c, y)), a, b)
  BY <1>3, <1>4, SumOfFracs
<1>6. IsFrac(Times(c, Plus(x, y)), f, g)
  BY <1>1, <1>2, <1>4, ProductOfFracs
<1>7. a \in Int /\ b \in Nat \ {0} /\ f \in Int /\ g \in Nat \ {0}
  <2>1. a \in Int /\ f \in Int
    BY <1>1
  <2>2. b \in Nat \ {0}
    <3>. DEFINE u == l * d
                v == l * e
    <3>. HIDE DEF u, v
    <3>1. u \in Nat \ {0} /\ v \in Nat \ {0} => u * v \in Nat \ {0}
      OBVIOUS
    <3>. QED  BY <1>4, <3>1 DEF u, v
  <2>3. g \in Nat \ {0}
    <3>. DEFINE u == d * e
    <3>. HIDE DEF u
    <3>1. u \in Nat \ {0} => l * u \in Nat \ {0}
      BY <1>1
    <3>. QED  BY <1>4, <3>1 DEF u
  <2>. QED  BY <2>1, <2>2, <2>3
<1>8. a * g = f * b
  BY <1>1
<1>. HIDE DEF a, b, f, g
<1>9. a * g <= f * b /\ f * b <= a * g
  BY <1>7, <1>8
<1>. QED  BY <1>5, <1>6, <1>7, <1>9, FracLeq

(* Sums are numbers, and a bound on the terms by a multiple is one on the    *)
(* sums.                                                                     *)
LEMMA SumsAreScaled ==
    ASSUME NEW len \in Nat, NEW f, NEW g, DOMAIN f = 1 .. len, DOMAIN g = 1 .. len,
           \A i \in 1 .. len : f[i] \in Rat, \A i \in 1 .. len : g[i] \in Rat, NEW c \in Rat
    PROVE  /\ SumOf(f) \in Rat /\ SumOf(g) \in Rat
           /\ (\A i \in 1 .. len : Leq(f[i], Times(c, g[i]))) => Leq(SumOf(f), Times(c, SumOf(g)))
           /\ (\A i \in 1 .. len : Leq(Times(c, g[i]), f[i])) => Leq(Times(c, SumOf(g)), SumOf(f))
<1>. DEFINE F(n) == NumSumUpTo(f, n)
            G(n) == NumSumUpTo(g, n)
            low == \A i \in 1 .. len : Leq(f[i], Times(c, g[i]))
            high == \A i \in 1 .. len : Leq(Times(c, g[i]), f[i])
            T == {n \in Nat : n <= len => /\ F(n) \in Rat /\ G(n) \in Rat
                                          /\ low => Leq(F(n), Times(c, G(n)))
                                          /\ high => Leq(Times(c, G(n)), F(n))}
<1>1. /\ SumOf(f) = F(len) /\ F(0) = Zero
      /\ \A n \in 1 .. len : F(n) = Plus(F(n - 1), f[n])
  BY TermsInTurn DEF SumOf
<1>2. /\ SumOf(g) = G(len) /\ G(0) = Zero
      /\ \A n \in 1 .. len : G(n) = Plus(G(n - 1), g[n])
  BY TermsInTurn DEF SumOf
<1>. HIDE DEF F, G
<1>3. 0 \in T
  <2>1. Zero \in Rat /\ Zero[1] = 0 /\ Zero[2] = 1
    BY NumIsRat DEF Zero
  <2>2. IsFrac(Times(c, Zero), c[1] * 0, c[2] * 1) /\ IsFrac(Zero, 0, 1)
    BY <2>1, TimesValue, RatIsFrac
  <2>3. c[1] * 0 = 0 /\ c[2] * 1 \in Nat \ {0}
    BY RatParts
  <2>4. Leq(Zero, Times(c, Zero)) /\ Leq(Times(c, Zero), Zero)
    <3>. DEFINE e == c[2] * 1
    <3>1. IsFrac(Times(c, Zero), 0, e) /\ e \in Nat \ {0}
      BY <2>2, <2>3
    <3>. HIDE DEF e
    <3>2. 0 * e <= 0 * 1 /\ 0 * 1 <= 0 * e
      BY <3>1
    <3>. QED  BY <2>2, <3>1, <3>2, FracLeq
  <2>. QED  BY <1>1, <1>2, <2>1, <2>4
<1>4. ASSUME NEW n \in Nat, n \in T PROVE n + 1 \in T
  <2>. SUFFICES ASSUME n + 1 <= len
                PROVE  /\ F(n + 1) \in Rat /\ G(n + 1) \in Rat
                       /\ low => Leq(F(n + 1), Times(c, G(n + 1)))
                       /\ high => Leq(Times(c, G(n + 1)), F(n + 1))
    OBVIOUS
  <2>1. n + 1 \in 1 .. len /\ (n + 1) - 1 = n
    OBVIOUS
  <2>2. F(n + 1) = Plus(F(n), f[n + 1]) /\ G(n + 1) = Plus(G(n), g[n + 1])
    BY <1>1, <1>2, <2>1
  <2>3. /\ F(n) \in Rat /\ G(n) \in Rat
        /\ low => Leq(F(n), Times(c, G(n)))
        /\ high => Leq(Times(c, G(n)), F(n))
    BY <1>4
  <2>4. f[n + 1] \in Rat /\ g[n + 1] \in Rat
    BY <2>1
  <2>. DEFINE x == f[n + 1]
              y == g[n + 1]
              a == Times(c, G(n))
              b == Times(c, y)
  <2>5. low => Leq(x, b)
    BY <2>1
  <2>6. high => Leq(b, x)
    BY <2>1
  <2>. HIDE DEF low, high, x, y
  <2>7. a \in Rat /\ b \in Rat /\ F(n + 1) \in Rat /\ G(n + 1) \in Rat /\ Plus(a, b) \in Rat /\ Times(c, G(n + 1)) \in Rat
    <3>1. a \in Rat /\ b \in Rat
      BY <2>3, <2>4, TimesValue DEF IsFrac, y
    <3>2. F(n + 1) \in Rat /\ G(n + 1) \in Rat
      BY <2>2, <2>3, <2>4, PlusValue DEF IsFrac
    <3>. HIDE DEF a, b
    <3>. QED  BY <3>1, <3>2, PlusValue, TimesValue DEF IsFrac
  <2>8. Leq(Plus(a, b), Times(c, G(n + 1))) /\ Leq(Times(c, G(n + 1)), Plus(a, b))
    BY <2>2, <2>3, <2>4, FactorOut DEF y
  <2>. HIDE DEF a, b
  <2>9. Plus(F(n), x) = F(n + 1) /\ Plus(a, x) \in Rat
    <3>1. x \in Rat
      BY <2>4 DEF x
    <3>. QED  BY <2>2, <2>7, <3>1, PlusValue DEF IsFrac, x
  <2>10. ASSUME low PROVE Leq(F(n + 1), Times(c, G(n + 1)))
    <3>1. Leq(F(n), a) /\ Leq(x, b)
      BY <2>3, <2>5, <2>10 DEF a
    <3>2. Leq(Plus(F(n), x), Plus(a, x)) /\ Leq(Plus(a, x), Plus(a, b))
      BY <2>3, <2>4, <2>7, <3>1, PlusIsMonotone DEF x
    <3>3. Leq(F(n + 1), Plus(a, b))
      BY <2>7, <2>9, <3>2, LeqIsTransitive
    <3>. QED  BY <2>7, <2>8, <3>3, LeqIsTransitive
  <2>11. ASSUME high PROVE Leq(Times(c, G(n + 1)), F(n + 1))
    <3>1. Leq(a, F(n)) /\ Leq(b, x)
      BY <2>3, <2>6, <2>11 DEF a
    <3>2. Leq(Plus(a, x), Plus(F(n), x)) /\ Leq(Plus(a, b), Plus(a, x))
      BY <2>3, <2>4, <2>7, <3>1, PlusIsMonotone DEF x
    <3>3. Leq(Plus(a, b), F(n + 1))
      BY <2>7, <2>9, <3>2, LeqIsTransitive
    <3>. QED  BY <2>7, <2>8, <3>3, LeqIsTransitive
  <2>. QED  BY <2>7, <2>10, <2>11
<1>. HIDE DEF T
<1>5. Nat \subseteq T
  BY <1>3, <1>4, SetInduction
<1>. QED  BY <1>1, <1>2, <1>5 DEF T

(* A sum of positive numbers is positive.                                    *)
LEMMA SumOfPositives ==
    ASSUME NEW len \in Nat \ {0}, NEW f, DOMAIN f = 1 .. len, \A i \in 1 .. len : f[i] \in Rat /\ f[i][1] > 0
    PROVE  SumOf(f) \in Rat /\ SumOf(f)[1] > 0
<1>. DEFINE F(n) == NumSumUpTo(f, n)
            T == {n \in Nat : n <= len => F(n) \in NonNeg /\ (n # 0 => F(n)[1] > 0)}
<1>1. /\ SumOf(f) = F(len) /\ F(0) = Zero
      /\ \A n \in 1 .. len : F(n) = Plus(F(n - 1), f[n])
  BY TermsInTurn DEF SumOf
<1>. HIDE DEF F
<1>2. 0 \in T
  BY <1>1, NumIsRat
<1>3. ASSUME NEW n \in Nat, n \in T PROVE n + 1 \in T
  <2>. SUFFICES ASSUME n + 1 <= len PROVE F(n + 1) \in NonNeg /\ F(n + 1)[1] > 0
    OBVIOUS
  <2>1. n + 1 \in 1 .. len /\ (n + 1) - 1 = n
    OBVIOUS
  <2>2. F(n + 1) = Plus(F(n), f[n + 1]) /\ F(n) \in NonNeg /\ f[n + 1] \in Rat /\ f[n + 1][1] > 0
    BY <1>1, <1>3, <2>1
  <2>3. f[n + 1] \in NonNeg
    BY <2>2, RatParts DEF NonNeg
  <2>. QED  BY <2>2, <2>3, NonNegIsClosed
<1>. HIDE DEF T
<1>4. Nat \subseteq T
  BY <1>2, <1>3, SetInduction
<1>5. F(len) \in NonNeg /\ F(len)[1] > 0
  BY <1>4 DEF T
<1>. QED  BY <1>1, <1>5, NumIsRat

(* Numbers that stand for the same fraction are not smaller than one another. *)
LEMMA SameFrac ==
    ASSUME NEW x, NEW y, NEW n \in Int, NEW d \in Nat \ {0}, NEW m \in Int, NEW e \in Nat \ {0},
           IsFrac(x, n, d), IsFrac(y, m, e), n * e = m * d
    PROVE  x \in Rat /\ y \in Rat /\ Leq(x, y) /\ Leq(y, x)
<1>1. n * e \in Int /\ m * d \in Int
  OBVIOUS
<1>2. n * e <= m * d /\ m * d <= n * e
  BY <1>1
<1>. QED  BY <1>2, FracLeq DEF IsFrac

(* Dividing one factor or the other is the same, and dividing undoes         *)
(* multiplying.                                                              *)
LEMMA DivideFactor ==
    ASSUME NEW u \in Rat, NEW a \in Rat, NEW t \in Rat, t[1] > 0
    PROVE  /\ Times(u, Over(a, t)) \in Rat /\ Times(Over(u, t), a) \in Rat
           /\ Leq(Times(u, Over(a, t)), Times(Over(u, t), a)) /\ Leq(Times(Over(u, t), a), Times(u, Over(a, t)))
           /\ Times(Times(Over(u, t), a), t) \in Rat /\ Times(u, a) \in Rat
           /\ Leq(Times(Times(Over(u, t), a), t), Times(u, a)) /\ Leq(Times(u, a), Times(Times(Over(u, t), a), t))
<1>. DEFINE n == u[1]
            d == u[2]
            m == a[1]
            e == a[2]
            p == t[1]
            q == t[2]
<1>1. n \in Int /\ d \in Nat \ {0} /\ m \in Int /\ e \in Nat \ {0} /\ p \in Nat \ {0} /\ q \in Nat \ {0}
  BY RatParts
<1>2. IsFrac(u, n, d) /\ IsFrac(a, m, e) /\ IsFrac(t, p, q)
  BY RatIsFrac
<1>3. IsFrac(Over(a, t), m * q, e * p) /\ IsFrac(Over(u, t), n * q, d * p) /\ IsFrac(Times(u, a), n * m, d * e)
  BY OverValue, TimesValue
<1>. HIDE DEF n, d, m, e, p, q
<1>4. m * q \in Int /\ e * p \in Nat \ {0} /\ n * q \in Int /\ d * p \in Nat \ {0} /\ n * m \in Int /\ d * e \in Nat \ {0}
  BY <1>1
<1>. DEFINE k == n * (m * q)
            l == d * (e * p)
            f == (n * q) * m
            g == (d * p) * e
<1>5. IsFrac(Times(u, Over(a, t)), k, l)
  BY <1>1, <1>2, <1>3, <1>4, ProductOfFracs
<1>6. IsFrac(Times(Over(u, t), a), f, g)
  BY <1>1, <1>2, <1>3, <1>4, ProductOfFracs
<1>7. k \in Int /\ l \in Nat \ {0} /\ f \in Int /\ g \in Nat \ {0} /\ k = f /\ l = g
  <2>1. k \in Int /\ f \in Int /\ k = f /\ l = g
    BY <1>1
  <2>2. g \in Nat \ {0}
    <3>. DEFINE v == d * p
    <3>. HIDE DEF v
    <3>1. v \in Nat \ {0} => v * e \in Nat \ {0}
      BY <1>1
    <3>. QED  BY <1>4, <3>1 DEF v
  <2>. QED  BY <2>1, <2>2
<1>8. /\ IsFrac(Times(Times(Over(u, t), a), t), f * p, g * q)
  <2>. HIDE DEF f, g
  <2>. QED  BY <1>1, <1>2, <1>6, <1>7, ProductOfFracs
<1>9. (f * p) * (d * e) = (n * m) * (g * q)
  BY <1>1
<1>10. f * p \in Int /\ g * q \in Nat \ {0}
  <2>. HIDE DEF f, g
  <2>. QED  BY <1>1, <1>7
<1>11. k * g = f * l
  BY <1>7
<1>. HIDE DEF k, l, f, g
<1>12. /\ Times(u, Over(a, t)) \in Rat /\ Times(Over(u, t), a) \in Rat
       /\ Leq(Times(u, Over(a, t)), Times(Over(u, t), a)) /\ Leq(Times(Over(u, t), a), Times(u, Over(a, t)))
  BY <1>5, <1>6, <1>7, <1>11, SameFrac
<1>. DEFINE w == f * p
            z == g * q
<1>. HIDE DEF w, z
<1>13. /\ Times(Times(Over(u, t), a), t) \in Rat /\ Times(u, a) \in Rat
       /\ Leq(Times(Times(Over(u, t), a), t), Times(u, a)) /\ Leq(Times(u, a), Times(Times(Over(u, t), a), t))
  <2>1. IsFrac(Times(Times(Over(u, t), a), t), w, z) /\ w \in Int /\ z \in Nat \ {0} /\ w * (d * e) = (n * m) * z
    BY <1>8, <1>9, <1>10 DEF w, z
  <2>. QED  BY <1>3, <1>4, <2>1, SameFrac
<1>. QED  BY <1>12, <1>13

(* A number that is close from both sides is at a small distance.            *)
LEMMA IsWithin ==
    ASSUME NEW x \in Rat, NEW y \in Rat, NEW r \in Rat, Leq(x, Plus(y, r)), Leq(Minus(y, r), x)
    PROVE  Leq(AbsOf(Minus(x, y)), r)
<1>. DEFINE n == x[1]
            d == x[2]
            m == y[1]
            e == y[2]
            p == r[1]
            q == r[2]
            z == Minus(x, y)
<1>1. n \in Int /\ d \in Nat \ {0} /\ m \in Int /\ e \in Nat \ {0} /\ p \in Int /\ q \in Nat \ {0}
  BY RatParts
<1>2. IsFrac(x, n, d) /\ IsFrac(r, p, q) /\ IsFrac(z, n * e - m * d, d * e)
  BY RatIsFrac, MinusValue
<1>3. IsFrac(Plus(y, r), m * q + p * e, e * q) /\ IsFrac(Minus(y, r), m * q - p * e, e * q)
  BY PlusValue, MinusValue
<1>4. z \in Rat /\ z[1] \in Int /\ z[2] \in Nat \ {0}
  BY <1>2, RatParts DEF IsFrac
<1>. HIDE DEF n, d, m, e, p, q, z
<1>. DEFINE k == n * e - m * d
            l == d * e
<1>5. k \in Int /\ l \in Nat \ {0} /\ e * q \in Nat \ {0} /\ m * q + p * e \in Int /\ m * q - p * e \in Int
  BY <1>1
<1>6. n * (e * q) <= (m * q + p * e) * d /\ (m * q - p * e) * d <= n * (e * q)
  BY <1>1, <1>2, <1>3, <1>5, FracLeq
<1>7. k * q <= p * l /\ (-k) * q <= p * l
  <2>1. k * q = n * (e * q) - (m * q) * d /\ p * l = (p * e) * d /\ (-k) * q = (m * q) * d - n * (e * q)
    BY <1>1
  <2>2. (m * q + p * e) * d = (m * q) * d + (p * e) * d /\ (m * q - p * e) * d = (m * q) * d - (p * e) * d
    BY <1>1
  <2>. DEFINE a == n * (e * q)
              b == (m * q) * d
              c == (p * e) * d
  <2>3. a \in Int /\ b \in Int /\ c \in Int
    BY <1>1
  <2>. HIDE DEF k, l
  <2>4. a <= b + c /\ b - c <= a
    BY <1>6, <2>2
  <2>. HIDE DEF a, b, c
  <2>5. a - b <= c /\ b - a <= c
    BY <2>3, <2>4
  <2>. QED  BY <2>1, <2>5 DEF a, b, c
<1>8. IsFrac(z, k, l)
  BY <1>2
<1>. HIDE DEF k, l
<1>9. Leq(z, r)
  BY <1>1, <1>2, <1>5, <1>7, <1>8, FracLeq
<1>10. Leq(Neg(z), r)
  <2>1. IsFrac(Neg(z), -k, l)
    <3>1. Neg(z) \in Rat /\ Neg(z)[1] = -z[1] /\ Neg(z)[2] = z[2] /\ z[1] * l = k * z[2]
      BY <1>4, <1>8, NegValue DEF IsFrac
    <3>2. (-z[1]) * l = (-k) * z[2]
      <4>. DEFINE u == z[1]
                  v == z[2]
      <4>1. u \in Int /\ v \in Nat /\ u * l = k * v
        BY <1>4, <3>1
      <4>. HIDE DEF u, v
      <4>2. (-u) * l = -(u * l) /\ (-k) * v = -(k * v)
        BY <1>5, <4>1
      <4>. QED  BY <4>1, <4>2 DEF u, v
    <3>. QED  BY <3>1, <3>2 DEF IsFrac
  <2>2. -k \in Int
    BY <1>5
  <2>. QED  BY <1>1, <1>2, <1>5, <1>7, <2>1, <2>2, FracLeq
<1>11. AbsOf(z) = z \/ AbsOf(z) = Neg(z)
  <2>1. z = <<z[1], z[2]>>
    BY <1>4 DEF Rat
  <2>. QED  BY <2>1 DEF AbsOf, Abs, Neg
<1>. QED  BY <1>9, <1>10, <1>11 DEF z

\* What convertToLiquiditySources loses, and the share it leaves of an amount.
Rounding == Frac(5, TenTo[SigDigits])
RoundedShare(a, t) == ToPrecision(Over(a, t), SigDigits)

(* A share is off by at most the rounding of itself.                         *)
LEMMA ShareIsNear ==
    ASSUME NEW a \in Rat, a[1] > 0, NEW t \in Rat, t[1] > 0
    PROVE  /\ Rounding \in Rat /\ Plus(One, Rounding) \in Rat /\ Minus(One, Rounding) \in Rat
           /\ Over(Plus(One, Rounding), t) \in Rat /\ Over(Minus(One, Rounding), t) \in Rat
           /\ RoundedShare(a, t) \in NonNeg
           /\ Leq(RoundedShare(a, t), Times(Over(Plus(One, Rounding), t), a))
           /\ Leq(Times(Over(Minus(One, Rounding), t), a), RoundedShare(a, t))
<1>. DEFINE r == Rounding
            x == Over(a, t)
            y == RoundedShare(a, t)
            u == Plus(One, r)
            v == Minus(One, r)
<1>0. SigDigits \in Nat \ {0}
  BY NumbersAssumption
<1>1. r \in Rat /\ One \in Rat
  <2>1. TenTo[SigDigits] \in Nat \ {0}
    BY <1>0, TenIsPositive
  <2>. QED  BY <2>1, FracValue, NumIsRat DEF Rounding, IsFrac
<1>. HIDE DEF r
<1>2. u \in Rat /\ v \in Rat
  BY <1>1, PlusValue, MinusValue DEF IsFrac
<1>3. x \in Rat /\ x[1] > 0
  <2>1. a \in NonNeg /\ t \in NonNeg
    BY RatParts DEF NonNeg
  <2>. QED  BY <2>1, NonNegIsClosed, NumIsRat
<1>4. y = ToPrecision(x, SigDigits) /\ r = Frac(5, TenTo[SigDigits])
  BY DEF RoundedShare, Rounding, r
<1>. HIDE DEF x, y
<1>5. y \in NonNeg /\ Leq(y, Times(u, x)) /\ Leq(Times(v, x), y)
  BY <1>0, <1>3, <1>4, PrecisionIsNear
<1>. HIDE DEF u, v
<1>6. Over(u, t) \in Rat /\ Over(v, t) \in Rat
  BY <1>2, OverValue DEF IsFrac
<1>7. /\ Times(u, Over(a, t)) \in Rat /\ Times(Over(u, t), a) \in Rat
      /\ Leq(Times(u, Over(a, t)), Times(Over(u, t), a))
  BY <1>2, DivideFactor
<1>8. /\ Times(v, Over(a, t)) \in Rat /\ Times(Over(v, t), a) \in Rat
      /\ Leq(Times(Over(v, t), a), Times(v, Over(a, t)))
  BY <1>2, DivideFactor
<1>9. y \in Rat
  BY <1>5, NumIsRat
<1>10. Leq(y, Times(Over(u, t), a))
  BY <1>5, <1>7, <1>9, LeqIsTransitive DEF x
<1>11. Leq(Times(Over(v, t), a), y)
  BY <1>5, <1>8, <1>9, LeqIsTransitive DEF x
<1>. QED  BY <1>1, <1>2, <1>5, <1>6, <1>10, <1>11 DEF y, u, v, r

(* A sum that is bounded by a multiple of what each term is a share of.      *)
LEMMA SharesOfPart ==
    ASSUME NEW s \in Rat, NEW g \in Rat, NEW t \in Rat, t[1] > 0,
           NEW hi \in Rat, NEW lo \in Rat,
           Leq(s, Times(Over(hi, t), g)), Leq(Times(Over(lo, t), g), s)
    PROVE  Leq(Times(s, t), Times(hi, g)) /\ Leq(Times(lo, g), Times(s, t)) /\ Times(s, t) \in Rat
<1>1. t \in NonNeg
  BY RatParts DEF NonNeg
<1>. DEFINE a == Times(Over(hi, t), g)
            b == Times(Over(lo, t), g)
<1>2. /\ a \in Rat /\ Times(a, t) \in Rat /\ Times(hi, g) \in Rat
      /\ Leq(Times(a, t), Times(hi, g))
  BY DivideFactor
<1>3. /\ b \in Rat /\ Times(b, t) \in Rat /\ Times(lo, g) \in Rat
      /\ Leq(Times(lo, g), Times(b, t))
  BY DivideFactor
<1>. HIDE DEF a, b
<1>4. \A x \in Rat : Times(x, t) \in Rat /\ Times(t, x) \in Rat /\ Leq(Times(x, t), Times(t, x)) /\ Leq(Times(t, x), Times(x, t))
  <2>. SUFFICES ASSUME NEW x \in Rat
                PROVE  /\ Times(x, t) \in Rat /\ Times(t, x) \in Rat
                       /\ Leq(Times(x, t), Times(t, x)) /\ Leq(Times(t, x), Times(x, t))
    OBVIOUS
  <2>. DEFINE n == x[1] * t[1]
              d == x[2] * t[2]
  <2>1. IsFrac(Times(x, t), n, d) /\ IsFrac(Times(t, x), t[1] * x[1], t[2] * x[2])
    BY TimesValue
  <2>2. n \in Int /\ d \in Nat \ {0} /\ t[1] * x[1] = n /\ t[2] * x[2] = d
    BY RatParts
  <2>. HIDE DEF n, d
  <2>. QED  BY <2>1, <2>2, SameFrac
<1>5. Leq(Times(t, s), Times(t, a)) /\ Leq(Times(t, b), Times(t, s))
  BY <1>1, <1>2, <1>3, TimesIsMonotone DEF a, b
<1>6. Leq(Times(s, t), Times(hi, g))
  <2>1. Leq(Times(s, t), Times(t, a))
    BY <1>2, <1>4, <1>5, LeqIsTransitive
  <2>2. Leq(Times(s, t), Times(a, t))
    BY <1>2, <1>4, <2>1, LeqIsTransitive
  <2>. QED  BY <1>2, <1>4, <2>2, LeqIsTransitive
<1>7. Leq(Times(lo, g), Times(s, t))
  <2>1. Leq(Times(t, b), Times(s, t))
    BY <1>3, <1>4, <1>5, LeqIsTransitive
  <2>2. Leq(Times(b, t), Times(s, t))
    BY <1>3, <1>4, <2>1, LeqIsTransitive
  <2>. QED  BY <1>3, <1>4, <2>2, LeqIsTransitive
<1>. QED  BY <1>4, <1>6, <1>7

(* A number that is close to another by a part of it.                        *)
LEMMA IsWithinPart ==
    ASSUME NEW x \in Rat, NEW g \in Rat, NEW r \in Rat,
           Leq(x, Times(Plus(One, r), g)), Leq(Times(Minus(One, r), g), x)
    PROVE  Leq(AbsOf(Minus(x, g)), Times(r, g))
<1>. DEFINE n == g[1]
            d == g[2]
            p == r[1]
            q == r[2]
            w == Times(r, g)
<1>1. n \in Int /\ d \in Nat \ {0} /\ p \in Int /\ q \in Nat \ {0}
  BY RatParts
<1>2. IsFrac(g, n, d) /\ IsFrac(r, p, q) /\ IsFrac(w, p * n, q * d) /\ IsFrac(One, 1, 1)
  BY RatIsFrac, TimesValue, NumIsRat DEF One
<1>. HIDE DEF n, d, p, q, w
<1>3. p * n \in Int /\ q * d \in Nat \ {0} /\ q + p \in Int /\ q - p \in Int
  BY <1>1
<1>4. IsFrac(Plus(One, r), q + p, q) /\ IsFrac(Minus(One, r), q - p, q)
  <2>1. IsFrac(Plus(One, r), 1 * q + p * 1, 1 * q) /\ IsFrac(Minus(One, r), 1 * q - p * 1, 1 * q)
    BY <1>1, <1>2, SumOfFracs, DifferenceOfFracs
  <2>2. 1 * q + p * 1 = q + p /\ 1 * q - p * 1 = q - p /\ 1 * q = q
    BY <1>1
  <2>. QED  BY <2>1, <2>2
<1>. DEFINE a == (q + p) * n
            b == (q - p) * n
            e == q * d
            k == n * e + (p * n) * d
            l == n * e - (p * n) * d
            f == d * e
<1>5. IsFrac(Times(Plus(One, r), g), a, e) /\ IsFrac(Times(Minus(One, r), g), b, e)
  BY <1>1, <1>2, <1>3, <1>4, ProductOfFracs
<1>6. IsFrac(Plus(g, w), k, f) /\ IsFrac(Minus(g, w), l, f)
  BY <1>1, <1>2, <1>3, SumOfFracs, DifferenceOfFracs
<1>7. a \in Int /\ b \in Int /\ e \in Nat \ {0} /\ k \in Int /\ l \in Int /\ f \in Nat \ {0}
  <2>1. a \in Int /\ b \in Int /\ k \in Int /\ l \in Int
    BY <1>1
  <2>2. f \in Nat \ {0}
    <3>. HIDE DEF e
    <3>1. e \in Nat \ {0}
      BY <1>3 DEF e
    <3>. QED  BY <1>1, <3>1
  <2>. QED  BY <1>3, <2>1, <2>2
<1>8. a * f = k * e /\ b * f = l * e
  BY <1>1
<1>9. l * e = b * f
  BY <1>8
<1>. HIDE DEF a, b, e, k, l, f
<1>10. /\ Times(Plus(One, r), g) \in Rat /\ Plus(g, w) \in Rat /\ Leq(Times(Plus(One, r), g), Plus(g, w))
  BY <1>5, <1>6, <1>7, <1>8, SameFrac
<1>11. /\ Minus(g, w) \in Rat /\ Times(Minus(One, r), g) \in Rat /\ Leq(Minus(g, w), Times(Minus(One, r), g))
  BY <1>5, <1>6, <1>7, <1>9, SameFrac
<1>12. Leq(x, Plus(g, w))
  BY <1>10, LeqIsTransitive
<1>13. Leq(Minus(g, w), x)
  BY <1>11, LeqIsTransitive
<1>14. w \in Rat
  BY <1>2 DEF IsFrac
<1>. QED  BY <1>12, <1>13, <1>14, IsWithin DEF w

(* Multiplying undoes dividing.                                              *)
LEMMA DividedTimes ==
    ASSUME NEW u \in Rat, NEW t \in Rat, t[1] > 0
    PROVE  /\ Times(Over(u, t), t) \in Rat
           /\ Leq(Times(Over(u, t), t), u) /\ Leq(u, Times(Over(u, t), t))
<1>. DEFINE n == u[1]
            d == u[2]
            p == t[1]
            q == t[2]
<1>1. n \in Int /\ d \in Nat \ {0} /\ p \in Nat \ {0} /\ q \in Nat \ {0}
  BY RatParts
<1>2. IsFrac(u, n, d) /\ IsFrac(t, p, q) /\ IsFrac(Over(u, t), n * q, d * p)
  BY RatIsFrac, OverValue
<1>. HIDE DEF n, d, p, q
<1>3. n * q \in Int /\ d * p \in Nat \ {0}
  BY <1>1
<1>. DEFINE a == (n * q) * p
            b == (d * p) * q
<1>4. IsFrac(Times(Over(u, t), t), a, b)
  BY <1>1, <1>2, <1>3, ProductOfFracs
<1>5. a \in Int /\ b \in Nat \ {0} /\ a * d = n * b
  <2>1. a \in Int /\ a * d = n * b
    BY <1>1
  <2>2. b \in Nat \ {0}
    <3>. DEFINE e == d * p
    <3>. HIDE DEF e
    <3>1. e \in Nat \ {0} => e * q \in Nat \ {0}
      BY <1>1
    <3>. QED  BY <1>3, <3>1 DEF e
  <2>. QED  BY <2>1, <2>2
<1>. HIDE DEF a, b
<1>. QED  BY <1>1, <1>2, <1>4, <1>5, SameFrac

\* Some of the terms of a sum.
TermsIn(f, I) == [i \in DOMAIN f |-> IF i \in I THEN f[i] ELSE Zero]

(* The shares of all amounts add up to one, and those of some amounts to     *)
(* their part of the total, but for the rounding.                            *)
LEMMA SharesAddUp ==
    ASSUME NEW len \in Nat \ {0}, NEW f, DOMAIN f = 1 .. len, \A i \in 1 .. len : f[i] \in Rat /\ f[i][1] > 0,
           NEW y, DOMAIN y = 1 .. len, \A i \in 1 .. len : y[i] = RoundedShare(f[i], SumOf(f)), NEW I
    PROVE  /\ \A i \in 1 .. len : y[i] \in NonNeg
           /\ SumOf(y) \in Rat /\ Leq(SumOf(y), Plus(One, Rounding)) /\ Leq(AbsOf(Minus(SumOf(y), One)), Rounding)
           /\ Leq(AbsOf(Minus(Times(SumOf(TermsIn(y, I)), SumOf(f)), SumOf(TermsIn(f, I)))),
                  Times(Rounding, SumOf(TermsIn(f, I))))
<1>. DEFINE t == SumOf(f)
            r == Rounding
            u == Plus(One, r)
            v == Minus(One, r)
            hi == Over(u, t)
            lo == Over(v, t)
            g == TermsIn(f, I)
            q == TermsIn(y, I)
<1>1. t \in Rat /\ t[1] > 0
  BY SumOfPositives
<1>. HIDE DEF t
<1>2. ASSUME NEW i \in 1 .. len
      PROVE  /\ r \in Rat /\ u \in Rat /\ v \in Rat /\ hi \in Rat /\ lo \in Rat
             /\ y[i] \in NonNeg /\ Leq(y[i], Times(hi, f[i])) /\ Leq(Times(lo, f[i]), y[i])
  <2>. DEFINE a == f[i]
  <2>1. a \in Rat /\ a[1] > 0 /\ y[i] = RoundedShare(a, t)
    BY DEF t
  <2>. HIDE DEF a
  <2>2. /\ r \in Rat /\ u \in Rat /\ v \in Rat /\ hi \in Rat /\ lo \in Rat
        /\ RoundedShare(a, t) \in NonNeg
        /\ Leq(RoundedShare(a, t), Times(hi, a)) /\ Leq(Times(lo, a), RoundedShare(a, t))
    BY <1>1, <2>1, ShareIsNear
  <2>. HIDE DEF r, u, v, hi, lo
  <2>. QED  BY <2>1, <2>2 DEF a
<1>3. r \in Rat /\ u \in Rat /\ v \in Rat /\ hi \in Rat /\ lo \in Rat
  <2>1. 1 \in 1 .. len
    OBVIOUS
  <2>. QED  BY <1>2, <2>1
<1>. HIDE DEF r, u, v, hi, lo
<1>4. \A i \in 1 .. len : y[i] \in Rat /\ f[i] \in Rat
  BY <1>2, NumIsRat
<1>5. SumOf(y) \in Rat /\ Leq(SumOf(y), Times(hi, t)) /\ Leq(Times(lo, t), SumOf(y))
  <2>1. /\ SumOf(y) \in Rat
        /\ (\A i \in 1 .. len : Leq(y[i], Times(hi, f[i]))) => Leq(SumOf(y), Times(hi, SumOf(f)))
    BY <1>3, <1>4, SumsAreScaled
  <2>2. (\A i \in 1 .. len : Leq(Times(lo, f[i]), y[i])) => Leq(Times(lo, SumOf(f)), SumOf(y))
    BY <1>3, <1>4, SumsAreScaled
  <2>. QED  BY <1>2, <2>1, <2>2 DEF t
<1>6. Leq(SumOf(y), u) /\ Leq(v, SumOf(y))
  <2>1. Times(hi, t) \in Rat /\ Leq(Times(hi, t), u) /\ Times(lo, t) \in Rat /\ Leq(v, Times(lo, t))
    BY <1>1, <1>3, DividedTimes DEF hi, lo
  <2>. QED  BY <1>3, <1>5, <2>1, LeqIsTransitive
<1>7. Leq(AbsOf(Minus(SumOf(y), One)), r)
  <2>1. One \in Rat
    BY NumIsRat
  <2>. QED  BY <1>3, <1>5, <1>6, <2>1, IsWithin DEF u, v
<1>8. DOMAIN g = 1 .. len /\ DOMAIN q = 1 .. len
  BY DEF TermsIn
<1>9. ASSUME NEW i \in 1 .. len
      PROVE  g[i] \in Rat /\ q[i] \in Rat /\ Leq(q[i], Times(hi, g[i])) /\ Leq(Times(lo, g[i]), q[i])
  <2>1. g[i] = (IF i \in I THEN f[i] ELSE Zero) /\ q[i] = (IF i \in I THEN y[i] ELSE Zero)
    BY DEF TermsIn
  <2>2. ASSUME NEW c \in Rat PROVE Zero \in Rat /\ Leq(Zero, Times(c, Zero)) /\ Leq(Times(c, Zero), Zero)
    <3>1. Zero \in Rat /\ Zero[1] = 0 /\ Zero[2] = 1
      BY NumIsRat DEF Zero
    <3>2. IsFrac(Times(c, Zero), c[1] * 0, c[2] * 1) /\ IsFrac(Zero, 0, 1)
      BY <3>1, TimesValue, RatIsFrac
    <3>3. c[1] * 0 = 0 /\ c[2] * 1 \in Nat \ {0}
      BY RatParts
    <3>. DEFINE e == c[2] * 1
    <3>4. IsFrac(Times(c, Zero), 0, e) /\ e \in Nat \ {0}
      BY <3>2, <3>3
    <3>. HIDE DEF e
    <3>5. 0 * e <= 0 * 1 /\ 0 * 1 <= 0 * e
      BY <3>4
    <3>. QED  BY <3>1, <3>2, <3>4, <3>5, FracLeq
  <2>. HIDE DEF g, q
  <2>. QED  BY <1>2, <1>3, <1>4, <2>1, <2>2
<1>. HIDE DEF g, q
<1>10. /\ SumOf(q) \in Rat /\ SumOf(g) \in Rat
       /\ Leq(SumOf(q), Times(hi, SumOf(g))) /\ Leq(Times(lo, SumOf(g)), SumOf(q))
  <2>1. /\ SumOf(q) \in Rat /\ SumOf(g) \in Rat
        /\ (\A i \in 1 .. len : Leq(q[i], Times(hi, g[i]))) => Leq(SumOf(q), Times(hi, SumOf(g)))
    BY <1>3, <1>8, <1>9, SumsAreScaled
  <2>2. (\A i \in 1 .. len : Leq(Times(lo, g[i]), q[i])) => Leq(Times(lo, SumOf(g)), SumOf(q))
    BY <1>3, <1>8, <1>9, SumsAreScaled
  <2>. QED  BY <1>9, <2>1, <2>2
<1>11. /\ Leq(Times(SumOf(q), t), Times(u, SumOf(g))) /\ Leq(Times(v, SumOf(g)), Times(SumOf(q), t))
       /\ Times(SumOf(q), t) \in Rat
  BY <1>1, <1>3, <1>10, SharesOfPart DEF hi, lo
<1>12. Leq(AbsOf(Minus(Times(SumOf(q), t), SumOf(g))), Times(r, SumOf(g)))
  BY <1>3, <1>10, <1>11, IsWithinPart DEF u, v
<1>13. \A i \in 1 .. len : y[i] \in NonNeg
  BY <1>2
<1>. QED  BY <1>5, <1>6, <1>7, <1>12, <1>13 DEF g, q, t, u, r

-----------------------------------------------------------------------------
(* What is filled by source.                                                 *)

UnitsBySource(b) == [s \in DOMAIN b |-> b[s][1]]
UnitsIn(b) == SumFunctionOnSet(UnitsBySource(b), DOMAIN b)
AreUnits(b) == IsFiniteSet(DOMAIN b) /\ \A s \in DOMAIN b : UnitsBySource(b)[s] \in Nat \ {0} /\ b[s] = Num(UnitsBySource(b)[s])

(* A fill is added to its source.                                            *)
LEMMA AddedBySource ==
    ASSUME NEW b, AreUnits(b), NEW way, NEW m \in Nat \ {0}
    PROVE  LET c == AddBySource(b, way, Num(m))
           IN  /\ AreUnits(c) /\ DOMAIN c = DOMAIN b \cup {ExternalName(way)}
               /\ UnitsIn(c) = UnitsIn(b) + m /\ UnitsIn(b) \in Nat
<1>. DEFINE name == ExternalName(way)
            D == DOMAIN b
            c == AddBySource(b, way, Num(m))
            k == UnitsBySource(b)
            l == UnitsBySource(c)
            was(s) == IF s \in D THEN k[s] ELSE 0
            E == D \cup {name}
            R == D \ {name}
<1>1. IsFiniteSet(D) /\ \A s \in D : k[s] \in Nat \ {0} /\ b[s] = Num(k[s])
  BY DEF AreUnits
<1>2. DOMAIN c = E
  BY DEF AddBySource
<1>3. ASSUME NEW s \in E
      PROVE  c[s] = Num(was(s) + (IF s = name THEN m ELSE 0)) /\ was(s) \in Nat
  <2>1. c[s] = Plus(IF s \in D THEN b[s] ELSE Zero, IF s = name THEN Num(m) ELSE Zero)
    BY DEF AddBySource
  <2>2. was(s) \in Nat /\ (IF s \in D THEN b[s] ELSE Zero) = Num(was(s))
    BY <1>1 DEF Zero
  <2>3. (IF s = name THEN Num(m) ELSE Zero) = Num(IF s = name THEN m ELSE 0)
    BY DEF Zero
  <2>. DEFINE x == was(s)
              z == IF s = name THEN m ELSE 0
  <2>4. x \in Int /\ z \in Int
    BY <2>2
  <2>. HIDE DEF x, z
  <2>5. Plus(Num(x), Num(z)) = Num(x + z)
    BY <2>4, PlusOfInts
  <2>6. c[s] = Num(x + z)
    BY <2>1, <2>2, <2>3, <2>5 DEF x, z
  <2>. QED  BY <2>2, <2>6 DEF x, z
<1>. HIDE DEF c
<1>4. DOMAIN l = E /\ \A s \in E : l[s] = was(s) + (IF s = name THEN m ELSE 0)
  <2>1. DOMAIN l = E /\ \A s \in E : l[s] = c[s][1]
    BY <1>2 DEF UnitsBySource
  <2>2. \A n \in Int : Num(n)[1] = n
    BY NumIsRat
  <2>. HIDE DEF l, was
  <2>3. ASSUME NEW s \in E PROVE l[s] = was(s) + (IF s = name THEN m ELSE 0)
    <3>1. was(s) + (IF s = name THEN m ELSE 0) \in Int
      BY <1>3
    <3>. QED  BY <1>3, <2>1, <2>2, <3>1
  <2>. QED  BY <2>1, <2>3
<1>5. IsFiniteSet(E) /\ IsFiniteSet(R)
  BY <1>1, FS_AddElement, FS_RemoveElement
<1>6. \A s \in E : l[s] \in Nat \ {0}
  <2>. SUFFICES ASSUME NEW s \in E PROVE l[s] \in Nat \ {0}
    OBVIOUS
  <2>1. s # name => was(s) \in Nat \ {0}
    BY <1>1
  <2>. HIDE DEF was, l
  <2>. QED  BY <1>3, <1>4, <2>1
<1>7. AreUnits(c)
  <2>1. \A s \in E : c[s] = Num(l[s])
    BY <1>3, <1>4
  <2>. QED  BY <1>2, <1>5, <1>6, <2>1 DEF AreUnits
<1>8. SumFunctionOnSet(l, E) = l[name] + SumFunctionOnSet(l, R)
  <2>1. name \in E /\ E \ {name} = R
    OBVIOUS
  <2>2. \A s \in E : l[s] \in Int
    BY <1>6
  <2>. HIDE DEF l, E, R, name
  <2>. QED  BY <1>5, <2>1, <2>2, SumWithout
<1>9. SumFunctionOnSet(l, R) = SumFunctionOnSet(k, R) /\ SumFunctionOnSet(k, R) \in Nat
  <2>1. \A s \in R : l[s] = k[s] /\ k[s] \in Nat
    <3>. SUFFICES ASSUME NEW s \in R PROVE l[s] = k[s] /\ k[s] \in Nat
      OBVIOUS
    <3>1. s \in D /\ s \in E /\ s # name
      OBVIOUS
    <3>2. l[s] = was(s) + 0 /\ was(s) = k[s] /\ k[s] \in Nat
      BY <1>1, <1>4, <3>1
    <3>. HIDE DEF l, k, was
    <3>. QED  BY <3>2
  <2>. HIDE DEF l, k, R
  <2>2. SumFunctionOnSet(l, R) = SumFunctionOnSet(k, R)
    BY <1>5, <2>1, SumAgrees
  <2>. QED  BY <1>5, <2>1, <2>2, SumIsNat
<1>10. SumFunctionOnSet(k, D) = was(name) + SumFunctionOnSet(k, R)
  <2>1. CASE name \in D
    <3>1. \A s \in D : k[s] \in Int
      BY <1>1
    <3>. HIDE DEF k, D, name
    <3>2. SumFunctionOnSet(k, D) = k[name] + SumFunctionOnSet(k, D \ {name})
      BY <1>1, <2>1, <3>1, SumWithout
    <3>. QED  BY <2>1, <3>2
  <2>2. CASE name \notin D
    <3>1. R = D
      BY <2>2
    <3>. DEFINE z == SumFunctionOnSet(k, R)
    <3>. HIDE DEF k
    <3>. HIDE DEF z, R, D
    <3>2. SumFunctionOnSet(k, D) = 0 + z
      BY <1>9, <3>1 DEF z
    <3>. QED  BY <2>2, <3>2 DEF z
  <2>. QED  BY <2>1, <2>2
<1>11. l[name] = was(name) + m /\ was(name) \in Nat
  BY <1>3, <1>4
<1>12. UnitsIn(b) = SumFunctionOnSet(k, D) /\ UnitsIn(c) = SumFunctionOnSet(l, E)
  BY <1>2 DEF UnitsIn
<1>. HIDE DEF l, k, D, E, R, was, name
<1>13. UnitsIn(c) = UnitsIn(b) + m /\ UnitsIn(b) \in Nat
  BY <1>8, <1>9, <1>10, <1>11, <1>12
<1>. QED  BY <1>2, <1>7, <1>13 DEF c, E, D, name

NamesUpTo(os, n) == {ExternalName(os[i].way) : i \in 1 .. n}
BySource(amt, os, n) == FilledUpTo(amt, os, n).bySource

(* The sources take together what is filled.                                 *)
LEMMA FilledBySource ==
    ASSUME NEW amt \in Nat, NEW os, AreOrders(os, amt)
    PROVE  \A n \in 0 .. Len(os) : LET b == BySource(amt, os, n)
                                   IN  /\ AreUnits(b) /\ DOMAIN b \subseteq NamesUpTo(os, n)
                                       /\ UnitsIn(b) = SmallerOf(SizesUpTo(os, n), amt)
<1>1. os \in Seq(Range(os)) /\ Len(os) \in Nat /\ DOMAIN os = 1 .. Len(os)
  BY DEF AreOrders
<1>2. /\ FilledUpTo(amt, os, 0) = NothingFilled(amt)
      /\ \A n \in 1 .. Len(os) : FilledUpTo(amt, os, n) = FillOrder(FilledUpTo(amt, os, n - 1), os[n])
  BY <1>1, FilledInTurn
<1>3. /\ SizesUpTo(os, 0) = 0
      /\ \A n \in 0 .. Len(os) : SizesUpTo(os, n) \in Nat
      /\ \A n \in 1 .. Len(os) : /\ SizesUpTo(os, n) = SizesUpTo(os, n - 1) + SizeOf(os[n])
                                 /\ SizeOf(os[n]) \in 1 .. amt /\ os[n].fill.input = Num(SizeOf(os[n]))
  BY SizesInTurn
<1>. DEFINE good(n) == /\ AreUnits(BySource(amt, os, n)) /\ DOMAIN BySource(amt, os, n) \subseteq NamesUpTo(os, n)
                       /\ UnitsIn(BySource(amt, os, n)) = SmallerOf(SizesUpTo(os, n), amt)
            T == {n \in Nat : n <= Len(os) => good(n)}
<1>4. 0 \in T
  <2>. DEFINE b == BySource(amt, os, 0)
  <2>1. b = << >>
    BY <1>2 DEF BySource, NothingFilled
  <2>2. DOMAIN b = {}
    BY <2>1
  <2>. HIDE DEF b
  <2>3. AreUnits(b) /\ DOMAIN b \subseteq NamesUpTo(os, 0)
    BY <2>2, FS_EmptySet DEF AreUnits
  <2>4. UnitsIn(b) = 0
    BY <2>2, SumOfNothing DEF UnitsIn
  <2>5. SmallerOf(SizesUpTo(os, 0), amt) = 0
    BY <1>3 DEF SmallerOf
  <2>. QED  BY <2>3, <2>4, <2>5 DEF b
<1>5. ASSUME NEW n \in Nat, n \in T PROVE n + 1 \in T
  <2>. SUFFICES ASSUME n + 1 <= Len(os) PROVE good(n + 1)
    OBVIOUS
  <2>1. n + 1 \in 1 .. Len(os) /\ (n + 1) - 1 = n /\ n \in 0 .. Len(os)
    BY <1>1
  <2>. DEFINE r == FilledUpTo(amt, os, n)
              o == os[n + 1]
              k == SizeOf(o)
              z == SizesUpTo(os, n)
              a == SmallerOf(z, amt)
              b == BySource(amt, os, n)
              c == BySource(amt, os, n + 1)
  <2>2. FilledUpTo(amt, os, n + 1) = FillOrder(r, o)
    BY <1>2, <2>1
  <2>3. SizesUpTo(os, n + 1) = z + k /\ k \in 1 .. amt /\ o.fill.input = Num(k) /\ z \in Nat
    BY <1>3, <2>1
  <2>4. AreUnits(b) /\ DOMAIN b \subseteq NamesUpTo(os, n) /\ UnitsIn(b) = a
    BY <1>5
  <2>5. r.remaining = Num(amt - a)
    BY <2>1, SimulatedFill DEF FilledInv
  <2>6. b = r.bySource /\ c = FillOrder(r, o).bySource
    BY <2>2 DEF BySource
  <2>7. NamesUpTo(os, n) \subseteq NamesUpTo(os, n + 1) /\ ExternalName(o.way) \in NamesUpTo(os, n + 1)
    BY <2>1 DEF NamesUpTo
  <2>. HIDE DEF r, o, k, z, b, c
  <2>8. a \in 0 .. amt
    BY <2>3 DEF SmallerOf
  <2>9. Leq(r.remaining, Zero) <=> a = amt
    <3>. HIDE DEF a
    <3>1. Leq(Num(amt - a), Num(0)) <=> amt - a <= 0
      BY <2>8, LeqOfInts
    <3>. QED  BY <2>5, <2>8, <3>1 DEF Zero
  <2>10. CASE a = amt
    <3>1. c = b
      BY <2>6, <2>9, <2>10 DEF FillOrder
    <3>2. SmallerOf(z + k, amt) = a
      BY <2>3, <2>10 DEF SmallerOf
    <3>. HIDE DEF a
    <3>. QED  BY <2>3, <2>4, <2>7, <3>1, <3>2 DEF c
  <2>11. CASE a # amt
    <3>. DEFINE m == IF k <= amt - a THEN k ELSE amt - a
    <3>1. m \in Nat \ {0} /\ SmallerOf(z + k, amt) = a + m
      BY <2>3, <2>8, <2>11 DEF SmallerOf
    <3>2. MinOf(o.fill.input, r.remaining) = Num(m)
      <4>. HIDE DEF a
      <4>. QED  BY <2>3, <2>5, <2>8, LeqOfInts
    <3>. HIDE DEF a, m
    <3>3. c = AddBySource(b, o.way, Num(m))
      BY <2>6, <2>9, <2>11, <3>2 DEF FillOrder
    <3>4. /\ AreUnits(c) /\ DOMAIN c = DOMAIN b \cup {ExternalName(o.way)}
          /\ UnitsIn(c) = UnitsIn(b) + m
      BY <2>4, <3>1, <3>3, AddedBySource
    <3>. QED  BY <2>3, <2>4, <2>7, <3>1, <3>4 DEF c
  <2>. QED  BY <2>10, <2>11
<1>. HIDE DEF T
<1>6. Nat \subseteq T
  BY <1>4, <1>5, SetInduction
<1>. QED  BY <1>1, <1>6 DEF T

(* The elements of a finite set, each once.                                  *)
LEMMA SetInOrder ==
    ASSUME NEW S, IsFiniteSet(S)
    PROVE  LET n == Cardinality(S)
               s == SetToSeq(S)
           IN  /\ n \in Nat /\ DOMAIN s = 1 .. n
               /\ \A i \in 1 .. n : s[i] \in S
               /\ \A i, j \in 1 .. n : s[i] = s[j] => i = j
               /\ \A x \in S : \E i \in 1 .. n : s[i] = x
<1>. DEFINE n == Cardinality(S)
            D == 1 .. n
            s == SetToSeq(S)
<1>1. n \in Nat /\ ExistsBijection(D, S)
  BY FS_CardinalityType
<1>2. \E f \in [D -> S] : IsInjective(f)
  BY <1>1 DEF ExistsBijection, Bijection, Injection
<1>3. s \in [D -> S] /\ IsInjective(s)
  BY <1>2 DEF SetToSeq
<1>4. IsFiniteSet(D) /\ Cardinality(D) = n
  BY <1>1, FS_Interval
<1>. HIDE DEF s, D
<1>5. s \in Injection(D, S)
  BY <1>3 DEF Injection
<1>6. s \in Surjection(D, S)
  BY <1>4, <1>5, FS_Injection
<1>7. \A x \in S : \E i \in D : s[i] = x
  BY <1>6 DEF Surjection
<1>8. DOMAIN s = D /\ (\A i \in D : s[i] \in S) /\ \A i, j \in D : s[i] = s[j] => i = j
  BY <1>3 DEF IsInjective
<1>. QED  BY <1>1, <1>7, <1>8 DEF D, s

(* A sum over a set is one over its elements in order.                       *)
LEMMA SumInOrder ==
    ASSUME NEW S, IsFiniteSet(S), NEW f, \A x \in S : f[x] \in Int,
           NEW n \in Nat, NEW s, \A i \in 1 .. n : s[i] \in S,
           \A i, j \in 1 .. n : s[i] = s[j] => i = j, \A x \in S : \E i \in 1 .. n : s[i] = x
    PROVE  SumFunctionOnSet([i \in 1 .. n |-> f[s[i]]], 1 .. n) = SumFunctionOnSet(f, S)
<1>. DEFINE D == 1 .. n
            g == [i \in D |-> f[s[i]]]
            group(y) == {x \in D : s[x] = y}
            groups == [y \in {s[x] : x \in D} |-> SumFunctionOnSet(g, group(y))]
<1>1. IsFiniteSet(D)
  BY FS_Interval
<1>2. \A i \in D : g[i] \in Int /\ g[i] = f[s[i]]
  OBVIOUS
<1>3. {s[x] : x \in D} = S
  OBVIOUS
<1>. HIDE DEF D, g
<1>4. SumFunction(groups) = SumFunctionOnSet(g, D)
  <2>1. \A x \in D : g[x] \in Int
    BY <1>2
  <2>2. LET grp(y) == {x \in D : s[x] = y}
            grps == [y \in {s[x] : x \in D} |-> SumFunctionOnSet(g, grp(y))]
        IN  /\ SumFunction(grps) = SumFunctionOnSet(g, D)
            /\ IsFiniteSet({s[x] : x \in D})
    BY ONLY <1>1, <2>1, SumByGroup, Zenon
  <2>. QED  BY <2>2
<1>5. ASSUME NEW y \in S PROVE groups[y] = f[y]
  <2>1. PICK i \in D : s[i] = y
    BY <1>3
  <2>2. group(y) = {i}
    BY <2>1 DEF D
  <2>3. SumFunctionOnSet(g, {i}) = g[i]
    BY <1>2, SumOfOne
  <2>4. groups[y] = SumFunctionOnSet(g, group(y))
    BY <1>3
  <2>. QED  BY <1>2, <2>1, <2>2, <2>3, <2>4
<1>6. DOMAIN groups = S
  BY <1>3
<1>. HIDE DEF groups
<1>7. SumFunction(groups) = SumFunctionOnSet(groups, S)
  BY <1>6 DEF SumFunction
<1>8. SumFunctionOnSet(groups, S) = SumFunctionOnSet(f, S)
  BY <1>5, SumAgrees
<1>9. SumFunctionOnSet(g, D) = SumFunctionOnSet(f, S)
  BY <1>4, <1>7, <1>8
<1>. QED  BY <1>9 DEF g, D

(* A sum of whole numbers is a whole number.                                 *)
LEMMA SumOfUnits ==
    ASSUME NEW len \in Nat, NEW f, DOMAIN f = 1 .. len, NEW k, \A i \in 1 .. len : k[i] \in Nat /\ f[i] = Num(k[i])
    PROVE  SumOf(f) = Num(SumFunctionOnSet(k, 1 .. len))
<1>. DEFINE D == 1 .. len
            h == [i \in D |-> k[i]]
            e == [i \in DOMAIN h |-> Num(h[i])]
<1>1. h \in [1 .. len -> Nat] /\ DOMAIN h = D /\ \A i \in D : h[i] = k[i]
  OBVIOUS
<1>2. SumQ(LAMBDA n : Num(n), h) = Num(SumFunction(h))
  BY <1>1, TotalOfInputs
<1>3. SumQ(LAMBDA n : Num(n), h) = FoldLeft(Plus, Zero, e)
  BY DEF SumQ
<1>4. IsFiniteSet(D)
  BY FS_Interval
<1>5. SumFunction(h) = SumFunctionOnSet(h, D)
  BY <1>1 DEF SumFunction
<1>. HIDE DEF h, D
<1>6. SumFunctionOnSet(h, D) = SumFunctionOnSet(k, D)
  BY <1>1, <1>4, SumAgrees
<1>7. DOMAIN e = 1 .. len /\ \A i \in 1 .. len : e[i] = f[i]
  BY <1>1 DEF D
<1>. HIDE DEF e
<1>8. SumOf(f) = SumOf(e)
  <2>. DEFINE T == {n \in Nat : n <= len => NumSumUpTo(f, n) = NumSumUpTo(e, n)}
  <2>1. /\ SumOf(f) = NumSumUpTo(f, len) /\ NumSumUpTo(f, 0) = Zero
        /\ \A n \in 1 .. len : NumSumUpTo(f, n) = Plus(NumSumUpTo(f, n - 1), f[n])
    BY TermsInTurn DEF SumOf
  <2>2. /\ SumOf(e) = NumSumUpTo(e, len) /\ NumSumUpTo(e, 0) = Zero
        /\ \A n \in 1 .. len : NumSumUpTo(e, n) = Plus(NumSumUpTo(e, n - 1), e[n])
    BY <1>7, TermsInTurn DEF SumOf
  <2>3. 0 \in T
    BY <2>1, <2>2
  <2>4. ASSUME NEW n \in Nat, n \in T PROVE n + 1 \in T
    <3>. SUFFICES ASSUME n + 1 <= len PROVE NumSumUpTo(f, n + 1) = NumSumUpTo(e, n + 1)
      OBVIOUS
    <3>1. n + 1 \in 1 .. len /\ (n + 1) - 1 = n
      OBVIOUS
    <3>. QED  BY <1>7, <2>1, <2>2, <2>4, <3>1
  <2>. HIDE DEF T
  <2>5. Nat \subseteq T
    BY <2>3, <2>4, SetInduction
  <2>. QED  BY <2>1, <2>2, <2>5 DEF T
<1>. QED  BY <1>2, <1>3, <1>5, <1>6, <1>8 DEF SumOf, D

EndsWith(f, g, m, h) ==
    DOMAIN f = 1 .. (m + h) /\ DOMAIN g = 1 .. h /\ \A j \in 1 .. h : f[m + j] = g[j]

AreLast(I, m, h) == \A i \in 1 .. (m + h) : i \in I <=> i > m

(* The last terms of a sum.                                                  *)
LEMMA SumOfLast ==
    ASSUME NEW m \in Nat, NEW h \in Nat, NEW f, NEW g, EndsWith(f, g, m, h), NEW I, AreLast(I, m, h)
    PROVE  SumOf(TermsIn(f, I)) = SumOf(g)
<1>. USE DEF EndsWith, AreLast
<1>. DEFINE e == TermsIn(f, I)
            F(n) == NumSumUpTo(e, n)
            G(n) == NumSumUpTo(g, n)
            T == {n \in Nat : n <= m => F(n) = Zero}
            U == {n \in Nat : n <= h => F(m + n) = G(n)}
<1>1. DOMAIN e = 1 .. (m + h) /\ \A i \in 1 .. (m + h) : e[i] = IF i > m THEN f[i] ELSE Zero
  BY DEF TermsIn
<1>2. /\ SumOf(e) = F(m + h) /\ F(0) = Zero
      /\ \A n \in 1 .. (m + h) : F(n) = Plus(F(n - 1), e[n])
  <2>. HIDE DEF e
  <2>1. m + h \in Nat
    OBVIOUS
  <2>. QED  BY <1>1, <2>1, TermsInTurn DEF SumOf
<1>3. /\ SumOf(g) = G(h) /\ G(0) = Zero
      /\ \A n \in 1 .. h : G(n) = Plus(G(n - 1), g[n])
  BY TermsInTurn DEF SumOf
<1>. HIDE DEF F, G, e
<1>4. 0 \in T
  BY <1>2
<1>5. ASSUME NEW n \in Nat, n \in T PROVE n + 1 \in T
  <2>. SUFFICES ASSUME n + 1 <= m PROVE F(n + 1) = Zero
    OBVIOUS
  <2>1. n + 1 \in 1 .. (m + h) /\ (n + 1) - 1 = n /\ ~ (n + 1 > m)
    OBVIOUS
  <2>2. F(n + 1) = Plus(F(n), e[n + 1]) /\ F(n) = Zero /\ e[n + 1] = Zero
    BY <1>1, <1>2, <1>5, <2>1
  <2>3. Plus(Num(0), Num(0)) = Num(0 + 0)
    BY PlusOfInts
  <2>. QED  BY <2>2, <2>3 DEF Zero
<1>6. Nat \subseteq T
  <2>. HIDE DEF T
  <2>. QED  BY <1>4, <1>5, SetInduction
<1>7. 0 \in U
  <2>1. m + 0 = m /\ F(m) = Zero
    BY <1>6
  <2>. QED  BY <1>3, <2>1
<1>8. ASSUME NEW n \in Nat, n \in U PROVE n + 1 \in U
  <2>. SUFFICES ASSUME n + 1 <= h PROVE F(m + (n + 1)) = G(n + 1)
    OBVIOUS
  <2>1. /\ n + 1 \in 1 .. h /\ (n + 1) - 1 = n /\ m + (n + 1) \in 1 .. (m + h) /\ (m + (n + 1)) - 1 = m + n
        /\ m + (n + 1) > m
    OBVIOUS
  <2>2. F(m + (n + 1)) = Plus(F(m + n), e[m + (n + 1)]) /\ G(n + 1) = Plus(G(n), g[n + 1])
    BY <1>2, <1>3, <2>1
  <2>3. e[m + (n + 1)] = g[n + 1] /\ F(m + n) = G(n)
    BY <1>1, <1>8, <2>1
  <2>. QED  BY <2>2, <2>3
<1>9. Nat \subseteq U
  <2>. HIDE DEF U
  <2>. QED  BY <1>7, <1>8, SetInduction
<1>. QED  BY <1>2, <1>3, <1>9 DEF e

\* The sources of calculateSwapQuoteOrdersBreakdown, each with its amount.
Weighed(side, b, hops) ==
    LET names == SetToSeq(DOMAIN b)
    IN [i \in DOMAIN names |-> [name |-> names[i], amount |-> Num(RoundInput(side, b[names[i]]))]]
       \o [i \in DOMAIN hops |-> [name |-> "MultiHop", amount |-> hops[i].taker]]

AreHops(side, hops, amt) ==
    AreOrders(hops, amt) /\ \A j \in DOMAIN hops : hops[j] = OrderOf(side, hops[j].fill) /\ hops[j].way.kind = "twoHop"

(* First come the sources of the single-hop orders, and then the two-hops.   *)
LEMMA WeighedInTurn ==
    ASSUME NEW side \in {"sell", "buy"}, NEW b, AreUnits(b), NEW amt \in Nat, NEW hops, AreHops(side, hops, amt)
    PROVE  LET A == Weighed(side, b, hops)
               names == SetToSeq(DOMAIN b)
               m == Cardinality(DOMAIN b)
               h == Len(hops)
           IN  /\ m \in Nat /\ h \in Nat /\ DOMAIN A = 1 .. (m + h)
               /\ \A i \in 1 .. m : /\ names[i] \in DOMAIN b /\ A[i].name = names[i]
                                    /\ A[i].amount = Num(UnitsBySource(b)[names[i]])
               /\ \A j \in 1 .. h : A[m + j].name = "MultiHop" /\ A[m + j].amount = hops[j].taker
<1>. DEFINE names == SetToSeq(DOMAIN b)
            m == Cardinality(DOMAIN b)
            h == Len(hops)
            s == [i \in DOMAIN names |-> [name |-> names[i], amount |-> Num(RoundInput(side, b[names[i]]))]]
            t == [i \in DOMAIN hops |-> [name |-> "MultiHop", amount |-> hops[i].taker]]
            R == Range(s) \cup Range(t)
<1>1. m \in Nat /\ DOMAIN names = 1 .. m /\ \A i \in 1 .. m : names[i] \in DOMAIN b
  <2>1. IsFiniteSet(DOMAIN b)
    BY DEF AreUnits
  <2>2. /\ m \in Nat /\ DOMAIN names = 1 .. m
        /\ \A i \in 1 .. m : names[i] \in DOMAIN b
        /\ \A i, j \in 1 .. m : names[i] = names[j] => i = j
        /\ \A x \in DOMAIN b : \E i \in 1 .. m : names[i] = x
    BY <2>1, SetInOrder
  <2>. QED  BY <2>2
<1>2. h \in Nat /\ DOMAIN hops = 1 .. h
  BY DEF AreHops, AreOrders
<1>3. \A x \in DOMAIN b : Num(RoundInput(side, b[x])) = Num(UnitsBySource(b)[x])
  <2>. SUFFICES ASSUME NEW x \in DOMAIN b PROVE RoundInput(side, b[x]) = UnitsBySource(b)[x]
    OBVIOUS
  <2>. DEFINE k == UnitsBySource(b)[x]
  <2>1. k \in Nat /\ b[x] = Num(k)
    BY DEF AreUnits
  <2>. HIDE DEF k
  <2>2. Floor(Num(k)) = k /\ Ceil(Num(k)) = k
    BY <2>1, RoundingOfInt
  <2>. QED  BY <2>1, <2>2 DEF RoundInput, k
<1>. HIDE DEF names, m, h
<1>4. DOMAIN s = 1 .. m /\ \A i \in 1 .. m : s[i].name = names[i] /\ s[i].amount = Num(UnitsBySource(b)[names[i]])
  BY <1>1, <1>3
<1>5. DOMAIN t = 1 .. h /\ \A j \in 1 .. h : t[j].name = "MultiHop" /\ t[j].amount = hops[j].taker
  BY <1>2
<1>6. Weighed(side, b, hops) = s \o t
  BY DEF Weighed, names
<1>. HIDE DEF s, t
<1>7. s \in Seq(R) /\ t \in Seq(R) /\ Len(s) = m /\ Len(t) = h
  <2>1. Range(s) = {s[x] : x \in 1 .. m} /\ Range(t) = {t[x] : x \in 1 .. h}
    BY <1>4, <1>5 DEF Range
  <2>2. s \in [1 .. m -> R] /\ t \in [1 .. h -> R]
    <3>1. s = [x \in 1 .. m |-> s[x]] /\ t = [x \in 1 .. h |-> t[x]]
      <4>1. s = [x \in DOMAIN s |-> s[x]] /\ t = [x \in DOMAIN t |-> t[x]]
        BY DEF s, t
      <4>. QED  BY <4>1, <1>4, <1>5
    <3>. QED  BY <2>1, <3>1
  <2>. HIDE DEF R
  <2>. QED  BY <1>1, <1>2, <2>2
<1>. HIDE DEF R
<1>8. /\ DOMAIN (s \o t) = 1 .. (m + h) /\ (\A i \in 1 .. m : (s \o t)[i] = s[i])
      /\ \A j \in 1 .. h : (s \o t)[m + j] = t[j]
  <2>1. /\ Len(s \o t) = Len(s) + Len(t) /\ s \o t \in Seq(R)
        /\ \A i \in 1 .. Len(s) + Len(t) : (s \o t)[i] = IF i <= Len(s) THEN s[i] ELSE t[i - Len(s)]
    BY <1>7, ConcatProperties
  <2>2. DOMAIN (s \o t) = 1 .. Len(s \o t)
    BY <2>1
  <2>. QED  BY <1>1, <1>2, <1>7, <2>1, <2>2
<1>. QED  BY <1>1, <1>2, <1>4, <1>5, <1>6, <1>8 DEF names, m, h

(* What a two-hop sells is a whole number of units.                          *)
LEMMA HopsSell ==
    ASSUME NEW side \in {"sell", "buy"}, NEW amt \in Nat, NEW hops, AreHops(side, hops, amt), NEW j \in DOMAIN hops
    PROVE  /\ \E n \in Nat \ {0} : hops[j].taker = Num(n)
           /\ side = "sell" => hops[j].taker = Num(SizeOf(hops[j]))
<1>. DEFINE o == hops[j]
            f == o.fill
<1>1. o = OrderOf(side, f) /\ IsFill(f, amt) /\ o.way = f.way /\ o.way.kind = "twoHop"
  BY DEF AreHops, AreOrders, IsOrder
<1>2. o.taker = IF side = "sell" THEN f.input ELSE Num(Ceil(f.output))
  <2>. HIDE DEF o, f
  <2>. QED  BY <1>1 DEF OrderOf, takerAmount
<1>3. PICK k \in 1 .. amt : f.input = Num(k)
  BY <1>1 DEF IsFill
<1>4. SizeOf(o) = k
  BY <1>3, NumIsRat DEF SizeOf
<1>5. PICK n \in Nat : f.output = Num(n)
  BY <1>1 DEF IsFill
<1>6. f.output[1] > 0
  BY <1>1 DEF IsFill
<1>7. n > 0 /\ Ceil(Num(n)) = n
  BY <1>5, <1>6, NumIsRat, RoundingOfInt
<1>. HIDE DEF o, f
<1>8. k \in Nat \ {0} /\ n \in Nat \ {0}
  BY <1>7
<1>. QED  BY <1>2, <1>3, <1>4, <1>5, <1>7, <1>8 DEF o

AmountsOf(A) == [i \in DOMAIN A |-> A[i].amount]

(* The amounts of the sources are positive, and those of a sell add up to    *)
(* what is sold.                                                             *)
LEMMA WeighedAmounts ==
    ASSUME NEW side \in {"sell", "buy"}, NEW b, AreUnits(b), NEW amt \in Nat, NEW hops, AreHops(side, hops, amt),
           UnitsIn(b) + SizeOfAll(hops) > 0
    PROVE  LET f == AmountsOf(Weighed(side, b, hops))
               len == Cardinality(DOMAIN b) + Len(hops)
           IN  /\ len \in Nat \ {0} /\ DOMAIN f = 1 .. len
               /\ \A i \in 1 .. len : f[i] \in Rat /\ f[i][1] > 0
               /\ side = "sell" => SumOf(f) = Num(UnitsIn(b) + SizeOfAll(hops))
<1>. DEFINE A == Weighed(side, b, hops)
            f == AmountsOf(A)
            names == SetToSeq(DOMAIN b)
            m == Cardinality(DOMAIN b)
            h == Len(hops)
            u == UnitsBySource(b)
            D == DOMAIN b
<1>1. /\ m \in Nat /\ h \in Nat /\ DOMAIN A = 1 .. (m + h)
      /\ \A i \in 1 .. m : names[i] \in DOMAIN b /\ A[i].name = names[i] /\ A[i].amount = Num(u[names[i]])
      /\ \A j \in 1 .. h : A[m + j].name = "MultiHop" /\ A[m + j].amount = hops[j].taker
  BY WeighedInTurn
<1>2. /\ IsFiniteSet(D) /\ \A x \in D : u[x] \in Nat \ {0}
  BY DEF AreUnits
<1>3. /\ AreOrders(hops, amt) /\ DOMAIN hops = 1 .. h
  BY DEF AreHops, AreOrders
<1>. DEFINE v == [j \in DOMAIN hops |-> SizeOf(hops[j])]
<1>4. SizeOfAll(hops) = SumFunctionOnSet(v, 1 .. h) /\ (\A j \in 1 .. h : v[j] \in Nat) /\ SizesUpTo(hops, 0) = 0
  <2>1. SizeOfAll(hops) = SumFunctionOnSet(v, 1 .. h)
    BY DEF SizeOfAll, SizesUpTo
  <2>2. /\ SizesUpTo(hops, 0) = 0
        /\ \A n \in 0 .. Len(hops) : SizesUpTo(hops, n) \in Nat
        /\ \A n \in 1 .. Len(hops) : /\ SizesUpTo(hops, n) = SizesUpTo(hops, n - 1) + SizeOf(hops[n])
                                     /\ SizeOf(hops[n]) \in 1 .. amt /\ hops[n].fill.input = Num(SizeOf(hops[n]))
    BY <1>3, SizesInTurn
  <2>3. \A j \in 1 .. h : v[j] = SizeOf(hops[j])
    BY <1>3
  <2>. HIDE DEF v, h
  <2>4. \A j \in 1 .. h : v[j] \in Nat
    BY <2>2, <2>3 DEF h
  <2>. QED  BY <2>1, <2>2, <2>4
<1>5. m + h \in Nat \ {0}
  <2>. SUFFICES ASSUME m = 0, h = 0 PROVE FALSE
    BY <1>1
  <2>1. D = {}
    BY <1>2, FS_EmptySet
  <2>2. UnitsIn(b) = 0
    BY <2>1, SumOfNothing DEF UnitsIn
  <2>3. SizeOfAll(hops) = 0
    BY <1>4 DEF SizeOfAll
  <2>. QED  BY <2>2, <2>3
<1>. HIDE DEF A, names, m, h, u, D
<1>6. DOMAIN f = 1 .. (m + h) /\ \A i \in 1 .. (m + h) : f[i] = A[i].amount
  BY <1>1 DEF AmountsOf
<1>. HIDE DEF f
<1>7. \A i \in 1 .. (m + h) : i <= m \/ (i - m \in 1 .. h /\ m + (i - m) = i)
  BY <1>1
<1>8. \A n \in Nat \ {0} : Num(n) \in Rat /\ Num(n)[1] > 0
  BY NumIsRat
<1>9. ASSUME NEW i \in 1 .. (m + h) PROVE f[i] \in Rat /\ f[i][1] > 0
  <2>1. CASE i <= m
    <3>1. i \in 1 .. m
      BY <1>1, <2>1
    <3>2. f[i] = Num(u[names[i]]) /\ u[names[i]] \in Nat \ {0}
      BY <1>1, <1>2, <1>6, <3>1 DEF D
    <3>. QED  BY <1>8, <3>2
  <2>2. CASE i - m \in 1 .. h /\ m + (i - m) = i
    <3>. DEFINE j == i - m
    <3>1. j \in DOMAIN hops /\ f[i] = hops[j].taker
      BY <1>1, <1>3, <1>6, <2>2
    <3>2. PICK n \in Nat \ {0} : hops[j].taker = Num(n)
      BY <3>1, HopsSell
    <3>. QED  BY <1>8, <3>1, <3>2
  <2>. QED  BY <1>7, <2>1, <2>2
<1>10. ASSUME side = "sell" PROVE SumOf(f) = Num(UnitsIn(b) + SizeOfAll(hops))
  <2>. DEFINE g == [i \in 1 .. m |-> u[names[i]]]
              k == [i \in 1 .. (m + h) |-> IF i <= m THEN u[names[i]] ELSE v[i - m]]
  <2>1. \A i \in 1 .. m : g[i] = u[names[i]] /\ g[i] \in Nat
    BY <1>1, <1>2 DEF D
  <2>2. InARow(k, g, v, m, h)
    <3>1. ASSUME NEW i \in 1 .. m PROVE k[i] = g[i] /\ g[i] \in Nat
      <4>1. i \in 1 .. (m + h) /\ i <= m
        BY <1>1
      <4>. QED  BY <2>1, <4>1
    <3>2. ASSUME NEW i \in 1 .. h PROVE k[m + i] = v[i] /\ v[i] \in Nat
      <4>1. m + i \in 1 .. (m + h) /\ ~ (m + i <= m) /\ (m + i) - m = i
        BY <1>1
      <4>2. k[m + i] = v[(m + i) - m]
        <5>. HIDE DEF v
        <5>. QED  BY <4>1
      <4>. HIDE DEF v, k
      <4>. QED  BY <1>4, <4>1, <4>2
    <3>. HIDE DEF k, g, v
    <3>. QED  BY <3>1, <3>2 DEF InARow
  <2>3. ASSUME NEW i \in 1 .. (m + h) PROVE f[i] = Num(k[i])
    <3>1. CASE i <= m
      <4>1. i \in 1 .. m
        BY <1>1, <3>1
      <4>. HIDE DEF v
      <4>2. k[i] = u[names[i]]
        BY <3>1
      <4>. QED  BY <1>1, <1>6, <4>1, <4>2
    <3>2. CASE ~ (i <= m)
      <4>. DEFINE j == i - m
      <4>1. j \in 1 .. h /\ m + j = i
        BY <1>1, <1>7, <3>2
      <4>2. k[i] = v[j] /\ v[j] = SizeOf(hops[j])
        BY <1>3, <3>2, <4>1
      <4>. HIDE DEF j, v, k
      <4>3. j \in DOMAIN hops
        BY <1>3, <4>1
      <4>4. hops[j].taker = Num(SizeOf(hops[j]))
        BY <1>10, <4>3, HopsSell
      <4>5. f[i] = hops[j].taker
        BY <1>1, <1>6, <4>1
      <4>. QED  BY <4>2, <4>4, <4>5
    <3>. QED  BY <3>1, <3>2
  <2>. HIDE DEF g, k, v
  <2>4. /\ SumFunctionOnSet(k, 1 .. (m + h)) = SumFunctionOnSet(g, 1 .. m) + SumFunctionOnSet(v, 1 .. h)
        /\ \A i \in 1 .. (m + h) : k[i] \in Nat
    BY <1>1, <2>2, SumOfBoth
  <2>5. SumFunctionOnSet(g, 1 .. m) = SumFunctionOnSet(u, D)
    <3>1. IsFiniteSet(DOMAIN b)
      BY <1>2 DEF D
    <3>2. /\ Cardinality(DOMAIN b) \in Nat /\ DOMAIN SetToSeq(DOMAIN b) = 1 .. Cardinality(DOMAIN b)
          /\ \A i \in 1 .. Cardinality(DOMAIN b) : SetToSeq(DOMAIN b)[i] \in DOMAIN b
          /\ \A i, j \in 1 .. Cardinality(DOMAIN b) : SetToSeq(DOMAIN b)[i] = SetToSeq(DOMAIN b)[j] => i = j
          /\ \A x \in DOMAIN b : \E i \in 1 .. Cardinality(DOMAIN b) : SetToSeq(DOMAIN b)[i] = x
      BY <3>1, SetInOrder
    <3>3. /\ \A i \in 1 .. m : names[i] \in D
          /\ \A i, j \in 1 .. m : names[i] = names[j] => i = j
          /\ \A x \in D : \E i \in 1 .. m : names[i] = x
      BY <3>2 DEF names, m, D
    <3>4. \A x \in D : u[x] \in Int
      BY <1>2
    <3>5. SumFunctionOnSet([i \in 1 .. m |-> u[names[i]]], 1 .. m) = SumFunctionOnSet(u, D)
      <4>1. m \in Nat /\ IsFiniteSet(D)
        BY <1>1, <1>2
      <4>. QED  BY <3>3, <3>4, <4>1, SumInOrder
    <3>. QED  BY <3>5 DEF g
  <2>6. SumOf(f) = Num(SumFunctionOnSet(k, 1 .. (m + h)))
    <3>1. \A i \in 1 .. (m + h) : k[i] \in Nat /\ f[i] = Num(k[i])
      BY <2>3, <2>4
    <3>2. m + h \in Nat
      BY <1>5
    <3>. QED  BY <1>6, <3>1, <3>2, SumOfUnits
  <2>7. UnitsIn(b) = SumFunctionOnSet(u, D)
    BY DEF UnitsIn, u, D
  <2>. QED  BY <1>4, <2>4, <2>5, <2>6, <2>7
<1>. QED  BY <1>5, <1>6, <1>9, <1>10 DEF f, A, m, h

SourcesShown(side, r, hops) == convertToLiquiditySources(calculateSwapQuoteOrdersBreakdown(side, r, hops))

(* The sources of an answer, with their shares.                              *)
LEMMA SourcesAreShares ==
    ASSUME NEW side, NEW r, NEW hops
    PROVE  LET A == Weighed(side, r.bySource, hops)
               src == SourcesShown(side, r, hops)
           IN  /\ DOMAIN src = DOMAIN A
               /\ \A i \in DOMAIN A : /\ src[i].name = A[i].name
                                      /\ src[i].proportion = RoundedShare(A[i].amount, SumOf(AmountsOf(A)))
<1>. DEFINE A == Weighed(side, r.bySource, hops)
            t == SumQ(LAMBDA x : x.amount, A)
            B == Shares(A, t)
            src == convertToLiquiditySources(B)
<1>1. calculateSwapQuoteOrdersBreakdown(side, r, hops) = B
  BY DEF calculateSwapQuoteOrdersBreakdown, Weighed
<1>2. t = SumOf(AmountsOf(A))
  BY DEF SumQ, SumOf, AmountsOf
<1>. HIDE DEF A, t
<1>3. DOMAIN B = DOMAIN A /\ \A i \in DOMAIN A : B[i] = [name |-> A[i].name, proportion |-> Over(A[i].amount, t)]
  BY DEF Shares
<1>. HIDE DEF B
<1>4. DOMAIN src = DOMAIN A /\ \A i \in DOMAIN A : src[i] = [B[i] EXCEPT !.proportion = ToPrecision(@, SigDigits)]
  BY <1>3 DEF convertToLiquiditySources
<1>. HIDE DEF src
<1>5. ASSUME NEW i \in DOMAIN A
      PROVE  src[i].name = A[i].name /\ src[i].proportion = RoundedShare(A[i].amount, t)
  BY <1>3, <1>4 DEF RoundedShare
<1>6. SourcesShown(side, r, hops) = src
  BY <1>1 DEF SourcesShown, src
<1>. QED  BY <1>2, <1>4, <1>5, <1>6 DEF A

\* The single-hop orders of a path.
SinglesOf(side, fills) == OrdersOf(side, fills, "native") \o OrdersOf(side, fills, "bridge")

(* They are not known as two-hops.                                           *)
LEMMA SinglesAreNotHops ==
    ASSUME NEW side, NEW amt \in Nat, NEW fills, ArePathFills(fills, amt)
    PROVE  /\ AreOrders(SinglesOf(side, fills), amt)
           /\ "MultiHop" \notin NamesUpTo(SinglesOf(side, fills), Len(SinglesOf(side, fills)))
<1>. DEFINE a == OrdersOf(side, fills, "native")
            b == OrdersOf(side, fills, "bridge")
            s == a \o b
            R == Range(a) \cup Range(b)
<1>1. AreOrders(a, amt) /\ AreOrders(b, amt)
  BY OrdersAreOrders
<1>2. (\A j \in DOMAIN a : a[j].way.kind = "native") /\ \A j \in DOMAIN b : b[j].way.kind = "bridge"
  BY OrdersOfKind
<1>. HIDE DEF a, b
<1>3. AreOrders(s, amt)
  BY <1>1, OrdersTogether
<1>4. a \in Seq(R) /\ b \in Seq(R)
  <2>1. a \in Seq(Range(a)) /\ b \in Seq(Range(b)) /\ Range(a) \subseteq R /\ Range(b) \subseteq R
    BY <1>1 DEF AreOrders
  <2>. HIDE DEF R
  <2>. QED  BY <2>1
<1>. HIDE DEF R
<1>5. /\ DOMAIN a = 1 .. Len(a) /\ DOMAIN b = 1 .. Len(b) /\ Len(a) \in Nat /\ Len(b) \in Nat
  BY <1>4
<1>6. /\ Len(s) = Len(a) + Len(b) /\ (\A i \in 1 .. Len(a) : s[i] = a[i])
      /\ \A j \in 1 .. Len(b) : s[Len(a) + j] = b[j]
  BY <1>4, ConcatProperties
<1>7. \A i \in 1 .. Len(s) : i \in 1 .. Len(a) \/ (i - Len(a) \in 1 .. Len(b) /\ i = Len(a) + (i - Len(a)))
  BY <1>5, <1>6
<1>8. ASSUME NEW i \in 1 .. Len(s) PROVE s[i].way.kind \in {"native", "bridge"}
  <2>1. CASE i \in 1 .. Len(a)
    BY <1>2, <1>5, <1>6, <2>1
  <2>2. CASE i - Len(a) \in 1 .. Len(b) /\ i = Len(a) + (i - Len(a))
    BY <1>2, <1>5, <1>6, <2>2
  <2>. QED  BY <1>7, <2>1, <2>2
<1>. HIDE DEF s
<1>9. ASSUME NEW i \in 1 .. Len(s) PROVE ExternalName(s[i].way) # "MultiHop"
  <2>. DEFINE w == s[i].way
  <2>1. DOMAIN s = 1 .. Len(s)
    BY <1>3 DEF AreOrders
  <2>2. IsWay(w)
    BY <1>3, <2>1 DEF AreOrders, IsOrder, IsFill
  <2>3. w.kind \in {"native", "bridge"}
    BY <1>8
  <2>. HIDE DEF w
  <2>4. ExternalName(w) # "MultiHop"
    BY <2>2, <2>3 DEF IsWay, ExternalName
  <2>. QED  BY <2>4 DEF w
<1>10. "MultiHop" \notin NamesUpTo(s, Len(s))
  BY <1>9 DEF NamesUpTo
<1>11. SinglesOf(side, fills) = s
  BY DEF SinglesOf, s, a, b
<1>. QED  BY <1>3, <1>10, <1>11

SharesIn(src) == [i \in DOMAIN src |-> src[i].proportion]
HopShares(src) == SumQ(LAMBDA x : IF x.name = "MultiHop" THEN x.proportion ELSE Zero, src)
HopsTotal(orders) == SumQ(LAMBDA o : o.taker, orders)

AreShares(src) ==
    /\ \E len \in Nat : DOMAIN src = 1 .. len
    /\ \A i \in DOMAIN src : src[i].proportion \in NonNeg
    /\ SumOf(SharesIn(src)) \in Rat
    /\ Leq(SumOf(SharesIn(src)), Plus(One, Rounding)) /\ Leq(AbsOf(Minus(SumOf(SharesIn(src)), One)), Rounding)

(* The shares of what is filled add up to one, and those of the two-hops of  *)
(* a sell are their part of what is sold.                                    *)
LEMMA SourcesAddUp ==
    ASSUME NEW side \in {"sell", "buy"}, NEW r, AreUnits(r.bySource), "MultiHop" \notin DOMAIN r.bySource,
           NEW amt \in Nat, NEW hops, AreHops(side, hops, amt), UnitsIn(r.bySource) + SizeOfAll(hops) > 0
    PROVE  LET src == SourcesShown(side, r, hops)
           IN  /\ AreShares(src)
               /\ side = "sell" => Leq(AbsOf(Minus(Times(HopShares(src), Num(UnitsIn(r.bySource) + SizeOfAll(hops))),
                                                   HopsTotal(hops))),
                                       Times(Rounding, HopsTotal(hops)))
<1>. DEFINE b == r.bySource
            A == Weighed(side, b, hops)
            f == AmountsOf(A)
            src == SourcesShown(side, r, hops)
            y == SharesIn(src)
            m == Cardinality(DOMAIN b)
            h == Len(hops)
            I == {i \in DOMAIN A : A[i].name = "MultiHop"}
            g == [j \in DOMAIN hops |-> hops[j].taker]
            q == [i \in DOMAIN src |-> IF src[i].name = "MultiHop" THEN src[i].proportion ELSE Zero]
            names == SetToSeq(DOMAIN b)
<1>1. /\ m \in Nat /\ h \in Nat /\ DOMAIN A = 1 .. (m + h)
      /\ \A i \in 1 .. m : names[i] \in DOMAIN b /\ A[i].name = names[i] /\ A[i].amount = Num(UnitsBySource(b)[names[i]])
      /\ \A j \in 1 .. h : A[m + j].name = "MultiHop" /\ A[m + j].amount = hops[j].taker
  BY WeighedInTurn
<1>2. /\ m + h \in Nat \ {0} /\ DOMAIN f = 1 .. (m + h)
      /\ \A i \in 1 .. (m + h) : f[i] \in Rat /\ f[i][1] > 0
      /\ side = "sell" => SumOf(f) = Num(UnitsIn(b) + SizeOfAll(hops))
  BY WeighedAmounts
<1>3. /\ DOMAIN src = DOMAIN A
      /\ \A i \in DOMAIN A : src[i].name = A[i].name /\ src[i].proportion = RoundedShare(A[i].amount, SumOf(f))
  BY SourcesAreShares
<1>4. DOMAIN hops = 1 .. h
  BY DEF AreHops, AreOrders
<1>5. \A i \in DOMAIN A : f[i] = A[i].amount
  BY DEF AmountsOf
<1>. HIDE DEF A, f, src, m, h, names, b
<1>6. DOMAIN y = 1 .. (m + h) /\ \A i \in 1 .. (m + h) : y[i] = src[i].proportion /\ y[i] = RoundedShare(f[i], SumOf(f))
  BY <1>1, <1>3, <1>5 DEF SharesIn
<1>. HIDE DEF y
<1>7. /\ \A i \in 1 .. (m + h) : y[i] \in NonNeg
      /\ SumOf(y) \in Rat /\ Leq(SumOf(y), Plus(One, Rounding)) /\ Leq(AbsOf(Minus(SumOf(y), One)), Rounding)
      /\ Leq(AbsOf(Minus(Times(SumOf(TermsIn(y, I)), SumOf(f)), SumOf(TermsIn(f, I)))),
             Times(Rounding, SumOf(TermsIn(f, I))))
  <2>1. \A i \in 1 .. (m + h) : y[i] = RoundedShare(f[i], SumOf(f))
    BY <1>6
  <2>. HIDE DEF I
  <2>2. DOMAIN y = 1 .. (m + h)
    BY <1>6
  <2>3. m + h \in Nat \ {0} /\ DOMAIN f = 1 .. (m + h) /\ \A i \in 1 .. (m + h) : f[i] \in Rat /\ f[i][1] > 0
    BY <1>2
  <2>. QED  BY <2>1, <2>2, <2>3, SharesAddUp
<1>8. AreShares(src)
  <2>1. m + h \in Nat /\ DOMAIN src = 1 .. (m + h)
    BY <1>1, <1>2, <1>3
  <2>2. \A i \in DOMAIN src : src[i].proportion \in NonNeg
    BY <1>6, <1>7, <2>1
  <2>. QED  BY <1>7, <2>1, <2>2 DEF AreShares, y
<1>9. SumOf(TermsIn(f, I)) = SumOf(g)
  <2>1. ASSUME NEW i \in 1 .. (m + h) PROVE i \in I <=> i > m
    <3>1. CASE i <= m
      <4>1. i \in 1 .. m
        BY <1>1, <3>1
      <4>2. A[i].name \in DOMAIN b
        BY <1>1, <4>1
      <4>. QED  BY <1>1, <3>1, <4>2 DEF b
    <3>2. CASE i > m
      <4>1. i - m \in 1 .. h /\ m + (i - m) = i
        BY <1>1, <3>2
      <4>. QED  BY <1>1, <3>2, <4>1
    <3>. QED  BY <1>1, <3>1, <3>2
  <2>2. DOMAIN g = 1 .. h /\ \A j \in 1 .. h : f[m + j] = g[j]
    <3>1. DOMAIN g = 1 .. h /\ \A j \in 1 .. h : g[j] = hops[j].taker
      BY <1>4
    <3>2. \A j \in 1 .. h : m + j \in 1 .. (m + h)
      BY <1>1
    <3>. QED  BY <1>1, <1>5, <3>1, <3>2
  <2>. HIDE DEF I, g
  <2>3. m \in Nat /\ h \in Nat
    BY <1>1
  <2>4. DOMAIN f = 1 .. (m + h)
    BY <1>2
  <2>5. AreLast(I, m, h)
    BY <2>1 DEF AreLast
  <2>6. EndsWith(f, g, m, h)
    BY <2>2, <2>4 DEF EndsWith
  <2>. QED  BY <2>3, <2>5, <2>6, SumOfLast
<1>10. q = TermsIn(y, I)
  <2>1. DOMAIN src = DOMAIN y /\ DOMAIN y = DOMAIN A
    BY <1>1, <1>3, <1>6
  <2>2. \A i \in DOMAIN src : (src[i].name = "MultiHop" <=> i \in I) /\ src[i].proportion = y[i]
    BY <1>1, <1>3, <1>6
  <2>. HIDE DEF I
  <2>. QED  BY <2>1, <2>2 DEF TermsIn
<1>11. HopShares(src) = SumOf(q) /\ HopsTotal(hops) = SumOf(g)
  BY DEF HopShares, HopsTotal, SumQ, SumOf
<1>. HIDE DEF I, g, q
<1>12. side = "sell" => Leq(AbsOf(Minus(Times(HopShares(src), Num(UnitsIn(b) + SizeOfAll(hops))), HopsTotal(hops))),
                            Times(Rounding, HopsTotal(hops)))
  BY <1>2, <1>7, <1>9, <1>10, <1>11
<1>. QED  BY <1>8, <1>12 DEF src, b

(* So do those of a path.                                                    *)
LEMMA PathSharesAddUp ==
    ASSUME NEW amt \in Nat, NEW fills, ArePathFills(fills, amt), NEW s \in NonNeg, Leq(s, One),
           NEW side \in {"sell", "buy"}, TakenBy(side, calculateQuoteInfo(side, amt, s, fills).best) > 0
    PROVE  LET q == calculateQuoteInfo(side, amt, s, fills)
               src == convertToLiquiditySources(q.breakdown)
               hops == OrdersOf(side, fills, "twoHop")
           IN  /\ AreShares(src)
               /\ side = "sell" => Leq(AbsOf(Minus(Times(HopShares(src), Num(q.best.taker)), HopsTotal(hops))),
                                       Times(Rounding, HopsTotal(hops)))
<1>. DEFINE q == calculateQuoteInfo(side, amt, s, fills)
            single == SinglesOf(side, fills)
            hops == OrdersOf(side, fills, "twoHop")
            r == fillQuoteOrders(amt, single)
            z == SmallerOf(SizeOfAll(single), amt) + SizeOfAll(hops)
<1>1. TakenBy(side, q.best) = z /\ TakenBy(side, q.worst) = z
  BY QuoteInfoTakes DEF SinglesOf
<1>2. AreOrders(single, amt) /\ "MultiHop" \notin NamesUpTo(single, Len(single))
  BY SinglesAreNotHops
<1>3. AreHops(side, hops, amt)
  <2>1. AreOrders(hops, amt) /\ \A j \in DOMAIN hops : hops[j] = OrderOf(side, hops[j].fill)
    BY OrdersAreOrders
  <2>2. \A j \in DOMAIN hops : hops[j].way.kind = "twoHop"
    BY OrdersOfKind
  <2>. HIDE DEF hops
  <2>. QED  BY <2>1, <2>2 DEF AreHops
<1>4. q.breakdown = calculateSwapQuoteOrdersBreakdown(side, r, hops)
  BY DEF calculateQuoteInfo, SinglesOf
<1>. HIDE DEF q, single, hops
<1>5. Len(single) \in 0 .. Len(single)
  BY <1>2 DEF AreOrders
<1>6. r = FilledUpTo(amt, single, Len(single))
  BY <1>2, SimulatedFill
<1>7. \A n \in 0 .. Len(single) : LET b == BySource(amt, single, n)
                                  IN  /\ AreUnits(b) /\ DOMAIN b \subseteq NamesUpTo(single, n)
                                      /\ UnitsIn(b) = SmallerOf(SizesUpTo(single, n), amt)
  BY <1>2, FilledBySource
<1>8. r.bySource = BySource(amt, single, Len(single))
  BY <1>6 DEF BySource
<1>. HIDE DEF r
<1>9. /\ AreUnits(r.bySource) /\ DOMAIN r.bySource \subseteq NamesUpTo(single, Len(single))
      /\ UnitsIn(r.bySource) = SmallerOf(SizeOfAll(single), amt)
  BY <1>5, <1>7, <1>8 DEF SizeOfAll
<1>10. "MultiHop" \notin DOMAIN r.bySource /\ UnitsIn(r.bySource) + SizeOfAll(hops) = z
  BY <1>2, <1>9
<1>. HIDE DEF z
<1>11. z > 0
  BY <1>1 DEF q
<1>. DEFINE src == SourcesShown(side, r, hops)
<1>12. /\ AreShares(src)
       /\ side = "sell" => Leq(AbsOf(Minus(Times(HopShares(src), Num(UnitsIn(r.bySource) + SizeOfAll(hops))),
                                           HopsTotal(hops))),
                               Times(Rounding, HopsTotal(hops)))
  BY <1>3, <1>9, <1>10, <1>11, SourcesAddUp
<1>13. src = convertToLiquiditySources(q.breakdown)
  BY <1>4 DEF SourcesShown
<1>14. side = "sell" => q.best.taker = z
  BY <1>1 DEF TakenBy
<1>. HIDE DEF src
<1>15. /\ AreShares(src)
       /\ side = "sell" => Leq(AbsOf(Minus(Times(HopShares(src), Num(q.best.taker)), HopsTotal(hops))),
                               Times(Rounding, HopsTotal(hops)))
  BY <1>10, <1>12, <1>14
<1>. QED  BY <1>13, <1>15 DEF q, hops

-----------------------------------------------------------------------------
(* The slippage that the models expect.                                      *)

(* The order of two factors does not matter.                                 *)
LEMMA FactorsAreSwapped ==
    ASSUME NEW x \in Rat, NEW y \in Rat
    PROVE  Times(x, y) \in Rat /\ Times(y, x) \in Rat /\ Leq(Times(x, y), Times(y, x))
<1>. DEFINE n == x[1] * y[1]
            d == x[2] * y[2]
<1>1. IsFrac(Times(x, y), n, d) /\ IsFrac(Times(y, x), y[1] * x[1], y[2] * x[2])
  BY TimesValue
<1>2. n \in Int /\ d \in Nat \ {0} /\ y[1] * x[1] = n /\ y[2] * x[2] = d
  BY RatParts
<1>. HIDE DEF n, d
<1>3. IsFrac(Times(x, y), n, d) /\ IsFrac(Times(y, x), n, d) /\ n * d <= n * d
  <2>1. n * d \in Int
    BY <1>2
  <2>. HIDE DEF IsFrac
  <2>. QED  BY <1>1, <1>2, <2>1
<1>4. Leq(Times(x, y), Times(y, x))
  BY <1>2, <1>3, FracLeq
<1>. QED  BY <1>3, <1>4 DEF IsFrac

(* A part of nothing is nothing.                                             *)
LEMMA TimesZero ==
    ASSUME NEW c \in Rat
    PROVE  /\ Times(c, Zero) \in Rat /\ Leq(Times(c, Zero), Zero) /\ Leq(Zero, Times(c, Zero))
           /\ Times(Zero, c) \in Rat /\ Leq(Times(Zero, c), Zero) /\ Leq(Zero, Times(Zero, c))
<1>1. Zero \in Rat /\ Zero[1] = 0 /\ Zero[2] = 1
  BY NumIsRat DEF Zero
<1>. DEFINE e == c[2]
<1>2. c[1] \in Int /\ e \in Nat \ {0}
  BY RatParts
<1>3. IsFrac(Times(c, Zero), c[1] * 0, e * 1) /\ IsFrac(Zero, 0, 1) /\ IsFrac(Times(Zero, c), 0 * c[1], 1 * e)
  BY <1>1, TimesValue, RatIsFrac
<1>4. c[1] * 0 = 0 /\ e * 1 = e /\ 0 * c[1] = 0 /\ 1 * e = e
  BY <1>2
<1>5. IsFrac(Times(c, Zero), 0, e) /\ IsFrac(Times(Zero, c), 0, e)
  BY <1>3, <1>4
<1>. HIDE DEF e
<1>6. 0 * e <= 0 * 1 /\ 0 * 1 <= 0 * e
  BY <1>2
<1>7. Leq(Times(c, Zero), Zero) /\ Leq(Zero, Times(c, Zero))
  BY <1>2, <1>3, <1>5, <1>6, FracLeq
<1>8. Leq(Times(Zero, c), Zero) /\ Leq(Zero, Times(Zero, c))
  BY <1>2, <1>3, <1>5, <1>6, FracLeq
<1>. QED  BY <1>5, <1>7, <1>8 DEF IsFrac

(* A loss is larger on more.                                                 *)
LEMMA LossOnMore ==
    ASSUME NEW s \in NonNeg, NEW y \in Rat, NEW z \in Rat, Leq(y, z)
    PROVE  /\ Neg(s) \in Rat /\ Times(Neg(s), y) \in Rat /\ Times(Neg(s), z) \in Rat
           /\ Leq(Times(Neg(s), z), Times(Neg(s), y))
<1>. DEFINE a == s[1]
            d == s[2]
            p == y[1]
            q == y[2]
            u == z[1]
            v == z[2]
<1>1. s \in Rat /\ a >= 0
  BY NumIsRat
<1>2. /\ a \in Nat /\ d \in Nat \ {0} /\ p \in Int /\ q \in Nat \ {0} /\ u \in Int /\ v \in Nat \ {0}
  BY <1>1, RatParts
<1>3. Neg(s) \in Rat /\ Neg(s)[1] = -a /\ Neg(s)[2] = d
  BY <1>1, NegValue
<1>4. IsFrac(Times(Neg(s), y), (-a) * p, d * q) /\ IsFrac(Times(Neg(s), z), (-a) * u, d * v)
  BY <1>3, TimesValue
<1>5. p * v <= u * q
  BY DEF Leq
<1>. HIDE DEF a, d, p, q, u, v
<1>6. (-a) * p \in Int /\ (-a) * u \in Int /\ d * q \in Nat \ {0} /\ d * v \in Nat \ {0}
  BY <1>2
<1>7. ((-a) * u) * (d * q) <= ((-a) * p) * (d * v)
  <2>. DEFINE x == p * v
              w == u * q
              c == a * d
  <2>1. x \in Int /\ w \in Int /\ c \in Nat /\ x <= w
    BY <1>2, <1>5
  <2>2. ((-a) * u) * (d * q) = -(c * w) /\ ((-a) * p) * (d * v) = -(c * x)
    BY <1>2
  <2>. HIDE DEF x, w, c
  <2>3. c * x <= c * w /\ c * x \in Int /\ c * w \in Int
    BY <2>1
  <2>. QED  BY <2>2, <2>3
<1>8. Leq(Times(Neg(s), z), Times(Neg(s), y))
  BY <1>4, <1>6, <1>7, FracLeq
<1>. QED  BY <1>3, <1>4, <1>8 DEF IsFrac

(* A slippage that is allowed is a loss.                                     *)
LEMMA LossIsLoss ==
    ASSUME NEW s \in NonNeg
    PROVE  Neg(s) \in Rat /\ Leq(Neg(s), Zero)
<1>1. s \in Rat /\ s[1] >= 0 /\ Zero \in Rat /\ Zero[1] = 0 /\ Zero[2] = 1
  BY NumIsRat DEF Zero
<1>2. Neg(s) \in Rat /\ Neg(s)[1] = -s[1] /\ Neg(s)[2] = s[2]
  BY <1>1, NegValue
<1>3. s[1] \in Int /\ s[2] \in Int
  BY <1>1, RatParts
<1>. QED  BY <1>1, <1>2, <1>3 DEF Leq

(* A model expects a loss that is within what is allowed.                    *)
LEMMA ModelIsLimited ==
    ASSUME NEW a \in Rat, NEW s \in NonNeg, NEW m \in Range(SlippageModels)
    PROVE  LET e == ExpectedSlippageForModel(a, s, m)
           IN  e \in Rat /\ Leq(e, Zero) /\ Leq(Neg(s), e)
<1>. DEFINE x == Plus(Times(Times(s, Num(BasePoints)), m.slippageCoefficient), Plus(Times(a, m.volumeCoefficient), m.intercept))
            n == Neg(s)
            y == MaxOf(x, n)
<1>1. m.slippageCoefficient \in Rat /\ m.volumeCoefficient \in Rat /\ m.intercept \in Rat /\ Num(BasePoints) \in Rat
  BY ModelsAssumption, NumIsRat
<1>2. s \in Rat /\ Zero \in Rat
  BY NumIsRat
<1>3. n \in Rat /\ Leq(n, Zero)
  BY LossIsLoss
<1>4. \A u, v \in Rat : Times(u, v) \in Rat /\ Plus(u, v) \in Rat
  BY TimesValue, PlusValue DEF IsFrac
<1>5. x \in Rat
  BY <1>1, <1>2, <1>4
<1>. HIDE DEF x, n
<1>6. y \in Rat /\ Leq(n, y)
  <2>1. Leq(x, n) \/ Leq(n, x)
    BY <1>3, <1>5, LeqIsTotal
  <2>2. Leq(n, n)
    BY <1>3, LeqIsTotal
  <2>. QED  BY <1>3, <1>5, <2>1, <2>2 DEF MaxOf
<1>. HIDE DEF y
<1>. DEFINE e == MinOf(Zero, y)
<1>7. e \in Rat /\ Leq(e, Zero) /\ Leq(n, e)
  <2>1. (Leq(Zero, y) \/ Leq(y, Zero)) /\ Leq(Zero, Zero)
    BY <1>2, <1>6, LeqIsTotal
  <2>. QED  BY <1>2, <1>3, <1>6, <2>1 DEF MinOf
<1>8. ExpectedSlippageForModel(a, s, m) = e
  BY DEF ExpectedSlippageForModel, e, y, x, n
<1>. HIDE DEF e
<1>. QED  BY <1>7, <1>8 DEF n

\* What a source adds to the average.
RateOf(trade, source, s) ==
    IF source.proportion = Zero THEN Zero ELSE SingleSourceExpectedSlippage(trade, source, s)

(* A source adds a loss that is within what is allowed on its share.         *)
LEMMA RateIsLoss ==
    ASSUME NEW trade, trade.buyAmount \in Rat, trade.sellAmount \in Rat, NEW source, source.proportion \in NonNeg,
           NEW s \in NonNeg
    PROVE  LET x == RateOf(trade, source, s)
               p == source.proportion
           IN  x # NoSlippage => x \in Rat /\ Leq(x, Times(Zero, p)) /\ Leq(Times(Neg(s), p), x)
<1>. DEFINE x == RateOf(trade, source, s)
            p == source.proportion
            n == Neg(s)
            good(v) == v \in Rat /\ Leq(v, Times(Zero, p)) /\ Leq(Times(n, p), v)
<1>1. p \in NonNeg /\ p \in Rat /\ Zero \in Rat /\ n \in Rat /\ Leq(n, Zero)
  BY NumIsRat, LossIsLoss
<1>2. /\ Times(Zero, p) \in Rat /\ Leq(Times(Zero, p), Zero) /\ Leq(Zero, Times(Zero, p))
      /\ Times(p, Zero) \in Rat /\ Leq(Times(p, Zero), Zero) /\ Leq(Zero, Times(p, Zero))
  BY <1>1, TimesZero
<1>3. Times(n, p) \in Rat /\ Times(p, n) \in Rat /\ Leq(Times(n, p), Times(p, n))
  BY <1>1, FactorsAreSwapped
<1>4. ASSUME NEW e \in Rat, Leq(e, Zero), Leq(n, e) PROVE good(Times(p, e))
  <2>. HIDE DEF p, n
  <2>1. Times(p, e) \in Rat
    BY <1>1, FactorsAreSwapped
  <2>2. Leq(Times(p, e), Times(p, Zero)) /\ Leq(Times(p, n), Times(p, e))
    BY <1>1, <1>4, TimesIsMonotone
  <2>3. Leq(Times(p, Zero), Times(Zero, p))
    BY <1>1, FactorsAreSwapped
  <2>4. Leq(Times(p, e), Times(Zero, p))
    BY <1>2, <2>1, <2>2, <2>3, LeqIsTransitive
  <2>5. Leq(Times(n, p), Times(p, e))
    BY <1>3, <2>1, <2>2, LeqIsTransitive
  <2>. QED  BY <2>1, <2>4, <2>5
<1>5. good(Zero)
  <2>. HIDE DEF p, n
  <2>1. Leq(Times(p, n), Times(p, Zero))
    BY <1>1, TimesIsMonotone
  <2>2. Leq(Times(n, p), Times(p, Zero))
    BY <1>2, <1>3, <2>1, LeqIsTransitive
  <2>3. Leq(Times(n, p), Zero)
    BY <1>1, <1>2, <1>3, <2>2, LeqIsTransitive
  <2>. QED  BY <1>1, <1>2, <2>3
<1>. DEFINE models == ModelsOf(trade.buyToken, trade.sellToken, source.name)
            m == SlippageModels[Max(models)]
            amt == IF m.token0 = trade.buyToken THEN trade.buyAmount ELSE trade.sellAmount
            e == ExpectedSlippageForModel(Times(p, amt), s, m)
<1>6. x = Zero \/ x = NoSlippage \/ (models # {} /\ x = Times(p, e))
  BY DEF RateOf, SingleSourceExpectedSlippage
<1>7. ASSUME models # {} PROVE good(Times(p, e))
  <2>1. /\ SlippageModels \in Seq(Range(SlippageModels)) /\ models \subseteq DOMAIN SlippageModels
    BY ModelsAssumption DEF ModelsOf
  <2>2. DOMAIN SlippageModels = 1 .. Len(SlippageModels) /\ Len(SlippageModels) \in Nat
    BY <2>1
  <2>. HIDE DEF models
  <2>3. IsFiniteSet(models) /\ \A i \in models : i \in Int
    <3>1. IsFiniteSet(1 .. Len(SlippageModels))
      BY <2>2, FS_Interval
    <3>. QED  BY <2>1, <2>2, <3>1, FS_Subset
  <2>4. Max(models) \in models
    BY <1>7, <2>3, HasMax
  <2>5. m \in Range(SlippageModels)
    BY <2>1, <2>4 DEF Range
  <2>6. amt \in Rat
    OBVIOUS
  <2>. HIDE DEF m, amt, p
  <2>7. Times(p, amt) \in Rat
    BY <1>1, <2>6, FactorsAreSwapped
  <2>8. e \in Rat /\ Leq(e, Zero) /\ Leq(Neg(s), e)
    BY <2>5, <2>7, ModelIsLimited
  <2>. HIDE DEF e
  <2>. QED  BY <1>4, <2>8
<1>. HIDE DEF good, models, e, x
<1>8. x # NoSlippage => good(x)
  BY <1>5, <1>6, <1>7
<1>. QED  BY <1>8 DEF good, x

(* The average is a loss that is no larger than what is allowed, but for the *)
(* rounding of the shares.                                                   *)
LEMMA AverageIsLimited ==
    ASSUME NEW trade, trade.buyAmount \in Rat, trade.sellAmount \in Rat, NEW src, AreShares(src), NEW s \in NonNeg
    PROVE  LET x == calculateExpectedSlippage(trade, src, s)
           IN  x # NoSlippage => Leq(x, Zero) /\ Leq(Times(Neg(s), Plus(One, Rounding)), x)
<1>. DEFINE y == SharesIn(src)
            x == [i \in DOMAIN src |-> RateOf(trade, src[i], s)]
            u == Plus(One, Rounding)
            n == Neg(s)
<1>1. /\ \A i \in DOMAIN src : src[i].proportion \in NonNeg
      /\ SumOf(y) \in Rat /\ Leq(SumOf(y), u)
  BY DEF AreShares
<1>2. PICK len \in Nat : DOMAIN src = 1 .. len
  BY DEF AreShares
<1>3. calculateExpectedSlippage(trade, src, s) = IF NoSlippage \in Range(x) THEN NoSlippage ELSE SumOf(x)
  BY DEF calculateExpectedSlippage, RateOf, SumOf
<1>. SUFFICES ASSUME NoSlippage \notin Range(x) PROVE Leq(SumOf(x), Zero) /\ Leq(Times(n, u), SumOf(x))
  <2>. HIDE DEF x, n, u
  <2>. QED  BY <1>3 DEF n, u
<1>4. DOMAIN y = 1 .. len /\ DOMAIN x = 1 .. len /\ \A i \in 1 .. len : y[i] = src[i].proportion /\ x[i] = RateOf(trade, src[i], s)
  BY <1>2 DEF SharesIn
<1>. HIDE DEF x, y, n
<1>5. ASSUME NEW i \in 1 .. len
      PROVE  y[i] \in Rat /\ x[i] \in Rat /\ Leq(x[i], Times(Zero, y[i])) /\ Leq(Times(n, y[i]), x[i])
  <2>. DEFINE c == src[i]
  <2>1. c.proportion \in NonNeg
    BY <1>1, <1>2
  <2>2. x[i] # NoSlippage
    BY <1>4 DEF Range
  <2>3. y[i] = c.proportion /\ x[i] = RateOf(trade, c, s)
    BY <1>4
  <2>. HIDE DEF c
  <2>4. RateOf(trade, c, s) # NoSlippage =>
            /\ RateOf(trade, c, s) \in Rat /\ Leq(RateOf(trade, c, s), Times(Zero, c.proportion))
            /\ Leq(Times(Neg(s), c.proportion), RateOf(trade, c, s))
    BY <2>1, RateIsLoss
  <2>5. c.proportion \in Rat
    BY <2>1, NumIsRat
  <2>. QED  BY <2>2, <2>3, <2>4, <2>5 DEF n
<1>6. Zero \in Rat /\ n \in Rat
  BY NumIsRat, LossIsLoss DEF n
<1>7. /\ DOMAIN y = 1 .. len /\ DOMAIN x = 1 .. len
      /\ (\A i \in 1 .. len : x[i] \in Rat) /\ \A i \in 1 .. len : y[i] \in Rat
  BY <1>4, <1>5
<1>8. SumOf(x) \in Rat /\ Leq(SumOf(x), Times(Zero, SumOf(y)))
  <2>1. /\ SumOf(x) \in Rat
        /\ (\A i \in 1 .. len : Leq(x[i], Times(Zero, y[i]))) => Leq(SumOf(x), Times(Zero, SumOf(y)))
    BY <1>6, <1>7, SumsAreScaled
  <2>. QED  BY <1>5, <2>1
<1>9. Leq(Times(n, SumOf(y)), SumOf(x))
  <2>1. (\A i \in 1 .. len : Leq(Times(n, y[i]), x[i])) => Leq(Times(n, SumOf(y)), SumOf(x))
    BY <1>6, <1>7, SumsAreScaled
  <2>. QED  BY <1>5, <2>1
<1>10. Leq(SumOf(x), Zero)
  <2>1. Times(Zero, SumOf(y)) \in Rat /\ Leq(Times(Zero, SumOf(y)), Zero)
    BY <1>1, TimesZero
  <2>. QED  BY <1>6, <1>8, <2>1, LeqIsTransitive
<1>11. Leq(Times(n, u), SumOf(x))
  <2>1. u \in Rat
    <3>1. Rounding \in Rat
      <4>1. TenTo[SigDigits] \in Nat \ {0}
        BY NumbersAssumption, TenIsPositive
      <4>. QED  BY <4>1, FracValue DEF Rounding, IsFrac
    <3>2. One \in Rat
      BY NumIsRat
    <3>. QED  BY <3>1, <3>2, PlusValue DEF IsFrac
  <2>. HIDE DEF u
  <2>2. Times(n, SumOf(y)) \in Rat /\ Times(n, u) \in Rat /\ Leq(Times(n, u), Times(n, SumOf(y)))
    BY <1>1, <2>1, LossOnMore DEF n
  <2>. QED  BY <1>8, <1>9, <2>2, LeqIsTransitive
<1>. QED  BY <1>10, <1>11

(* The sources of an answer are weighed by what they trade: their shares add *)
(* up to one, those of the two-hops of a sell are their part of what is      *)
(* sold, and the slippage that the answer expects is a loss within what the  *)
(* request allows (calculateSwapQuoteOrdersBreakdown,                        *)
(* convertToLiquiditySources, calculateExpectedSlippage).                    *)
THEOREM SourcesAreAlwaysWeighed == Spec => []SourcesAreWeighed
<1>1. AmountsInv /\ QuoteInv /\ TradeInv => SourcesAreWeighed
  <2>. SUFFICES ASSUME AmountsInv, QuoteInv, TradeInv, Answered
                PROVE  /\ Leq(AbsOf(Minus(SumOf(SharesIn(info.sources)), One)), Rounding)
                       /\ par.side = "sell" =>
                              Leq(AbsOf(Minus(Times(HopShares(info.sources), Num(info.best.taker)),
                                              HopsTotal(OrdersOf(par.side, path, "twoHop")))),
                                  Times(Rounding, HopsTotal(OrdersOf(par.side, path, "twoHop"))))
                       /\ reply.expected # NoSlippage =>
                              /\ Leq(reply.expected, Zero)
                              /\ Leq(Times(Neg(par.slippage), Plus(One, Rounding)), reply.expected)
    BY DEF SourcesAreWeighed, SumQ, SumOf, SharesIn, HopShares, HopsTotal, Rounding
  <2>. DEFINE q == calculateQuoteInfo(par.side, amount, par.slippage, path)
  <2>1. /\ amount \in Nat /\ ArePathFills(path, amount) /\ TakenBy(par.side, info.best) > 0
        /\ info.best.taker \in Int /\ info.best.maker \in Int
    BY DEF QuoteInv, Quoted, PathIsQuoted, IsInfo
  <2>2. par.side \in {"sell", "buy"} /\ par.slippage \in NonNeg /\ Leq(par.slippage, One)
    BY DEF AmountsInv, ParametersAreValid, Answered
  <2>3. info.best = [q.best EXCEPT !.gas = @ + GasOverhead(path)] /\ info.sources = convertToLiquiditySources(q.breakdown)
    BY DEF TradeInv, CasesOfPath, Quoted
  <2>4. IsInfo(q.best)
    BY <2>1, <2>2, QuoteInfoIsWorse
  <2>5. info.best.taker = q.best.taker /\ info.best.maker = q.best.maker
    <3>. HIDE DEF q
    <3>. QED  BY <2>3, <2>4 DEF IsInfo
  <2>6. TakenBy(par.side, q.best) > 0
    <3>. HIDE DEF q
    <3>. QED  BY <2>1, <2>5 DEF TakenBy
  <2>. DEFINE src == convertToLiquiditySources(q.breakdown)
              hops == OrdersOf(par.side, path, "twoHop")
  <2>7. /\ AreShares(src)
        /\ par.side = "sell" => Leq(AbsOf(Minus(Times(HopShares(src), Num(q.best.taker)), HopsTotal(hops))),
                                    Times(Rounding, HopsTotal(hops)))
    BY <2>1, <2>2, <2>6, PathSharesAddUp
  <2>8. reply.expected = ExpectedSlippageOf(reply.buyAmount, reply.sellAmount)
    BY DEF TradeInv
  <2>9. Num(reply.buyAmount) \in Rat /\ Num(reply.sellAmount) \in Rat
    <3>1. reply.sellAmount = info.best.taker + SellTokenFeeAmount(fees) /\ reply.buyAmount = info.best.maker - BuyTokenFeeAmount
      BY DEF QuoteInv, ReplyIsQuoted
    <3>2. SellTokenFeeAmount(fees) \in Int
      BY TransfersAddUp DEF AmountsInv, FeesAreRight, SellTokenFeeAmount
    <3>3. IsParameters(par, req)
      BY DEF AmountsInv, ParametersAreValid, IsParameters, Answered
    <3>4. IsInfo(info.worst)
      BY DEF QuoteInv, Quoted, PathIsQuoted
    <3>5. BuyTokenFeeAmount \in Int
      BY <3>3, <3>4, BuyFeeIsNumber
    <3>6. reply.sellAmount \in Int /\ reply.buyAmount \in Int
      BY <2>1, <3>1, <3>2, <3>5
    <3>. QED  BY <3>6, NumIsRat
  <2>. HIDE DEF q, hops, src
  <2>10. reply.expected # NoSlippage =>
             Leq(reply.expected, Zero) /\ Leq(Times(Neg(par.slippage), Plus(One, Rounding)), reply.expected)
    <3>. DEFINE trade == [buyToken |-> par.buyToken, sellToken |-> par.sellToken,
                          buyAmount |-> Num(reply.buyAmount), sellAmount |-> Num(reply.sellAmount)]
                x == calculateExpectedSlippage(trade, info.sources, par.slippage)
    <3>1. reply.expected = NoSlippage \/ reply.expected = x
      BY <2>8 DEF ExpectedSlippageOf
    <3>2. trade.buyAmount \in Rat /\ trade.sellAmount \in Rat
      BY <2>9
    <3>3. AreShares(info.sources)
      BY <2>3, <2>7 DEF src
    <3>. HIDE DEF trade
    <3>4. x # NoSlippage => Leq(x, Zero) /\ Leq(Times(Neg(par.slippage), Plus(One, Rounding)), x)
      BY <2>2, <3>2, <3>3, AverageIsLimited
    <3>. HIDE DEF x
    <3>. QED  BY <3>1, <3>4
  <2>11. Leq(AbsOf(Minus(SumOf(SharesIn(info.sources)), One)), Rounding)
    BY <2>3, <2>7 DEF AreShares, src
  <2>12. par.side = "sell" =>
             Leq(AbsOf(Minus(Times(HopShares(info.sources), Num(info.best.taker)), HopsTotal(hops))),
                 Times(Rounding, HopsTotal(hops)))
    BY <2>3, <2>5, <2>7 DEF src
  <2>. QED  BY <2>10, <2>11, <2>12 DEF hops
<1>. QED  BY <1>1, AmountsInvariant, QuoteInvariant, TradeInvariant, PTL
=============================================================================
