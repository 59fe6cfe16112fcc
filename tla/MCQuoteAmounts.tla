--------------------------- MODULE MCQuoteAmounts ---------------------------
(* Instances of QuoteAmounts: amounts of a few units, where every rounding   *)
(* is felt, and three ways to trade at most.                                 *)
EXTENDS QuoteAmounts

MaxAmount == 18

Way(kind, source, vip, gasCost, curve) ==
    [kind |-> kind, source |-> source, vip |-> vip, cheap |-> TRUE, gas |-> gasCost, curve |-> curve,
     samples |-> <<>>, order |-> NoPath]

Signed(type, taker, maker) ==
    [Way("native", type, type # "Limit", 1, <<>>) EXCEPT !.order = [taker |-> taker, maker |-> maker]]

Curve(num, den) == [x \in 1 .. MaxAmount |-> (num * x) \div den]

Pool == Way("bridge", "Balancer", FALSE, 1, Curve(3, 2))
VipPool == Way("bridge", "UniswapV2", TRUE, 0, Curve(4, 3))
DryPool == Way("bridge", "UniswapV3", TRUE, 1, [x \in 1 .. MaxAmount |-> IF x > 5 THEN 0 ELSE 2 * x])
TwoHop == Way("twoHop", <<"UniswapV2", "UniswapV3">>, FALSE, 2, Curve(5, 3))

MCLiquidity ==
    {<<>>, <<VipPool, Pool>>, <<DryPool, TwoHop>>, <<DryPool>>,
     <<Signed("Limit", 3, 5), Pool>>, <<VipPool, Signed("Rfq", 7, 3), TwoHop>>,
     <<Signed("Otc", 3, 3), Signed("Limit", 3, 4)>>}

Affiliate(percentage, gasless, recipient) ==
    [percentage |-> percentage, gasless |-> gasless, recipient |-> recipient, ofSold |-> FALSE]
NoAffiliate == Affiliate(Zero, FALSE, Nobody)
Percentage(p) == Affiliate(p, FALSE, "affiliate")
Gasless == Affiliate(Zero, TRUE, "affiliate")

Basic ==
    [route |-> "swap", endpoint |-> "quote", side |-> "sell", amount |-> 7,
     sellToken |-> "A", buyToken |-> "B", slippage |-> Frac(1, 10), impact |-> Absent,
     affiliate |-> NoAffiliate, feeConfigs |-> NoFees, version |-> Absent,
     skipValidation |-> TRUE, matcha |-> FALSE, entire |-> FALSE, taker |-> FALSE,
     surplus |-> "default", chain |-> "mainnet", gaslessFeeEnabled |-> TRUE, protect |-> FALSE, modelled |-> FALSE]

Sides == {"sell", "buy"}

\* Requests that differ in the amount, the slippage and the fee of an affiliate.
MCSwaps ==
    {[req |-> [Basic EXCEPT !.side = side, !.amount = n, !.slippage = slippage, !.affiliate = affiliate],
      ways |-> market] :
        side \in Sides, n \in {1, 4, 7}, slippage \in {Zero, Frac(2, 5)},
        affiliate \in {NoAffiliate, Percentage(Frac(1, 3)), Gasless}, market \in MCLiquidity}
    \cup {[req |-> [Basic EXCEPT !.side = side, !.amount = n, !.affiliate = Gasless, !.gaslessFeeEnabled = FALSE],
           ways |-> market] : side \in Sides, n \in {4, 7}, market \in MCLiquidity}

\* Requests that differ in what decides the feature of the proxy: the chain, the
\* tokens, and the sources of the path.
MCFeatures ==
    LET one(source) == <<Way("bridge", source, TRUE, 1, Curve(4, 3))>>
        markets == {one("UniswapV2"), one("UniswapV3"), one("Curve"), one("PancakeSwap"), one("Balancer"),
                    <<TwoHop>>, <<TwoHop, TwoHop>>, <<[TwoHop EXCEPT !.source = <<"Curve", "Balancer">>]>>,
                    <<VipPool, TwoHop>>, <<Signed("Rfq", 9, 8)>>, <<Signed("Rfq", 4, 5), Signed("Rfq", 6, 7)>>,
                    <<Signed("Otc", 9, 8)>>, <<Signed("Otc", 4, 5), Signed("Otc", 6, 7)>>,
                    <<VipPool, Signed("Rfq", 4, 5)>>, <<VipPool, Signed("Limit", 4, 5)>>}
        requests == {[Basic EXCEPT !.chain = chain] : chain \in {"mainnet", "bsc", "polygon", "celo"}}
                    \cup {[Basic EXCEPT !.entire = TRUE], [Basic EXCEPT !.affiliate = Percentage(Frac(1, 3))]}
    IN {[req |-> [r EXCEPT !.side = side, !.sellToken = tokens[1], !.buyToken = tokens[2]], ways |-> market] :
            r \in requests, side \in Sides, market \in markets,
            tokens \in {<<"A", "B">>, <<"ETH", "A">>, <<"A", "ETH">>}}

Config(type, recipient, billing, percentage) ==
    [type |-> type, feeRecipient |-> recipient, billingType |-> billing, percentage |-> percentage]

\* Requests that are refused, or answered without a quote, or validated.
MCParameters ==
    LET tokens == {"ETH", "WETH", "A", "B", "unknown", "null"}
        limits == {Absent, Zero, Frac(1, 5), One, Frac(6, 5)}
        vary(f) == {[req |-> r, ways |-> <<VipPool>>] : r \in f}
    IN vary({[Basic EXCEPT !.route = route, !.sellToken = s, !.buyToken = b, !.version = "v1"] :
                route \in {"swap", "mtxV1", "mtxV2"}, s \in tokens, b \in tokens})
       \cup vary({[Basic EXCEPT !.route = route, !.version = v, !.slippage = x[1], !.impact = x[2],
                                !.side = side, !.endpoint = e] :
                route \in {"swap", "mtxV1", "mtxV2"}, v \in {"v1", "v2", "v3"}, side \in Sides,
                x \in ({Absent} \X limits) \cup (limits \X {Absent}), e \in {"quote", "price"}})
       \cup vary({[Basic EXCEPT !.affiliate.ofSold = TRUE]})
       \cup vary({[Basic EXCEPT !.route = "mtxV2", !.version = "v2",
                                !.feeConfigs = [NoFees EXCEPT ![k] = Config("share", "a", "on-chain", Zero)]] :
                k \in DOMAIN NoFees})
       \cup vary({[Basic EXCEPT !.affiliate = Affiliate(p, g, r)] :
                p \in {Zero, One, Frac(6, 5)}, g \in BOOLEAN, r \in {Nobody, "affiliate"}})
       \cup {[req |-> [Basic EXCEPT !.amount = 4, !.skipValidation = v, !.matcha = m, !.taker = t, !.endpoint = e,
                                    !.surplus = s, !.chain = c, !.sellToken = "A", !.buyToken = "WETH"],
               ways |-> <<VipPool, Signed("Rfq", 4, 9)>>] :
                v \in {Absent, TRUE, FALSE}, m \in BOOLEAN, t \in BOOLEAN, e \in {"quote", "price"},
                s \in {"default", "off", "on"}, c \in {"mainnet", "arbitrum"}}

\* Requests of gasless swaps with every combination of fees.
MCConfigs ==
    LET any(type, R, p) == {NoFee} \cup {Config(type, r, b, p) : r \in R, b \in {"on-chain", "off-chain"}}
    IN [integrator : any("volume", {"a", Nobody}, Frac(2, 5)),
        zeroEx : any("volume", {"a", "b", Nobody}, Frac(1, 5)) \cup any("integrator_share", {"a", "b"}, Frac(3, 5)),
        gas : any("gas", {"a", "b"}, Zero)]

MCGaslessSwaps ==
    {[req |-> [Basic EXCEPT !.route = "mtxV2", !.version = version, !.side = side, !.amount = 9, !.feeConfigs = c],
      ways |-> <<VipPool>>] :
        version \in {"v1", "v2"}, side \in Sides, c \in MCConfigs}

\* Requests for which slippage is predicted: for some sources too much, for some
\* a gain, for some by a model that is not in order, for some not at all.
Model(token0, token1, source, slippage, volume, intercept) ==
    [token0 |-> token0, token1 |-> token1, source |-> source, slippageCoefficient |-> slippage,
     volumeCoefficient |-> volume, intercept |-> intercept]

MCSlippageModels ==
    <<Model("A", "B", "UniswapV2", Frac(-1, 100), Frac(-1, 100), Zero),
      Model("A", "B", "Balancer", Zero, Frac(-1, 2), Zero),
      Model("A", "B", "UniswapV3", Zero, Frac(-1, 50), Frac(1, 10)),
      Model("B", "A", "UniswapV2", Zero, Zero, Num(-1))>>

MCTokenOrder == <<"A", "B", "WETH">>

MCProtected ==
    {[req |-> [Basic EXCEPT !.amount = 5, !.side = side, !.slippage = slippage, !.protect = protect,
                            !.modelled = ~ protect, !.sellToken = tokens[1], !.buyToken = tokens[2]],
      ways |-> market] :
        side \in Sides, slippage \in {Zero, Frac(2, 5)}, protect \in BOOLEAN,
        tokens \in {<<"A", "B">>, <<"B", "A">>}, market \in MCLiquidity}

\* Requests in which a unit of one token is worth many of the other, and a unit
\* that rounding takes counts.
MCUneven ==
    LET many == Way("bridge", "Balancer", FALSE, 1, Curve(6, 1))
        few == [many EXCEPT !.curve = [x \in 1 .. MaxAmount |-> (x + 5) \div 6]]
        hops == [TwoHop EXCEPT !.curve = Curve(6, 1)]
    IN {[req |-> [Basic EXCEPT !.side = side, !.amount = 9, !.slippage = slippage], ways |-> market] :
            side \in Sides, slippage \in {Zero, Frac(2, 5)},
            market \in {<<many, many>>, <<few, few>>, <<many, hops>>, <<Signed("Limit", 2, 13), few>>}}

MCScenarios == MCUneven \cup MCProtected \cup MCSwaps \cup MCFeatures \cup MCParameters \cup MCGaslessSwaps
MCPerWei == Frac(1, 4)

\* The gas of options.ts in units of 40,000, rounded down.
MCOverheadOf ==
    [f \in OverheadFeatures |->
        IF f = "transformERC20" THEN 3 ELSE IF f \in {"Curve", "multiHop"} THEN 1 ELSE 0]
MCDefaultSlippage == Frac(1, 100)
MCMinSlippage == Frac(1, 1000)
=============================================================================
