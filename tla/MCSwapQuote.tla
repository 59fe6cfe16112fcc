---------------------------- MODULE MCSwapQuote ----------------------------
(* Instances of SwapQuote for an amount of two units and three dexes, one of *)
(* which the chain does not have.                                            *)
EXTENDS SwapQuote

Query(endpoint, key, taker, excluded, included) ==
    [endpoint |-> endpoint, key |-> key, taker |-> taker, ethSell |-> FALSE,
     intent |-> "RFQT" \in included, excluded |-> excluded, included |-> included]

Curve(one, two) == <<one, two>>

MCDexes == {"d1", "d2", "d3"}
MCChainSources == Sources \ {"d3"}

\* A dex without liquidity, one that can fill the amount, one that gives most for
\* half of it.
MCDexCurves == {Curve(0, 0), Curve(2, 3), Curve(1, 4)}
MCOrderCurves == {Curve(2, 5)}
MCHopOutputs == {0, 4}

\* Requests that name sources in every way that is understood, and in none.
MCSourceRequests ==
    {Query("price", "none", "account", ex, {}) :
        ex \in {{}, {"d1"}, {"0x"}, {"Native", "d2"}, {"MultiHop"}, Sources}}
    \cup {Query("price", "none", "account", {}, in) :
        in \in {{"d1"}, {"0x", "d2"}, {"d1", "d3", "MultiHop"}}}
    \cup {Query("quote", "rfqt", "account", {}, {"RFQT", "d1"}),
          Query("price", "rfqt", "account", {}, {"RFQT"}),
          Query("price", "none", "account", {"d1"}, {"d2"})}

\* Requests that differ in who asks for whom.
MCRfqRequests ==
    {Query(e, k, t, {}, {}) :
        e \in {"quote", "price"}, k \in {"none", "unknown", "plain", "rfqt"},
        t \in {"none", "account", "contract"}}
    \cup {[Query("quote", "rfqt", "none", {}, {}) EXCEPT !.ethSell = TRUE]}

MCRequests == MCSourceRequests \cup MCRfqRequests

MCMeshExcluded == {Query("quote", "rfqt", "account", {"Mesh"}, {})}
=============================================================================
