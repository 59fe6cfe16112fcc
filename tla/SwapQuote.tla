----------------------------- MODULE SwapQuote -----------------------------
(***************************************************************************)
(* One request to /swap/v1/quote or /swap/v1/price on its way through      *)
(*   SwapHandlers        parses and validates it       (swap_handlers.ts)  *)
(*   SwapService         decides on RFQ                (swap_service.ts)   *)
(*   SwapQuoter          checks the taker, reads the order book            *)
(*                                                     (swap_quoter.ts)    *)
(*   MarketOperationUtils samples, routes, asks makers, routes again       *)
(*                              (market_operation_utils/index.ts)          *)
(*   RfqClient           asks for v1 and v2 quotes     (rfq_client.ts)     *)
(* with the services it waits for: the gas oracle, the order book, the     *)
(* sampler, the RFQ server, the maker balance cache and the node.          *)
(*                                                                         *)
(* Liquidity is a set of items.  Each has a curve: what it gives for 1, 2, *)
(* ... units of the amount, 0 if it cannot fill that many.  The router is  *)
(* external; it finds a path of the highest output for the whole amount.   *)
(***************************************************************************)
EXTENDS Integers, FiniteSets, Functions

CONSTANTS
    Dexes,          \* sources other than Native and MultiHop
    ChainSources,   \* the sources of the chain's source filters
    RfqtEnabled,    \* rfqClient.isRfqtEnabled()
    MayLackList,    \* may the RFQ server answer 200 without a list of quotes?
    Requests,       \* the requests that may come in
    Amount,         \* the amount of the request, in units
    DexCurves,      \* the curves a dex may have, without liquidity among them
    HopOutputs,     \* what a two-hop route may give for the whole amount
    Penalty,        \* what the slippage model takes off a dex fill in phase 2
    OrderCurves     \* the curves of limit orders and of quotes of makers

Sources == Dexes \cup {"Native", "MultiHop"}
Ids == Sources \cup {"0x", "Mesh", "RFQT"}
Units == 1 .. Amount
Curves == [Units -> Nat]
NoLiquidity == [u \in Units |-> 0]

\* The query of a request.  The key is absent, unknown, or that of an integrator
\* without or with RFQ-T; the taker is absent, an account or a contract.
Request ==
    [endpoint : {"quote", "price"},
     key      : {"none", "unknown", "plain", "rfqt"},
     taker    : {"none", "account", "contract"},
     ethSell  : BOOLEAN,
     intent   : BOOLEAN,
     excluded : SUBSET Ids,
     included : SUBSET Ids]

ASSUME ConstantsAssumption ==
    /\ IsFiniteSet(Dexes)
    /\ Dexes \cap {"Native", "MultiHop", "0x", "Mesh", "RFQT"} = {}
    /\ ChainSources \subseteq Sources /\ ChainSources # {}
    /\ RfqtEnabled \in BOOLEAN /\ MayLackList \in BOOLEAN
    /\ Requests \subseteq Request
    /\ Amount \in Nat \ {0}
    /\ DexCurves \subseteq Curves /\ OrderCurves \subseteq Curves
    /\ HopOutputs \subseteq Nat /\ Penalty \in Nat

VARIABLES
    request,    \* the query
    pc,         \* what the request waits for
    blocked,    \* is the taker in the set of blocked addresses?
    rfqt,       \* opts.rfqt after validation: is RFQ on, is it indicative?
    liquidity,  \* marketSideLiquidity.quotes
    phaseOne,   \* phaseOneResult.optimizerResult
    answer,     \* the answers of the RFQ server
    result,     \* optimizerResult
    outcome     \* what the client gets

vars == <<request, pc, blocked, rfqt, liquidity, phaseOne, answer, result, outcome>>

Versions == {"v1", "v2"}
Answer(state, quotes) == [state |-> state, quotes |-> quotes]
NoPath == [i \in {} |-> 0]
RfqOff == [on |-> FALSE, indicative |-> FALSE]

Init ==
    /\ request \in Requests
    /\ pc = "parse"
    /\ blocked \in BOOLEAN
    /\ rfqt = RfqOff
    /\ liquidity = {}
    /\ phaseOne = NoPath
    /\ answer = [v \in Versions |-> Answer("none", {})]
    /\ result = NoPath
    /\ outcome = "none"

\* The request ends in an error.
Fail(reason) == pc' = "done" /\ outcome' = reason

\* The set of blocked addresses changes under way.
Block ==
    /\ pc # "done"
    /\ blocked' = ~blocked
    /\ UNCHANGED <<request, pc, rfqt, liquidity, phaseOne, answer, result, outcome>>

-----------------------------------------------------------------------------
(* Parsing: parseSwapQuoteRequestParams and parseUtils. *)

\* parseStringArrForERC20BridgeSources: "0x" means Native, other ids that are not
\* names of sources are dropped.
ToSources(ids) == {IF i = "0x" THEN "Native" ELSE i : i \in ids} \cap Sources

AsksForRfqt == "RFQT" \in request.included

ExcludedSources == ToSources(request.excluded)
IncludedSources ==
    ToSources(IF AsksForRfqt THEN request.included \cup {"0x"} ELSE request.included)

\* parseRequestForExcludedSources and the check that something is left.
RequestIsInvalid ==
    \/ request.excluded # {} /\ request.included # {}
    \/ AsksForRfqt /\ (request.taker = "none" \/ request.key # "rfqt")
    \/ AsksForRfqt /\ request.endpoint = "quote" /\ ~request.intent
    \/ Sources \subseteq ExcludedSources

\* Mutant: every request is taken for one for prices.
HandlerRfqtIndicative ==
    [on |-> request.key # "none", indicative |-> TRUE, intent |-> FALSE]

\* params.rfqt of the handler.  Its nativeExclusivelyRFQT is left out: nothing
\* reads a field of that name.
HandlerRfqt ==
    [on |-> request.key # "none"
              /\ (request.endpoint = "price" \/ request.taker # "none"),
     indicative |-> request.endpoint = "price",
     intent |-> request.endpoint = "quote" /\ request.intent]

\* opts.rfqt.nativeExclusivelyRFQ, which SwapQuoter reads and nobody sets.
NativeExclusivelyRFQ == FALSE

\* SourceFilters.isAllowed and merge, for the filters of the chain and of the
\* request.
RequestAllows(s) ==
    /\ s \notin ExcludedSources
    /\ IncludedSources = {} \/ s \in IncludedSources

\* Mutant: an inclusion list of the request replaces the other lists.
IsAllowedIfIncluded(s) ==
    IF IncludedSources # {} THEN s \in IncludedSources
    ELSE s \notin ExcludedSources

IsAllowed(s) == s \in ChainSources /\ RequestAllows(s)

-----------------------------------------------------------------------------
(* From the handler to the sampler. *)

\* The check at the top of calculateSwapQuoteAsync.  The ids of the request have
\* been turned into sources by then.
RfqtServiceIsMissing ==
    HandlerRfqt.on /\ IncludedSources = {"RFQT"} /\ ~RfqtEnabled

\* shouldEnableRfqt and _rfqt of the service.
ServiceRfqt ==
    [on |-> /\ request.key \in {"plain", "rfqt"}
            /\ \/ request.ethSell \/ request.taker # "none"
               \/ HandlerRfqt.on /\ HandlerRfqt.indicative,
     indicative |-> HandlerRfqt.on /\ HandlerRfqt.indicative,
     intent |-> HandlerRfqt.on /\ HandlerRfqt.intent]

Parse ==
    /\ pc = "parse"
    /\ IF RequestIsInvalid THEN Fail("invalid")
       ELSE IF RfqtServiceIsMissing THEN Fail("disabled")
       ELSE pc' = "gas" /\ UNCHANGED outcome
    /\ UNCHANGED <<request, blocked, rfqt, liquidity, phaseOne, answer, result>>

\* No gas price: see GasPrice.
NoGasPrice ==
    /\ pc = "gas"
    /\ Fail("internal")
    /\ UNCHANGED <<request, blocked, rfqt, liquidity, phaseOne, answer, result>>

\* Mutant: RFQ stays on for takers that are blocked.
ValidateRfqtIgnoresBlocked ==
    IF ServiceRfqt.on /\ request.key = "rfqt"
    THEN [on |-> TRUE, indicative |-> ServiceRfqt.indicative]
    ELSE RfqOff

\* _validateRfqtOpts: RFQ is switched off for integrators without RFQ-T and for
\* blocked takers.
ValidateRfqt ==
    IF ServiceRfqt.on /\ request.key = "rfqt" /\ ~(request.taker # "none" /\ blocked)
    THEN [on |-> TRUE, indicative |-> ServiceRfqt.indicative]
    ELSE RfqOff

\* getSwapQuoteAsync after the gas price is known.
GasPriceIsKnown ==
    /\ pc = "gas"
    /\ IF /\ ServiceRfqt.on /\ ServiceRfqt.intent /\ RequestAllows("Native")
          /\ request.taker = "none"
       THEN Fail("internal") /\ UNCHANGED rfqt
       ELSE pc' = "orders" /\ rfqt' = ValidateRfqt /\ UNCHANGED outcome
    /\ UNCHANGED <<request, blocked, liquidity, phaseOne, answer, result>>

Item(kind, source, via, signed, curve) ==
    [kind |-> kind, source |-> source, via |-> via, signed |-> signed, curve |-> curve]

\* The sets of at most one element.
AtMostOne(S) == {{}} \cup {{x} : x \in S}

\* getLimitOrders: the order book is not asked if Native is not allowed or only
\* RFQ orders are wanted; it answers nothing if it fails.
GetLimitOrders ==
    /\ pc = "orders"
    /\ \E curves \in AtMostOne(OrderCurves) :
         /\ (~IsAllowed("Native") \/ NativeExclusivelyRFQ) => curves = {}
         /\ liquidity' = {Item("limit", "Native", {}, TRUE, c) : c \in curves}
    /\ pc' = "sampler"
    /\ UNCHANGED <<request, blocked, rfqt, phaseOne, answer, result, outcome>>

-----------------------------------------------------------------------------
(* Routing. *)

\* A path tells how many units each of its items fills.
PathsOver(items) == UNION {[S -> Units] : S \in SUBSET items}
Input(p) == SumFunction(p)

\* The paths of the router.
Paths(items) ==
    {p \in PathsOver(items) :
        /\ Input(p) = Amount
        /\ \A i \in DOMAIN p : i.curve[p[i]] > 0}

\* What a path gives, less the penalty of the fill adjustor for each fill that is
\* not of an order.
Output(p, penalty) ==
    SumFunction([i \in DOMAIN p |-> i.curve[p[i]]])
      - penalty * Cardinality({i \in DOMAIN p : i.kind \in {"dex", "twohop"}})

\* generateOptimizedOrders: a best path, or none.
BestPaths(items, penalty) ==
    LET paths == Paths(items)
    IN  IF paths = {} THEN {NoPath}
        ELSE {p \in paths : \A q \in paths : Output(q, penalty) <= Output(p, penalty)}

\* What the sampler returns for the sources that are allowed.  (A micro swap, on
\* Optimism, sees fewer of them.)
DexItems(curves) ==
    {Item("dex", d, {d}, TRUE, curves[d]) :
        d \in {e \in Dexes : IsAllowed(e) /\ curves[e] # NoLiquidity}}

\* getTwoHopSellQuotes and filterTwoHopQuotes: two hops over allowed sources,
\* for the whole amount.
TwoHopItems(via, out) ==
    IF IsAllowed("MultiHop") /\ (\A d \in via : IsAllowed(d)) /\ via # {} /\ out > 0
    THEN {Item("twohop", "MultiHop", via, TRUE,
               [u \in Units |-> IF u = Amount THEN out ELSE 0])}
    ELSE {}

\* Is the second phase wanted, and makers asked?
AsksMakers ==
    rfqt.on /\ request.taker # "contract" /\ IsAllowed("Native")

\* The sampler has answered: phase 1, and the requests to the RFQ server, which
\* are sent together.
PhaseOne ==
    /\ pc = "sampler"
    /\ \E curves \in [Dexes -> DexCurves], via \in SUBSET Dexes, out \in HopOutputs :
         liquidity' = liquidity \cup DexItems(curves) \cup TwoHopItems(via, out)
    /\ phaseOne' \in BestPaths(liquidity', 0)
    /\ result' = phaseOne'
    /\ IF AsksMakers
       THEN /\ pc' = "rfq" /\ UNCHANGED outcome
            /\ answer' = [v \in Versions |-> Answer("pending", {})]
       ELSE /\ IF phaseOne' = NoPath THEN Fail("noPath") ELSE pc' = "encode" /\ UNCHANGED outcome
            /\ UNCHANGED answer
    /\ UNCHANGED <<request, blocked, rfqt>>

\* The call of the sampler is rejected.
SamplerFails ==
    /\ pc = "sampler"
    /\ Fail("internal")
    /\ UNCHANGED <<request, blocked, rfqt, liquidity, phaseOne, answer, result>>

-----------------------------------------------------------------------------
(* The makers. *)

Pending(v) == pc = "rfq" /\ answer[v].state = "pending"
Answered(v, a) ==
    /\ Pending(v)
    /\ answer' = [answer EXCEPT ![v] = a]
    /\ UNCHANGED <<request, pc, blocked, rfqt, liquidity, phaseOne, result, outcome>>

\* RfqClient: the server answers with at most one quote.
RfqAnswers(v) ==
    /\ RfqtEnabled
    /\ \E curves \in AtMostOne(OrderCurves) : Answered(v, Answer("list", curves))

\* Mutant: the request for v2 quotes has no timeout.
RfqTimesOutV1Only(v) == v = "v1" /\ Answered(v, Answer("list", {}))

\* It answers nothing in time, or with an error: an empty list.
RfqTimesOut(v) == Answered(v, Answer("list", {}))

\* It answers without a list, which the client passes on as undefined; only for
\* firm v1 quotes it trips over that itself and takes it for an error.
RfqLacksList(v) ==
    /\ RfqtEnabled /\ MayLackList
    /\ rfqt.indicative \/ v = "v2"
    /\ Answered(v, Answer("undefined", {}))

RfqIsIn == pc = "rfq" /\ \A v \in Versions : answer[v].state # "pending"
RfqIsBad == \E v \in Versions : answer[v].state = "undefined"

\* The answer is used as if it were a list.
RfqBreaksQuote ==
    /\ RfqIsIn /\ RfqIsBad
    /\ Fail("internal")
    /\ UNCHANGED <<request, blocked, rfqt, liquidity, phaseOne, answer, result>>

\* The sources of the orders of the path of phase 1, and what phase 2 routes
\* over: of the dex quotes only those of these sources.
PhaseOneSources == UNION {i.via : i \in DOMAIN phaseOne}

\* Mutant: what phase 1 did not choose is dropped, of every kind.
PhaseTwoLiquidityChosenOnly(quotes) ==
    {i \in liquidity : i.source \in PhaseOneSources} \cup quotes

PhaseTwoLiquidity(quotes) ==
    {i \in liquidity : i.kind = "dex" => i.source \in PhaseOneSources} \cup quotes

\* Phase 2 with the quotes of makers.
PhaseTwo(quotes) ==
    /\ liquidity' = liquidity \cup quotes
    /\ result' \in BestPaths(PhaseTwoLiquidity(quotes), Penalty)
    /\ IF result' = NoPath THEN Fail("noPath") ELSE pc' = "encode" /\ UNCHANGED outcome
    /\ UNCHANGED <<request, blocked, rfqt, phaseOne, answer>>

\* No maker has quoted: the result of phase 1 stands.
NoQuotes ==
    /\ RfqIsIn /\ ~RfqIsBad /\ \A v \in Versions : answer[v].quotes = {}
    /\ IF result = NoPath THEN Fail("noPath") ELSE pc' = "encode" /\ UNCHANGED outcome
    /\ UNCHANGED <<request, blocked, rfqt, liquidity, phaseOne, answer, result>>

HasQuotes ==
    RfqIsIn /\ ~RfqIsBad /\ \E v \in Versions : answer[v].quotes # {}

\* Indicative quotes have no signature.
IndicativeQuotes ==
    /\ HasQuotes /\ rfqt.indicative
    /\ PhaseTwo(UNION {{Item(v, "Native", {}, FALSE, c) : c \in answer[v].quotes} : v \in Versions})

\* Firm quotes are validated first: v1 quotes may be cut to what the balance of
\* the maker covers (see MakerBalanceCache), v2 quotes tell it themselves.
CutTo(c, units) == [u \in Units |-> IF u <= units THEN c[u] ELSE 0]

FirmQuotes ==
    /\ HasQuotes /\ ~rfqt.indicative
    /\ \E fillable \in 0 .. Amount :
         PhaseTwo({Item("v1", "Native", {}, TRUE, CutTo(c, fillable)) : c \in answer["v1"].quotes}
                    \cup {Item("v2", "Native", {}, TRUE, c) : c \in answer["v2"].quotes})

\* The validator cannot read the table.
ValidatorFails ==
    /\ HasQuotes /\ ~rfqt.indicative
    /\ Fail("internal")
    /\ UNCHANGED <<request, blocked, rfqt, liquidity, phaseOne, answer, result>>

-----------------------------------------------------------------------------
(* The response. *)

\* The rest of calculateSwapQuoteAsync: with a taker, a quote is tried on the
\* node; fees may eat up what is bought, and the price impact may be too high.
Encode ==
    /\ pc = "encode"
    /\ pc' = "done"
    /\ \/ outcome' = "ok"
       \/ request.endpoint = "quote" /\ request.taker # "none" /\ outcome' = "reverts"
       \/ outcome' = "insufficientFunds"
       \/ request.endpoint = "quote" /\ outcome' = "priceImpact"
    /\ UNCHANGED <<request, blocked, rfqt, liquidity, phaseOne, answer, result>>

\* The request has been answered.
Done == pc = "done" /\ UNCHANGED vars

Next ==
    \/ Block
    \/ Parse \/ NoGasPrice \/ GasPriceIsKnown \/ GetLimitOrders
    \/ PhaseOne \/ SamplerFails
    \/ \E v \in Versions : RfqAnswers(v) \/ RfqTimesOut(v) \/ RfqLacksList(v)
    \/ RfqBreaksQuote \/ NoQuotes \/ IndicativeQuotes \/ FirmQuotes \/ ValidatorFails
    \/ Encode \/ Done

Spec == Init /\ [][Next]_vars

\* The services answer or fail at last, and the makers' server is given up after
\* a timeout; nothing makes the set of blocked addresses change.
FairSpec ==
    /\ Spec
    /\ WF_vars(Parse) /\ WF_vars(NoGasPrice \/ GasPriceIsKnown) /\ WF_vars(GetLimitOrders)
    /\ WF_vars(PhaseOne \/ SamplerFails)
    /\ \A v \in Versions : WF_vars(RfqTimesOut(v))
    /\ WF_vars(RfqBreaksQuote \/ NoQuotes \/ IndicativeQuotes \/ FirmQuotes \/ ValidatorFails)
    /\ WF_vars(Encode)

-----------------------------------------------------------------------------
(* Properties. *)

Items ==
    [kind : {"limit", "dex", "twohop"} \cup Versions, source : Sources,
     via : SUBSET Dexes, signed : BOOLEAN, curve : Curves]

\* The state is made of the values it is meant to hold, and paths go over the
\* liquidity that was found (marketSideLiquidity and optimizerResult of
\* getOptimizerResultAsync).
TypeOK ==
    /\ request \in Requests
    /\ pc \in {"parse", "gas", "orders", "sampler", "rfq", "encode", "done"}
    /\ blocked \in BOOLEAN
    /\ rfqt \in [on : BOOLEAN, indicative : BOOLEAN]
    /\ liquidity \subseteq Items
    /\ phaseOne \in PathsOver(liquidity)
    /\ answer \in [Versions -> [state : {"none", "pending", "undefined", "list"},
                                quotes : SUBSET OrderCurves]]
    /\ result \in PathsOver(liquidity)
    /\ outcome \in {"none", "ok", "invalid", "disabled", "internal", "noPath",
                     "reverts", "insufficientFunds", "priceImpact"}

\* The ids under which a request names a source.
IdsOf(s) == IF s = "Native" THEN {"0x", "Native"} ELSE {s}

\* No fill, and neither hop of a two-hop fill, comes from a source that the chain
\* does not offer, that the request excludes, or that is not on its list of
\* included sources, where that list names a source or RFQT (SourceFilters in
\* getLimitOrders, getMarketSellLiquidity and getOptimizerResultAsync).
SourcesRespected ==
    \A i \in DOMAIN result : \A s \in {i.source} \cup i.via :
        /\ s \in ChainSources
        /\ IdsOf(s) \cap request.excluded = {}
        /\ \/ request.included \cap (Sources \cup {"0x", "RFQT"}) = {}
           \/ IdsOf(s) \cap request.included # {}
           \/ s = "Native" /\ "RFQT" \in request.included

MakerFills == {i \in DOMAIN result : i.kind \in Versions}

\* A request without the key of an RFQ integrator, or for a taker that is blocked
\* all the time, never gets quotes of makers (_validateRfqtOpts); whether a taker
\* that is blocked or unblocked under way gets them is left to the moment of the
\* check.
MakersOnlyForListed ==
    (request.key # "rfqt" \/ (request.taker # "none" /\ []blocked)) => [](MakerFills = {})

\* What a client is told to fill for /quote is signed: indicative quotes stay with
\* /price (rfqt.isIndicative of parseSwapQuoteRequestParams).
QuotesAreSigned ==
    request.endpoint = "quote" => \A i \in DOMAIN result : i.signed

\* Asking makers costs the client nothing: a path of phase 1 is not lost in phase
\* 2, which routes over fewer dexes, and by the measure of phase 2 its path is no
\* worse (getOptimizerResultAsync).
PathIsNotLost ==
    /\ outcome = "noPath" => phaseOne = NoPath
    /\ pc = "encode" => Output(result, Penalty) >= Output(phaseOne, Penalty)

\* Every request is answered, although the server of the makers may never answer
\* (the timeouts of RfqClient).
EveryRequestIsAnswered == <>(pc = "done")

-----------------------------------------------------------------------------
(* What a comment of the code says and the code does not do. *)

\* parse_utils.ts:52, "Exclude open orderbook if 'Mesh' is excluded", of a request
\* that does not exclude Native.
OpenOrdersExcluded ==
    "Mesh" \in request.excluded => \A i \in DOMAIN result : i.kind # "limit"
=============================================================================
