------------------------------ MODULE MCCaches ------------------------------
(***************************************************************************)
(* The parts of a web process that read somebody else's data: those that   *)
(* keep a copy of it and refresh it in the background, which are the gas   *)
(* price (GasPrice), the blocked addresses (BlockedAddresses), the         *)
(* slippage models (SlippageModel), the two caches of pools (PairCaches)   *)
(* and the three of lists (ListCaches), and the call of the sampler        *)
(* contract (Sampler).  They share nothing, so that each behaviour of the  *)
(* process is one behaviour of each part; TLC checks them in one run, with *)
(* the part that moves chosen at the start.                                *)
(***************************************************************************)
EXTENDS ProcessCaches, FiniteSets, TLC

CONSTANTS
    Refreshes, BadVersions, ValidInterval, MaxVersions,        \* SlippageModel
    Pairs, TopPairs, Calls, CacheTime, MaxErrors,              \* PairCaches
    Fetches, Expiry,                                           \* ListCaches
    MaxAmount, MaxReverts                                      \* Sampler

VARIABLES
    part,                                         \* the part that moves
    file, cached, lastRefreshed, refresh,         \* SlippageModel
    entry, call, waiting, loader, errors,         \* PairCaches, for either cache
    listing, healthy, kept, keptAge, fetch,       \* ListCaches, for any of the caches
    samplePc, trade, raw, found                   \* Sampler

gasVars == vars
blockedVars == <<table, blocked, age, updating, query>>
slippageVars == <<file, cached, lastRefreshed, refresh>>
pairVars == <<entry, call, waiting, loader, errors>>
listVars == <<listing, healthy, kept, keptAge, fetch>>
samplerVars == <<samplePc, trade, raw, found>>
allVars == <<part, gasVars, blockedVars, slippageVars, pairVars, failures, listVars,
             samplerVars>>

\* Two cTokens of one underlying token, one of them for ETH.
Entries == {[underlying |-> "null", token |-> "cETH"], [underlying |-> "WETH", token |-> "cWETH"]}

(* The trades that are sampled: a sale or a purchase of M for T on the        *)
(* sources A, B and C, of which A and B also price tokens in E, the native   *)
(* token; over X and Y if two hops are allowed.                              *)
NativeToken == "E"
NativeAmount == 2
FeeSources == <<"A", "B">>
Fees == "A" :> 0 @@ "B" :> 1 @@ "C" :> 0
MicroShare == <<1, 2>>
Graph == "T" :> <<"X", "M">>
DefaultTokens == <<"Y">>

\* An error of 5 in 10,000 is no amount in small numbers.
HundredPercent == 2
Epsilon == 2

Least(a, b) == IF a < b THEN a ELSE b
\* What must be sold for an amount, if the pool has it.
Inverse(c) ==
    LET enough(b) == {x \in DOMAIN c : c[x] >= b}
        least(b) == CHOOSE x \in enough(b) : \A y \in enough(b) : x <= y
    IN [b \in {b \in 0 .. MaxAmount : enough(b) # {}} |-> least(b)]
Pool(c) == [reverts |-> FALSE, approximate |-> FALSE, sells |-> c, sellsBack |-> c, buys |-> Inverse(c)]
Approximated(c) == [Pool(c) EXCEPT !.approximate = TRUE, !.sellsBack = Inverse(c)]
Double == Pool([x \in 0 .. MaxAmount |-> Least(2 * x, MaxAmount)])
Same == Pool([x \in 0 .. MaxAmount |-> x])
Half == Pool([x \in 0 .. MaxAmount |-> x \div 2])
Limited == Pool([x \in 0 .. 2 |-> x])
Broken == [Same EXCEPT !.reverts = TRUE]
AllPools == {Double, Same, Half, Limited, Broken}
\* Rates that stay the same, that fall, and a pool that has little.
ApproximatedPools ==
    {Approximated([x \in 0 .. MaxAmount |-> x]), Approximated([x \in 0 .. MaxAmount |-> x - x \div 4]),
     Approximated([x \in 0 .. MaxAmount |-> Least(x, 3)])}

Trade(side, amount, pools) ==
    [side |-> side, taker |-> "T", maker |-> "M", amount |-> amount, pools |-> pools,
     sources |-> <<"A", "Native", "C", "B">>, orders |-> <<>>, chain |-> "Ethereum",
     bad |-> {}, revertingMids |-> {}, rfqt |-> FALSE, originIsContract |-> FALSE]

Order(maker, fillable) == [maker |-> maker, makerAmount |-> 2, takerAmount |-> 3, fillable |-> fillable]

\* Direct pools, with and without orders, and a token that a source takes for a bad one.
DirectTrades ==
    {[Trade(side, amount, <<"A", "T", "M">> :> p @@ <<"B", "T", "M">> :> q @@ <<"C", "M", "T">> :> Same)
        EXCEPT !.orders = orders, !.bad = bad] :
        side \in {"sell", "buy"}, amount \in {1, 3}, p \in AllPools, q \in AllPools \cup ApproximatedPools,
        orders \in {<<>>, <<Order("null", 0)>>, <<Order("maker", 1), Order("maker", 2)>>},
        bad \in {{}, {<<"A", "M">>}}}

\* Pools that price the tokens, also where a trade may be a micro swap.
PricedTrades ==
    {[Trade(side, 1, <<"A", "E", "M">> :> p @@ <<"B", "E", "M">> :> q @@ <<"A", "E", "T">> :> r
                     @@ <<"A", "T", "M">> :> Same @@ <<"C", "T", "M">> :> Double)
        EXCEPT !.chain = chain, !.rfqt = TRUE] :
        side \in {"sell", "buy", "rate"}, p \in AllPools, q \in AllPools, r \in AllPools,
        chain \in {"Ethereum", "Optimism"}}
    \cup {[Trade(side, 1, <<"A", "E", "T">> :> p @@ <<"B", "T", "E">> :> p) EXCEPT !.maker = "E"] :
            side \in {"sell", "buy", "rate"}, p \in AllPools}

\* Pools of two hops over X; over Y there is one route, or the call of Y reverts.
HopTrades ==
    {[Trade(side, 2, <<"A", "T", "X">> :> p @@ <<"B", "T", "X">> :> q @@ <<"C", "T", "Y">> :> Same
                     @@ <<"A", "X", "M">> :> r @@ <<"B", "X", "M">> :> u @@ <<"A", "Y", "M">> :> Double)
        EXCEPT !.sources = <<"A", "Native", "MultiHop", "C", "B">>, !.revertingMids = mids,
               !.originIsContract = TRUE] :
        side \in {"sell", "buy"}, p \in AllPools, q \in {Same, Limited, Broken},
        r \in AllPools, u \in {Same, Limited, Broken},
        mids \in {{}, {"Y"}}}

Trades == DirectTrades \cup PricedTrades \cup HopTrades

Slippage == INSTANCE SlippageModel
Balancer == INSTANCE PairCaches WITH Cache <- "Balancer"
BalancerV2 == INSTANCE PairCaches WITH Cache <- "BalancerV2"
Aave == INSTANCE ListCaches WITH Kind <- "aave"
Compound == INSTANCE ListCaches WITH Kind <- "compound"
Markets == INSTANCE ListCaches WITH Kind <- "markets"
Sampling == INSTANCE Sampler

IsPair == part \in {"balancer", "balancerV2"}
IsList == part \in {"aave", "compound", "markets"}

\* A part that does not move stays in one of its initial states.
MCInit ==
    /\ part \in {"gas", "blocked", "slippage", "balancer", "balancerV2",
                "aave", "compound", "markets", "sampler"}
    /\ Init /\ Slippage!Init /\ Balancer!Init
    /\ Blocked!Init
    /\ part # "blocked" => table = {} /\ blocked = {}
    /\ Aave!Init
    /\ ~IsList => healthy
    /\ Sampling!Init

MCNext ==
    /\ UNCHANGED part
    /\ \/ /\ part = "gas" /\ Next
          /\ UNCHANGED <<blockedVars, slippageVars, pairVars, failures, listVars, samplerVars>>
       \/ /\ part = "blocked" /\ Blocked!Next
          /\ UNCHANGED <<gasVars, slippageVars, pairVars, listVars, samplerVars>>
       \/ /\ part = "slippage" /\ Slippage!Next
          /\ UNCHANGED <<gasVars, blockedVars, pairVars, listVars, samplerVars>>
       \/ /\ part = "balancer" /\ Balancer!Next
          /\ UNCHANGED <<gasVars, blockedVars, slippageVars, failures, listVars, samplerVars>>
       \/ /\ part = "balancerV2" /\ BalancerV2!Next
          /\ UNCHANGED <<gasVars, blockedVars, slippageVars, failures, listVars, samplerVars>>
       \/ /\ \/ part = "aave" /\ Aave!Next
             \/ part = "compound" /\ Compound!Next
             \/ part = "markets" /\ Markets!Next
          /\ UNCHANGED <<gasVars, blockedVars, slippageVars, pairVars, failures, samplerVars>>
       \/ /\ part = "sampler" /\ Sampling!Next
          /\ UNCHANGED <<gasVars, blockedVars, slippageVars, pairVars, failures, listVars>>

\* The fairness of the part that moves, as its module states it.
BlockedFairness ==
    /\ WF_blockedVars(part = "blocked" /\ Blocked!Tick)
    /\ WF_blockedVars(part = "blocked" /\ Blocked!IsBlocked)
    /\ WF_blockedVars(part = "blocked" /\ Blocked!Answer)
    /\ WF_blockedVars(part = "blocked" /\ Blocked!Update)

SlippageFairness ==
    \A r \in Refreshes :
        /\ WF_slippageVars(part = "slippage" /\ Slippage!Refresh(r))
        /\ WF_slippageVars(part = "slippage" /\ Slippage!Head(r))
        /\ WF_slippageVars(part = "slippage" /\ Slippage!GetFileContent(r))
        /\ WF_slippageVars(part = "slippage" /\ Slippage!FileIsGone(r))
        /\ WF_slippageVars(part = "slippage" /\ Slippage!Install(r))

\* Quote is the one action of these in which the caches differ.
QuotePair(p) ==
    \E c \in Calls : \/ part = "balancer" /\ Balancer!Quote(c, p)
                     \/ part = "balancerV2" /\ BalancerV2!Quote(c, p)

PairFairness ==
    /\ WF_pairVars(IsPair /\ Balancer!Tick)
    /\ \A p \in Pairs : SF_pairVars(QuotePair(p))
    /\ \A c \in Calls : /\ WF_pairVars(IsPair /\ Balancer!Fetch(c))
                        /\ WF_pairVars(IsPair /\ Balancer!Save(c))

\* Install is the one action of these in which the caches differ.
InstallList(f) ==
    \/ part = "aave" /\ Aave!Install(f)
    \/ part = "compound" /\ Compound!Install(f)
    \/ part = "markets" /\ Markets!Install(f)

ListFairness ==
    /\ WF_listVars(part = "markets" /\ Markets!Tick)
    /\ \A f \in Fetches :
         /\ WF_listVars(part \in {"aave", "compound"} /\ Aave!Interval(f))
         /\ WF_listVars(part = "markets" /\ Markets!GetResult(f))
         /\ WF_listVars(IsList /\ Aave!Answer(f))
         /\ WF_listVars(InstallList(f))

MCSpec ==
    /\ MCInit /\ [][MCNext]_allVars
    /\ BlockedFairness /\ SlippageFairness /\ PairFairness /\ ListFairness

-----------------------------------------------------------------------------
(* Properties: those of the parts, each for the part that moves.             *)

(* BlockedAddresses: isBlocked's update in the background brings an address  *)
(* of the table into the set, and takes one that left the table out of it,   *)
(* as long as no query fails.                                                *)
TableIsFollowed ==
    part = "blocked" /\ [](failures = 0) => Blocked!BlockedIsRefused /\ Blocked!UnblockedIsServed

(* SlippageModel: overlapping and failing refreshes end with the models of   *)
(* the file in S3, and drop those of a file that is gone or stale.           *)
FileIsFollowed == part = "slippage" => Slippage!InSync /\ Slippage!StaleIsDropped

(* PairCaches: in either cache a pair that is asked for is known in the end, *)
(* although every call may time out for its caller, and in the Balancer      *)
(* cache an expired entry is replaced if its pair is quoted again and again. *)
(* The Balancer V2 cache does not do that.                                   *)
PoolsAreFollowed ==
    /\ IsPair => Balancer!UnknownIsLearnt
    /\ part = "balancer" => Balancer!ExpiredIsRefreshed

(* ListCaches: the reserves, cTokens and markets that are offered follow the *)
(* lists of the services, whatever failed and overlapped before; those of    *)
(* Aave and the markets are dropped also if the service does not come back.  *)
ListIsFollowed ==
    /\ part = "aave" => Aave!ListIsFollowed
    /\ part = "compound" => Compound!ListIsFollowed
    /\ part = "markets" => Markets!ListIsFollowed

(* Sampler: every number of the liquidity belongs to the source, the token   *)
(* or the order it is kept for, whichever operations were skipped and        *)
(* whichever calls reverted.                                                 *)
SamplesAreTheirs == Sampling!SamplesAreTheirs
=============================================================================
