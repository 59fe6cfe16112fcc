----------------------------- MODULE PairCaches -----------------------------
(***************************************************************************)
(* The two caches of liquidity pools per token pair that a quote refreshes *)
(* and samples from: BalancerPoolsCache, an AbstractPoolsCache             *)
(* (pools_cache.ts, balancer_pools_cache.ts), and BalancerV2SwapInfoCache, *)
(* a SwapInfoCache (pair_swaps_cache.ts, balancer_v2_swap_info_cache.ts).  *)
(* Each answers from memory, fetches from its subgraph when it thinks it   *)
(* must, and reloads the top pools twice a day.                            *)
(*                                                                         *)
(* An entry keeps its age since it was stamped; expiresAt is reached at    *)
(* age CacheTime, and ages stop at CacheTime + 1.  Of an answer the model  *)
(* keeps whether it lists pools or is empty, as it is after an error.      *)
(***************************************************************************)
EXTENDS Naturals

CONSTANTS
    Pairs,         \* pairs <takerToken, makerToken>
    TopPairs,      \* the pairs of the most used pools, which a reload covers
    Calls,         \* concurrent calls of getFreshPoolsForPairAsync
    Cache,         \* the cache: "Balancer" or "BalancerV2"
    CacheTime,     \* _cacheTimeMs, in ticks
    MaxErrors      \* bound: failed requests to the subgraph

VARIABLES
    entry,      \* _cache: the entry of each pair
    call,       \* the fetch of each call
    waiting,    \* the race of each call has not been decided
    loader,     \* the pairs that the running _loadTopPoolsAsync has still to write
    errors      \* failed requests so far

vars == <<entry, call, waiting, loader, errors>>

Age == 0 .. (CacheTime + 1)
Entry == [state : {"absent", "empty", "pools"}, age : Age]
Absent == [state |-> "absent", age |-> 0]
Stamped(result) == [state |-> result, age |-> 0]

Idle == [pc |-> "idle", result |-> "empty"]
CallState == [pc : {"fetching", "answered"}, pair : Pairs, result : {"empty", "pools"}]

Init ==
    /\ entry = [p \in Pairs |-> Absent]
    /\ call = [c \in Calls |-> Idle]
    /\ waiting = [c \in Calls |-> FALSE]
    /\ loader = {}
    /\ errors = 0

Tick ==
    /\ entry' = [p \in Pairs |-> IF entry[p].state = "absent" THEN Absent ELSE
                   [entry[p] EXCEPT !.age = IF @ > CacheTime THEN @ ELSE @ + 1]]
    /\ UNCHANGED <<call, waiting, loader, errors>>

-----------------------------------------------------------------------------
\* _isExpired: Date.now() >= value.expiresAt.
IsExpired(e) == e.state = "absent" \/ e.age >= CacheTime

\* isFresh
IsFresh(p) == ~IsExpired(entry[p])

\* Does _getAndSaveFreshPoolsForPairAsync, or its namesake in SwapInfoCache,
\* fetch, or does it answer from the cache?
MustFetchPools(e) == IsExpired(e)
MustFetchSwapInfo(e) == e.state = "absent" \/ e.age <= CacheTime
MustFetch(e) ==
    IF Cache = "Balancer" THEN MustFetchPools(e) ELSE MustFetchSwapInfo(e)

\* A quote: _refreshPoolCacheIfRequiredAsync calls getFreshPoolsForPairAsync for
\* a pair that is not fresh and does not wait for it.  A call that need not
\* fetch ends at once.
Quote(c, p) ==
    /\ call[c] = Idle
    /\ ~IsFresh(p)
    /\ MustFetch(entry[p])
    /\ call' = [call EXCEPT ![c] = [pc |-> "fetching", pair |-> p, result |-> "empty"]]
    /\ waiting' = [waiting EXCEPT ![c] = TRUE]
    /\ UNCHANGED <<entry, loader, errors>>

\* The timeout wins the race: the caller is answered with no pools, the fetch
\* goes on.
Timeout(c) ==
    /\ waiting[c]
    /\ waiting' = [waiting EXCEPT ![c] = FALSE]
    /\ UNCHANGED <<entry, call, loader, errors>>

\* getPools of the SubgraphPoolDataService: no pools at all, as without a query
\* for the chain, after a failure, or when all are ignored; pools of other tokens;
\* or pools that connect a pair, by themselves or in a row.
GetPools == {"none", "others", "connecting"}

\* _getPoolPairSwapInfo: the most liquid path the route proposer finds in the
\* pools, written by formatSwaps for either side, or EMPTY_BALANCER_SWAPS.
GetPoolPairSwapInfo(pools) == IF pools = "connecting" THEN "pools" ELSE "empty"

\* What the subgraph may answer.
Results == IF Cache = "Balancer" THEN {"empty", "pools"}
           ELSE {GetPoolPairSwapInfo(pools) : pools \in GetPools}

\* _fetchPoolsForPairAsync and _fetchSwapInfoForPairAsync: the subgraph answers.
Fetch(c) ==
    /\ call[c].pc = "fetching"
    /\ \E result \in Results :
         call' = [call EXCEPT ![c].pc = "answered", ![c].result = result]
    /\ UNCHANGED <<entry, waiting, loader, errors>>

\* The request fails, which is caught and becomes an empty answer.
FetchFails(c) ==
    /\ call[c].pc = "fetching"
    /\ errors < MaxErrors
    /\ errors' = errors + 1
    /\ call' = [call EXCEPT ![c].pc = "answered", ![c].result = "empty"]
    /\ UNCHANGED <<entry, waiting, loader>>

\* Mutant: an answer that comes after the timeout is thrown away.
SaveUnlessTimedOut(c) ==
    /\ call[c].pc = "answered"
    /\ entry' = IF waiting[c]
                THEN [entry EXCEPT ![call[c].pair] = Stamped(call[c].result)] ELSE entry
    /\ call' = [call EXCEPT ![c] = Idle]
    /\ waiting' = [waiting EXCEPT ![c] = FALSE]
    /\ UNCHANGED <<loader, errors>>

\* The continuation after the fetch: stamp, cache and return, whether or not
\* the caller still waits.
Save(c) ==
    /\ call[c].pc = "answered"
    /\ entry' = [entry EXCEPT ![call[c].pair] = Stamped(call[c].result)]
    /\ call' = [call EXCEPT ![c] = Idle]
    /\ waiting' = [waiting EXCEPT ![c] = FALSE]
    /\ UNCHANGED <<loader, errors>>

\* _loadTopPoolsAsync has its answer.  Balancer writes the pairs at once;
\* Balancer V2 yields to the event loop between pools.  A pair that cannot be
\* parsed is left alone, and so are all after a failed request.
LoadTopPools ==
    /\ loader = {}
    /\ \E loaded \in SUBSET TopPairs :
         \/ /\ Cache = "Balancer"
            /\ entry' = [p \in Pairs |-> IF p \in loaded THEN Stamped("pools") ELSE entry[p]]
            /\ UNCHANGED loader
         \/ /\ Cache = "BalancerV2"
            /\ loader' = loaded
            /\ UNCHANGED entry
    /\ UNCHANGED <<call, waiting, errors>>

LoadPair(p) ==
    /\ p \in loader
    /\ loader' = loader \ {p}
    /\ \E result \in Results : entry' = [entry EXCEPT ![p] = Stamped(result)]
    /\ UNCHANGED <<call, waiting, errors>>

Next ==
    \/ Tick
    \/ \E c \in Calls :
         \/ \E p \in Pairs : Quote(c, p)
         \/ Timeout(c) \/ Fetch(c) \/ FetchFails(c) \/ Save(c)
    \/ LoadTopPools
    \/ \E p \in Pairs : LoadPair(p)

(* Time passes, quotes for every pair keep coming in, the subgraph answers   *)
(* or fails, and a continuation that is ready runs.                          *)
FairSpec ==
    /\ Init /\ [][Next]_vars
    /\ WF_vars(Tick)
    /\ \A p \in Pairs : SF_vars(\E c \in Calls : Quote(c, p))
    /\ \A c \in Calls : WF_vars(Fetch(c)) /\ WF_vars(Save(c))

-----------------------------------------------------------------------------
(* Properties. *)

TypeOK ==
    /\ entry \in [Pairs -> Entry]
    /\ call \in [Calls -> CallState \cup {Idle}]
    /\ waiting \in [Calls -> BOOLEAN]
    /\ loader \subseteq TopPairs
    /\ errors \in 0 .. MaxErrors

(* "Cache results for 30mins": an entry that has expired is replaced in the  *)
(* end if its pair is quoted again and again, although every call may time   *)
(* out for its caller and some requests fail.                                *)
ExpiredIsRefreshed == \A p \in Pairs : (~IsFresh(p)) ~> IsFresh(p)

(* A pair asked for the first time is known in the end: the answer is cached *)
(* although nobody waits for it any longer, and although the reload of the   *)
(* top pools writes between the steps of the call.                           *)
UnknownIsLearnt ==
    \A p \in Pairs : (entry[p].state = "absent") ~> (entry[p].state # "absent")
=============================================================================
