----------------------------- MODULE ListCaches -----------------------------
(***************************************************************************)
(* The caches that hold one list of a remote service: the reserves of Aave *)
(* (aave_reserves_cache.ts), the cTokens of Compound                       *)
(* (compound_ctoken_cache.ts) and the markets of the alternative RFQ maker *)
(* (_getAltMarketOfferingsAsync of swap_service.ts, on the ResultCache of  *)
(* result_cache.ts).  The first two are refreshed by an interval that does *)
(* not wait for the refresh before it, the third by the requests that find *)
(* it expired; so fetches overlap and may end out of order.                *)
(*                                                                         *)
(* An entry of a list is a pair of an underlying token, "null" for ETH in  *)
(* Compound's list, and the token that stands for it; for a market they    *)
(* are its base and its quote asset.                                       *)
(***************************************************************************)
EXTENDS Naturals, SequencesExt

CONSTANTS
    Kind,       \* the cache: "aave", "compound" or "markets"
    Entries,    \* what the service may list: [underlying, token]
    Fetches,    \* fetches that may be under way together
    Expiry      \* cacheExpiryMs of the markets, in ticks

VARIABLES
    listing,    \* the list of the service
    healthy,    \* does the service answer?
    kept,       \* _cache, as the set of the entries it gives access to
    keptAge,    \* age of the result of the markets, Expiry + 1 when there is none
    fetch       \* the fetches under way, each with what it got

vars == <<listing, healthy, kept, keptAge, fetch>>

Idle == [pc |-> "idle"]
Fetch == {Idle, [pc |-> "sent"], [pc |-> "failed"]}
         \cup [pc : {"answered"}, list : SeqOf(Entries, 2)]

Init ==
    /\ listing = <<>>
    /\ healthy \in BOOLEAN
    /\ kept = {}
    /\ keptAge = Expiry + 1
    /\ fetch = [f \in Fetches |-> Idle]

-----------------------------------------------------------------------------
(* The service. *)

List(e) ==
    /\ e \notin Range(listing)
    /\ listing' = Append(listing, e)
    /\ UNCHANGED <<healthy, kept, keptAge, fetch>>

Unlist(e) ==
    /\ e \in Range(listing)
    /\ listing' = SelectSeq(listing, LAMBDA x : x # e)
    /\ UNCHANGED <<healthy, kept, keptAge, fetch>>

Break == healthy' = ~healthy /\ UNCHANGED <<listing, kept, keptAge, fetch>>

Answer(f) ==
    /\ fetch[f].pc = "sent"
    /\ fetch' = [fetch EXCEPT ![f] = IF healthy THEN [pc |-> "answered", list |-> listing]
                                     ELSE [pc |-> "failed"]]
    /\ UNCHANGED <<listing, healthy, kept, keptAge>>

-----------------------------------------------------------------------------
(* The caches. *)

Tick ==
    /\ Kind = "markets"
    /\ keptAge <= Expiry
    /\ keptAge' = keptAge + 1
    /\ UNCHANGED <<listing, healthy, kept, fetch>>

\* The interval calls fetchAndUpdateReservesAsync or fetchAndUpdateCTokensAsync.
Interval(f) ==
    /\ Kind # "markets"
    /\ fetch[f] = Idle
    /\ fetch' = [fetch EXCEPT ![f] = [pc |-> "sent"]]
    /\ UNCHANGED <<listing, healthy, kept, keptAge>>

\* Mutant: a result with markets is never too old.
NeverExpires == keptAge > Expiry /\ kept = {}

\* getResultAsync: there is no result yet, or timestamp < Date.now() - cacheExpiryMs.
IsExpired == keptAge > Expiry

\* A request calls getResultAsync; with a result at hand it changes nothing.
GetResult(f) ==
    /\ Kind = "markets"
    /\ IsExpired
    /\ fetch[f] = Idle
    /\ fetch' = [fetch EXCEPT ![f] = [pc |-> "sent"]]
    /\ UNCHANGED <<listing, healthy, kept, keptAge>>

\* Compound's entry with no underlying token is the one of WETH.
Underlying(e) == IF Kind = "compound" /\ e.underlying = "null" THEN "WETH" ELSE e.underlying

\* fetchAndUpdateCTokensAsync keeps one cToken, the last, for each token.
CTokens(list) ==
    {list[i] : i \in {j \in DOMAIN list :
        \A k \in DOMAIN list : Underlying(list[k]) = Underlying(list[j]) => k <= j}}

\* fetchAndUpdateReservesAsync and altMarketResponseToAltOfferings keep all that
\* is listed.
NewCache(list) == IF Kind = "compound" THEN CTokens(list) ELSE Range(list)

\* Mutant: Aave keeps what it knew.
AfterFailureKeeps == IF Kind # "markets" THEN kept ELSE {}

\* The catch: Aave forgets what it knew, Compound keeps it, and the failure of
\* a request for markets is a result without markets.
AfterFailure == IF Kind = "compound" THEN kept ELSE {}

\* The continuation of a fetch.
Install(f) ==
    /\ fetch[f].pc \in {"answered", "failed"}
    /\ kept' = IF fetch[f].pc = "answered" THEN NewCache(fetch[f].list) ELSE AfterFailure
    /\ keptAge' = IF Kind = "markets" THEN 0 ELSE keptAge
    /\ fetch' = [fetch EXCEPT ![f] = Idle]
    /\ UNCHANGED <<listing, healthy>>

\* get, and getAltMarketInfo for the markets: either token may be the underlying.
Get(takerToken, makerToken) ==
    {e \in kept : <<Underlying(e), e.token>> \in
        {<<takerToken, makerToken>>, <<makerToken, takerToken>>}}

Next ==
    \/ \E e \in Entries : List(e) \/ Unlist(e)
    \/ Break
    \/ Tick
    \/ \E f \in Fetches : Interval(f) \/ GetResult(f) \/ Answer(f) \/ Install(f)

(* Time passes, the interval fires, requests for quotes keep coming in, the  *)
(* service answers or fails, and the continuation of a fetch runs.           *)
FairSpec ==
    /\ Init /\ [][Next]_vars
    /\ WF_vars(Tick)
    /\ \A f \in Fetches : /\ WF_vars(Interval(f)) /\ WF_vars(GetResult(f))
                          /\ WF_vars(Answer(f)) /\ WF_vars(Install(f))

-----------------------------------------------------------------------------
(* Properties. *)

(* Type correctness.                                                         *)
TypeOK ==
    /\ listing \in SeqOf(Entries, 2)
    /\ healthy \in BOOLEAN
    /\ kept \subseteq Entries
    /\ keptAge \in 0 .. (Expiry + 1)
    /\ fetch \in [Fetches -> Fetch]

Found(e) ==
    /\ Get(Underlying(e), e.token) # {}
    /\ Get(e.token, Underlying(e)) # {}

\* The entry of its underlying token: the last one counts, where there is one.
IsListed(e) == e \in NewCache(listing)

(* "The reserve information is updated every 30 minutes": an entry that the  *)
(* service lists for good is found in both directions in the end, although   *)
(* requests failed before, and emptied the cache or were cached as an empty  *)
(* list, and although fetches that overlap end in another order.             *)
ListedIsFound ==
    \A e \in Entries : <>[](healthy /\ IsListed(e)) => <>[]Found(e)

(* "Empty cache just to be safe": an entry that is gone for good is not      *)
(* offered in the end, also if the service never answers again.  Compound's  *)
(* cache needs an answer, since it keeps what it knows.                      *)
UnlistedIsDropped ==
    \A e \in Entries :
        <>[](~IsListed(e) /\ (Kind = "compound" => healthy)) => <>[]~Found(e)

(* Both: what is offered follows what is listed.                             *)
ListIsFollowed == ListedIsFound /\ UnlistedIsDropped
=============================================================================
