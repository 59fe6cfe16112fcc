-------------------------- MODULE SwapQuoteProofs --------------------------
(***************************************************************************)
(* For every set of dexes, every request and all liquidity: paths only go  *)
(* over sources that the chain and the request allow, /quote only returns  *)
(* what is signed, no maker is asked for an unlisted key or a blocked      *)
(* taker, and asking makers never loses the path of the first phase.       *)
(***************************************************************************)
EXTENDS SwapQuote, FiniteSetTheorems, WellFoundedInduction, TLAPS

ItemSources(i) == {i.source} \cup i.via

(* The inductive invariant.  What is found is allowed, the paths go over what  *)
(* was found, and makers are only asked if Native is allowed.                  *)
LiquidityIsAllowed == \A i \in liquidity : \A s \in ItemSources(i) : IsAllowed(s)
PathsAreOverLiquidity ==
    /\ DOMAIN phaseOne \subseteq liquidity /\ DOMAIN result \subseteq liquidity
    /\ pc \in {"parse", "gas", "orders"} => DOMAIN phaseOne = {} /\ DOMAIN result = {}
AskingIsAllowed == pc = "rfq" => IsAllowed("Native")
SourcesInv == LiquidityIsAllowed /\ PathsAreOverLiquidity /\ AskingIsAllowed

(* What is not signed was asked for as a price.                                *)
IndicativeIsForPrices == rfqt.indicative => request.endpoint = "price"
UnsignedIsForPrices == \A i \in liquidity : i.signed \/ request.endpoint = "price"
SignedInv == IndicativeIsForPrices /\ UnsignedIsForPrices /\ PathsAreOverLiquidity

-----------------------------------------------------------------------------
(* The path of the router, if any, goes over the items it was given.           *)
LEMMA BestPathsOverItems ==
    ASSUME NEW items, NEW penalty, NEW p \in BestPaths(items, penalty)
    PROVE  DOMAIN p \subseteq items
<1>1. Paths(items) \subseteq PathsOver(items)
  BY DEF Paths
<1>2. p = NoPath \/ p \in Paths(items)
  BY DEF BestPaths
<1>3. CASE p = NoPath
  BY <1>3 DEF NoPath
<1>4. CASE p \in Paths(items)
  <2>1. PICK S \in SUBSET items : p \in [S -> Units]
    BY <1>1, <1>4 DEF PathsOver
  <2>. QED  BY <2>1
<1>. QED  BY <1>2, <1>3, <1>4

(* The filters of the chain and of the request do not change under way.        *)
LEMMA FiltersAreStable ==
    ASSUME request' = request
    PROVE  /\ IsAllowed("Native")' <=> IsAllowed("Native")
           /\ \A s : IsAllowed(s)' <=> IsAllowed(s)
BY DEF IsAllowed, RequestAllows, ExcludedSources, IncludedSources, AsksForRfqt, ToSources

(* The sampler only returns items of sources that are allowed, all signed.     *)
LEMMA SampledItems ==
    ASSUME NEW curves, NEW via, NEW out
    PROVE  \A i \in DexItems(curves) \cup TwoHopItems(via, out) :
              i.signed /\ \A s \in ItemSources(i) : IsAllowed(s)
<1>1. ASSUME NEW i \in DexItems(curves)
      PROVE  i.signed /\ \A s \in ItemSources(i) : IsAllowed(s)
  <2>1. PICK d \in Dexes : IsAllowed(d) /\ i = Item("dex", d, {d}, TRUE, curves[d])
    BY <1>1 DEF DexItems
  <2>. QED  BY <2>1 DEF Item, ItemSources
<1>2. ASSUME NEW i \in TwoHopItems(via, out)
      PROVE  i.signed /\ \A s \in ItemSources(i) : IsAllowed(s)
  <2>1. /\ IsAllowed("MultiHop") /\ \A d \in via : IsAllowed(d)
        /\ \E c : i = Item("twohop", "MultiHop", via, TRUE, c)
    BY <1>2 DEF TwoHopItems
  <2>. QED  BY <2>1 DEF Item, ItemSources
<1>. QED  BY <1>1, <1>2

(* Phase 2 adds the quotes of makers and routes over what there is then.       *)
LEMMA PhaseTwoStep ==
    ASSUME NEW quotes, PhaseTwo(quotes), PathsAreOverLiquidity
    PROVE  /\ request' = request /\ rfqt' = rfqt /\ pc' # "rfq"
           /\ liquidity' = liquidity \cup quotes
           /\ PathsAreOverLiquidity'
<1>1. result' \in BestPaths(PhaseTwoLiquidity(quotes), Penalty)
  BY DEF PhaseTwo
<1>2. DOMAIN result' \subseteq PhaseTwoLiquidity(quotes)
  BY <1>1, BestPathsOverItems
<1>3. PhaseTwoLiquidity(quotes) \subseteq liquidity \cup quotes
  BY DEF PhaseTwoLiquidity
<1>. QED  BY <1>2, <1>3 DEF PhaseTwo, PathsAreOverLiquidity, Fail

(* The quotes of makers, all under Native.                                     *)
FirmItems(fillable) ==
    {Item("v1", "Native", {}, TRUE, CutTo(c, fillable)) : c \in answer["v1"].quotes}
      \cup {Item("v2", "Native", {}, TRUE, c) : c \in answer["v2"].quotes}
IndicativeItems ==
    UNION {{Item(v, "Native", {}, FALSE, c) : c \in answer[v].quotes} : v \in Versions}

(* What makers quote is Native liquidity, and signed if the quote is firm.   *)
LEMMA MakerItems ==
    /\ \A fillable : \A i \in FirmItems(fillable) : i.signed /\ ItemSources(i) = {"Native"}
    /\ \A i \in IndicativeItems : ItemSources(i) = {"Native"}
<1>1. ASSUME NEW fillable, NEW i \in FirmItems(fillable)
      PROVE  i.signed /\ ItemSources(i) = {"Native"}
  <2>1. \E k, c : i = Item(k, "Native", {}, TRUE, c)
    BY <1>1 DEF FirmItems
  <2>. QED  BY <2>1 DEF Item, ItemSources
<1>2. ASSUME NEW i \in IndicativeItems
      PROVE  ItemSources(i) = {"Native"}
  <2>1. \E k, c : i = Item(k, "Native", {}, FALSE, c)
    BY <1>2 DEF IndicativeItems
  <2>. QED  BY <2>1 DEF Item, ItemSources
<1>. QED  BY <1>1, <1>2

-----------------------------------------------------------------------------
(* Before a request is read, the invariant of the sources holds.             *)
LEMMA SourcesInit == Init => SourcesInv
BY DEF Init, SourcesInv, LiquidityIsAllowed, PathsAreOverLiquidity, AskingIsAllowed, NoPath

(* Steps that neither add liquidity nor choose a path.                         *)
QuietStep ==
    \/ Block \/ Parse \/ NoGasPrice \/ GasPriceIsKnown \/ SamplerFails
    \/ \E v \in Versions : RfqAnswers(v) \/ RfqTimesOut(v) \/ RfqLacksList(v)
    \/ RfqBreaksQuote \/ NoQuotes \/ ValidatorFails \/ Encode

(* The other steps change neither liquidity nor paths, and do not begin to   *)
(* ask makers.                                                               *)
LEMMA QuietSteps ==
    ASSUME QuietStep
    PROVE  /\ UNCHANGED <<request, liquidity, phaseOne, result>>
           /\ pc' = "rfq" => pc = "rfq"
           /\ pc' \in {"parse", "gas", "orders"} => pc \in {"parse", "gas", "orders"}
BY DEF QuietStep, Block, Parse, NoGasPrice, GasPriceIsKnown, SamplerFails, RfqAnswers,
       RfqTimesOut, RfqLacksList, Answered, RfqBreaksQuote, NoQuotes, ValidatorFails,
       Encode, Fail

(* Every step finds liquidity, asks makers, or is quiet.                     *)
LEMMA NextSplits ==
    ASSUME [Next]_vars
    PROVE  \/ QuietStep \/ GetLimitOrders \/ PhaseOne \/ IndicativeQuotes \/ FirmQuotes
           \/ UNCHANGED vars
BY DEF Next, QuietStep, Done

(* Every step keeps the invariant of the sources.                            *)
LEMMA SourcesStep == SourcesInv /\ [Next]_vars => SourcesInv'
<1>. SUFFICES ASSUME SourcesInv, [Next]_vars PROVE SourcesInv'
  OBVIOUS
<1>. USE DEF SourcesInv, LiquidityIsAllowed, AskingIsAllowed
<1>1. CASE QuietStep
  <2>1. /\ UNCHANGED <<request, liquidity, phaseOne, result>> /\ (pc' = "rfq" => pc = "rfq")
        /\ pc' \in {"parse", "gas", "orders"} => pc \in {"parse", "gas", "orders"}
    BY <1>1, QuietSteps
  <2>. QED  BY <2>1, FiltersAreStable DEF PathsAreOverLiquidity
<1>2. CASE GetLimitOrders
  <2>1. /\ UNCHANGED <<request, phaseOne, result>> /\ pc = "orders" /\ pc' = "sampler"
    BY <1>2 DEF GetLimitOrders
  <2>2. PICK curves : /\ (~IsAllowed("Native") \/ NativeExclusivelyRFQ) => curves = {}
                      /\ liquidity' = {Item("limit", "Native", {}, TRUE, c) : c \in curves}
    BY <1>2 DEF GetLimitOrders
  <2>3. ASSUME NEW i \in liquidity', NEW s \in ItemSources(i) PROVE IsAllowed(s)
    <3>1. PICK c \in curves : i = Item("limit", "Native", {}, TRUE, c)
      BY <2>2, <2>3
    <3>2. s = "Native"
      BY <3>1, <2>3 DEF Item, ItemSources
    <3>3. IsAllowed("Native")
      <4>. HIDE DEF SourcesInv, LiquidityIsAllowed, AskingIsAllowed
      <4>1. curves # {}
        BY <3>1
      <4>. QED  BY <2>2, <4>1, Zenon
    <3>. QED  BY <3>2, <3>3, Zenon
  <2>. QED  BY <2>1, <2>3, FiltersAreStable DEF PathsAreOverLiquidity
<1>3. CASE PhaseOne
  <2>1. request' = request /\ phaseOne' \in BestPaths(liquidity', 0) /\ result' = phaseOne'
    BY <1>3 DEF PhaseOne
  <2>2. PICK curves, via, out :
          liquidity' = liquidity \cup DexItems(curves) \cup TwoHopItems(via, out)
    BY <1>3 DEF PhaseOne
  <2>3. \A i \in liquidity' : \A s \in ItemSources(i) : IsAllowed(s)
    BY <2>2, SampledItems
  <2>4. PathsAreOverLiquidity'
    BY <1>3, <2>1, BestPathsOverItems DEF PathsAreOverLiquidity, PhaseOne, Fail
  <2>5. pc' = "rfq" => IsAllowed("Native")
    BY <1>3 DEF PhaseOne, AsksMakers, Fail
  <2>. QED  BY <2>1, <2>3, <2>4, <2>5, FiltersAreStable
<1>4. ASSUME NEW quotes, PhaseTwo(quotes), pc = "rfq",
             \A i \in quotes : ItemSources(i) = {"Native"}
      PROVE  SourcesInv'
  <2>1. /\ request' = request /\ pc' # "rfq" /\ PathsAreOverLiquidity'
        /\ liquidity' = liquidity \cup quotes
    BY <1>4, PhaseTwoStep
  <2>2. \A i \in liquidity' : \A s \in ItemSources(i) : IsAllowed(s)
    BY <1>4, <2>1
  <2>. QED  BY <2>1, <2>2, FiltersAreStable
<1>5. CASE IndicativeQuotes
  <2>1. PhaseTwo(IndicativeItems) /\ pc = "rfq"
    BY <1>5 DEF IndicativeQuotes, IndicativeItems, HasQuotes, RfqIsIn
  <2>. QED  BY <2>1, <1>4, MakerItems
<1>6. CASE FirmQuotes
  <2>1. PICK fillable : PhaseTwo(FirmItems(fillable))
    BY <1>6 DEF FirmQuotes, FirmItems
  <2>2. pc = "rfq"
    BY <1>6 DEF FirmQuotes, HasQuotes, RfqIsIn
  <2>. QED  BY <2>1, <2>2, <1>4, MakerItems
<1>7. CASE UNCHANGED vars
  BY <1>7, FiltersAreStable DEF vars, PathsAreOverLiquidity
<1>. QED  BY <1>1, <1>2, <1>3, <1>5, <1>6, <1>7, NextSplits

(* What the filters let through is what the ids of the request ask for.        *)
LEMMA AllowedIsAskedFor ==
    ASSUME NEW s \in Sources, IsAllowed(s)
    PROVE  /\ s \in ChainSources
           /\ IdsOf(s) \cap request.excluded = {}
           /\ \/ request.included \cap (Sources \cup {"0x", "RFQT"}) = {}
              \/ IdsOf(s) \cap request.included # {}
              \/ s = "Native" /\ "RFQT" \in request.included
<1>. USE DEF IsAllowed, RequestAllows, ExcludedSources, IncludedSources, AsksForRfqt,
             ToSources, IdsOf
<1>1. s \in ChainSources
  OBVIOUS
<1>2. "Native" \in Sources
  BY DEF Sources
<1>3. IdsOf(s) \cap request.excluded = {}
  <2>1. s \notin ToSources(request.excluded)
    OBVIOUS
  <2>2. ASSUME NEW i \in IdsOf(s), i \in request.excluded PROVE FALSE
    <3>1. s = IF i = "0x" THEN "Native" ELSE i
      BY <2>2, ConstantsAssumption DEF Sources
    <3>. QED  BY <2>1, <2>2, <3>1
  <2>. QED  BY <2>2, Zenon
<1>4. ASSUME request.included \cap (Sources \cup {"0x", "RFQT"}) # {}
      PROVE  \/ IdsOf(s) \cap request.included # {}
             \/ s = "Native" /\ "RFQT" \in request.included
  <2>1. IncludedSources # {}
    BY <1>2, <1>4
  <2>2. s \in IncludedSources
    BY <2>1
  <2>. QED  BY <2>2
<1>. QED  BY <1>1, <1>3, <1>4

(* SourcesRespected: for every chain and every request, no fill and no hop of  *)
(* the path comes from a source that the chain does not offer or the request   *)
(* rules out (SourceFilters and its uses in getLimitOrders and                 *)
(* getOptimizerResultAsync).                                                   *)
THEOREM PathsRespectSources == Spec => []SourcesRespected
<1>1. SourcesInv => SourcesRespected
  <2>. SUFFICES ASSUME SourcesInv, NEW i \in DOMAIN result, NEW s \in {i.source} \cup i.via
                PROVE  /\ s \in ChainSources
                       /\ IdsOf(s) \cap request.excluded = {}
                       /\ \/ request.included \cap (Sources \cup {"0x", "RFQT"}) = {}
                          \/ IdsOf(s) \cap request.included # {}
                          \/ s = "Native" /\ "RFQT" \in request.included
    BY DEF SourcesRespected
  <2>1. IsAllowed(s)
    BY DEF SourcesInv, LiquidityIsAllowed, PathsAreOverLiquidity, ItemSources
  <2>2. s \in Sources
    BY <2>1, ConstantsAssumption DEF IsAllowed
  <2>. QED  BY <2>1, <2>2, AllowedIsAskedFor
<1>. QED  BY <1>1, SourcesInit, SourcesStep, PTL DEF Spec

-----------------------------------------------------------------------------
(* Before a request is read, the invariant of the signatures holds.          *)
LEMMA SignedInit == Init => SignedInv
BY DEF Init, SignedInv, IndicativeIsForPrices, UnsignedIsForPrices, PathsAreOverLiquidity,
       NoPath, RfqOff

(* Every step keeps it.                                                      *)
LEMMA SignedStep == SignedInv /\ [Next]_vars => SignedInv'
<1>. SUFFICES ASSUME SignedInv, [Next]_vars PROVE SignedInv'
  OBVIOUS
<1>. USE DEF SignedInv, IndicativeIsForPrices, UnsignedIsForPrices
<1>1. CASE GasPriceIsKnown
  <2>1. ServiceRfqt.indicative => request.endpoint = "price"
    BY DEF ServiceRfqt, HandlerRfqt
  <2>2. ValidateRfqt.indicative => request.endpoint = "price"
    BY <2>1 DEF ValidateRfqt, RfqOff
  <2>3. rfqt' = ValidateRfqt \/ rfqt' = rfqt
    BY <1>1 DEF GasPriceIsKnown
  <2>4. /\ UNCHANGED <<request, liquidity, phaseOne, result>>
        /\ pc' \in {"parse", "gas", "orders"} => pc \in {"parse", "gas", "orders"}
    BY <1>1, QuietSteps DEF QuietStep
  <2>. QED  BY <2>2, <2>3, <2>4 DEF PathsAreOverLiquidity
<1>2. CASE QuietStep /\ ~GasPriceIsKnown
  <2>1. /\ UNCHANGED <<request, liquidity, phaseOne, result>>
        /\ pc' \in {"parse", "gas", "orders"} => pc \in {"parse", "gas", "orders"}
    BY <1>2, QuietSteps
  <2>2. rfqt' = rfqt
    BY <1>2 DEF QuietStep, Block, Parse, NoGasPrice, SamplerFails, RfqAnswers, RfqTimesOut,
                RfqLacksList, Answered, RfqBreaksQuote, NoQuotes, ValidatorFails, Encode
  <2>. QED  BY <2>1, <2>2 DEF PathsAreOverLiquidity
<1>3. CASE GetLimitOrders
  <2>1. UNCHANGED <<request, rfqt, phaseOne, result>> /\ pc = "orders" /\ pc' = "sampler"
    BY <1>3 DEF GetLimitOrders
  <2>2. \A i \in liquidity' : i.signed
    BY <1>3 DEF GetLimitOrders, Item
  <2>. QED  BY <2>1, <2>2 DEF PathsAreOverLiquidity
<1>4. CASE PhaseOne
  <2>1. /\ UNCHANGED <<request, rfqt>>
        /\ phaseOne' \in BestPaths(liquidity', 0) /\ result' = phaseOne'
    BY <1>4 DEF PhaseOne
  <2>2. PICK curves, via, out :
          liquidity' = liquidity \cup DexItems(curves) \cup TwoHopItems(via, out)
    BY <1>4 DEF PhaseOne
  <2>3. \A i \in liquidity' : i.signed \/ request.endpoint = "price"
    BY <2>2, SampledItems
  <2>4. PathsAreOverLiquidity'
    BY <1>4, <2>1, BestPathsOverItems DEF PathsAreOverLiquidity, PhaseOne, Fail
  <2>. QED  BY <2>1, <2>3, <2>4
<1>5. ASSUME NEW quotes, PhaseTwo(quotes),
             \A i \in quotes : i.signed \/ request.endpoint = "price"
      PROVE  SignedInv'
  BY <1>5, PhaseTwoStep
<1>6. CASE IndicativeQuotes
  <2>1. PhaseTwo(IndicativeItems) /\ request.endpoint = "price"
    BY <1>6 DEF IndicativeQuotes, IndicativeItems
  <2>. QED  BY <2>1, <1>5
<1>7. CASE FirmQuotes
  <2>1. PICK fillable : PhaseTwo(FirmItems(fillable))
    BY <1>7 DEF FirmQuotes, FirmItems
  <2>. QED  BY <2>1, <1>5, MakerItems
<1>8. CASE UNCHANGED vars
  BY <1>8 DEF vars, PathsAreOverLiquidity
<1>. QED  BY <1>1, <1>2, <1>3, <1>4, <1>6, <1>7, <1>8, NextSplits

(* QuotesAreSigned: /quote never returns an indicative quote, for whatever     *)
(* keys, takers and answers of makers (rfqt.isIndicative).                     *)
THEOREM NoUnsignedQuote == Spec => []QuotesAreSigned
<1>1. SignedInv => QuotesAreSigned
  BY DEF SignedInv, UnsignedIsForPrices, PathsAreOverLiquidity, QuotesAreSigned
<1>. QED  BY <1>1, SignedInit, SignedStep, PTL DEF Spec
-----------------------------------------------------------------------------
(* The inductive invariant of a request that is not to reach the makers: RFQ   *)
(* stays off, nobody is asked, and nothing of a maker is found.                *)
MakersAreLeftOut ==
    /\ ~rfqt.on /\ pc # "rfq"
    /\ \A i \in liquidity : i.kind \notin Versions
    /\ PathsAreOverLiquidity

(* Requests that _validateRfqtOpts refuses in this state.                      *)
IsUnlisted == request.key # "rfqt"
HasTaker == request.taker # "none"
IsBlockedNow == HasTaker /\ blocked

(* The kinds of what the sampler returns.                                      *)
LEMMA SampledKinds ==
    ASSUME NEW curves, NEW via, NEW out
    PROVE  \A i \in DexItems(curves) \cup TwoHopItems(via, out) : i.kind \in {"dex", "twohop"}
BY DEF DexItems, TwoHopItems, Item

(* While the key is unlisted or the taker blocked, no step asks a maker.     *)
LEMMA LeftOutStep ==
    MakersAreLeftOut /\ (IsUnlisted \/ IsBlockedNow) /\ [Next]_vars => MakersAreLeftOut'
<1>. SUFFICES ASSUME MakersAreLeftOut, IsUnlisted \/ IsBlockedNow, [Next]_vars
              PROVE  MakersAreLeftOut'
  OBVIOUS
<1>. USE DEF MakersAreLeftOut
<1>1. CASE GasPriceIsKnown
  <2>1. ValidateRfqt = RfqOff
    BY DEF ValidateRfqt, IsUnlisted, IsBlockedNow, HasTaker
  <2>2. ~rfqt'.on
    BY <1>1, <2>1 DEF GasPriceIsKnown, RfqOff
  <2>3. /\ UNCHANGED <<liquidity, phaseOne, result>> /\ pc' # "rfq"
        /\ pc' \in {"parse", "gas", "orders"} => pc \in {"parse", "gas", "orders"}
    BY <1>1, QuietSteps DEF QuietStep
  <2>. QED  BY <2>2, <2>3 DEF PathsAreOverLiquidity
<1>2. CASE QuietStep /\ ~GasPriceIsKnown
  <2>1. /\ UNCHANGED <<liquidity, phaseOne, result>> /\ pc' # "rfq"
        /\ pc' \in {"parse", "gas", "orders"} => pc \in {"parse", "gas", "orders"}
    BY <1>2, QuietSteps
  <2>2. rfqt' = rfqt
    BY <1>2 DEF QuietStep, Block, Parse, NoGasPrice, SamplerFails, RfqAnswers, RfqTimesOut,
                RfqLacksList, Answered, RfqBreaksQuote, NoQuotes, ValidatorFails, Encode
  <2>. QED  BY <2>1, <2>2 DEF PathsAreOverLiquidity
<1>3. CASE GetLimitOrders
  <2>1. UNCHANGED <<rfqt, phaseOne, result>> /\ pc = "orders" /\ pc' = "sampler"
    BY <1>3 DEF GetLimitOrders
  <2>2. \A i \in liquidity' : i.kind = "limit"
    BY <1>3 DEF GetLimitOrders, Item
  <2>. QED  BY <2>1, <2>2 DEF PathsAreOverLiquidity, Versions
<1>4. CASE PhaseOne
  <2>1. /\ rfqt' = rfqt /\ pc' # "rfq"
        /\ phaseOne' \in BestPaths(liquidity', 0) /\ result' = phaseOne'
    BY <1>4 DEF PhaseOne, AsksMakers, Fail
  <2>2. PICK curves, via, out :
          liquidity' = liquidity \cup DexItems(curves) \cup TwoHopItems(via, out)
    BY <1>4 DEF PhaseOne
  <2>3. \A i \in liquidity' : i.kind \notin Versions
    BY <2>2, SampledKinds DEF Versions
  <2>4. PathsAreOverLiquidity'
    BY <1>4, <2>1, BestPathsOverItems DEF PathsAreOverLiquidity, PhaseOne, Fail
  <2>. QED  BY <2>1, <2>3, <2>4
<1>5. CASE IndicativeQuotes \/ FirmQuotes
  BY <1>5 DEF IndicativeQuotes, FirmQuotes, HasQuotes, RfqIsIn
<1>6. CASE UNCHANGED vars
  BY <1>6 DEF vars, PathsAreOverLiquidity
<1>. QED  BY <1>1, <1>2, <1>3, <1>4, <1>5, <1>6, NextSplits

(* MakersOnlyForListed: whatever else changes under way, a request without the *)
(* key of an RFQ integrator, or for a taker that stays blocked, is not filled  *)
(* by a maker (_validateRfqtOpts decides once, after the gas price is known).  *)
THEOREM UnlistedGetNoMakers == Spec => MakersOnlyForListed
<1>1. Init => MakersAreLeftOut
  BY DEF Init, MakersAreLeftOut, RfqOff, PathsAreOverLiquidity, NoPath
<1>2. [Next]_vars => request' = request
  <2>. SUFFICES ASSUME [Next]_vars PROVE request' = request
    OBVIOUS
  <2>1. QuietStep => request' = request
    BY QuietSteps
  <2>2. GetLimitOrders \/ PhaseOne \/ IndicativeQuotes \/ FirmQuotes \/ UNCHANGED vars
          => request' = request
    BY DEF GetLimitOrders, PhaseOne, IndicativeQuotes, FirmQuotes, PhaseTwo, vars
  <2>. QED  BY <2>1, <2>2, NextSplits
<1>3. [Next]_vars /\ IsUnlisted => IsUnlisted'
  BY <1>2 DEF IsUnlisted
<1>4. [Next]_vars /\ HasTaker => HasTaker'
  BY <1>2 DEF HasTaker
<1>5. HasTaker /\ blocked => IsBlockedNow
  BY DEF IsBlockedNow
<1>6. (IsUnlisted <=> request.key # "rfqt") /\ (HasTaker <=> request.taker # "none")
  BY DEF IsUnlisted, HasTaker
<1>7. MakersAreLeftOut => MakerFills = {}
  BY DEF MakersAreLeftOut, MakerFills, PathsAreOverLiquidity
<1>. QED  BY <1>1, <1>3, <1>4, <1>5, <1>6, <1>7, LeftOutStep, PTL DEF Spec, MakersOnlyForListed
-----------------------------------------------------------------------------
(* Routing.  A path goes over finitely many items with curves, so that what it *)
(* takes and gives are numbers.                                                *)
HaveCurves(items) == IsFiniteSet(items) /\ \A i \in items : i.curve \in Curves

(* A path takes a number of units of each of finitely many items.            *)
LEMMA PathOverItems ==
    ASSUME NEW items, HaveCurves(items), NEW p \in PathsOver(items)
    PROVE  /\ IsFiniteSet(DOMAIN p) /\ DOMAIN p \subseteq items
           /\ \A i \in DOMAIN p : p[i] \in Units /\ i.curve[p[i]] \in Nat
<1>1. PICK S \in SUBSET items : p \in [S -> Units]
  BY DEF PathsOver
<1>2. IsFiniteSet(S)
  BY FS_Subset DEF HaveCurves
<1>3. ASSUME NEW i \in S PROVE p[i] \in Units /\ i.curve[p[i]] \in Nat
  <2>1. i.curve \in [Units -> Nat] /\ p[i] \in Units
    BY <1>1 DEF HaveCurves, Curves
  <2>. QED  BY <2>1
<1>. QED  BY <1>1, <1>2, <1>3

(* The units of a path and what they give are sums, which are folds over the *)
(* items of the path.                                                        *)
First(s) == CHOOSE x \in s : TRUE
AddTerm(f, x, sum) == f[x] + sum
Sums == INSTANCE FoldTheorems WITH Op <- AddTerm, Choose <- First

LEMMA SumIsFold ==
    ASSUME NEW f, NEW S, IsFiniteSet(S)
    PROVE  /\ SumFunctionOnSet(f, S) = Sums!Fold(f, 0, S)
           /\ Sums!HasMinima(S) /\ Sums!Chooses(S)
<1>1. SumFunctionOnSet(f, S) = Sums!Fold(f, 0, S)
  BY DEF SumFunctionOnSet, FoldFunctionOnSet, MapThenFoldSet, Sums!Fold, Sums!AreFolds, First, AddTerm
<1>2. Sums!HasMinima(S)
  <2>1. IsWellFoundedOn(StrictSubsetOrdering(S), SUBSET S)
    BY FS_StrictSubsetOrderingWellFounded, FS_FiniteSubsetsOfFinite
  <2>. SUFFICES ASSUME NEW B \in SUBSET (SUBSET S), B # {}
                PROVE  \E T \in B : \A U \in B : U \subseteq T => U = T
    BY DEF Sums!HasMinima
  <2>2. PICK T \in B : \A U \in B : ~ (<<U, T>> \in StrictSubsetOrdering(S))
    BY <2>1, WFMin
  <2>. QED  BY <2>2 DEF StrictSubsetOrdering
<1>3. Sums!Chooses(S)
  BY DEF Sums!Chooses, First
<1>. QED  BY <1>1, <1>2, <1>3

(* The sum over nothing is 0, and that of one term is the term.              *)
LEMMA SumOfNothing == \A f : SumFunctionOnSet(f, {}) = 0
<1>. TAKE f
<1>1. SumFunctionOnSet(f, {}) = Sums!Fold(f, 0, {}) /\ Sums!HasMinima({}) /\ Sums!Chooses({})
  BY SumIsFold, FS_EmptySet
<1>. QED  BY <1>1, Sums!FoldUnfolds

LEMMA SumOfOne ==
    ASSUME NEW f, NEW x, f[x] \in Int
    PROVE  SumFunctionOnSet(f, {x}) = f[x]
<1>1. SumFunctionOnSet(f, {x}) = Sums!Fold(f, 0, {x}) /\ Sums!HasMinima({x}) /\ Sums!Chooses({x})
  BY SumIsFold, FS_Singleton
<1>2. Sums!Fold(f, 0, {x}) = IF {x} = {} THEN 0 ELSE AddTerm(f, First({x}), Sums!Fold(f, 0, {x} \ {First({x})}))
  BY <1>1, Sums!FoldUnfolds
<1>3. First({x}) = x /\ {x} \ {First({x})} = {}
  BY DEF First
<1>4. SumFunctionOnSet(f, {}) = Sums!Fold(f, 0, {}) /\ Sums!HasMinima({}) /\ Sums!Chooses({})
  BY SumIsFold, FS_EmptySet
<1>. QED  BY <1>1, <1>2, <1>3, <1>4, SumOfNothing DEF AddTerm

(* A sum of natural numbers is one.                                          *)
LEMMA SumIsNat ==
    ASSUME NEW f, NEW S, IsFiniteSet(S), \A x \in S : f[x] \in Nat
    PROVE  SumFunctionOnSet(f, S) \in Nat
<1>1. SumFunctionOnSet(f, S) = Sums!Fold(f, 0, S) /\ Sums!HasMinima(S) /\ Sums!Chooses(S)
  BY SumIsFold
<1>2. \A x \in S, y \in Nat : AddTerm(f, x, y) \in Nat
  BY DEF AddTerm
<1>3. 0 \in Nat
  OBVIOUS
<1>4. Sums!Fold(f, 0, S) \in Nat
  BY <1>1, <1>2, <1>3, Sums!FoldIsWithin
<1>. QED  BY <1>1, <1>4

(* What a path gives is a number, and not negative unless the gas of a pool  *)
(* is taken off.                                                             *)
LEMMA OutputIsInt ==
    ASSUME NEW items, HaveCurves(items), NEW p \in PathsOver(items), NEW penalty \in Nat
    PROVE  /\ Output(p, penalty) \in Int
           /\ (\A i \in DOMAIN p : i.kind \notin {"dex", "twohop"}) => Output(p, penalty) \in Nat
<1>. DEFINE outputs == [i \in DOMAIN p |-> i.curve[p[i]]]
            pools == {i \in DOMAIN p : i.kind \in {"dex", "twohop"}}
<1>1. IsFiniteSet(DOMAIN p) /\ \A i \in DOMAIN p : outputs[i] \in Nat
  BY PathOverItems
<1>2. SumFunction(outputs) \in Nat
  <2>1. DOMAIN outputs = DOMAIN p
    OBVIOUS
  <2>. HIDE DEF outputs
  <2>2. SumFunctionOnSet(outputs, DOMAIN p) \in Nat
    BY <1>1, SumIsNat
  <2>. QED  BY <2>1, <2>2 DEF SumFunction
<1>3. Cardinality(pools) \in Nat
  <2>1. pools \in SUBSET DOMAIN p
    OBVIOUS
  <2>. HIDE DEF pools
  <2>2. IsFiniteSet(pools)
    BY <1>1, <2>1, FS_Subset
  <2>. QED  BY <2>2, FS_CardinalityType
<1>4. (\A i \in DOMAIN p : i.kind \notin {"dex", "twohop"}) => Cardinality(pools) = 0
  BY FS_EmptySet
<1>5. Output(p, penalty) = SumFunction(outputs) - penalty * Cardinality(pools)
  BY DEF Output
<1>. HIDE DEF outputs, pools
<1>6. ASSUME NEW n \in Nat, NEW k \in Nat
      PROVE  n - penalty * k \in Int /\ (k = 0 => n - penalty * k \in Nat)
  OBVIOUS
<1>. QED  BY <1>2, <1>3, <1>4, <1>5, <1>6

(* No units go over no items, and nothing comes out.                           *)
LEMMA NoPathIsEmpty ==
    /\ DOMAIN NoPath = {} /\ Input(NoPath) = 0
    /\ \A items : NoPath \in PathsOver(items)
    /\ Output(NoPath, Penalty) = 0
<1>1. DOMAIN NoPath = {}
  BY DEF NoPath
<1>2. Input(NoPath) = 0
  BY <1>1, SumOfNothing DEF Input, SumFunction
<1>3. NoPath \in [{} -> Units]
  BY DEF NoPath
<1>4. \A items : NoPath \in PathsOver(items)
  BY <1>3 DEF PathsOver
<1>5. Output(NoPath, Penalty) = 0
  <2>1. DOMAIN [i \in DOMAIN NoPath |-> i.curve[NoPath[i]]] = {}
    BY <1>1
  <2>2. SumFunction([i \in DOMAIN NoPath |-> i.curve[NoPath[i]]]) = 0
    BY <2>1, SumOfNothing DEF SumFunction
  <2>3. {i \in DOMAIN NoPath : i.kind \in {"dex", "twohop"}} = {}
    BY <1>1
  <2>4. Output(NoPath, Penalty) = 0 - Penalty * 0
    BY <2>2, <2>3, FS_EmptySet DEF Output
  <2>. QED  BY <2>4, ConstantsAssumption
<1>. QED  BY <1>1, <1>2, <1>4, <1>5

(* Whether something is a path does not depend on what else is offered.        *)
LEMMA PathOfOthers ==
    ASSUME NEW items, NEW others, NEW p \in Paths(items), DOMAIN p \subseteq others
    PROVE  p \in Paths(others)
<1>1. PICK S \in SUBSET items : p \in [S -> Units]
  BY DEF Paths, PathsOver
<1>2. S \in SUBSET others
  BY <1>1
<1>3. p \in PathsOver(others)
  BY <1>1, <1>2 DEF PathsOver
<1>. QED  BY <1>3 DEF Paths

(* An item that fills the whole amount is a path by itself.                    *)
LEMMA PathOfOne ==
    ASSUME NEW items, NEW i \in items, i.curve[Amount] > 0
    PROVE  Paths(items) # {}
<1>. DEFINE p == [j \in {i} |-> Amount]
<1>1. Amount \in Units /\ Amount \in Int
  BY ConstantsAssumption DEF Units
<1>2. DOMAIN p = {i} /\ p[i] = Amount /\ p \in [{i} -> Units]
  BY <1>1
<1>. HIDE DEF p
<1>3. p \in PathsOver(items)
  BY <1>2 DEF PathsOver
<1>4. Input(p) = Amount
  BY <1>1, <1>2, SumOfOne DEF Input, SumFunction
<1>. QED  BY <1>2, <1>3, <1>4 DEF Paths

(* The router's best path is one, unless there is none, and none is better.  *)
LEMMA BestPathIsPath ==
    ASSUME NEW items, NEW penalty, NEW p \in BestPaths(items, penalty)
    PROVE  /\ p = NoPath <=> Paths(items) = {}
           /\ p # NoPath => p \in Paths(items)
           /\ \A q \in Paths(items) : Output(q, penalty) <= Output(p, penalty)
           /\ p \in PathsOver(items)
<1>1. NoPath \notin Paths(items)
  BY NoPathIsEmpty, ConstantsAssumption DEF Paths
<1>2. Paths(items) \subseteq PathsOver(items)
  BY DEF Paths
<1>. QED  BY <1>1, <1>2, NoPathIsEmpty DEF BestPaths

-----------------------------------------------------------------------------
(* The inductive invariant.  What is found has curves, a dex quote names the   *)
(* one source that it is of, and a two-hop gives something for the amount; the *)
(* makers have sent curves; and while they are waited for, the result is a     *)
(* best path over what was found.                                              *)
LiquidityIsRoutable ==
    /\ HaveCurves(liquidity)
    /\ \A i \in liquidity : /\ i.kind = "dex" => i.via = {i.source}
                            /\ i.kind = "twohop" => i.curve[Amount] > 0
QuotesHaveCurves ==
    /\ DOMAIN answer = Versions
    /\ \A v \in Versions : answer[v].quotes \in AtMostOne(OrderCurves)
PhaseOneStands ==
    pc = "rfq" => phaseOne \in BestPaths(liquidity, 0) /\ result = phaseOne
RouteInv ==
    /\ LiquidityIsRoutable /\ QuotesHaveCurves /\ PhaseOneStands
    /\ pc # "done" => outcome # "noPath"
    /\ PathIsNotLost

(* Items with price curves remain so when more of them are added.            *)
LEMMA HaveCurvesUnion ==
    ASSUME NEW items, NEW more, HaveCurves(items), HaveCurves(more)
    PROVE  HaveCurves(items \cup more)
BY FS_Union DEF HaveCurves

(* So is a single item with a price curve.                                   *)
LEMMA OneHasCurve ==
    ASSUME NEW i, i.curve \in Curves
    PROVE  HaveCurves({i})
BY FS_Singleton DEF HaveCurves

(* Orders for at most one curve, cut or not.                                   *)
LEMMA FewOrders ==
    ASSUME NEW kind, NEW signed, NEW curves \in AtMostOne(OrderCurves)
    PROVE  HaveCurves({Item(kind, "Native", {}, signed, c) : c \in curves})
<1>. DEFINE item(c) == Item(kind, "Native", {}, signed, c)
<1>1. CASE curves = {}
  BY <1>1, FS_EmptySet DEF HaveCurves
<1>2. ASSUME NEW c \in OrderCurves, curves = {c}
      PROVE  HaveCurves({item(d) : d \in curves})
  <2>1. {item(d) : d \in curves} = {item(c)}
    BY <1>2
  <2>2. item(c).curve \in Curves
    BY ConstantsAssumption DEF Item
  <2>. HIDE DEF item
  <2>. QED  BY <2>1, <2>2, OneHasCurve
<1>. QED  BY <1>1, <1>2 DEF AtMostOne

(* So are the makers' orders, cut to what can be filled.                     *)
LEMMA FewOrdersCut ==
    ASSUME NEW curves \in AtMostOne(OrderCurves), NEW cut
    PROVE  HaveCurves({Item("v1", "Native", {}, TRUE, CutTo(c, cut)) : c \in curves})
<1>. DEFINE item(c) == Item("v1", "Native", {}, TRUE, CutTo(c, cut))
<1>1. CASE curves = {}
  BY <1>1, FS_EmptySet DEF HaveCurves
<1>2. ASSUME NEW c \in OrderCurves, curves = {c}
      PROVE  HaveCurves({item(d) : d \in curves})
  <2>1. {item(d) : d \in curves} = {item(c)}
    BY <1>2
  <2>2. c \in [Units -> Nat]
    BY ConstantsAssumption DEF Curves
  <2>3. ASSUME NEW u \in Units PROVE (IF u <= cut THEN c[u] ELSE 0) \in Nat
    BY <2>2
  <2>4. CutTo(c, cut) \in [Units -> Nat]
    BY <2>3 DEF CutTo
  <2>5. item(c).curve \in Curves
    BY <2>4 DEF Item, Curves
  <2>. HIDE DEF item
  <2>. QED  BY <2>1, <2>5, OneHasCurve
<1>. QED  BY <1>1, <1>2 DEF AtMostOne

(* What the sampler finds.                                                     *)
LEMMA SampledIsRoutable ==
    ASSUME NEW curves \in [Dexes -> DexCurves], NEW via, NEW out \in HopOutputs
    PROVE  LET items == DexItems(curves) \cup TwoHopItems(via, out)
           IN  /\ HaveCurves(items)
               /\ \A i \in items : /\ i.kind = "dex" => i.via = {i.source}
                                   /\ i.kind = "twohop" => i.curve[Amount] > 0
<1>. DEFINE chosen == {e \in Dexes : IsAllowed(e) /\ curves[e] # NoLiquidity}
            item(d) == Item("dex", d, {d}, TRUE, curves[d])
<1>1. HaveCurves(DexItems(curves))
  <2>1. IsFiniteSet(chosen)
    BY ConstantsAssumption, FS_Subset
  <2>2. [d \in chosen |-> item(d)] \in Surjection(chosen, DexItems(curves))
    BY DEF Surjection, DexItems
  <2>. HIDE DEF chosen
  <2>3. IsFiniteSet(DexItems(curves))
    BY <2>1, <2>2, FS_Surjection
  <2>4. \A d \in chosen : curves[d] \in Curves
    BY ConstantsAssumption DEF chosen
  <2>5. \A i \in DexItems(curves) : i.curve \in Curves
    BY <2>4 DEF DexItems, Item, chosen
  <2>. QED  BY <2>3, <2>5 DEF HaveCurves
<1>2. \A i \in DexItems(curves) : i.kind = "dex" /\ i.via = {i.source}
  BY DEF DexItems, Item
<1>. DEFINE hops == [u \in Units |-> IF u = Amount THEN out ELSE 0]
<1>3. /\ hops \in Curves /\ hops[Amount] = out
      /\ TwoHopItems(via, out) = {} \/ (out > 0 /\ TwoHopItems(via, out) = {Item("twohop", "MultiHop", via, TRUE, hops)})
  <2>1. Amount \in Units /\ out \in Nat
    BY ConstantsAssumption DEF Units
  <2>2. hops \in Curves /\ hops[Amount] = out
    BY <2>1 DEF Curves
  <2>3. \/ TwoHopItems(via, out) = {}
        \/ out > 0 /\ TwoHopItems(via, out) = {Item("twohop", "MultiHop", via, TRUE, hops)}
    BY DEF TwoHopItems
  <2>. QED  BY <2>2, <2>3
<1>. HIDE DEF hops
<1>4. HaveCurves(TwoHopItems(via, out))
  <2>1. HaveCurves({})
    BY FS_EmptySet DEF HaveCurves
  <2>2. HaveCurves({Item("twohop", "MultiHop", via, TRUE, hops)})
    <3>1. Item("twohop", "MultiHop", via, TRUE, hops).curve \in Curves
      BY <1>3 DEF Item
    <3>. QED  BY <3>1, OneHasCurve
  <2>. QED  BY <1>3, <2>1, <2>2
<1>5. \A i \in TwoHopItems(via, out) : i.kind = "twohop" /\ i.curve[Amount] > 0
  BY <1>3 DEF Item
<1>. QED  BY <1>1, <1>2, <1>4, <1>5, HaveCurvesUnion

(* The quotes of makers have curves, and are neither pools nor two-hops.       *)
LEMMA MakerItemsAreRoutable ==
    ASSUME QuotesHaveCurves
    PROVE  /\ HaveCurves(IndicativeItems) /\ \A i \in IndicativeItems : i.kind \in Versions
           /\ \A fillable : /\ HaveCurves(FirmItems(fillable))
                            /\ \A i \in FirmItems(fillable) : i.kind \in Versions
<1>1. answer["v1"].quotes \in AtMostOne(OrderCurves) /\ answer["v2"].quotes \in AtMostOne(OrderCurves)
  BY DEF QuotesHaveCurves, Versions
<1>2. HaveCurves(IndicativeItems)
  <2>1. IndicativeItems = {Item("v1", "Native", {}, FALSE, c) : c \in answer["v1"].quotes}
                           \cup {Item("v2", "Native", {}, FALSE, c) : c \in answer["v2"].quotes}
    BY DEF IndicativeItems, Versions
  <2>2. \A v \in Versions : HaveCurves({Item(v, "Native", {}, FALSE, c) : c \in answer[v].quotes})
    BY FewOrders DEF QuotesHaveCurves
  <2>. QED  BY <2>1, <2>2, HaveCurvesUnion DEF Versions
<1>3. ASSUME NEW fillable PROVE HaveCurves(FirmItems(fillable))
  <2>1. HaveCurves({Item("v1", "Native", {}, TRUE, CutTo(c, fillable)) : c \in answer["v1"].quotes})
    BY <1>1, FewOrdersCut
  <2>2. HaveCurves({Item("v2", "Native", {}, TRUE, c) : c \in answer["v2"].quotes})
    BY <1>1, FewOrders
  <2>. QED  BY <2>1, <2>2, HaveCurvesUnion DEF FirmItems
<1>4. \A i \in IndicativeItems : i.kind \in Versions
  BY DEF IndicativeItems, Item
<1>5. \A fillable : \A i \in FirmItems(fillable) : i.kind \in Versions
  BY DEF FirmItems, Item, Versions
<1>. QED  BY <1>2, <1>3, <1>4, <1>5

(* Phase 2 routes over the path of phase 1.                                    *)
LEMMA PhaseTwoKeepsPath ==
    ASSUME LiquidityIsRoutable, NEW quotes,
           phaseOne \in BestPaths(liquidity, 0)
    PROVE  DOMAIN phaseOne \subseteq PhaseTwoLiquidity(quotes)
<1>. SUFFICES ASSUME NEW i \in DOMAIN phaseOne PROVE i \in PhaseTwoLiquidity(quotes)
  OBVIOUS
<1>1. i \in liquidity
  BY BestPathsOverItems
<1>2. i.kind = "dex" => i.source \in PhaseOneSources
  BY <1>1 DEF LiquidityIsRoutable, PhaseOneSources
<1>. QED  BY <1>1, <1>2 DEF PhaseTwoLiquidity

(* Without a path in phase 1 there is no two-hop, and no dex is left.          *)
LEMMA PhaseTwoWithoutPath ==
    ASSUME LiquidityIsRoutable, NEW quotes, \A i \in quotes : i.kind \in Versions,
           phaseOne \in BestPaths(liquidity, 0), phaseOne = NoPath
    PROVE  \A i \in PhaseTwoLiquidity(quotes) : i.kind \notin {"dex", "twohop"}
<1>1. Paths(liquidity) = {}
  BY BestPathIsPath
<1>2. \A i \in liquidity : i.kind # "twohop"
  BY <1>1, PathOfOne DEF LiquidityIsRoutable
<1>3. PhaseOneSources = {}
  BY NoPathIsEmpty DEF PhaseOneSources
<1>. QED  BY <1>2, <1>3 DEF PhaseTwoLiquidity, Versions

(* Routing again with the makers' quotes keeps the invariant of the route.   *)
LEMMA PhaseTwoLosesNothing ==
    ASSUME RouteInv, pc = "rfq", NEW quotes, PhaseTwo(quotes),
           HaveCurves(quotes), \A i \in quotes : i.kind \in Versions
    PROVE  RouteInv'
<1>. DEFINE items == PhaseTwoLiquidity(quotes)
<1>1. phaseOne \in BestPaths(liquidity, 0) /\ result' \in BestPaths(items, Penalty)
  BY DEF RouteInv, PhaseOneStands, PhaseTwo
<1>2. /\ liquidity' = liquidity \cup quotes /\ answer' = answer /\ phaseOne' = phaseOne
      /\ IF result' = NoPath THEN pc' = "done" /\ outcome' = "noPath"
         ELSE pc' = "encode" /\ outcome' = outcome
  BY DEF PhaseTwo, Fail
<1>3. LiquidityIsRoutable /\ QuotesHaveCurves /\ outcome # "noPath"
  BY DEF RouteInv
<1>4. LiquidityIsRoutable'
  BY <1>2, <1>3, HaveCurvesUnion DEF LiquidityIsRoutable, Versions
<1>5. HaveCurves(items)
  <2>1. items \subseteq liquidity \cup quotes
    BY DEF PhaseTwoLiquidity
  <2>2. HaveCurves(liquidity \cup quotes)
    BY <1>3, HaveCurvesUnion DEF LiquidityIsRoutable
  <2>. HIDE DEF items
  <2>. QED  BY <2>1, <2>2, FS_Subset DEF HaveCurves
<1>6. /\ result' = NoPath <=> Paths(items) = {}
      /\ \A q \in Paths(items) : Output(q, Penalty) <= Output(result', Penalty)
      /\ result' \in PathsOver(items)
  BY <1>1, BestPathIsPath
<1>7. CASE phaseOne # NoPath
  <2>1. phaseOne \in Paths(liquidity)
    BY <1>1, <1>7, BestPathIsPath
  <2>2. phaseOne \in Paths(items)
    BY <1>1, <1>3, <2>1, PhaseTwoKeepsPath, PathOfOthers
  <2>3. result' # NoPath /\ Output(phaseOne, Penalty) <= Output(result', Penalty)
    BY <1>6, <2>2
  <2>4. PathIsNotLost'
    BY <1>2, <1>3, <2>3 DEF PathIsNotLost
  <2>. QED  BY <1>2, <1>3, <1>4, <2>3, <2>4 DEF RouteInv, QuotesHaveCurves, PhaseOneStands
<1>8. CASE phaseOne = NoPath
  <2>1. \A i \in items : i.kind \notin {"dex", "twohop"}
    BY <1>1, <1>3, <1>8, PhaseTwoWithoutPath
  <2>2. DOMAIN result' \subseteq items
    BY <1>1, BestPathsOverItems
  <2>3. Output(result', Penalty) \in Nat
    <3>. HIDE DEF items
    <3>. QED  BY <1>5, <1>6, <2>1, <2>2, OutputIsInt, ConstantsAssumption
  <2>4. Output(phaseOne, Penalty) = 0
    BY <1>8, NoPathIsEmpty
  <2>5. PathIsNotLost'
    BY <1>2, <1>8, <2>3, <2>4 DEF PathIsNotLost
  <2>. QED  BY <1>2, <1>3, <1>4, <2>5 DEF RouteInv, QuotesHaveCurves, PhaseOneStands
<1>. QED  BY <1>7, <1>8

(* Before a request is read, the invariant of the route holds.               *)
LEMMA RouteInit == Init => RouteInv
<1>. SUFFICES ASSUME Init PROVE RouteInv
  OBVIOUS
<1>1. LiquidityIsRoutable
  BY FS_EmptySet DEF Init, LiquidityIsRoutable, HaveCurves
<1>2. QuotesHaveCurves
  BY DEF Init, QuotesHaveCurves, AtMostOne, Answer
<1>. QED  BY <1>1, <1>2 DEF Init, RouteInv, PhaseOneStands, PathIsNotLost

(* Steps that change neither what was found nor the path.                      *)
LEMMA RouteQuiet ==
    ASSUME RouteInv, UNCHANGED <<liquidity, phaseOne, result>>, QuotesHaveCurves',
           pc' = "rfq" => pc = "rfq", pc' = "encode" => pc = "encode",
           (outcome' = outcome /\ pc # "done") \/ outcome' # "noPath" \/ UNCHANGED <<outcome, pc>>
    PROVE  RouteInv'
BY DEF RouteInv, LiquidityIsRoutable, HaveCurves, PhaseOneStands, PathIsNotLost

(* A path is no worse than itself.                                             *)
LEMMA OutputOfBest ==
    ASSUME NEW items, HaveCurves(items), NEW p \in BestPaths(items, 0)
    PROVE  Output(p, Penalty) >= Output(p, Penalty)
<1>1. Output(p, Penalty) \in Int
  BY BestPathIsPath, OutputIsInt, ConstantsAssumption
<1>. QED  BY <1>1

(* Every step keeps it.                                                      *)
LEMMA RouteStep == RouteInv /\ [Next]_vars => RouteInv'
<1>. SUFFICES ASSUME RouteInv, [Next]_vars PROVE RouteInv'
  OBVIOUS
<1>1. CASE Block \/ Parse \/ NoGasPrice \/ GasPriceIsKnown \/ SamplerFails
           \/ RfqBreaksQuote \/ ValidatorFails \/ Encode
  <2>1. /\ UNCHANGED <<liquidity, phaseOne, result, answer>>
        /\ pc' = "rfq" => pc = "rfq"
        /\ pc' = "encode" => pc = "encode"
        /\ (outcome' = outcome /\ pc # "done") \/ outcome' # "noPath"
    BY <1>1 DEF Block, Parse, NoGasPrice, GasPriceIsKnown, SamplerFails, RfqBreaksQuote, RfqIsIn,
                ValidatorFails, HasQuotes, Encode, Fail
  <2>. QED  BY <2>1, RouteQuiet DEF RouteInv, QuotesHaveCurves
<1>2. ASSUME NEW v \in Versions, RfqAnswers(v) \/ RfqTimesOut(v) \/ RfqLacksList(v)
      PROVE  RouteInv'
  <2>1. PICK a : Answered(v, a) /\ a.quotes \in AtMostOne(OrderCurves)
    <3>1. \A state, quotes : Answer(state, quotes).quotes = quotes
      BY DEF Answer
    <3>2. {} \in AtMostOne(OrderCurves)
      BY DEF AtMostOne
    <3>3. PICK state \in {"list", "undefined"}, quotes \in AtMostOne(OrderCurves) :
            Answered(v, Answer(state, quotes))
      BY <1>2, <3>2, Zenon DEF RfqAnswers, RfqTimesOut, RfqLacksList
    <3>. QED  BY <3>1, <3>3
  <2>2. QuotesHaveCurves'
    BY <2>1 DEF Answered, RouteInv, QuotesHaveCurves
  <2>. QED  BY <2>1, <2>2, RouteQuiet DEF Answered
<1>3. CASE GetLimitOrders
  <2>1. PICK curves \in AtMostOne(OrderCurves) :
          liquidity' = {Item("limit", "Native", {}, TRUE, c) : c \in curves}
    BY <1>3 DEF GetLimitOrders
  <2>2. HaveCurves(liquidity')
    BY <2>1, FewOrders
  <2>3. \A i \in liquidity' : i.kind = "limit"
    BY <2>1 DEF Item
  <2>4. LiquidityIsRoutable'
    BY <2>2, <2>3 DEF LiquidityIsRoutable, HaveCurves
  <2>. QED  BY <1>3, <2>4 DEF GetLimitOrders, RouteInv, QuotesHaveCurves, PhaseOneStands, PathIsNotLost
<1>4. CASE PhaseOne
  <2>1. PICK curves \in [Dexes -> DexCurves], via \in SUBSET Dexes, out \in HopOutputs :
          liquidity' = liquidity \cup DexItems(curves) \cup TwoHopItems(via, out)
    BY <1>4 DEF PhaseOne
  <2>. DEFINE items == DexItems(curves) \cup TwoHopItems(via, out)
  <2>2. /\ HaveCurves(items)
        /\ \A i \in items : /\ i.kind = "dex" => i.via = {i.source}
                            /\ i.kind = "twohop" => i.curve[Amount] > 0
    BY SampledIsRoutable
  <2>3. liquidity' = liquidity \cup items
    BY <2>1
  <2>. HIDE DEF items
  <2>4. HaveCurves(liquidity')
    BY <2>2, <2>3, HaveCurvesUnion DEF RouteInv, LiquidityIsRoutable
  <2>5. LiquidityIsRoutable'
    BY <2>2, <2>3, <2>4 DEF RouteInv, LiquidityIsRoutable, HaveCurves
  <2>6. phaseOne' \in BestPaths(liquidity', 0) /\ result' = phaseOne'
    BY <1>4 DEF PhaseOne
  <2>7. QuotesHaveCurves'
    BY <1>4 DEF PhaseOne, RouteInv, QuotesHaveCurves, Answer, AtMostOne
  <2>8. Output(phaseOne', Penalty) >= Output(phaseOne', Penalty)
    BY <2>4, <2>6, OutputOfBest
  <2>9. PathIsNotLost'
    BY <1>4, <2>6, <2>8 DEF PhaseOne, PathIsNotLost, RouteInv, Fail
  <2>10. pc' # "done" => outcome' # "noPath"
    BY <1>4 DEF PhaseOne, RouteInv, Fail
  <2>. QED  BY <2>5, <2>6, <2>7, <2>9, <2>10 DEF RouteInv, PhaseOneStands
<1>5. CASE NoQuotes
  <2>1. pc = "rfq" /\ UNCHANGED <<liquidity, phaseOne, result, answer>>
    BY <1>5 DEF NoQuotes, RfqIsIn
  <2>2. phaseOne \in BestPaths(liquidity, 0) /\ result = phaseOne /\ HaveCurves(liquidity)
    BY <2>1 DEF RouteInv, PhaseOneStands, LiquidityIsRoutable
  <2>3. Output(phaseOne, Penalty) >= Output(phaseOne, Penalty)
    BY <2>2, OutputOfBest
  <2>4. \/ result = NoPath /\ pc' = "done" /\ outcome' = "noPath"
        \/ pc' = "encode" /\ outcome' = outcome
    BY <1>5 DEF NoQuotes, Fail
  <2>. QED  BY <2>1, <2>2, <2>3, <2>4 DEF RouteInv, LiquidityIsRoutable, HaveCurves,
                QuotesHaveCurves, PhaseOneStands, PathIsNotLost
<1>6. CASE IndicativeQuotes
  <2>1. PhaseTwo(IndicativeItems) /\ pc = "rfq"
    BY <1>6 DEF IndicativeQuotes, IndicativeItems, HasQuotes, RfqIsIn
  <2>. QED  BY <2>1, PhaseTwoLosesNothing, MakerItemsAreRoutable DEF RouteInv
<1>7. CASE FirmQuotes
  <2>1. PICK fillable : PhaseTwo(FirmItems(fillable))
    BY <1>7 DEF FirmQuotes, FirmItems
  <2>2. pc = "rfq"
    BY <1>7 DEF FirmQuotes, HasQuotes, RfqIsIn
  <2>. QED  BY <2>1, <2>2, PhaseTwoLosesNothing, MakerItemsAreRoutable DEF RouteInv
<1>8. CASE UNCHANGED vars
  BY <1>8 DEF vars, RouteInv, LiquidityIsRoutable, HaveCurves, QuotesHaveCurves, PhaseOneStands,
              PathIsNotLost
<1>. QED  BY <1>1, <1>2, <1>3, <1>4, <1>5, <1>6, <1>7, <1>8 DEF Next, Done

(* PathIsNotLost: for every number of units, all curves and any penalty, a     *)
(* path that phase 1 has found survives the second phase, which routes over    *)
(* the chosen dexes only, and is not exchanged for a worse one                 *)
(* (getOptimizerResultAsync).                                                  *)
THEOREM MakersCostNothing == Spec => []PathIsNotLost
<1>1. RouteInv => PathIsNotLost
  BY DEF RouteInv
<1>. QED  BY <1>1, RouteInit, RouteStep, PTL DEF Spec
=============================================================================
