---------------------- MODULE MakerBalanceCacheProofs ----------------------
(***************************************************************************)
(* Proofs about the RFQ maker balance cache, for any number of makers,     *)
(* tokens, validator calls, failures and crashes, and any expiry.          *)
(***************************************************************************)
EXTENDS MakerBalanceCache, FiniteSetTheorems, TLAPS

-----------------------------------------------------------------------------
(* The inductive invariant. *)

\* The history variable is right about the present.
HeldNow == \A p \in Pairs : heldAge[p][chain[p]] = 0

\* A batch that passed the test for a single maker token has just one.
OneMakerToken ==
    \A v \in Validators : vpc[v] \in {"querying", "read"} =>
        \A i \in DOMAIN quotes[v] : quotes[v][i].token = TokenOf(quotes[v])

\* The copy of a row in a validator call is as truthful as the row was.
CopiesNotPostdated ==
    \A v \in Validators : vpc[v] = "read" => \A i \in DOMAIN quotes[v] :
        LET q == quotes[v][i]
            r == rows[v][q.maker]
        IN r.state = "sampled" => heldAge[<<q.maker, q.token>>][r.balance] <= r.sampleAge

\* A round only runs while the errors are below their limit.
ErrorsBelowLimit ==
    wpc \in {"tokens", "balances"} => cacheErrs < MaxCacheErrors

TypeInv == TypeOK /\ ErrorsBelowLimit

SampleInv ==
    HeldNow /\ SampleNotPostdated /\ InFlightNotPostdated /\ OneMakerToken /\ CopiesNotPostdated

-----------------------------------------------------------------------------
(* Facts about ages and rows. *)

(* Growing older keeps an age an age and keeps the order of two ages. *)
LEMMA OlderFacts ==
    /\ \A a \in Age : Older(a) \in Age
    /\ \A a, b \in Age : a <= b => Older(a) <= Older(b)
    /\ \A a \in Age : a <= Older(a)
    /\ 0 \in Age /\ Expiry + 1 \in Age
BY ConstantsAssumption DEF Age, Older

(* Growing older keeps a row a row, and only moves its ages. *)
LEMMA OlderRowFacts ==
    ASSUME NEW r \in Row
    PROVE  /\ OlderRow(r) \in Row
           /\ OlderRow(r).state = r.state
           /\ OlderRow(r).balance = r.balance
           /\ r.state = "sampled" => OlderRow(r).sampleAge = Older(r.sampleAge)
           /\ r.state # "absent" => OlderRow(r).seenAge = Older(r.seenAge)
<1>1. DOMAIN r = {"state", "seenAge", "sampleAge", "balance"}
  BY DEF Row
<1>. QED  BY <1>1, OlderFacts DEF OlderRow, Row

(* The rows Init and the inserts write have the type of a row. *)
LEMMA FreshRows == NoRow \in Row /\ NewRow \in Row
BY OlderFacts, ConstantsAssumption DEF NoRow, NewRow, Row, Balances

-----------------------------------------------------------------------------
(* Type correctness. *)

(* What a validator returns for one quote is an amount. *)
LEMMA FillableType ==
    ASSUME NEW q \in Quote, NEW r \in Row
    PROVE  TakerFillableAmount(q, r) \in Nat
<1>1. MakerBalance(r) \in Nat
  BY ConstantsAssumption DEF MakerBalance, Row, Balances
<1>2. q.makerAmount \in Nat /\ q.takerAmount \in Nat
  BY DEF Quote
<1>3. ASSUME NEW b \in Nat, NEW m \in Nat, NEW t \in Nat, ~(b >= m)
      PROVE  (b * t) \div m \in Nat
  BY <1>3
<1>. QED  BY <1>1, <1>2, <1>3 DEF TakerFillableAmount

(* The token of a batch that is not empty is a token. *)
LEMMA TokenOfType ==
    ASSUME NEW batch \in Seq(Quote), NEW m \in MakersOf(batch)
    PROVE  TokenOf(batch) \in Tokens /\ m \in Makers
<1>1. PICK i \in DOMAIN batch : m = batch[i].maker
  BY DEF MakersOf
<1>2. batch[i] \in Quote
  BY <1>1
<1>3. batch[i].token \in MakerTokens(batch)
  BY <1>1 DEF MakerTokens
<1>4. MakerTokens(batch) \subseteq Tokens
  <2>1. \A j \in DOMAIN batch : batch[j] \in Quote
    OBVIOUS
  <2>. QED  BY <2>1 DEF MakerTokens, Quote
<1>5. TokenOf(batch) \in MakerTokens(batch)
  BY <1>3 DEF TokenOf
<1>. QED  BY <1>1, <1>2, <1>4, <1>5 DEF Quote

(* The types hold before the first loop of the worker.                       *)
LEMMA TypeInit == Init => TypeInv
<1>. SUFFICES ASSUME Init PROVE TypeInv
  OBVIOUS
<1>. USE ConstantsAssumption, OlderFacts, FreshRows DEF Init
<1>1. heldAge \in [Pairs -> [Balances -> Age]]
  OBVIOUS
<1>2. 0 \in Balances
  BY DEF Balances
<1>3. /\ table \in [Pairs -> Row] /\ fetched \in [Pairs -> Balances]
      /\ rows \in [Validators -> [Makers -> Row]]
  BY <1>2
<1>4. /\ failures \in 0 .. MaxFailures
      /\ blockErrs \in 0 .. MaxRequestErrors /\ cacheErrs \in 0 .. MaxCacheErrors
  OBVIOUS
<1>5. /\ list \in [cached : BOOLEAN, age : Age, pairs : SUBSET Pairs]
      /\ input \in SUBSET Pairs /\ pending \in SUBSET Pairs /\ updateAge \in Age
      /\ headAhead \in BOOLEAN /\ headPassed \in BOOLEAN
  OBVIOUS
<1>6. /\ vpc \in [Validators -> {"idle", "querying", "read", "adding", "done"}]
      /\ quotes \in [Validators -> Seq(Quote)] /\ amounts \in [Validators -> Seq(Nat)]
      /\ toAdd \in [Validators -> SUBSET Makers]
  OBVIOUS
<1>. QED  BY <1>1, <1>3, <1>4, <1>5, <1>6 DEF TypeInv, TypeOK, ErrorsBelowLimit

(* Every step of a worker, a validator, the database and the chain keeps the *)
(* types.                                                                    *)
LEMMA TypeStep == TypeInv /\ [Next]_vars => TypeInv'
<1>. SUFFICES ASSUME TypeInv, [Next]_vars PROVE TypeInv'
  OBVIOUS
<1>. USE ConstantsAssumption DEF TypeInv, TypeOK, ErrorsBelowLimit,
         chainVars, workerVars, validatorVars
<1>1. CASE Tick
  <2>1. heldAge' \in [Pairs -> [Balances -> Age]]
    BY <1>1, OlderFacts DEF Tick
  <2>2. table' \in [Pairs -> Row] /\ rows' \in [Validators -> [Makers -> Row]]
    BY <1>1, OlderRowFacts DEF Tick
  <2>3. list' \in [cached : BOOLEAN, age : Age, pairs : SUBSET Pairs] /\ updateAge' \in Age
    BY <1>1, OlderFacts DEF Tick
  <2>. QED  BY <1>1, <2>1, <2>2, <2>3 DEF Tick
<1>2. ASSUME NEW p \in Pairs, NEW b \in Balances, NewBlock(p, b) PROVE TypeInv'
  BY <1>2, OlderFacts DEF NewBlock
<1>3. ASSUME NEW pairs \in SUBSET Pairs, wpc = "tokens", StartBalances(pairs),
             failures' \in 0 .. MaxFailures,
             list' \in [cached : BOOLEAN, age : Age, pairs : SUBSET Pairs]
      PROVE  TypeInv'
  BY <1>3, OlderFacts DEF StartBalances
<1>4. ASSUME wpc \in {"tokens", "balances"}, CacheRoundFails, failures' \in 0 .. MaxFailures
      PROVE  TypeInv'
  BY <1>4 DEF CacheRoundFails
<1>5. ASSUME WorkerStep PROVE TypeInv'
  <2>1. CASE GetBlockNumber
    <3>1. wpc' \in {"tokens", "delay"}
      BY <2>1 DEF GetBlockNumber
    <3>2. cacheErrs' < MaxCacheErrors
      BY <2>1 DEF GetBlockNumber, TooManyErrors
    <3>3. headPassed' \in BOOLEAN
      BY <2>1 DEF GetBlockNumber
    <3>. QED  BY <2>1, <3>1, <3>2, <3>3 DEF GetBlockNumber
  <2>2. CASE GetMakerTokensCached
    BY <2>2, <1>3 DEF GetMakerTokensCached
  <2>3. CASE GetMakerTokensQuery
    <3>1. RowsInTable \in SUBSET Pairs
      BY DEF RowsInTable
    <3>2. list' \in [cached : BOOLEAN, age : Age, pairs : SUBSET Pairs]
      BY <2>3, <3>1, OlderFacts DEF GetMakerTokensQuery
    <3>. QED  BY <2>3, <3>1, <3>2, <1>3 DEF GetMakerTokensQuery
  <2>4. ASSUME NEW chunk \in SUBSET pending, GetErc20Balances(chunk) PROVE TypeInv'
    BY <2>4 DEF GetErc20Balances
  <2>5. CASE UpdateErc20Balances
    <3>1. \A p \in Pairs : SampledRow(table[p], fetched[p], updateAge) \in Row
      BY DEF SampledRow, Row
    <3>. QED  BY <2>5, <3>1 DEF UpdateErc20Balances
  <2>6. CASE DelayElapses
    BY <2>6 DEF DelayElapses
  <2>7. CASE WorkerExits
    BY <2>7 DEF WorkerExits
  <2>8. CASE WorkerRestarts
    <3>1. list' \in [cached : BOOLEAN, age : Age, pairs : SUBSET Pairs]
      BY <2>8, OlderFacts DEF WorkerRestarts
    <3>2. headAhead' \in BOOLEAN /\ headPassed' \in BOOLEAN
      BY <2>8 DEF WorkerRestarts
    <3>. QED  BY <2>8, <3>1, <3>2, OlderFacts DEF WorkerRestarts
  <2>. QED  BY <1>5, <2>1, <2>2, <2>3, <2>4, <2>5, <2>6, <2>7, <2>8 DEF WorkerStep
<1>6. ASSUME WorkerFails PROVE TypeInv'
  <2>1. MayFail => failures + 1 \in 0 .. MaxFailures
    BY DEF MayFail
  <2>2. CASE GetBlockNumberFails
    BY <2>1, <2>2 DEF GetBlockNumberFails, TooManyErrors
  <2>3. CASE GetMakerTokensFails
    <3>1. wpc = "tokens" /\ failures' \in 0 .. MaxFailures
      BY <2>1, <2>3 DEF GetMakerTokensFails
    <3>2. CASE StartBalances(list.pairs) /\ UNCHANGED list
      BY <3>1, <3>2, <1>3
    <3>3. CASE CacheRoundFails
      BY <3>1, <3>3, <1>4
    <3>. QED  BY <2>3, <3>2, <3>3 DEF GetMakerTokensFails
  <2>4. CASE BalancesOrSaveFails
    BY <2>1, <2>4, <1>4 DEF BalancesOrSaveFails
  <2>5. CASE WorkerCrashes
    BY <2>1, <2>5 DEF WorkerCrashes
  <2>. QED  BY <1>6, <2>2, <2>3, <2>4, <2>5 DEF WorkerFails
<1>7. ASSUME NEW v \in Validators, NEW batch \in Batches, StartValidation(v, batch)
      PROVE  TypeInv'
  <2>1. batch \in Seq(Quote) /\ [m \in Makers |-> NoRow] \in [Makers -> Row]
    BY FreshRows
  <2>2. [i \in DOMAIN batch |-> 0] \in Seq(Nat)
    BY <2>1
  <2>3. /\ quotes' \in [Validators -> Seq(Quote)] /\ toAdd' \in [Validators -> SUBSET Makers]
        /\ rows' \in [Validators -> [Makers -> Row]]
        /\ UNCHANGED <<chainVars, table, failures, workerVars>>
    BY <1>7, <2>1 DEF StartValidation
  <2>4. amounts' \in [Validators -> Seq(Nat)]
    <3>1. <<>> \in Seq(Nat)
      OBVIOUS
    <3>2. amounts' = [amounts EXCEPT ![v] = [i \in DOMAIN batch |-> 0]]
            \/ amounts' = [amounts EXCEPT ![v] = <<>>]
      BY <1>7 DEF StartValidation
    <3>. QED  BY <2>2, <3>1, <3>2
  <2>5. vpc' \in [Validators -> {"idle", "querying", "read", "adding", "done"}]
    BY <1>7 DEF StartValidation
  <2>. QED  BY <2>3, <2>4, <2>5
<1>8. ASSUME NEW v \in Validators, ValidatorStep(v) PROVE TypeInv'
  <2>1. CASE QueryRows(v)
    <3>1. [m \in Makers |-> IF m \in MakersOf(quotes[v])
                            THEN table[<<m, TokenOf(quotes[v])>>] ELSE NoRow]
            \in [Makers -> Row]
      BY FreshRows, TokenOfType DEF Pairs
    <3>. QED  BY <2>1, <3>1 DEF QueryRows
  <2>2. CASE CalculateAmounts(v)
    <3>1. quotes[v] \in Seq(Quote)
      OBVIOUS
    <3>2. \A i \in DOMAIN quotes[v] :
            TakerFillableAmount(quotes[v][i], rows[v][quotes[v][i].maker]) \in Nat
      <4>. SUFFICES ASSUME NEW i \in DOMAIN quotes[v]
                    PROVE TakerFillableAmount(quotes[v][i], rows[v][quotes[v][i].maker]) \in Nat
        OBVIOUS
      <4>1. quotes[v][i] \in Quote
        BY <3>1
      <4>2. rows[v][quotes[v][i].maker] \in Row
        BY <4>1 DEF Quote
      <4>. QED  BY <4>1, <4>2, FillableType
    <3>3. [i \in DOMAIN quotes[v] |->
             TakerFillableAmount(quotes[v][i], rows[v][quotes[v][i].maker])] \in Seq(Nat)
      <4>. DEFINE F(i) == TakerFillableAmount(quotes[v][i], rows[v][quotes[v][i].maker])
      <4>1. DOMAIN quotes[v] = 1 .. Len(quotes[v]) /\ Len(quotes[v]) \in Nat
        BY <3>1
      <4>2. \A i \in 1 .. Len(quotes[v]) : F(i) \in Nat
        BY <3>2, <4>1
      <4>. HIDE DEF F
      <4>3. [i \in 1 .. Len(quotes[v]) |-> F(i)] \in Seq(Nat)
        BY <4>1, <4>2
      <4>. QED  BY <4>1, <4>3 DEF F
    <3>4. {m \in MakersOf(quotes[v]) : rows[v][m].state = "absent"} \in SUBSET Makers
      BY <3>1, TokenOfType
    <3>. QED  BY <2>2, <3>3, <3>4 DEF CalculateAmounts
  <2>3. CASE AddMakers(v)
    BY <2>3, FreshRows DEF AddMakers, InsertConflict
  <2>4. CASE ReturnAmounts(v)
    BY <2>4 DEF ReturnAmounts
  <2>. QED  BY <1>8, <2>1, <2>2, <2>3, <2>4 DEF ValidatorStep
<1>9. ASSUME NEW v \in Validators, ValidationFails(v) PROVE TypeInv'
  BY <1>9 DEF ValidationFails, MayFail
<1>10. CASE UNCHANGED vars
  BY <1>10 DEF vars
<1>. QED  BY <1>1, <1>2, <1>5, <1>6, <1>7, <1>8, <1>9, <1>10 DEF Next

(* TypeOK: every variable of the worker and of the validators keeps its      *)
(* type; in particular the error counters never pass the limits at which     *)
(* the worker gives up.                                                      *)
THEOREM TypeCorrect == Spec => []TypeOK
<1>1. TypeInv => TypeOK
  BY DEF TypeInv
<1>. QED  BY <1>1, TypeInit, TypeStep, PTL DEF Spec

-----------------------------------------------------------------------------
(* The samples. *)

(* A batch with one maker token: every quote of it is for TokenOf. *)
LEMMA SingleToken ==
    ASSUME NEW batch \in Seq(Quote), Cardinality(MakerTokens(batch)) = 1,
           IsFiniteSet(MakerTokens(batch)), NEW i \in DOMAIN batch
    PROVE  batch[i].token = TokenOf(batch)
<1>1. PICK t : MakerTokens(batch) = {t}
  BY FS_Singleton
<1>2. batch[i].token \in MakerTokens(batch)
  BY DEF MakerTokens
<1>. QED  BY <1>1, <1>2 DEF TokenOf

(* The token set of a batch is finite, as a batch is. *)
LEMMA FiniteTokens ==
    ASSUME NEW batch \in Seq(Quote)
    PROVE  IsFiniteSet(MakerTokens(batch))
<1>1. DOMAIN batch = 1 .. Len(batch) /\ Len(batch) \in Nat
  OBVIOUS
<1>2. IsFiniteSet(DOMAIN batch)
  BY <1>1, FS_Interval
<1>3. [i \in DOMAIN batch |-> batch[i].token] \in Surjection(DOMAIN batch, MakerTokens(batch))
  BY DEF Surjection, MakerTokens
<1>. QED  BY <1>2, <1>3, FS_Surjection

(* No sample is taken at first.                                              *)
LEMMA SampleInit == Init => SampleInv
BY FreshRows DEF Init, SampleInv, HeldNow, SampleNotPostdated, InFlightNotPostdated,
    OneMakerToken, CopiesNotPostdated, NoRow

(* A tick ages a sample and the moment its balance was last held alike.      *)
LEMMA TickSamples == TypeInv /\ SampleInv /\ Tick => SampleInv'
<1>. SUFFICES ASSUME TypeInv, SampleInv, Tick PROVE SampleInv'
  OBVIOUS
<1>. USE DEF TypeInv, TypeOK, SampleInv
<1>1. \A p \in Pairs, b \in Balances :
        heldAge'[p][b] = 0 \/ heldAge'[p][b] = Older(heldAge[p][b])
  BY DEF Tick
<1>2. \A a \in Age : 0 <= a /\ 0 <= Older(a)
  BY ConstantsAssumption DEF Age, Older
<1>3. \A p \in Pairs, b \in Balances, a \in Age :
        heldAge[p][b] <= a => heldAge'[p][b] <= Older(a)
  BY <1>1, <1>2, OlderFacts
<1>4. HeldNow'
  BY DEF Tick, HeldNow
<1>5. SampleNotPostdated'
  <2>. SUFFICES ASSUME NEW p \in Pairs, table'[p].state = "sampled"
                PROVE  heldAge'[p][table'[p].balance] <= table'[p].sampleAge
    BY DEF SampleNotPostdated
  <2>1. table[p] \in Row /\ table'[p] = OlderRow(table[p])
    BY DEF Tick
  <2>2. /\ table[p].state = "sampled" /\ table'[p].balance = table[p].balance
        /\ table'[p].sampleAge = Older(table[p].sampleAge)
    BY <2>1, OlderRowFacts
  <2>3. table[p].balance \in Balances /\ table[p].sampleAge \in Age
    BY <2>1 DEF Row
  <2>. QED  BY <2>2, <2>3, <1>3 DEF SampleNotPostdated
<1>6. InFlightNotPostdated'
  <2>. SUFFICES ASSUME wpc' = "balances", NEW p \in input' \ pending'
                PROVE  heldAge'[p][fetched'[p]] <= updateAge'
    BY DEF InFlightNotPostdated
  <2>1. /\ p \in Pairs /\ fetched[p] \in Balances /\ updateAge' = Older(updateAge)
        /\ fetched' = fetched /\ wpc = "balances" /\ p \in input \ pending
    BY DEF Tick
  <2>2. heldAge[p][fetched[p]] <= updateAge
    BY <2>1 DEF InFlightNotPostdated
  <2>. QED  BY <2>1, <2>2, <1>3
<1>7. OneMakerToken'
  BY DEF Tick, OneMakerToken
<1>8. CopiesNotPostdated'
  <2>. SUFFICES ASSUME NEW v \in Validators, vpc'[v] = "read", NEW i \in DOMAIN quotes'[v],
                       rows'[v][quotes'[v][i].maker].state = "sampled"
                PROVE  heldAge'[<<quotes'[v][i].maker, quotes'[v][i].token>>]
                               [rows'[v][quotes'[v][i].maker].balance]
                         <= rows'[v][quotes'[v][i].maker].sampleAge
    BY DEF CopiesNotPostdated
  <2>. DEFINE m == quotes[v][i].maker
              p == <<m, quotes[v][i].token>>
              r == rows[v][m]
  <2>1. quotes' = quotes /\ vpc' = vpc /\ quotes[v][i] \in Quote
    BY DEF Tick
  <2>2. m \in Makers /\ p \in Pairs /\ r \in Row
    BY <2>1 DEF Quote, Pairs
  <2>3. rows'[v][m] = OlderRow(r)
    BY <2>2 DEF Tick
  <2>4. /\ r.state = "sampled" /\ rows'[v][m].balance = r.balance
        /\ rows'[v][m].sampleAge = Older(r.sampleAge)
    BY <2>1, <2>2, <2>3, OlderRowFacts
  <2>5. r.balance \in Balances /\ r.sampleAge \in Age
    BY <2>2 DEF Row
  <2>6. heldAge[p][r.balance] <= r.sampleAge
    BY <2>1, <2>4 DEF CopiesNotPostdated
  <2>. HIDE DEF m, p, r
  <2>7. heldAge'[p][r.balance] <= Older(r.sampleAge)
    BY <2>2, <2>5, <2>6, <1>3
  <2>. QED  BY <2>1, <2>4, <2>7 DEF m, p
<1>. QED  BY <1>4, <1>5, <1>6, <1>7, <1>8

(* A block can only make a balance more recently held. *)
LEMMA NewBlockSamples ==
    ASSUME TypeInv, SampleInv, NEW p \in Pairs, NEW b \in Balances, NewBlock(p, b)
    PROVE  SampleInv'
<1>. USE DEF TypeInv, TypeOK, SampleInv
<1>1. \A q \in Pairs, c \in Balances : heldAge'[q][c] <= heldAge[q][c]
  BY ConstantsAssumption DEF NewBlock, Age
<1>2. \A q \in Pairs, c \in Balances : heldAge[q][c] \in Age /\ heldAge'[q][c] \in Age
  BY OlderFacts DEF NewBlock
<1>3. \A q \in Pairs, c \in Balances, a \in Age :
        heldAge[q][c] <= a => heldAge'[q][c] <= a
  <2>1. Age \subseteq Int
    BY ConstantsAssumption DEF Age
  <2>2. \A x, y, z \in Int : x <= y /\ y <= z => x <= z
    OBVIOUS
  <2>. HIDE DEF TypeInv, TypeOK
  <2>. QED  BY <1>1, <1>2, <2>1, <2>2
<1>4. HeldNow'
  BY DEF NewBlock, HeldNow
<1>5. SampleNotPostdated'
  BY <1>3 DEF NewBlock, validatorVars, SampleNotPostdated, Row
<1>6. InFlightNotPostdated'
  BY <1>3 DEF NewBlock, InFlightNotPostdated
<1>7. OneMakerToken'
  BY DEF NewBlock, validatorVars, OneMakerToken
<1>8. CopiesNotPostdated'
  <2>1. UNCHANGED validatorVars
    BY DEF NewBlock
  <2>2. ASSUME NEW v \in Validators, NEW i \in DOMAIN quotes[v]
        PROVE  /\ <<quotes[v][i].maker, quotes[v][i].token>> \in Pairs
               /\ rows[v][quotes[v][i].maker].balance \in Balances
               /\ rows[v][quotes[v][i].maker].sampleAge \in Age
    <3>1. quotes[v][i] \in Quote
      BY <2>2
    <3>2. rows[v][quotes[v][i].maker] \in Row
      BY <3>1 DEF Quote
    <3>. QED  BY <3>1, <3>2 DEF Quote, Pairs, Row
  <2>. QED  BY <1>3, <2>1, <2>2 DEF CopiesNotPostdated, validatorVars
<1>. QED  BY <1>4, <1>5, <1>6, <1>7, <1>8

(* The worker: only the start of a round, a resolved chunk and the save      *)
(* touch what SampleInv is about.                                            *)
LEMMA WorkerSamples ==
    ASSUME TypeInv, SampleInv, WorkerStep \/ WorkerFails
    PROVE  SampleInv'
<1>. USE DEF TypeInv, TypeOK
<1>1. UNCHANGED <<chainVars, validatorVars>> => HeldNow' /\ OneMakerToken' /\ CopiesNotPostdated'
  BY DEF SampleInv, HeldNow, OneMakerToken, CopiesNotPostdated, chainVars, validatorVars
<1>2. UNCHANGED <<chainVars, table>> => SampleNotPostdated'
  BY DEF SampleInv, SampleNotPostdated, chainVars
<1>3. wpc' # "balances" => InFlightNotPostdated'
  BY DEF InFlightNotPostdated
<1>4. ASSUME NEW pairs, StartBalances(pairs) PROVE SampleInv'
  BY <1>4, <1>1, <1>2 DEF StartBalances, SampleInv, InFlightNotPostdated
<1>5. CASE CacheRoundFails
  BY <1>5, <1>1, <1>2, <1>3 DEF CacheRoundFails, SampleInv
<1>6. ASSUME NEW chunk \in SUBSET pending, GetErc20Balances(chunk) PROVE SampleInv'
  <2>. SUFFICES ASSUME NEW p \in input' \ pending'
                PROVE  heldAge'[p][fetched'[p]] <= updateAge'
    BY <1>6, <1>1, <1>2 DEF GetErc20Balances, SampleInv, InFlightNotPostdated
  <2>1. CASE p \in chunk
    BY <1>6, <2>1, ConstantsAssumption DEF GetErc20Balances, chainVars, SampleInv, HeldNow, Age
  <2>2. CASE p \notin chunk
    BY <1>6, <2>2 DEF GetErc20Balances, chainVars, SampleInv, InFlightNotPostdated
  <2>. QED  BY <2>1, <2>2
<1>7. CASE UpdateErc20Balances
  <2>. SUFFICES ASSUME NEW p \in Pairs, table'[p].state = "sampled"
                PROVE  heldAge'[p][table'[p].balance] <= table'[p].sampleAge
    BY <1>7, <1>1, <1>3 DEF UpdateErc20Balances, SampleInv, SampleNotPostdated
  <2>1. CASE p \in input
    BY <1>7, <2>1 DEF UpdateErc20Balances, chainVars, SampledRow, SampleInv, InFlightNotPostdated
  <2>2. CASE p \notin input
    BY <1>7, <2>2 DEF UpdateErc20Balances, chainVars, SampleInv, SampleNotPostdated
  <2>. QED  BY <2>1, <2>2
<1>8. CASE GetBlockNumber \/ DelayElapses \/ WorkerExits \/ WorkerRestarts
  <2>1. wpc' # "balances" /\ UNCHANGED <<chainVars, table, validatorVars>>
    BY <1>8 DEF GetBlockNumber, DelayElapses, WorkerExits, WorkerRestarts
  <2>. QED  BY <2>1, <1>1, <1>2, <1>3 DEF SampleInv
<1>9. CASE GetBlockNumberFails \/ WorkerCrashes
  <2>1. wpc' # "balances" /\ UNCHANGED <<chainVars, table, validatorVars>>
    BY <1>9 DEF GetBlockNumberFails, WorkerCrashes
  <2>. QED  BY <2>1, <1>1, <1>2, <1>3 DEF SampleInv
<1>. QED
  BY <1>4, <1>5, <1>6, <1>7, <1>8, <1>9 DEF WorkerStep, WorkerFails, GetMakerTokensCached,
     GetMakerTokensQuery, GetMakerTokensFails, BalancesOrSaveFails

(* The validators: a copy is taken from a row that is not postdated; an      *)
(* insert adds rows that carry no sample.                                    *)
LEMMA ValidatorSamples ==
    ASSUME TypeInv, SampleInv, NEW v \in Validators,
           \/ \E batch \in Batches : StartValidation(v, batch)
           \/ ValidatorStep(v)
           \/ ValidationFails(v)
    PROVE  SampleInv'
<1>. USE DEF TypeInv, TypeOK
<1>1. UNCHANGED <<chainVars, workerVars>>
  BY DEF StartValidation, ValidatorStep, QueryRows, CalculateAmounts, AddMakers,
         ReturnAmounts, ValidationFails
<1>2. HeldNow' /\ InFlightNotPostdated'
  BY <1>1 DEF SampleInv, HeldNow, InFlightNotPostdated, chainVars, workerVars
<1>3. UNCHANGED table => SampleNotPostdated'
  BY <1>1 DEF SampleInv, SampleNotPostdated, chainVars
<1>4. ASSUME NEW to \in {"idle", "adding", "done"}, vpc' = [vpc EXCEPT ![v] = to],
             UNCHANGED <<quotes, rows>>
      PROVE  OneMakerToken' /\ CopiesNotPostdated'
  BY <1>1, <1>4 DEF SampleInv, OneMakerToken, CopiesNotPostdated, chainVars
<1>5. ASSUME NEW batch \in Batches, StartValidation(v, batch) PROVE SampleInv'
  <2>1. batch \in Seq(Quote)
    BY ConstantsAssumption
  <2>2. CASE vpc' = [vpc EXCEPT ![v] = "done"]
    BY <1>1, <1>2, <1>3, <1>5, <2>2
       DEF StartValidation, SampleInv, OneMakerToken, CopiesNotPostdated, chainVars
  <2>3. CASE vpc' = [vpc EXCEPT ![v] = "querying"] /\ Cardinality(MakerTokens(batch)) = 1
    <3>1. \A i \in DOMAIN batch : batch[i].token = TokenOf(batch)
      BY <2>1, <2>3, SingleToken, FiniteTokens
    <3>2. quotes' = [quotes EXCEPT ![v] = batch] /\ rows' = [rows EXCEPT ![v] = [m \in Makers |-> NoRow]]
           /\ UNCHANGED table
      BY <1>5 DEF StartValidation
    <3>3. OneMakerToken'
      BY <2>3, <3>1, <3>2 DEF SampleInv, OneMakerToken
    <3>4. CopiesNotPostdated'
      BY <1>1, <2>3, <3>2 DEF SampleInv, CopiesNotPostdated, chainVars
    <3>. QED  BY <1>2, <1>3, <3>2, <3>3, <3>4 DEF SampleInv
  <2>. QED  BY <1>5, <2>2, <2>3 DEF StartValidation
<1>6. CASE QueryRows(v)
  <2>1. OneMakerToken' /\ UNCHANGED table
    BY <1>6 DEF QueryRows, SampleInv, OneMakerToken
  <2>2. CopiesNotPostdated'
    <3>. SUFFICES ASSUME NEW w \in Validators, vpc'[w] = "read", NEW i \in DOMAIN quotes'[w],
                         rows'[w][quotes'[w][i].maker].state = "sampled"
                  PROVE  heldAge'[<<quotes'[w][i].maker, quotes'[w][i].token>>]
                                 [rows'[w][quotes'[w][i].maker].balance]
                           <= rows'[w][quotes'[w][i].maker].sampleAge
      BY DEF CopiesNotPostdated
    <3>1. UNCHANGED <<heldAge, quotes>>
      BY <1>1, <1>6 DEF QueryRows, chainVars
    <3>2. CASE w # v
      BY <1>6, <3>1, <3>2 DEF QueryRows, SampleInv, CopiesNotPostdated
    <3>3. CASE w = v
      <4>. DEFINE q == quotes[v][i]
      <4>1. q \in Quote /\ q.maker \in MakersOf(quotes[v])
        BY <3>1, <3>3 DEF MakersOf
      <4>2. q.token = TokenOf(quotes[v])
        BY <1>6, <3>1, <3>3 DEF QueryRows, SampleInv, OneMakerToken
      <4>3. <<q.maker, q.token>> \in Pairs
        BY <4>1 DEF Quote, Pairs
      <4>4. rows'[v][q.maker] = table[<<q.maker, q.token>>]
        BY <1>6, <4>1, <4>2 DEF QueryRows, Quote
      <4>. QED  BY <3>1, <3>3, <4>3, <4>4 DEF SampleInv, SampleNotPostdated
    <3>. QED  BY <3>2, <3>3
  <2>. QED  BY <1>2, <1>3, <2>1, <2>2 DEF SampleInv
<1>7. CASE CalculateAmounts(v)
  <2>1. \E to \in {"adding", "done"} : vpc' = [vpc EXCEPT ![v] = to]
    BY <1>7 DEF CalculateAmounts
  <2>. QED  BY <1>2, <1>3, <1>4, <1>7, <2>1 DEF CalculateAmounts, SampleInv
<1>8. CASE AddMakers(v)
  <2>1. SampleNotPostdated'
    BY <1>1, <1>8 DEF AddMakers, InsertConflict, NewRow, SampleInv, SampleNotPostdated, chainVars
  <2>. QED  BY <1>2, <1>4, <1>8, <2>1 DEF AddMakers, SampleInv
<1>9. CASE ReturnAmounts(v) \/ ValidationFails(v)
  BY <1>2, <1>3, <1>4, <1>9 DEF ReturnAmounts, ValidationFails, SampleInv
<1>. QED  BY <1>5, <1>6, <1>7, <1>8, <1>9 DEF ValidatorStep

(* Every step keeps the samples truthful: those in flight, those collected   *)
(* and those saved.                                                          *)
LEMMA SampleStep == TypeInv /\ SampleInv /\ [Next]_vars => SampleInv'
<1>. SUFFICES ASSUME TypeInv, SampleInv, [Next]_vars PROVE SampleInv'
  OBVIOUS
<1>1. CASE UNCHANGED vars
  BY <1>1 DEF vars, chainVars, workerVars, validatorVars, SampleInv, HeldNow,
     SampleNotPostdated, InFlightNotPostdated, OneMakerToken, CopiesNotPostdated
<1>. QED  BY <1>1, TickSamples, NewBlockSamples, WorkerSamples, ValidatorSamples DEF Next

(* TypeInv and SampleInv hold in every reachable state. *)
LEMMA Invariance == Spec => [](TypeInv /\ SampleInv)
BY TypeInit, TypeStep, SampleInit, SampleStep, PTL DEF Spec

(* SampleNotPostdated: whatever blocks are mined while the chunks of a round *)
(* are read, and wherever the worker crashes, no row of the table claims a   *)
(* balance for a later moment than one at which the maker held it.           *)
THEOREM SamplesAreTruthful == Spec => []SampleNotPostdated
<1>1. TypeInv /\ SampleInv => SampleNotPostdated
  BY DEF SampleInv
<1>. QED  BY <1>1, Invariance, PTL

(* InFlightNotPostdated: what cacheRfqBalancesAsync has collected is dated   *)
(* by the start of its round, before the first of the chunks, so that        *)
(* blocks mined between the chunks cannot make the date too late.            *)
THEOREM CollectedIsTruthful == Spec => []InFlightNotPostdated
<1>1. TypeInv /\ SampleInv => InFlightNotPostdated
  BY DEF SampleInv
<1>. QED  BY <1>1, Invariance, PTL

-----------------------------------------------------------------------------
(* What a validator accepts, and what happens to a row. *)

(* Rounding down a fraction of an order never accepts more than the balance  *)
(* covers.                                                                   *)
LEMMA PartialFill ==
    ASSUME NEW b \in Nat, NEW m \in Nat \ {0}, NEW t \in Nat
    PROVE  ((b * t) \div m) * m <= b * t
<1>1. \A n \in Nat : (n \div m) * m <= n
  OBVIOUS
<1>. QED  BY <1>1

(* One quote of a batch: what is accepted against a sampled row is covered   *)
(* by the balance of the row, and nothing is accepted against an old one.    *)
LEMMA AcceptedIsCovered ==
    ASSUME NEW q \in Quote, NEW r \in Row, r.state # "absent", ~IsInfinite(r),
           q.makerAmount # 0, TakerFillableAmount(q, r) # 0
    PROVE  /\ r.state = "sampled" /\ r.sampleAge <= Expiry
           /\ TakerFillableAmount(q, r) * q.makerAmount <= r.balance * q.takerAmount
<1>. DEFINE m == q.makerAmount
            t == q.takerAmount
            b == MakerBalance(r)
<1>1. m \in Nat \ {0} /\ t \in Nat /\ b \in Nat
  BY ConstantsAssumption DEF Quote, MakerBalance, Row, Balances
<1>2. TakerFillableAmount(q, r) = IF b >= m THEN t ELSE (b * t) \div m
  BY DEF TakerFillableAmount
<1>. HIDE DEF m, t, b
<1>3. b # 0
  <2>1. b = 0 => ~(b >= m) /\ b * t = 0 /\ 0 \div m = 0
    BY <1>1
  <2>. QED  BY <1>2, <2>1
<1>4. r.state = "sampled" /\ r.sampleAge <= Expiry /\ r.balance = b
  BY <1>3 DEF b, MakerBalance
<1>5. TakerFillableAmount(q, r) * m <= b * t
  <2>1. CASE b >= m
    <3>1. t * m <= b * t
      BY <1>1, <2>1
    <3>. QED  BY <1>2, <2>1, <3>1
  <2>2. CASE ~(b >= m)
    BY <1>1, <1>2, <2>2, PartialFill
  <2>. QED  BY <2>1, <2>2
<1>. QED  BY <1>4, <1>5 DEF m, t

(* FillableAmountsAreBacked: what getRfqtTakerFillableAmountsAsync accepts   *)
(* against a sampled row was covered by a balance the maker really held      *)
(* within the last Expiry, for every interleaving of worker and validators.  *)
THEOREM AcceptedQuotesAreBacked == Spec => FillableAmountsAreBacked
<1>1. TypeInv /\ SampleInv =>
        \A v \in Validators : CalculateAmounts(v) =>
            \A i \in DOMAIN quotes[v] : AcceptedIsBacked(v, i)
  <2>. SUFFICES ASSUME TypeInv, SampleInv, NEW v \in Validators, CalculateAmounts(v),
                       NEW i \in DOMAIN quotes[v]
                PROVE  AcceptedIsBacked(v, i)
    OBVIOUS
  <2>. DEFINE q == quotes[v][i]
              r == rows[v][q.maker]
  <2>1. q \in Quote /\ r \in Row /\ r.balance \in Balances
    <3>1. q \in Quote
      BY DEF TypeInv, TypeOK
    <3>2. r \in Row
      BY <3>1 DEF TypeInv, TypeOK, Quote
    <3>. QED  BY <3>1, <3>2 DEF Row
  <2>2. amounts'[v][i] = TakerFillableAmount(q, r)
    BY DEF CalculateAmounts, TypeInv, TypeOK
  <2>3. r.state = "sampled" => heldAge[<<q.maker, q.token>>][r.balance] <= r.sampleAge
    BY DEF CalculateAmounts, SampleInv, CopiesNotPostdated
  <2>4. heldAge[<<q.maker, q.token>>][r.balance] \in Int /\ r.sampleAge \in Int
    <3>1. <<q.maker, q.token>> \in Pairs
      BY <2>1 DEF Quote, Pairs
    <3>2. r.sampleAge \in Age
      BY <2>1 DEF Row
    <3>. HIDE DEF q, r
    <3>3. heldAge[<<q.maker, q.token>>][r.balance] \in Age
      BY <2>1, <3>1 DEF TypeInv, TypeOK
    <3>. QED  BY <3>2, <3>3, ConstantsAssumption DEF Age
  <2>. HIDE DEF q, r
  <2>5. CASE amounts'[v][i] = 0 \/ q.makerAmount = 0 \/ r.state = "absent" \/ IsInfinite(r)
    BY <2>5 DEF AcceptedIsBacked, IsInfinite, q, r
  <2>6. CASE ~(amounts'[v][i] = 0 \/ q.makerAmount = 0 \/ r.state = "absent" \/ IsInfinite(r))
    <3>1. /\ r.state = "sampled" /\ r.sampleAge <= Expiry
          /\ amounts'[v][i] * q.makerAmount <= r.balance * q.takerAmount
      BY <2>1, <2>2, <2>6, AcceptedIsCovered
    <3>2. heldAge[<<q.maker, q.token>>][r.balance] <= Expiry
      BY <2>3, <2>4, <3>1, ConstantsAssumption
    <3>3. \E b \in Balances : /\ heldAge[<<q.maker, q.token>>][b] <= Expiry
                              /\ amounts'[v][i] * q.makerAmount <= b * q.takerAmount
      BY <2>1, <3>1, <3>2
    <3>. QED  BY <3>3 DEF AcceptedIsBacked, q
  <2>. QED  BY <2>5, <2>6
<1>. QED  BY <1>1, Invariance, PTL DEF FillableAmountsAreBacked

\* What a step may do to one row.
RowAdvances(old, new) ==
    old.state # "absent" =>
        /\ new.state # "absent"
        /\ new.seenAge >= old.seenAge
        /\ old.state = "sampled" => new.state = "sampled"

(* RowsOnlyAdvance: no insert of a validator, however late, and no save of   *)
(* the worker removes a row, restarts its timeFirstSeen or drops its sample. *)
THEOREM RowsAreKept == Spec => RowsOnlyAdvance
<1>1. TypeInv /\ [Next]_vars => \A p \in Pairs : RowAdvances(table[p], table'[p])
  <2>. SUFFICES ASSUME TypeInv, [Next]_vars, NEW p \in Pairs
                PROVE  RowAdvances(table[p], table'[p])
    OBVIOUS
  <2>1. table[p] \in Row /\ table[p].seenAge \in Int
    BY ConstantsAssumption DEF TypeInv, TypeOK, Row, Age
  <2>2. table'[p] = table[p] => RowAdvances(table[p], table'[p])
    BY <2>1 DEF RowAdvances
  <2>3. CASE Tick
    <3>1. table'[p] = OlderRow(table[p])
      BY <2>3 DEF Tick
    <3>2. table[p].seenAge \in Age /\ Older(table[p].seenAge) \in Int
      BY <2>1, ConstantsAssumption DEF Row, Age, Older
    <3>3. table[p].seenAge <= Older(table[p].seenAge)
      BY <3>2, OlderFacts
    <3>. QED  BY <2>1, <3>1, <3>2, <3>3, OlderRowFacts DEF RowAdvances
  <2>4. CASE UpdateErc20Balances
    BY <2>1, <2>4 DEF UpdateErc20Balances, SampledRow, RowAdvances
  <2>5. ASSUME NEW v \in Validators, AddMakers(v) PROVE RowAdvances(table[p], table'[p])
    BY <2>1, <2>5 DEF AddMakers, InsertConflict, RowAdvances
  <2>6. CASE UNCHANGED table
    BY <2>2, <2>6
  <2>7. [Next]_vars => \/ Tick \/ UpdateErc20Balances
                        \/ (\E v \in Validators : AddMakers(v))
                        \/ UNCHANGED table
    BY DEF Next, NewBlock, WorkerStep, WorkerFails, GetBlockNumber, GetMakerTokensCached,
       GetMakerTokensQuery, GetErc20Balances, DelayElapses, WorkerExits, WorkerRestarts,
       GetBlockNumberFails, GetMakerTokensFails, BalancesOrSaveFails, WorkerCrashes,
       StartBalances, CacheRoundFails, StartValidation, ValidatorStep, QueryRows,
       CalculateAmounts, ReturnAmounts, ValidationFails, vars
  <2>. QED  BY <2>3, <2>4, <2>5, <2>6, <2>7
<1>. QED  BY <1>1, Invariance, PTL DEF RowsOnlyAdvance, RowAdvances, Spec

=============================================================================
