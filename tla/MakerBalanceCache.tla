------------------------- MODULE MakerBalanceCache -------------------------
(***************************************************************************)
(* The RFQ maker balance cache: the worker process that samples ERC20      *)
(* balances of market makers into the table maker_balance_chain_cache      *)
(* (src/src/runners/rfq_maker_balance_cache_runner.ts), and the firm quote *)
(* validators in the web processes that read the table and add makers to   *)
(* it (src/src/services/postgres_rfqt_firm_quote_validator.ts).            *)
(*                                                                         *)
(* Clocks.  The code compares differences of Date values with the expiry   *)
(* threshold.  The model keeps the difference itself: an age counts ticks  *)
(* since the stamp was taken and stops at Expiry + 1, because every test   *)
(* in the code only asks whether an age exceeds a threshold <= Expiry.     *)
(*                                                                         *)
(* Block numbers.  The worker only asks whether the head is beyond the     *)
(* last block it processed; headAhead and headPassed are that answer for   *)
(* lastBlockSeen and for newBlock.                                         *)
(*                                                                         *)
(* An address stands for its lower-cased form: every comparison in the     *)
(* code lower-cases both sides.                                            *)
(***************************************************************************)
EXTENDS Integers, Sequences, FiniteSets

CONSTANTS
    Makers,               \* market maker addresses
    Tokens,               \* maker token addresses
    Validators,           \* concurrent calls of the validator, in any web process
    Batches,              \* the batches of firm quotes that may be validated
    MaxBalance,           \* bound: the largest balance a maker can hold
    Expiry,               \* RFQ_FIRM_QUOTE_CACHE_EXPIRY, in ticks
    MaxChecksPerCall,     \* MAX_BALANCE_CHECKS_PER_CALL
    MaxRequestErrors,     \* MAX_REQUEST_ERRORS
    MaxCacheErrors,       \* MAX_CACHE_RFQ_BALANCES_ERRORS
    MaxFailures           \* bound: failures of the node and of Postgres

Pairs == Makers \X Tokens
Balances == 0 .. MaxBalance
Quote == [maker : Makers, token : Tokens, makerAmount : Nat, takerAmount : Nat]

ASSUME ConstantsAssumption ==
    /\ Expiry \in Nat /\ MaxBalance \in Nat /\ MaxFailures \in Nat
    /\ MaxChecksPerCall \in Nat \ {0}
    /\ MaxRequestErrors \in Nat \ {0} /\ MaxCacheErrors \in Nat \ {0}
    /\ Batches \subseteq Seq(Quote)

VARIABLES
    chain,        \* getMinOfBalancesOrAllowances of each pair at the latest block
    heldAge,      \* history: heldAge[p][b] is the age of the last moment p held b
    table,        \* the rows of maker_balance_chain_cache
    failures,     \* failures of external calls so far
    wpc,          \* where the worker's loop is
    blockErrs,    \* blockRequestErrors
    cacheErrs,    \* cacheRfqBalanceErrors
    headAhead,    \* lastBlockSeen < head
    headPassed,   \* newBlock < head
    list,         \* MAKER_TOKEN_CACHE: the cached list of pairs and its age
    input,        \* balancesCallInput: the pairs of this round
    updateAge,    \* age of updateTime
    fetched,      \* the balances the resolved chunks returned
    pending,      \* the pairs whose chunk has not resolved
    vpc,          \* where each validator call is
    quotes,       \* the batch each validator call was given
    rows,         \* cacheResults: the rows each validator call has read
    amounts,      \* takerFillableAmounts
    toAdd         \* makerAddressesToAddToCache

chainVars == <<chain, heldAge>>
workerVars == <<wpc, blockErrs, cacheErrs, headAhead, headPassed, list, input,
                updateAge, fetched, pending>>
validatorVars == <<vpc, quotes, rows, amounts, toAdd>>
vars == <<chainVars, table, failures, workerVars, validatorVars>>

Age == 0 .. (Expiry + 1)
Older(a) == IF a > Expiry THEN a ELSE a + 1

\* CACHE_MAKER_TOKENS_FOR_MS
ListTTL == Expiry \div 4

Row == [state : {"absent", "unsampled", "sampled"},
        seenAge : Age, sampleAge : Age, balance : Balances]
NoRow == [state |-> "absent", seenAge |-> 0, sampleAge |-> 0, balance |-> 0]
NewRow == [state |-> "unsampled", seenAge |-> 0, sampleAge |-> 0, balance |-> 0]

OlderRow(r) ==
    [r EXCEPT !.seenAge = IF r.state = "absent" THEN @ ELSE Older(@),
              !.sampleAge = IF r.state = "sampled" THEN Older(@) ELSE @]

Init ==
    /\ chain \in [Pairs -> Balances]
    /\ heldAge = [p \in Pairs |-> [b \in Balances |->
                    IF b = chain[p] THEN 0 ELSE Expiry + 1]]
    /\ table = [p \in Pairs |-> NoRow]
    /\ failures = 0
    /\ wpc = "loop" /\ blockErrs = 0 /\ cacheErrs = 0
    /\ headAhead = TRUE /\ headPassed = FALSE
    /\ list = [cached |-> FALSE, age |-> 0, pairs |-> {}]
    /\ input = {} /\ updateAge = 0 /\ pending = {}
    /\ fetched = [p \in Pairs |-> 0]
    /\ vpc = [v \in Validators |-> "idle"]
    /\ quotes = [v \in Validators |-> <<>>]
    /\ rows = [v \in Validators |-> [m \in Makers |-> NoRow]]
    /\ amounts = [v \in Validators |-> <<>>]
    /\ toAdd = [v \in Validators |-> {}]

-----------------------------------------------------------------------------
(* The environment: the clock, the chain. *)

\* One tick passes for every stamp taken so far, copies in memory included.
Tick ==
    /\ heldAge' = [p \in Pairs |-> [b \in Balances |->
                     IF b = chain[p] THEN 0 ELSE Older(heldAge[p][b])]]
    /\ table' = [p \in Pairs |-> OlderRow(table[p])]
    /\ list' = [list EXCEPT !.age = Older(@)]
    /\ updateAge' = Older(updateAge)
    /\ rows' = [v \in Validators |-> [m \in Makers |-> OlderRow(rows[v][m])]]
    /\ UNCHANGED <<chain, failures, wpc, blockErrs, cacheErrs, headAhead,
                   headPassed, input, fetched, pending, vpc, quotes, amounts, toAdd>>

\* A block is mined; it may move one balance or allowance.
NewBlock(p, b) ==
    /\ chain' = [chain EXCEPT ![p] = b]
    /\ heldAge' = [heldAge EXCEPT ![p][b] = 0]
    /\ headAhead' = TRUE
    /\ headPassed' = TRUE
    /\ UNCHANGED <<table, failures, wpc, blockErrs, cacheErrs, list, input,
                   updateAge, fetched, pending, validatorVars>>

-----------------------------------------------------------------------------
(* The worker: runRfqBalanceCacheAsync. *)

MayFail == failures < MaxFailures
\* Mutant: the limits are tested with > instead of >=.
TooManyErrorsOffByOne == blockErrs > MaxRequestErrors \/ cacheErrs > MaxCacheErrors
TooManyErrors == blockErrs >= MaxRequestErrors \/ cacheErrs >= MaxCacheErrors

\* getBlockNumberAsync rejects: count the error and start the loop again.
GetBlockNumberFails ==
    /\ wpc = "loop" /\ ~TooManyErrors
    /\ MayFail
    /\ failures' = failures + 1
    /\ blockErrs' = blockErrs + 1
    /\ UNCHANGED <<chainVars, table, wpc, cacheErrs, headAhead, headPassed, list,
                   input, updateAge, fetched, pending, validatorVars>>

\* getBlockNumberAsync resolves with the head; nothing to do unless it is new.
GetBlockNumber ==
    /\ wpc = "loop" /\ ~TooManyErrors
    /\ wpc' = IF headAhead THEN "tokens" ELSE "delay"
    /\ headPassed' = FALSE
    /\ UNCHANGED <<chainVars, table, failures, blockErrs, cacheErrs, headAhead,
                   list, input, updateAge, fetched, pending, validatorVars>>

\* cacheRfqBalancesAsync threw: count the error and start the loop again.
CacheRoundFails ==
    /\ wpc' = "loop"
    /\ cacheErrs' = cacheErrs + 1
    /\ UNCHANGED <<chainVars, table, blockErrs, headAhead, headPassed, list,
                   input, updateAge, fetched, pending, validatorVars>>

\* The round goes on with the given pairs: splitValues, then updateTime is
\* taken, before any balance is requested.
StartBalances(pairs) ==
    /\ wpc' = "balances"
    /\ input' = pairs
    /\ pending' = pairs
    /\ updateAge' = 0
    /\ UNCHANGED <<chainVars, table, blockErrs, cacheErrs, headAhead,
                   headPassed, fetched, validatorVars>>

\* Mutant: the cached list of makers never expires.
ListIsFreshForever == list.cached
ListIsFresh == list.cached /\ list.age <= ListTTL
RowsInTable == {p \in Pairs : table[p].state # "absent"}

\* getMakerTokensAsync is answered from MAKER_TOKEN_CACHE.
GetMakerTokensCached ==
    /\ wpc = "tokens" /\ ListIsFresh
    /\ StartBalances(list.pairs)
    /\ UNCHANGED <<failures, list>>

\* getMakerTokensAsync queries the table and caches the answer.
GetMakerTokensQuery ==
    /\ wpc = "tokens" /\ ~ListIsFresh
    /\ list' = [cached |-> TRUE, age |-> 0, pairs |-> RowsInTable]
    /\ StartBalances(RowsInTable)
    /\ UNCHANGED failures

\* The query rejects: the old list serves if there is one, else it throws.
GetMakerTokensFails ==
    /\ wpc = "tokens" /\ ~ListIsFresh
    /\ MayFail
    /\ failures' = failures + 1
    /\ \/ list.cached /\ StartBalances(list.pairs) /\ UNCHANGED list
       \/ ~list.cached /\ CacheRoundFails

\* Mutant: updateTime is taken again whenever a chunk resolves.
GetErc20BalancesStampedPerChunk(chunk) ==
    /\ wpc = "balances"
    /\ chunk \subseteq pending /\ chunk # {}
    /\ Cardinality(chunk) <= MaxChecksPerCall
    /\ fetched' = [p \in Pairs |-> IF p \in chunk THEN chain[p] ELSE fetched[p]]
    /\ pending' = pending \ chunk
    /\ updateAge' = 0
    /\ UNCHANGED <<chainVars, table, failures, wpc, blockErrs, cacheErrs,
                   headAhead, headPassed, list, input, validatorVars>>

\* One of the parallel getMinOfBalancesOrAllowances calls resolves, with the
\* balances of its chunk at the block that is the latest at that moment.  Any
\* set of at most MaxChecksPerCall pending pairs may be a chunk of _.chunk.
GetErc20Balances(chunk) ==
    /\ wpc = "balances"
    /\ chunk \subseteq pending /\ chunk # {}
    /\ Cardinality(chunk) <= MaxChecksPerCall
    /\ fetched' = [p \in Pairs |-> IF p \in chunk THEN chain[p] ELSE fetched[p]]
    /\ pending' = pending \ chunk
    /\ UNCHANGED <<chainVars, table, failures, wpc, blockErrs, cacheErrs,
                   headAhead, headPassed, list, input, updateAge, validatorVars>>

\* A chunk rejects, so Promise.all does; or the save does.  The save is one
\* transaction, so that it leaves no row behind.
BalancesOrSaveFails ==
    /\ wpc = "balances"
    /\ MayFail
    /\ failures' = failures + 1
    /\ CacheRoundFails

\* The row that save writes over the stored one: timeFirstSeen is undefined in
\* the entity and keeps its value.
SampledRow(old, bal, age) ==
    [state |-> "sampled", seenAge |-> old.seenAge, sampleAge |-> age, balance |-> bal]

\* Mutant: the rows are stamped with the time of the save.
UpdateErc20BalancesStampedLate ==
    /\ wpc = "balances" /\ pending = {}
    /\ table' = [p \in Pairs |-> IF p \in input
                                 THEN SampledRow(table[p], fetched[p], 0)
                                 ELSE table[p]]
    /\ headAhead' = headPassed
    /\ wpc' = "delay"
    /\ UNCHANGED <<chainVars, failures, blockErrs, cacheErrs, headPassed, list,
                   input, updateAge, fetched, pending, validatorVars>>

\* updateErc20BalancesAsync commits, lastBlockSeen becomes newBlock.
UpdateErc20Balances ==
    /\ wpc = "balances" /\ pending = {}
    /\ table' = [p \in Pairs |-> IF p \in input
                                 THEN SampledRow(table[p], fetched[p], updateAge)
                                 ELSE table[p]]
    /\ headAhead' = headPassed
    /\ wpc' = "delay"
    /\ UNCHANGED <<chainVars, failures, blockErrs, cacheErrs, headPassed, list,
                   input, updateAge, fetched, pending, validatorVars>>

\* delay(DELAY_WHEN_NEW_BLOCK_FOUND) or delay(DELAY_WHEN_NEW_BLOCK_NOT_FOUND).
DelayElapses ==
    /\ wpc = "delay"
    /\ wpc' = "loop"
    /\ UNCHANGED <<chainVars, table, failures, blockErrs, cacheErrs, headAhead,
                   headPassed, list, input, updateAge, fetched, pending, validatorVars>>

\* Too many errors: the loop throws and the process ends with exit(1).
WorkerExits ==
    /\ wpc = "loop" /\ TooManyErrors
    /\ wpc' = "exited"
    /\ UNCHANGED <<chainVars, table, failures, blockErrs, cacheErrs, headAhead,
                   headPassed, list, input, updateAge, fetched, pending, validatorVars>>

\* The process dies in the middle of anything it does.
WorkerCrashes ==
    /\ wpc # "exited"
    /\ MayFail
    /\ failures' = failures + 1
    /\ wpc' = "exited"
    /\ UNCHANGED <<chainVars, table, blockErrs, cacheErrs, headAhead, headPassed,
                   list, input, updateAge, fetched, pending, validatorVars>>

\* The supervisor starts it again: everything but the table is new.
WorkerRestarts ==
    /\ wpc = "exited"
    /\ wpc' = "loop" /\ blockErrs' = 0 /\ cacheErrs' = 0
    /\ headAhead' = TRUE /\ headPassed' = FALSE
    /\ list' = [cached |-> FALSE, age |-> 0, pairs |-> {}]
    /\ input' = {} /\ updateAge' = 0 /\ pending' = {}
    /\ UNCHANGED <<chainVars, table, failures, fetched, validatorVars>>

-----------------------------------------------------------------------------
(* A validator call: getRfqtTakerFillableAmountsAsync. *)

MakerTokens(batch) == {batch[i].token : i \in DOMAIN batch}
TokenOf(batch) == CHOOSE t \in MakerTokens(batch) : TRUE
MakersOf(batch) == {batch[i].maker : i \in DOMAIN batch}

\* A batch arrives.  Unless all its quotes are for one maker token it is
\* rejected at once: every amount is zero.
StartValidation(v, batch) ==
    /\ vpc[v] = "idle"
    /\ quotes' = [quotes EXCEPT ![v] = batch]
    /\ toAdd' = [toAdd EXCEPT ![v] = {}]
    /\ rows' = [rows EXCEPT ![v] = [m \in Makers |-> NoRow]]
    /\ \/ /\ Cardinality(MakerTokens(batch)) # 1
          /\ vpc' = [vpc EXCEPT ![v] = "done"]
          /\ amounts' = [amounts EXCEPT ![v] = [i \in DOMAIN batch |-> 0]]
       \/ /\ Cardinality(MakerTokens(batch)) = 1
          /\ vpc' = [vpc EXCEPT ![v] = "querying"]
          /\ amounts' = [amounts EXCEPT ![v] = <<>>]
    /\ UNCHANGED <<chainVars, table, failures, workerVars>>

\* _chainCacheRepository.find resolves.
QueryRows(v) ==
    /\ vpc[v] = "querying"
    /\ vpc' = [vpc EXCEPT ![v] = "read"]
    /\ rows' = [rows EXCEPT ![v] = [m \in Makers |->
                  IF m \in MakersOf(quotes[v])
                  THEN table[<<m, TokenOf(quotes[v])>>] ELSE NoRow]]
    /\ UNCHANGED <<chainVars, table, failures, workerVars, quotes, amounts, toAdd>>

\* _calculateMakerBalanceFromResult: what a row says of the maker's balance.
IsInfinite(r) == r.state = "unsampled" /\ r.seenAge <= Expiry
\* Mutant: the age of a sample is not tested.
MakerBalanceOfAnyAge(r) == IF r.state = "sampled" THEN r.balance ELSE 0
MakerBalance(r) ==
    IF r.state = "sampled" /\ r.sampleAge <= Expiry THEN r.balance ELSE 0

\* _calculateTakerFillableAmountsFromQuotes, one quote.
TakerFillableAmount(q, r) ==
    IF \/ r.state = "absent"
       \/ IsInfinite(r)
       \/ MakerBalance(r) >= q.makerAmount
    THEN q.takerAmount
    ELSE (MakerBalance(r) * q.takerAmount) \div q.makerAmount

\* After the query has answered: nowUnix is taken, the amounts are computed,
\* and the makers without a row are collected.
CalculateAmounts(v) ==
    LET batch == quotes[v]
        new == {m \in MakersOf(batch) : rows[v][m].state = "absent"}
    IN /\ vpc[v] = "read"
       /\ amounts' = [amounts EXCEPT ![v] = [i \in DOMAIN batch |->
                        TakerFillableAmount(batch[i], rows[v][batch[i].maker])]]
       /\ toAdd' = [toAdd EXCEPT ![v] = new]
       /\ vpc' = [vpc EXCEPT ![v] = IF new = {} THEN "done" ELSE "adding"]
       /\ UNCHANGED <<chainVars, table, failures, workerVars, quotes, rows>>

\* INSERT ... ON CONFLICT DO NOTHING, with timeFirstSeen NOW().
\* Mutant: ON CONFLICT DO UPDATE, the insert wins.
InsertConflictOverwrites(old) == NewRow
InsertConflict(old) == old
AddMakers(v) ==
    LET t == TokenOf(quotes[v])
    IN /\ vpc[v] = "adding"
       /\ table' = [p \in Pairs |->
                      IF p[1] \notin toAdd[v] \/ p[2] # t THEN table[p]
                      ELSE IF table[p].state = "absent" THEN NewRow
                      ELSE InsertConflict(table[p])]
       /\ vpc' = [vpc EXCEPT ![v] = "done"]
       /\ UNCHANGED <<chainVars, failures, workerVars, quotes, rows, amounts, toAdd>>

\* The find or the insert rejects and so does the call: it returns no amounts.
ValidationFails(v) ==
    /\ vpc[v] \in {"querying", "adding"}
    /\ MayFail
    /\ failures' = failures + 1
    /\ vpc' = [vpc EXCEPT ![v] = "idle"]
    /\ UNCHANGED <<chainVars, table, workerVars, quotes, rows, amounts, toAdd>>

\* The amounts go back to the caller.
ReturnAmounts(v) ==
    /\ vpc[v] = "done"
    /\ vpc' = [vpc EXCEPT ![v] = "idle"]
    /\ UNCHANGED <<chainVars, table, failures, workerVars, quotes, rows, amounts, toAdd>>

-----------------------------------------------------------------------------
WorkerStep ==
    \/ GetBlockNumber
    \/ GetMakerTokensCached \/ GetMakerTokensQuery
    \/ \E chunk \in SUBSET pending : GetErc20Balances(chunk)
    \/ UpdateErc20Balances
    \/ DelayElapses
    \/ WorkerExits
    \/ WorkerRestarts

WorkerFails ==
    \/ GetBlockNumberFails \/ GetMakerTokensFails
    \/ BalancesOrSaveFails \/ WorkerCrashes

ValidatorStep(v) ==
    \/ QueryRows(v) \/ CalculateAmounts(v) \/ AddMakers(v) \/ ReturnAmounts(v)

Next ==
    \/ Tick
    \/ \E p \in Pairs, b \in Balances : NewBlock(p, b)
    \/ WorkerStep
    \/ WorkerFails
    \/ \E v \in Validators :
         \/ \E batch \in Batches : StartValidation(v, batch)
         \/ ValidatorStep(v)
         \/ ValidationFails(v)

Spec == Init /\ [][Next]_vars

(* The worker's loop never stops taking steps, the clock and the chain go    *)
(* on.  Node and database failures are the bounded exception.  Only blocks   *)
(* that leave the balances alone are certain to come.                        *)
FairSpec ==
    /\ Spec
    /\ WF_vars(WorkerStep)
    /\ WF_vars(Tick)
    /\ WF_vars(\E p \in Pairs : NewBlock(p, chain[p]))
-----------------------------------------------------------------------------
(* Properties. *)

TypeOK ==
    /\ chain \in [Pairs -> Balances]
    /\ heldAge \in [Pairs -> [Balances -> Age]]
    /\ table \in [Pairs -> Row]
    /\ failures \in 0 .. MaxFailures
    /\ wpc \in {"loop", "tokens", "balances", "delay", "exited"}
    /\ blockErrs \in 0 .. MaxRequestErrors
    /\ cacheErrs \in 0 .. MaxCacheErrors
    /\ headAhead \in BOOLEAN /\ headPassed \in BOOLEAN
    /\ list \in [cached : BOOLEAN, age : Age, pairs : SUBSET Pairs]
    /\ input \in SUBSET Pairs /\ pending \in SUBSET Pairs
    /\ updateAge \in Age
    /\ fetched \in [Pairs -> Balances]
    /\ vpc \in [Validators -> {"idle", "querying", "read", "adding", "done"}]
    /\ quotes \in [Validators -> Seq(Quote)]
    /\ rows \in [Validators -> [Makers -> Row]]
    /\ amounts \in [Validators -> Seq(Nat)]
    /\ toAdd \in [Validators -> SUBSET Makers]

(* A sample is never dated later than a moment at which the maker still held *)
(* the sampled balance, although the chunks of one round are read at         *)
(* different blocks: cacheRfqBalancesAsync takes updateTime before it asks   *)
(* for the balances.                                                         *)
SampleNotPostdated ==
    \A p \in Pairs : table[p].state = "sampled" =>
        heldAge[p][table[p].balance] <= table[p].sampleAge

(* The same of the balances the worker has collected and not yet saved,      *)
(* whatever blocks are mined while the other chunks of the round are read.   *)
InFlightNotPostdated ==
    wpc = "balances" => \A p \in input \ pending :
        heldAge[p][fetched[p]] <= updateAge

(* Whenever a validator accepts part of a quote of a maker whose row it has  *)
(* found sampled, the maker held, at some moment of the last Expiry ticks, a *)
(* balance that covers what is accepted.  The unverified cases are only a    *)
(* maker never seen before and a row added less than Expiry ago.             *)
AcceptedIsBacked(v, i) ==
    LET q == quotes[v][i]
        r == rows[v][q.maker]
    IN \/ amounts'[v][i] = 0
       \/ q.makerAmount = 0
       \/ r.state = "absent"
       \/ r.state = "unsampled" /\ r.seenAge <= Expiry
       \/ \E b \in Balances :
             /\ heldAge[<<q.maker, q.token>>][b] <= Expiry
             /\ amounts'[v][i] * q.makerAmount <= b * q.takerAmount

FillableAmountsAreBacked ==
    [][\A v \in Validators : CalculateAmounts(v) =>
          \A i \in DOMAIN quotes[v] : AcceptedIsBacked(v, i)]_vars

(* However many validators insert the same maker at the same time, and       *)
(* however late their insert comes, a row stays; the moment it was first     *)
(* seen is never moved forward, so that the window in which an unsampled     *)
(* maker is trusted cannot be extended; and a sampled row keeps its sample   *)
(* until a newer one replaces it.                                            *)
RowsOnlyAdvance ==
    [][\A p \in Pairs : table[p].state # "absent" =>
          /\ table'[p].state # "absent"
          /\ table'[p].seenAge >= table[p].seenAge
          /\ table[p].state = "sampled" => table'[p].state = "sampled"]_vars

(* Every maker a validator adds is eventually sampled by the worker, in      *)
(* spite of the cached list, of failed rounds, of crashes and of the exit    *)
(* after too many errors.                                                    *)
EveryRowIsSampled ==
    \A p \in Pairs : (table[p].state = "unsampled") ~> (table[p].state = "sampled")
=============================================================================
