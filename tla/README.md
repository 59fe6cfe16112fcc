# A TLA+ development of the 0x API

The 0x API answers token swap requests with quotes over decentralised exchanges, the open order
book and market makers (RFQ), serves the order book itself (SRA), and pushes order events to
websocket clients. This directory holds TLA+ models of its parts, the TLC configurations that
check small instances of them, and TLAPS proofs for instances of any size. `PROJECT.json` maps
every definition to the lines it stands for.

Contents: 1 inventory, 2 modules and the code, 3 runs, 4 fairness, 5 proofs, 6 disagreements
between the code and its documentation, 7 what is not modelled, 8 plan.

## 1. Inventory

The programs run as several processes: web processes (swap, SRA, meta-transactions), a worker that
samples balances of makers, and a websocket server. They share a Postgres database; the order
watcher, the RFQ server, S3, the gas oracle, Kafka and an Ethereum node are other programs.

| Component | State | Operations | Hard behaviour | What makes it correct |
|---|---|---|---|---|
| Maker balance cache worker (`runners/rfq_maker_balance_cache_runner.ts`) | error counters, last block, cached list of pairs, the table `maker_balance_chain_cache` | poll the head, list pairs, read balances in chunks, save | chunks read at different blocks, failures of node or database, exit and restart, rows added meanwhile | a row never claims a balance for a time at which it no longer held; every row is sampled in the end |
| RFQt firm quote validator (`services/postgres_rfqt_firm_quote_validator.ts`) | rows read, makers to add | query, compute fillable amounts, insert `ON CONFLICT DO NOTHING` | calls in many processes race the worker and each other | what it accepts was backed by a recent balance; an insert disturbs no row |
| Orders channel (`services/websocket_service.ts`) | two maps from requestId to socket and options, a list of requestIds and a liveness flag per socket | connect, subscribe, ping, close, publish, destroy | close events later than terminations, shared requestIds, vanished peers | maps follow the connections, updates go to who asked, subscribers are served |
| Order book service and SRA handlers (`services/orderbook_service.ts`, `handlers/sra_handlers.ts`, `utils/order_watcher.ts`) | the view of valid orders, the table of persistent orders | post, keep, look up, list | several queries per request while the watcher moves orders between tables; timeouts | only accepted orders are kept, confirmed ones are, a look-up misses no order and a list none but those restored meanwhile |
| Swap handlers, swap service, swap quoter, market operation utils, source filters, RFQ client | one request on its way | parse, filter sources, fetch liquidity, route, ask makers, route again | concurrent requests to makers that fail, time out or answer badly; two phases that see different liquidity | sources of the request and the chain are respected, /quote is signed, asking makers costs nothing, every request ends |
| Gas price oracle client (`asset-swapper/utils/gas_price_utils.ts`) | estimation, error count | heartbeat, call, answer, failure | heartbeats and quotes update the same fields across awaits | throws only when it must, answers with a price unless the oracle lacked one |
| Blocked addresses (`utils/rfq_blocked_address_utils.ts`) | set, expiry, `_updating` | `isBlocked`, update in the background | overlapping and failing queries | one query at a time, the set follows the table |
| Slippage model manager (`utils/slippage_model_manager.ts`) | models, `lastRefreshed` | refresh from S3 in two requests; expected slippage of a fill and of an answer | overlapping refreshes, a file replaced or removed in between; models that predict too much or a gain | ends with the models of the file; a prediction is a loss within the slippage of the request |
| Pool caches (`market_operation_utils/pools_cache/`) | entries with expiry | quote, fetch with a timeout, save, reload of top pools | late answers, failed requests | an expired entry is replaced, an unknown pair is learnt |
| Path optimizer, path, fills, orders | none (pure) | samples to fills, route to path, better of two paths, slippage | rounding in many places, a router with floats, paths that fall short | amounts add up, a path that covers the amount wins, no promise beyond the slippage |
| Quote simulation, quote info | none (pure) | fill loop, best and worst case | rounding, protocol fees | what is asked for is sold or bought, the worst case is worse |
| Fee calculator, sell token fees, affiliate fees, prices | none (pure) | volume, integrator, 0x and gas fees, price of a quote | rounding, fees as large as the amount, shares of fees | each fee is paid once, no more is taken than there is, no price is better than the amounts |
| Sampler, its operations, RPC subprovider, sampler contract (`market_operation_utils/sampler*.ts`, `rpc_subprovider.ts`, `contracts/`) | none | batch of calls in one `eth_call`, results read by each operation; samplers of pools, approximated buys, choice of the hops of a two-hop | operations that are skipped, that revert, whose parts revert; pools with limits; iterations that stop short; a node that fails in five ways | every sample, rate and amount is that of its own source, token or order; an approximated buy pays enough |
| Meta-transaction service and handlers | none | price, quote, of two versions | fees out of the sell amount | the signed amounts are those of the quote |
| Quote consumers, feature rules | none (pure) | choice of a feature, calldata | wrap and unwrap, fee and refund transforms, amounts split over steps | the taker and the recipients of fees get what the answer says, nothing is left behind |
| Aave and Compound caches, result cache and alternative markets | a list each | interval or request, get | fetches that overlap, fail and end out of order, three policies for failures | the list follows the service |
| Reports, runners, configuration, entities, contracts, tables of addresses | - | wiring, logging, constants | - | - |

`PROJECT.json` lists the hazards of this code, each at the line where it bites, with the properties
that would catch it.

## 2. Modules and the code

Every module has one action per handler, timer or step between two awaits. What one synchronous
stretch of JavaScript does is one step; every `await` on something outside the process ends a step.

* **MakerBalanceCache** - the worker (`wpc`, error counters, `headAhead`/`headPassed`, the cached
  `list`, `input`, `pending`, `fetched`) and any number of validator calls (`vpc`, `quotes`, `rows`,
  `amounts`, `toAdd`) over one `table`, with a `chain` whose balances change at every block. Times
  are ages that stop at `Expiry + 1`, because the code only compares differences with the expiry.
  `heldAge` is a history: how long ago a pair last held a balance. A save writes all chunks in one
  transaction, as TypeORM's `save` does.
* **OrdersChannel** - sockets that are open, closing and gone (the close event comes later than the
  termination, buffered messages in between), the two maps, pings, order events and `destroyAsync`.
  `asked` is a history: the latest subscription accepted under each requestId.
* **OrderBook** - POST requests (`post`) and GET requests (`read`) over the view `valid` and the table
  `persistent`. The watcher is external: it answers after it has added what it accepts, it may do so
  after the timeout of one second, it removes orders from the view and marks their persistent rows in
  any order, restores them, and deletes no persistent row. `sure` and `restored` are histories: the
  orders that a GET may count on because they belonged in its answer at every moment since it began, and
  those whose mark the watcher took back between its two queries.
* **SwapQuote** - one request through handler, service, quoter, optimizer and RFQ client. Liquidity is
  a set of items with a curve each; the router is external and finds a best path for the whole
  amount. Requests name sources with the ids that clients use (`0x`, `Mesh`, `RFQT`, ...).
* **QuoteAmounts** - the same request once more, for its numbers: what the handlers accept (`Parse`),
  fees in the sold token (`Start`), the router's answer (`Route`), path and amounts (`CreateQuote`), the
  transaction (`Encode`), its gas (`Estimate`), fees in the bought token, prices, price impact and
  expected slippage (`Reply`), and the answer of the endpoint (`Respond`). The arithmetic is in modules
  of operators that keep the names of the code: **Requests** (the handlers of swaps and of both versions
  of meta-transactions), **Fees** (fee_calculator.ts), **PathOptimizer** (path_optimizer.ts, fills.ts,
  path.ts, orders.ts), **ExpectedSlippage** (the formula of slippage_model_manager.ts and the fill
  adjustor), **QuoteInfo** (quote_simulation.ts, quote_info.ts) and **Calldata** (the quote consumer and
  its feature rules), over the fractions of **Rationals**, which stand for BigNumber. Calldata is kept
  as the steps it encodes; the last part of the module, external, is what the Exchange Proxy does with
  them, so that properties can say who holds what in the end. The router is external: any split of the
  amount within what it was told, with units lost, or an answer that is not a number. SwapQuote decides
  which liquidity there is, QuoteAmounts what is made of it.
* **GasPrice**, **BlockedAddresses**, **SlippageModel**, **PairCaches**, **ListCaches** - the parts of a web
  process that keep a copy of somebody else's data. A refresh of SlippageModel takes its time (`Refresh`)
  before it asks for the head of the file, and judges the file by that time. ListCaches is three of them: the reserves of Aave, the
  cTokens of Compound and the markets of the alternative RFQ maker, with fetches that overlap.
* **Sampler** - one call of the sampler contract: the operations of a trade (`Ops`), those that need no
  call (`IsConstant`), the contract's `BatchCall` with its choice of hops, and what each operation makes of
  its result (`ResultOf`, `SubResults`) up to the liquidity that routing starts from. A source is one pool:
  it may revert, it answers 0 beyond a limit of its own on either side, its sampler stops at the first 0
  (`Sample`), and it is either asked for buys or approximates them by selling (`ApproximateBuy`, the
  iterations of ApproximateBuys.sol). What the contract of the pool itself computes is any function.
  `HandleRequest` is the RPC subprovider. **ProcessCaches** holds the gas price and the blocked addresses side by side, for the
  proofs; **MCCaches** composes these and the other parts above; they share nothing, so one of them moves
  in each behaviour.
* **MakerBalanceCacheProofs**, **OrdersChannelProofs**, **OrderBookProofs**, **SwapQuoteProofs**,
  **CachesProofs** (GasPrice and BlockedAddresses), **QuoteAmountsProofs** - theorems about the
  specifications; **AmountTheorems** (sums, reduced fractions, and the operators of QuoteAmounts) and
  **FoldTheorems** (folds over finite sets) - the lemmas they rest on.
* **MC...** - instances for TLC.

SwapQuote uses the outcome of the other parts as nondeterministic choices: `blocked` may change at
any time (BlockedAddresses), the validator may fail or cut a quote (MakerBalanceCache), there may be
no gas price (GasPrice), pools may or may not be known (PairCaches), the sampler may fail (Sampler).

An operator introduced by a comment "Mutant" is a plausible mistake in the definition after it. It is
used by no specification; replacing the definition by it makes TLC find the property named in
`PROJECT.json` violated.

## 3. Runs

| Run | Question | Bounds | Distinct states |
|---|---|---|---|
| maker_balance_race | do two validators, the worker, blocks and one failure ever overstate a balance or disturb a row? | 1 pair, 2 validators, balances 0..1, expiry 1 tick, 1 failure | 1.0 M |
| maker_balance_chunks | are balances that are collected at different blocks dated right? | 2 pairs in chunks of 1, 1 validator, batches with mixed tokens or none | 1.8 M |
| maker_balance_live | is every row sampled in the end? | 1 pair, 1 validator, 2 failures, so that the worker reaches each error limit | 233 k |
| orders_channel | do the maps follow the connections, with shared requestIds, errors and late close events? | 2 sockets, 2 requestIds of which one is shared, 2 orders | 151 k |
| orders_channel_reconnect | is the latest subscriber of a requestId served? (violated) | the same, one order | - |
| order_book | are accepted orders kept and existing ones found? | 2 orders, 2 POSTs, 1 GET, 2 moments | 872 k |
| caches | do the copies follow their origin, and do the samples belong to their sources? | 2 heartbeats, 2 callers, 3 addresses with room for 2, 2 refreshes, 3 versions of which one does not parse, 2 pairs, 2 calls, 1 failure; 2 entries and 2 fetches of a list; 2,600 trades over 3 sources and 5 tokens with pools that double, keep, halve, have a limit or revert, and three whose buys are approximated, 1 operation of a batch that reverts | 117 k |
| blocked_addresses_failure | also after a failed query? (violated) | 3 addresses, 1 failure | - |
| pair_caches_swapinfo | is an expired entry of the Balancer V2 cache replaced? (violated) | 2 pairs, 2 calls | - |
| swap_quote | sources, signatures, phases, keys and outcomes | 3 dexes of which the chain lacks one, 36 requests, amount of 2 units, 3 curves | 61 k |
| quote_amounts | do routes, orders, fees, prices and transactions add up after rounding? | amounts 1, 4, 5, 7 and 9, at most 3 ways, slippage 0, 10 and 40 %, affiliate fees 0, 33, 100 and 120 % and gasless, every combination of 3 fees over 2 recipients, 5 chains, every feature of the proxy, wrapping and unwrapping, parameters at and beyond their limits, 4 samples, a router that loses 0 or 1 units, pools with uneven prices, the gasless fee on and off | 161 k |
| swap_quote_mesh | does excluding Mesh exclude the open order book? (violated) | 1 request | - |

Why the bounds suffice to be interesting. Two validators, two POSTs, two refreshes and two calls are
the smallest numbers that race; a third only repeats a race with one of them. One pair with two
balances distinguishes "held" from "no longer held"; two pairs are needed for two chunks. An expiry
of one tick has ages that are fresh, at the limit and beyond it. The error limits of 1 with 2
failures make both counters reach and leave their limits. An amount of two units lets a path be
whole, split or impossible. In order_book, order 1 expires too early to be listed and order 2 does
not, and a page holds both, the case in which a list is not cut off. In quote_amounts the amounts are small
because rounding is largest there: every division leaves a remainder for some of them, orders are
larger and smaller than the amount, one pool runs dry in the middle of its samples and parts of a
route give nothing. `Precision` (1000 in place of 10^78) is kept for one quotient only, the factor
that scales a route: being rounded, it lets an exact integer come out a little above itself and be
rounded up, which is why a path may take one unit per fill too much. Amounts are below it, as they are in the code. Other quotients are exact
fractions. The overheads of the exchange proxy (`OverheadOf`) are those of options.ts in units of 40,000
gas. In the sampler's trades amounts are 1 to 3 and pools take and give at
most 6 (`MaxAmount`), so that a pool may give less than a second hop needs, a limit may lie below what the
first hop gives, and a route may have no liquidity; the share below which a swap is a micro swap is 1/2 in
place of 0.01, and the error that an approximated buy aims at is as large as the whole (2 of 2 in place of
5 of 10,000), for with smaller ones no amount of a few units is ever near enough. Bounds that the code
does not have: `MaxBalance`, `MaxFailures`, `MaxErrors`, `MaxTime`, `MaxRow`, `MaxVersions`,
`MaxReverts`, `MaxAmount`.
`CHECK_DEADLOCK FALSE` stands where the system may stop: an orders channel whose sockets are all used
up, an order book with nothing left to ask, a quote that has been answered. Symmetry is used in runs without liveness only.

The properties, in the order of the runs:

* `SampleNotPostdated`, `InFlightNotPostdated` - a sample is dated no later than a moment at which the
  balance was held, since `updateTime` is taken before the balances are read.
* `FillableAmountsAreBacked` - what a validator accepts is covered by a balance of the last `Expiry`
  ticks, except for makers it has never seen or that were added less than `Expiry` ago.
* `RowsOnlyAdvance` - no late insert restarts the time a row was first seen or drops its sample.
* `EveryRowIsSampled` - liveness of the worker with its exits and crashes.
* `MapsFollowConnections`, `OnlyAskedIsSent`, `OwnSubscriberIsServed`, `VanishedPeersAreDropped`.
* `KeptWereAccepted`, `ConfirmedAreKept`, `ExistingIsFound`; `OnlyRestoredAreMissed` - a list misses no order
  that was in it throughout, but for one whose mark was taken back between the two queries.
* `ThrowsOnlyInNeed`; `PriceUnlessOwnAnswerLacked` - a caller is answered without a price only if the
  answer to its own request lacked one; `OneQueryAtATime`; `TableIsFollowed` - an address of the table
  is refused in the end and one that left it is served, if no query fails; `FileIsFollowed` - the models
  are those of the file in S3, or none if it is gone or stale; `PoolsAreFollowed` - an unknown pair is
  learnt, and an expired entry of the Balancer cache replaced; `ListIsFollowed` - what the list caches
  offer is what the service lists, once it answers, and Aave's reserves and the markets are dropped while
  it does not.
* `SamplesAreTheirs` - the samples of a source are those of its pool and no working source is missing; what
  an approximated buy says is to be paid buys the amount, if the pool's rate does not rise with the amount; a
  two-hop quote names the two pools that make its output, the one chosen first the best for the amount and
  the other the best for what is in between, and a token with such a pair has a quote; rates are of the
  right token, orders keep their fillable amounts.
* `SourcesRespected`, `QuotesAreSigned`, `PathIsNotLost`, `MakersOnlyForListed`,
  `EveryRequestIsAnswered`.
* `RouteIsCovered` - the amounts of a path are the amount, at most a unit per fill more, and less only
  if an order is used up or a part of the route gives nothing. `CompleteIsPreferred` - no path that
  falls short is taken before one that does not.
* `WorstIsWorse` in all four numbers; `PromiseIsKept` - orders that give what their slippage demands
  add up to the worst case, up to a unit per fill.
* `AskedIsSold`, `AskedIsBought` - a complete path sells or buys what the request says, fees included, but
  for a gasless fee on what is bought.
* `PriceOmitsOnlyGasless` - the price is no better than the amounts in the answer before a gasless fee
  (`GaslessFee`, 0 unless GASLESS_SWAP_FEE_ENABLED), and the guaranteed price no better than the price.
  `FeesAddUp` - the taker pays each fee once, the share of 0x comes out
  of the integrator's fee, the gas fee has paid for all transfers, and less is taken than is sold.
* `TakerIsPaid` - the transaction can be executed with the value of the answer, and gives the taker what
  the answer says, or the least amount if everything slips, up to a unit per fill. `FeesAreDelivered` -
  with whatever feature is chosen, the fees that were taken off reach their recipients, once.
  `NothingIsStranded` - the wallet of transformERC20 keeps nothing. All three are about the state after
  the proxy has run the steps, for quotes whose protocol fee is paid (see 6).
* `ImpactIsLimited` - an answered quote, before a gasless fee, is not worse than the rate of the fee sources
  by more than the request allows. `SourcesAreWeighed` - shares of sources add up to one up to their digits, those of a
  sell are shares of what is sold, and the expected slippage is a loss within the request's slippage.

## 4. Fairness

* Worker: weak fairness of its steps and of time, and blocks keep coming. The process supervisor
  restarts it after an exit; failures are bounded by `MaxFailures`, not excluded.
* Orders channel: the interval timer keeps firing, and a termination ends in a close event (ws emits
  one). Nothing is assumed of clients.
* Blocked addresses: requests keep coming, time passes, a query answers or fails.
* Slippage models: each request to S3 ends; a refresh runs at every interval.
* Pool caches: strong fairness of "some call quotes this pair", as the calls are few slots that are
  taken and freed again; fetches end. The property is about pairs that are asked for repeatedly.
* List caches: the interval of Aave and Compound fires and requests for markets keep coming; a fetch
  ends, with the list or a failure. That the service answers is a hypothesis of the property, not assumed.
* Swap quote: the process takes its steps, and the timeouts of the RFQ client fire. That the RFQ
  server ever answers is not assumed. That a call of the sampler ends is: it does unless
  the body of the node's answer breaks off (see 6).
* Order book, gas price, sampler and quote amounts: only safety is checked.

## 5. Proofs

All theorems hold for every value of the constants that satisfies the assumptions of the module, which
TLC evaluates in every run. `ConstantsAssumption` says that numbers are natural, that limits the code
divides or loops by are positive, and that tokens that stand for "nothing" are not members of the sets
they complete. QuoteAmounts has two more. `NumbersAssumption`: gas, decimals and rates are not negative,
digits are positive, and `Infinity` is not a number. `ScenariosAssumption`: what parsing and the sampler
leave - percentages are not negative, amounts
are natural and below `Precision` (a quotient kept to fewer digits than the amount has would not be within
a unit of it; in the code 10^78 exceeds every uint256), native orders have something on both sides, only
two-hops are named MultiHop, and
the curves of pools reach up to twice the amount, so that a buy with its fee on top is within them.
`ModelsAssumption` of ExpectedSlippage: the coefficients of the models are numbers, of any sign.

* **MakerBalanceCacheProofs** (661 obligations). `TypeCorrect`, with `ErrorsBelowLimit`: a round only
  runs below the limit, without which `cacheErrs` could be seen to pass it. `SamplesAreTruthful` and
  `CollectedIsTruthful`: the invariant `SampleInv` adds to the properties that the present balance has
  age 0 (`HeldNow`), that the copies of rows in validators are dated right, and that a validator
  past its query has quotes of one token. `AcceptedQuotesAreBacked` is an action property: the
  accepted amount is a floor of `balance * takerAmount / makerAmount`, so it needs a lemma on floors
  besides the invariant. `RowsAreKept` follows from the types alone, action by action.
* **OrdersChannelProofs** (207). `MapsAreLatest` makes `MapsFollowConnections` and `OnlyAskedIsSent`
  inductive: what the maps still hold is the latest subscription. `SubscribersAreServed` needs `OwnInv`:
  connections only use their requestIds, and an open subscription under a requestId of its own is in
  the maps.
* **OrderBookProofs** (342). `PostInv` says what a post knows at each step (what it found had been
  accepted; while it saves, it has found all accepted orders that were not removed; it has told
  nobody "ok" before it is done unless asked to skip confirmation). `LookupInv`: between the two
  look-ups an order the call may count on is kept, and `KeptForGood`, rows are never deleted.
  `ListInv`: between the two queries whatever is missing is marked as removed and not fresh; it becomes
  fresh only by being added anew. `ListMissesOnlyRestored` follows with `MarkedUnlessRestored`: a mark that
  is gone at the second query was taken back since the first. `WholePage` uses cardinalities of finite sets.
* **SwapQuoteProofs** (794). `PathsRespectSources`: all liquidity found is allowed, paths go over the
  liquidity, makers are asked only if Native is allowed. `NoUnsignedQuote`: unsigned items come from
  requests for prices. `UnlistedGetNoMakers` holds if the key is unlisted, or if the taker stays blocked;
  under either, `MakersAreLeftOut` is invariant: makers are off after `_validateRfqtOpts` and nothing of
  theirs is in the liquidity. `MakersCostNothing` is about optimal paths. `RouteInv` keeps that all
  liquidity has price curves and that the result, while makers are waited for, is a best path over it.
  The second phase routes over the items of that path among others, so its best path gives no less; the
  sums that compare them are over finite functions (FoldTheorems).
* **CachesProofs** (134). `ThrowsAreNeeded`: the count never exceeds the failures in a row.
  `UndefinedIsOnesOwn`: a failure throws while no price is known, and a caller is answered `undefined` only
  after an answer without a result to its own request; nobody else's leaves it without a price. `QueriesDoNotOverlap`: the flag is set for as long as a query is under way.
* **QuoteAmountsProofs** (5412), for every request, all liquidity, every router within what it was told and paths of
  any length. `AmountsInv` collects what each stage knows: parameters within their limits, liquidity that
  reaches the amount, fills of whole units, two cases of which the worst is worse, fees that are
  consistent. From it, `FeesArePaidOnce`, `ChosenPathCoversMore`, `WorstCaseIsWorse` and
  `RoundingIsBounded`, the last by adding up the errors of all fills: each is a quotient of limited
  precision rounded to a unit. `QuoteInv` relates stages: the amount that is routed is the one the request
  and the fees leave, the path belongs to it, and the answer to both. From both, `AnswerSellsAll`,
  `AnswerBuysAll` (the percentage is added to the amount and divided out again, each rounded down, and
  nothing is lost) and `PricesOmitOnlyGasless` (rounding down on sells and up on buys is against the taker for
  every number of decimals; gasless answers are included, with the fee added back). `ImpactInv` adds that the answer is within the impact allowed, and
  `ImpactIsProtected` follows: the impact is calculated from a rounded price that may be inverted, and
  every rounding is on the safe side; the gasless fee is left out of the impact, and is added back here too.

  `TradeInv` and `SentInv` add where the rest of the answer comes from: both cases, the breakdown by
  source, the steps of the transaction and its value are calculated from the orders of the path that was
  chosen, and the answer sends them as they were calculated. From these, `FeesReachRecipients` and
  `WalletIsEmptied`: the steps of each feature are executed one by one, with one lemma per kind of step on
  what it does to the balances of the wallet and of the recipients; a fee leaves the wallet once, the last
  step sends the rest of every token to the taker, and a step never gives more than there is.
  `PromiseIsAlwaysKept`: an order that slips loses at most one unit to rounding, dex orders give whole
  units, and the worst case is the sum, up to a unit per fill; for a two-hop the rounding is that of the
  whole. `SourcesAreAlwaysWeighed`: each share is within the last digit of amount / total, relative to
  itself, so the errors add up to no more than the total; scaled by the total the shares are one. The
  expected slippage is an average, weighted with these shares, of predictions that are each within the
  slippage of the request.
* **AmountTheorems** (7326), what the operators of QuoteAmounts compute, for all arguments: fees, samples,
  fills, orders, both cases, steps. Fractions are kept reduced, so addition, comparison and rounding need
  facts about divisors. Powers of ten are a recursive function, because the provers know nothing of `^`;
  that they are positive and grow is proved.
* **FoldTheorems** (208). Sums and folds over finite sets are recursive functions. What they compute is
  proved without induction over an operator: a smallest set for which a claim fails cannot be empty and
  has no element. The operator of the fold is a constant of FoldTheorems, and every fold of the model is
  an INSTANCE of it.

Checked by TLC only:

* liveness, which needs fairness and ENABLED: `EveryRowIsSampled`, `VanishedPeersAreDropped`, `TableIsFollowed`,
  `FileIsFollowed`, `PoolsAreFollowed`, `ListIsFollowed`, `EveryRequestIsAnswered`;
* `SamplesAreTheirs`, about one large operator of the sampler's batch and no state to be inductive over: it
  goes through `SelectSeq` in many places, of which the provers know nothing;
* `TakerIsPaid`, the amounts that reach the taker through every combination of features. The lemmas on the
  steps of a transaction say which tokens are where and that none is lost; they do not yet say how much
  each fill of a batch, a multi-hop or a transformation gives.

No module declares a RECURSIVE operator.

## 6. Where the code and its documentation disagree

Each is a run that TLC finds violated:

1. orders_channel_reconnect - `_closeHandler` deletes every requestId of the closing socket, also if
   another open socket subscribed under it since (websocket_service.ts:237); that client is sent
   nothing more.
2. pair_caches_swapinfo - `_getAndSaveFreshSwapInfoForPairAsync` fetches while the entry is good and
   not once it has expired (pair_swaps_cache.ts:66), although "Cache results for 30mins".
3. blocked_addresses_failure - `_updating` stays true after a failed query
   (rfq_blocked_address_utils.ts:59): the set is never updated again.
4. swap_quote_mesh - the handler sets `nativeExclusivelyRFQT`, the quoter reads `nativeExclusivelyRFQ`
   (swap_handlers.ts:489, swap_quoter.ts:272): excluding Mesh does not exclude open orders.

Noticed while modelling, and in the models as the code has them:

* an oracle answer in JSON without `result` counts as a success (gas_price_utils.ts:84) and the caller is
  given `undefined`, although "@returns gas price (in wei)" (:56). `PriceUnlessOwnAnswerLacked` says that
  this is the only way to get no price; that every answered caller has one is false, in three steps: ask,
  an answer without a result, return;
* the price leaves the gasless fee out (swap_service.ts:181), so that with GASLESS_SWAP_FEE_ENABLED it is
  better than the amounts of the answer, although "In order to not communicate a price better than the
  actual quote" (:186). `PriceOmitsOnlyGasless` adds the fee back; without that TLC finds a sell of 4 for 8
  with a fee of 1, priced at 8 for 4 where the answer buys 7. The price impact leaves the fee out as well,
  and a buy does not buy the fee on top (`ImpactIsLimited`, `AskedIsBought`);
* a list misses an order that is marked as removed at its first query and restored before its second
  (orderbook_service.ts:141, :174), although it is in the view or the table at every moment;
* the hops of a two-hop are chosen one after the other (TwoHopSampler.sol:45): if the best first hop gives
  more than the second pools take (BalancerSampler.sol:73), no route is found where another would do;
* an approximated buy that hits its target within a basis point has an error of 0, which counts as not
  found, and ends the samples of its source (ApproximateBuys.sol:93);
* `_.isEqual(includedSources, ['RFQT'])` (swap_service.ts:281) is never true, because the parser has
  replaced RFQT by Native by then;
* included sources of which none is known allow every source (source_filters.ts:36);
* /quote of an ETH sell without a taker asks for firm quotes without a tx origin (swap_quoter.ts:342);
* phase 2 routes over the dexes of the phase 1 path only; `PathIsNotLost` holds because the router
  finds best paths, and could fail for a heuristic one.

* the largest sampled output caps the adjusted output as well, and on buys too, where it takes the
  penalty for gas off a fill of the full amount (path_optimizer.ts:490: "in sell quotes");
* an amount below the first sample is given that sample's whole output (path_optimizer.ts:466);
* a part of a route that gives nothing is left out, an order may be smaller than its part, and nothing
  rejects the path that falls short: `AskedIsSold` and `AskedIsBought` are stated for paths that do not;
* the worst case of a two-hop sell is rounded to the nearest integer, all others down (quote_info.ts:130);
* the amount that a buy may sell is rounded as a whole, and can be short of what its orders may take, each
  rounded, by a unit per order (quote_simulation.ts:135); `TakerIsPaid` allows for what those units are worth;
* an affiliate fee of 100 % gives a buy an infinite price (swap_service.ts:196);
* a two-hop that is mixed with single orders leaves up to a unit per fill unsold; it goes back to the
  taker (transform_erc20_rule.ts:270);
* a meta-transaction sends no value and a quote that sells all there is wraps everything, so that a
  protocol fee would be unpaid; its multiplier is 0, and the properties say `PaysProtocolFee`;
* quotes of meta-transactions v2 always fail, prices do not; v1 overwrites the affiliate fee, and neither
  version refuses equal tokens;
* a slippage of 0 becomes the default in the fill adjustor and in meta-transactions, and stays 0 in the
  answer of a swap;
* the positive slippage fee is dropped when the quote is filled by a VIP feature;
* on a buy the breakdown by source adds what two-hops sell to what single orders buy (quote_info.ts:142,
  :174), so that `SourcesAreWeighed` states the shares of sells only; shares are rounded to digits and
  may add up to slightly more than 1;
* ETH to ETH is answered as an unwrap;
* the sampler names no hops when the amount is zero, although the comment at sampler_operations.ts:753
  says "Ensure the hop sources are set even when the buy amount is zero"; such quotes are filtered out
  (index.ts:859). Bad tokens are left out of sells only (sampler_operations.ts:1527);
* a body that breaks off, or a failure of gzip, rejects handleRequest outside of its try blocks
  (rpc_subprovider.ts:97, :120), and `end` is never called: the quote waits for ever (`"stuck"` in Sampler).

Noticed, and outside the models:

* a Compound answer whose JSON is `null` would leave the cache undefined (compound_ctoken_cache.ts:40);
* createBestCaseFillOrderCalls adds taker fees that the fill already contains; orders with taker fees
  are excluded before (swap_quoter.ts:284);
* order_watcher.ts:22 reads `err.response.data`; without a response that is a TypeError in place of
  the intended error (the client gets an error either way);
* `expiry` is a varchar and is compared as text with `MoreThanOrEqual` (orderbook_service.ts:138);
* a list with unfillable orders holds up to twice `perPage` records, and may show an order twice that
  is removed and marked between the two queries;
* an order that the watcher removes between `find` and `save` in addPersistentOrdersAsync gets a
  persistent row in state ADDED that nothing marks any more.

## 7. What is not modelled

Logging, metrics, message texts and schemas. Conversions of orders and tokens. `getOrderBookAsync`
and `getBatchOrdersAsync`, one query each. The router. The contracts of the pools, which are not in the
repository, and how the sampler of each source calls them: their common loop and their limits are
modelled, what a pool answers is a function. Tables of addresses per chain,
which are constants. Quote reports and comparison prices, which go to Kafka and to makers and are not
read back. The quote server client, which nothing calls. Start-up of the processes. The bytes of
calldata and the identifier appended to them. `PROJECT.json` gives the reason for each component.

## 8. Plan

Done: MakerBalanceCache, OrdersChannel, the caches, SwapQuote, OrderBook, QuoteAmounts with the requests,
fees, routes, slippage models, calldata and answers of swaps and meta-transactions, ListCaches and
Sampler, with the proofs above. The first came first because they have the concurrency.
Next, in this order:

1. Proof of `TakerIsPaid`: the lemmas per step, with amounts.
2. An abstract cache that all of the copies implement, with the detailed ones shown to refine it.
3. The curves of single samplers that compute them themselves, in Sampler.
