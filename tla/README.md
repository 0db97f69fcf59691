# A TLA+ model of sentio-portfolio

sentio-portfolio reads what a wallet owns: given an address it pins a block on
each EVM chain (a checkpoint on Sui), reads every protocol it knows at that
block, partly from RPC nodes and partly from Sentio's indexes, prices what it
found and returns one response with explicit errors. Its two promises are that
**nothing is missing in silence** and that **everything is as of the pin**. The
hard part is not the arithmetic but that hundreds of reads run at once, under
deadlines, share caches, probes and a narrow lane to the indexer, and any of
them may fail while a processor keeps indexing. That is what is modelled here.

## Inventory

| Component | Source | State | Operations | What makes it correct |
|---|---|---|---|---|
| Scan engine | `engine.go` | chain clients, deployments, jobs, probe lifetimes, response | set up chains, dispatch, read, discover wallet, settle, price | the response names everything it does not contain, once; every scan returns |
| Status cache | `sentio.go` | cached status, the read in flight | `chainStatuses`, `startStatusRefresh` | a forced answer is not older than the question; one caller's exit harms nobody else |
| Indexer lane, clients | `sentio_lane.go`, `sentio.go`, `sentio_sql.go`, `sui_history.go` | slots, waiters, server executions | acquire, release, retry, submit, poll, cancel | slots are neither leaked nor idled; abandoned statements are cancelled |
| Index reads | `sentio_index.go`, `sentio_checkpoint.go` | cursors, query block, checkpoint | read, page, certify, look up | what a read returns is the whole index at one block of one version |
| Presence probe, scan memo | `sentio_presence.go`, `scan_scope.go` | memo entry, proof per chain | prefetch, claim, wait, prove | a proof of emptiness is as good as the pages it replaces |
| Wallet discovery, holdings | `wallet_provider.go`, `wallet.go` | provider results, candidates | configure, read, suppress | an amount sampled elsewhere is never reported as pinned |
| Account attribution | `accounts.go` | scopes | resolve | fails closed |
| Pricing, valuation | `pricing.go`, `valuation.go`, `types.go` | queries, prices, totals | collect, fetch, value | a price is of the holding's own instant and chain, a missing one is said, net values follow the policy |
| RPC client | `rpc.go`, `abi.go` | none between calls | call, batch, settled block | an attempt's answer is its own |
| Sui range scan, SQL index | `sui_engine_history.go`, `sui_sql*.go` | range window, samples, answers per instant | read a range or a checkpoint, align, pin the wallet | no sample dropped or answered twice; an instant is shown at one checkpoint |
| Sui latest scan, node | `sui_engine.go`, `navi_*.go`, `sui_grpc.go` | shared dial, market cache | dial, discover, scan | a failed dial is not inherited; markets of one state |
| Adapters | one file per protocol | none between scans | read positions | what is held at the pin and nothing else, debt beside assets, failure reported |
| Availability, observer | `protocol_availability.go`, `observer.go`, `receipt.go` | none | look up, report | static tables and reporting |

How they interact: the **engine** runs one goroutine per chain to dial, pin and
resolve accounts, then a dispatcher feeding workers, plus a wallet goroutine. A
worker runs an **adapter**, which on indexed protocols calls an **index read**.
An index read asks the **status cache** which block it may query, asks the
**presence probe** it shares with the other chains' jobs (through the **scan
memo**) whether the account has anything there, and pages the index through the
**indexer lane**, which all scans of the process share with the SQL statements
of the **Sui** readers. The engine prefetches the probes and cancels a
protocol's when its last deployment is done. `PROJECT.json` lists the components
with their status, and every hazard at its line with the properties meant for it.

## Modules

| Module | Models | Checked by |
|---|---|---|
| `StatusOracle` | what `chainStatuses` promises: each call is answered at one instant | refined by `StatusRefresh` |
| `StatusRefresh` | `chainStatuses`, `startStatusRefresh` | `status_refresh` |
| `StatusRefreshProofs`, `IndexerLaneProofs`, `IndexReadProofs`, `ScanEngineProofs`, `SuiRangeScanProofs`, `AccountScopeProofs`, `SuiLatestProofs`, `ResponseProofs` | proofs about the module they extend; `AccountScopeProofs` and `SuiLatestProofs` also about `RpcClient` and `NaviMarkets`, through an instance. `ScanEngineProofs` extends `ScanEngine` and `AdapterReads`, `ResponseProofs` extends `WalletHoldings` and `Pricing`, which is why `AdapterReads` and `Pricing` name their specifications `MethodSpec` and `PricingSpec` | tlapm |
| `IndexerLane` | `indexerLane`, `doJSONAttempts`, `executeSQL`, `abandonSQL` | `indexer_lane`, `indexer_lane_submit` |
| `IndexRead` | `sentioIndex.read`, checkpoints, presence probe, scan memo | `index_read` |
| `ScanEngine` | `Engine.ScanWithOptions` | `scan_engine` |
| `SuiRangeScan` | `SuiEngine.scanSamples`, `ReadRange`, `alignSamples`, `suiWalletPin` | `sui_range_scan` |
| `WalletHoldings` | `configureWalletBalances`, `providerWalletGroups`, `walletTokenCache`, `suppressDuplicateHoldings` | `wallet_holdings`, `wallet_at_pin` |
| `Pricing` | `fetchPrices`, `collectPriceQueries`, `applyValuations` | `pricing` |
| `RpcClient` | `RPCClient`: retries, batches, the settled head | extended by `AccountScope` |
| `AccountScope` | `resolveAccountScope`, walked through `RpcClient` | `rpc_client` |
| `NaviMarkets` | `discoverNaviMarkets`, `suiRootCache`, `loadNavi` | extended by `SuiLatest` |
| `SuiLatest` | `suiNodeDialer`, `suiLatestRead`, `SuiEngine.scanLatest` and its pricing | `sui_latest` |
| `AdapterPlan` | the vocabulary of the adapters: a step and what a failure in it does | extended by the next four |
| `VaultAdapters` | ERC-4626, converted balances, Lido, ether.fi, Frax Ether, f(x), Renzo, Aster, Stader, Vesper | `adapter_reads` |
| `LendingAdapters` | Compound v2, Venus, Aave v2 to v4, Spark, crvUSD, Curve Lending, Sky, Fluid | `adapter_reads` |
| `YieldAdapters` | Compound v3, Fraxlend, Maker, Liquity, Yearn v3, Beefy, StakeWise, Olympus, Rocket Pool, Maple, mETH | `adapter_reads` |
| `LiquidityAdapters` | Uniswap v3 and v4, Pendle, Morpho, Euler v2, Lista | `adapter_reads` |
| `AdapterReads` | one scan of an account by one adapter, at a pinned block | `adapter_reads` |
| `MC*` | instances of the above for TLC | |

Operators marked `\* mutant` are wrong versions of the definition below them,
used by `PROJECT.json` to show that a property can fail; no specification uses
them.

### StatusOracle and StatusRefresh

`entry` is `c.statuses[key]`, with its age reduced to fresh or expired; `read` is
`c.refreshes[key]` with the goroutine behind it; `pc[c]` is where a caller is in
the loop of `chainStatuses`: the context check, the locked section, the select,
and awake. `tooEarly[c]` is the local of that name, as far as it is compared:
nil, the refresh being waited on, or an earlier one. One step is one locked
section or one select. `low` and `newest` are history: the block the processor
had when a forced call was made, and the newest block anybody had been told. Keys
do not interact, so there is one. A status is reduced to its processed block; the
parse of the status document is reduced to answered or failed.

`StatusOracle` has no cache, lock or shared read: a call is open, and at some
instant is answered with a block between `low` and now, fails, or leaves because
its own context ended. The refinement maps `open` to `pc # "idle"` and everything
else to itself. Its point is the lifetimes: a caller that started the shared read
can leave, and the others are still answered.

### IndexerLane

The lane is a buffered channel: `inUse` is its length, `queue` its blocked
senders, in Go's FIFO order, and a receive hands the freed slot to the first of
them. The fast path of `acquire`, the increment of `waiting`, and the select are
separate steps. A request is a GraphQL query (three attempts; a slot per attempt,
returned for the backoff) or a SQL statement (one slot from submission to its
end; submitted once, polled until over, refused, or given up on). `run[u]` is
what the statement left on the server: whether it runs, whether its ID came back,
whether it was cancelled.

### IndexRead

The processor advances and may rewrite its index once per chain: each chain has
two versions of what it indexed, drawn from `Histories`, and every request sees
the version and the block of its own moment. A job reads the status, decides the
query block (reading the status again when it trails a fixed pin), claims the
probe or waits for it, uses the proof only at its own target, and otherwise pages
its streams in one request each round, holding every page to the checkpoint of
the first. Lookups are held to the read that found them. The prefetch goroutine
is one more claimant of the probe. Jobs and prefetch share the lane; the status
cache is used as `StatusRefresh` shows it to behave.

Three assumptions are made of the index, which is not part of this repository: it
holds finitely many rows, each of a stream or a lookup (`HistoryAssumption`); a
rewrite that changes the rows of a block a read may ask for changes the checkpoint
they come with (`RewriteAssumption`; it is all the comparison of checkpoints can
detect); and block order is timestamp order.

### ScanEngine

`setup[c]` is the goroutine of a chain, `phase` the body of `ScanWithOptions`,
`queue` the places in `Adapters` not yet dispatched, `job[j]` what became of a deployment. The
dispatcher's check of the context and its send are separate steps; a read goes
account by account and then reports under the mutex. `StopCollecting` may happen
between any two steps; `StopPricing` once pricing has begun. `errors` counts the
entries of the response by kind and subject, which is how reporting something
twice shows. What adapters find is reduced to whether they failed and whether
they left groups; holdings are in `WalletHoldings`, prices and values in `Pricing`,
of which the action `Price` keeps only the errors.

### SuiRangeScan

`table[p]` is what an index has or will have, `ready[p]` how much of it is
completed; a sample is its interval, its start standing for its checkpoint, and
whether it can be certified. `read[p]` is the goroutine reading p's index, one
step per statement: it answers and the next is sized from it, does not fit and is
halved, finds nothing more, or fails. Then the scan answers the instants, aligns
them (second reads included), reads the wallet at the pins and prices. Two kinds of
plan are covered, the instants of a range and one checkpoint. Positions are not
modelled, and a read that ran out of time is not told apart from one that failed.
Assumed of the index: samples are completed in order, and their intervals are not
empty and do not overlap (`SampleAssumption`, which also bounds times and sizes).

### WalletHoldings

The wallet job of each scan on one chain. `Discover` is `configureWalletBalances`:
`Found`, `ProviderErrors` and `CoverageNotes` are what it makes of an answer.
Then the accounts are read in order, one step per RPC call or blocklist access:
a direct account hands its rows on with their amounts, a discovered one reads its
native coin, the code (at a fixed pin) and the balances at the pin, and each row
ends as a holding, a failure, a coverage note or nothing. Scans share `cache` and
`listed`; the host may lose a listing, list nothing, or let an entry expire.
Adapters end in any order beside the wallet, and `Suppress` removes what they
counted. What accounts hold is a function of the block's hash, so that a fork is a
block like any other. `LiveSample` measures the gap between two times as the code does,
as a Duration, whose product with a second wraps: `Second` and `Width` are those of
the instance. Assumed of the provider (`ProviderAssumption`): its answers are lists whose rows name
an asset of the chain or nothing, and an answer about one of the accounts whose amounts
may be used (`Honest`) lists what the account had in the block it was taken at, and all
of it. How it labels, repeats, omits or misplaces the others is what the encounters
vary. Assumed of the adapters (`AdapterAssumption`): a component is stamped with its
account and consumes the tokens it holds. `WalletAssumption` adds what is held of a
chain: no amount is negative, and a token that is held has code.

### Pricing

What `ScanWithOptions` does after its readers are done. `snapshots` is what was
read, `queries` the provider calls `fetchPrices` has still to make, `late` the end
of `pricingCtx`, after which the loop goes on and calls fail or answer as they
like. The provider is external: it answers any part of a query, alone or among
quotes of the same instant that nobody asked for, and names what it left out by
token or all at once, as its interface demands. Then `cursor` walks
`applyValuations`' three loops, with `running` for the totals of the group and
the snapshot it is in and `worth` for the `ValueUSD` fields. A price that is not
positive, or a basis with such a ratio, stops the walk, and with it all summaries. `cutShort` is history. Values
are integers in units of `1/RatioOne`. `PricingAssumption` says what a response is:
lists of lists, components of three kinds, a basis on the component's own chain, and
integers for amounts, ratios and quotes. `Net`, `Total` and `Sum` are the reference for
the totals: sums over the valued components as sets, against which the running totals
of the loops are held.

### RpcClient and AccountScope

`heads[b]` is how far the node b behind the endpoint has come; any round trip may
reach any node. `mode` says whether the batch is strict (`batchCallRaw`) or
tolerant (`batchCallTransportRaw`), `start` is the first call of the chunk in
flight, `elems` the `Error` fields of its elements, `attempt` the loop variable.
`LibraryError` is what `rpc.Client.BatchCallContext` leaves in an element: it
writes an error and never clears one, so what an attempt starts from (`ErrorsBefore`) matters. Busy, denied, broken, limited,
behind, reverted and refused are the errors `retryableRPCError` tells apart; refused is
any other JSON-RPC error, which a node may give whatever the contract would answer, and
which a tolerant batch hands on as that row's own. `reply` keeps what the last round trip
that asked for a call said of it. `AccountScope`
adds the contract's linked list, whole or malformed in one of the ways the code
looks for, and walks it by one header read and one read per entry, any of which
may fail.

### NaviMarkets and SuiLatest

`world` is the history of the chain: the version of the market counter and the
transaction that made it, with the markets created there. `gate` is the one-place
channel in `suiRootCache`, `disc[r]` the discovery of the read r: counter, gate,
walk back through the lineage to the cached version or to the beginning, store,
tables. `SuiLatest` runs the reads of two scans: `configured`, an index that may
be too old or fail, and then, for what it lacks, the node reader, which is dialled
once for all (`dialer`, `dials`). `DialEnds` is the locked section of `run` and
`DialTold` the `close(done)` after it, because a read may come in between.
`cut` is the set of scans whose reading time, which is each scan's own, is over; what
remains is the price reserve, in which `quote` and the response happen. `Engines` are the
sources an engine may have been given, all, some or none. `refused` in a response are the
reads whose amounts cannot be valued.

### The adapters

The `Positions` methods of the adapters do the same few things in different
orders: read strictly, read and pass a reverted row over, read an index, check,
drop zero balances, append a group, keep or drop groups when an error comes. So a
method is a **plan**, a sequence of steps built by the operators of `AdapterPlan`
in the order of the code; `Kept`, `Partial`, `Whole` and `Joined` say what
an error does to the groups collected so far, which is where the methods differ
and where mistakes are made. Plans call each other as the functions do, and carry
the functions' names. `Listing` is a registry that may no longer list what the account
has, `NotAsked` what a method leaves out by design. A loop over markets is one step about the legs of all of
them; where the code treats two contracts differently in one loop there are two
surfaces. Amounts are held or not.

`AdapterReads` is the machine that runs a plan. `held` is what the account has at
the pin, `inactive` a deployment the pin comes before, `extra` a leg the index
lists that the account has given up, `missed` the legs it has not seen. A leg is
`open` until the code leaves it; a call to a contract that has no code yet answers
nothing, which fails the round trip, or the row. `Within` and `Windowless` are the
world's facts: which contract a surface depends on. `err`, `hurt` and `reported`
are what comes out, and `passed` what a tolerant read or a registry left out. `OutOfScope` are the legs the
comments of the code give up, which the properties excuse by name.

What makes a method right is stated of its plan alone, in the section *discipline*: on
every path a strict call comes after the window of what it calls, a group after the
zero amounts have been left, the end after the group of what is held; what a joined
error takes back is not asked about again; a debt is passed over, left, listed and
taken back only with the asset beside it. `MethodsDisciplined` is that of all 38 plans,
which TLC evaluates adapter by adapter in the initial states; what the machine then
does is proved from it.

## Runs

| Run | Bounds | Result |
|---|---|---|
| `status_refresh` | 2 callers calling without end, the processor advances once, entry expires at any time | passes |
| `indexer_lane` | 1 SQL and 2 GraphQL users, 1 slot, 3 attempts as in the code | passes |
| `indexer_lane_submit` | the same | **violated**, see Findings |
| `index_read` | a fixed and a live chain, 2 streams, 1 lookup, pages of 2, 3 rows at most, blocks 0 to 3, 1 slot | passes |
| `scan_engine` | 4 chains (2 usable, 1 without URL, 1 disabled), 3 deployments (1 inactive), the wallet, 2 accounts on one chain, 2 workers | passes |
| `sui_range_scan` | 2 indexes of up to 6 samples, 3 tables, 5 plans of 1 or 2 instants, statements of at most 3 samples, each index may complete 1 sample meanwhile | passes |
| `wallet_holdings` | a fixed and a live scan, 2 accounts, 4 tokens, 28 kinds of answer to each scan alone and 2 pairs together, 2 protocol components, a cache of 1, a Duration of 2^12 values with 10 to the second | passes |
| `wallet_at_pin` | the same | **violated**, see Findings |
| `pricing` | up to 4 of 7 snapshots (3 protocols on 3 chains, two of them fixed at different times), 7 tokens, 11 quotes, any part of each answered | passes |
| `rpc_client` | 2 nodes a lag of 1 apart at most, 3 calls in chunks of 2, 3 attempts as in the code, account lists over 2 IDs declaring up to 3 accounts | passes |
| `sui_latest` | 2 scans, one with an indexed protocol beside its NAVI read, engines with every source, without a node and with none, one dial per NAVI read, 2 more transactions that create up to 2 markets | passes |
| `adapter_reads` | 38 adapters, up to 3 legs held, 1 deployment to come, 1 stale and 1 unseen surface of the index, up to 3 failures | passes |

Why the bounds are enough:

* One advance of the processor already separates before and after a forced call,
  which is all that freshness compares, and two callers give the one that shares
  a read, the one that starts it and the one that returns before it. The proofs
  remove both bounds.
* Three users on one slot give a holder and two in the queue, so the hand-over
  and the queue's order occur; more slots only make waiting rarer.
* Pages of two against a bound of three reach an empty, a short, a full and a
  second page, a stream of exactly its bound, and one row beyond it. The histories
  put rows and checkpoints before, at and after the pin, and have a version with
  no checkpoint. One slot is where a job that waited with a slot would deadlock.
  `presenceMinChains` is 3 in the code and 2 here, so that two chains suffice.
* In the scan two chains carry a probing protocol, so a probe has a last and a
  next to last user; two workers and three jobs make the dispatcher wait.

* A range of six samples takes several statements of one to three samples, so a
  statement is shrunk and grown in the middle of one (the code asks for up to 8).
  The tables hold a fine index that has, misses, or cannot certify the sample at
  the coarse one's checkpoint, and one with gaps. An index that completes more than
  one sample during a scan only repeats the same race.
* The snapshots have one address on three chains and three instants, a group under
  water beside one that is not, a snapshot under water, a basis, a token quoted
  nowhere, one quoted only today, one quoted at zero, one below zero under a basis whose ratio is negative too,
  and a zero amount. Each protocol
  has two snapshots.
* Batches of more calls than a chunk take two round trips with a retry of each, so
  an error of one attempt or chunk could be taken for another's. The list has an
  entry that is first, one that is last and one that is neither.
* Two discoveries on one gate give a holder and a waiter whose head may be the
  older or the newer one. More scans only queue.
* The defects a plan can have show with two legs (debt beside an asset, principal
  beside a reward, one surface beside a failing one); three let a stale row stand
  beside both. A failure that is joined is followed by one that is not, and by one
  in a later surface: three.
* The wallet's samples lie at the pin, on a fork of it, within the window, before
  it, without a time, and so far off that the product of the gap wraps to a negative
  one; tokens are held at some of these blocks, revert at one,
  come later, or are none. Accounts are read independently, so two of them give one
  that fails before another. Scans meet only in cache and blocklist, and two pairs
  of answers, one direct and one discovered, make them use both.

What they show:

* `AnswerRecentEnough`, `KeepsPromise`: a forced refresh that finds a read in
  flight is not answered by it, and a caller leaving does not reach the others.
* `EntryNeverGoesBack`: consecutive reads cannot store backwards.
* `SlotsAccountedFor`, `EveryRequestEnds`: no path through retries, cut backoffs,
  abandoned polls and simultaneous select cases leaks or idles a slot, and no
  waiter is forgotten.
* `GivenUpIsCancelled`: an execution whose ID is known and that nobody will
  collect is cancelled first, unless its poll was refused for good.
* `FixedReadExact`: at a block the caller named, a read that answers holds all and
  only the rows of one version of the index at that block, pages or proof.
* `LiveReadExplained`: a live read misses only rows after its query block, and
  without a lag note none older than the tolerated lag.
* `EveryJobEnds`: the probe cannot deadlock the jobs waiting for it on one slot.
* `EverythingAccountedFor`: however the deadline falls, each chain and each active
  deployment is either read in full or has exactly one error; without a deadline
  nothing is left out (`CompleteUnlessStopped`, a part of it).
* `NoLateRead`, `ClientsClosedAfterUse`, `ProbesLiveWhileUseful`, `ScanReturns`:
  reconciliation starts after the last reader; clients outlive their readers and
  are all closed; probes live exactly as long as a deployment may want them; the
  scan returns.

* `RangeWhole`: statements that shrink, grow and fail cut a range at sample
  boundaries: nothing twice, nothing skipped, all that was there when it began.
* `AnsweredAsAlone`: reading many instants together changes no answer. An instant
  that need not be asked again says what a scan of it alone would have said at some
  moment of the scan.
* `OneState`: the wallet is shown only beside every protocol at its checkpoint.
* `RetryOnlyUnanswered`: an index that answered is not asked again. It is stated for
  indexes whose samples leave no gaps. With two gaps in one index and a second read
  that fails between them, `alignSamples` (unlike `answer`) does ask again for a
  checkpoint the index had already said it lacks; an index that tiles time, as the
  two that exist do, never gets there. Even such an index has a beginning: with a
  third index, a second read that fails for a checkpoint before an index's first
  sample also asks again for what it could not have answered, which the property
  allows by name.
* `AmountsCurrent`: no amount comes from a fork, from outside the window, from
  rows marked as discovery or, in a historical scan, from anywhere but the pin. The
  window holds for times whose gap a Duration can hold (see Observations).
* `FixedExact`: a historical wallet without error or note is exactly what the
  accounts held.
* `NothingDropped`: what is known and not reported has an error of its own account
  or a note, and only a revert hides a token (`OnlyRevertedSkipped`, a part of it).
* `CountedOnce`: a holding is left out just when a component of the same account
  and chain consumed it, in whatever order adapters end.

* `ValuedOrSaid`: whatever part of the prices arrives, a value is that of its own
  token or basis, on its own chain and at its own block; a holding without one has
  an error of its chain or of none, and what a deadline took is said to be cut.
* `TotalsNet`: totals are those of the protocol's own priced components, each group
  and snapshot netted by itself; a valuation stopped half way gives no summary.
* `AnswersAreContracts`: every value, empty answer and revert reported is the contract's
  at the pin, whatever attempt, chunk and node it came from. Only a tolerant batch reports
  anything else: that a node refused this very call the last time it was asked.
* `JudgedByLastRoundTrip`: a batch fails for what its last round trip met, never for
  an error an earlier attempt left.
* `PinServedEverywhere`: every node of the pool has the block pinned.
* `ScopeExact`: the accounts are the owner and all of the list, each once; a list
  that is not well formed gives no scope at all.
* `CallEnds`: retries, backoffs and cancellation end every call.
* `DialNotInherited`: a read fails for a dial only if that dial was running while it
  waited.
* `MarketsExact`: the markets stored are those of the head stored with them, and
  a scan reads exactly the markets of the counter it read.
* `LatestAccountedFor`, `LatestReturns`: each protocol of a scan is read or has a
  failure, what was read is priced, has a gap or is said to be beyond valuing, and every
  scan returns.
* `AnswerExact`: nothing is reported that the account lacks at the pin, stale index
  rows included; without an error only what a tolerant read or a registry passed over
  is missing, or what the index has not seen, or what is out of scope (`OutOfScope`, see
  Observations).
* `DebtNeverHidden`: no answer, not even one with an error, has an asset of a market
  without the debt beside it.
* `FailsOnlyOnFaults`: no plan calls a contract before its window, on any path.
* `SurfacesIndependent`: what the comments promise of Sky and of Compound's staking
  modules: one that fails takes no other with it.
* `MethodsDisciplined`: each of the 38 plans has the discipline the four properties
  above follow from, on every path it can take.

### Fairness

Weak fairness for each goroutine that can take a step, never for the outside: no
caller has to call, no context has to end, no processor has to advance and no
entry has to expire. It is justified by the timeouts the code puts on everything
a goroutine waits for: the HTTP client's, `statusTimeout`, `rpcCallTimeout` and
`sentioSQLStatementTimeout`. The last is the one timer that is assumed to fire
(`WF_vars(TimeOut(u))`), because only it ends a poll loop over an execution that
never finishes. Waiting for a lane slot needs nothing stronger because the queue
is FIFO. A dial has `suiDialTimeout`, an RPC attempt `rpcCallTimeout`; no node has
to recover, so the retries end because they are counted. `AdapterReads` states no
liveness: a plan is finite and every step of it is a call that ends; nor does
`Pricing`, whose loops are over finite lists.

## Findings

`executeSQL` says of itself (`src/sentio_sql.go:113`): "A statement given up on,
because it outlived its timeout or ctx ended, is cancelled before returning." It
is, once an execution ID is known. When the context ends while the submission is
in flight, the server may have taken the statement, no ID has come back, and the
function returns without cancelling (`EndedIsCancelled`). The code cannot do
otherwise, and `suiSQLRangeTooCostly` relies on knowing it; the comment says more
than the code does.

Two comments on coverage notes say that "every balance it reports is the one at
the pin" (`src/engine.go:665`, and `src/wallet_provider.go:812`). A live scan
accepts a provider's amounts from a block up to two minutes away
(`LiveWalletSample`, which says so) and reports them as they are (`AtThePin`).

### Observations

Seen while modelling, where no comment says otherwise. The properties allow them
by name.

* Some of what an account has is left out without a word in the answer. `AnswerExact`
  excuses just this, as `OutOfScope`: the rewards of a Vesper pool the account has left
  (`src/vesper.go:221`), those of a Compound staking module configured without them
  (`src/compound_v2.go:258` and `:880`), those on a Sky farm the urn no longer points at
  (`src/sky.go:362`), the positions of Sky's first Lockstake engine (`src/sky.go:107`), and
  the SPK and GROVE farms Sky leaves to Spark and MakerDAO (`src/sky.go:78`), whose
  adapters do not read them.
* `LiveWalletSample` multiplies the gap by a second as a Duration
  (`src/wallet_provider.go:145`). A gap of more than 292 years, such as a timestamp in
  milliseconds gives, wraps, and may come out within the window or negative. Its comment
  (`:138`) says "no further apart than LiveWalletSampleWindow", and that of its test
  (`src/wallet_provider_test.go:445`) that a sample further off only discovers tokens. The
  model wraps as the code does, the run has such a sample, and `AmountsCurrent` excuses it
  by name (`Representable`).
* A tolerant batch hands on an error of the node that is not retried, such as an internal
  error or a missing trie node, as the failure of that row (`src/rpc.go:126` and `:523`). A
  caller that passes failed rows over without asking for a revert (`executionReverted`)
  cannot tell the two apart, and leaves out what it would have read.
* `readMainnetReceipts` and `readYieldPositions` return verified groups beside an
  error, which their callers in Renzo and Aster discard (`Whole`).
* `readAaveRewardToken` takes any failure of its first call, a lost round trip
  too, for a plain token. `fraxlendStoredAmounts` falls back to the older method
  in the same way.
* One price that is not positive stops the valuation of every protocol: components
  before it have values in the response, those after it none, and there is no
  summary (`RefuseComponent`). A group whose debt has no price is valued without it;
  only the pricing error says so.
* The reward of a Compound staking module is passed over when its row or its
  metadata fails, without an error, and the list of rewards is cut at its bound.
  Pendle passes over any row that failed, a balance included.

## Proofs

A proof removes the bounds of a run: what it states holds for every value of the
constants that meets the module's `ASSUME`s, which TLC evaluates on the instances
it runs. No property is inductive as it stands. Each proof module states its
inductive invariant (`Inv`, `ScopeInv`, `ReadInv`, or `PriceInv` with `Tally`) first, as a conjunction of named
parts, shows that it holds initially and that each action keeps each part the
action can disturb, and reads the properties off it (`THEOREM Invariant` and the
theorems after it). Facts about sequences, finite sets and least elements are
lemmas at the head of the module that needs them.

| Module | Proved | Over any | Assumed |
|---|---|---|---|
| `StatusRefreshProofs` | `TypeOK`, `AnswerRecentEnough`, `EntryNeverGoesBack`, `KeepsPromise` (safety half) | callers, blocks | `StatusAssumption` |
| `IndexerLaneProofs` | `TypeOK`, `SlotsAccountedFor`, `GivenUpIsCancelled` | finite set of requests, capacity, attempts | `LaneAssumption` |
| `IndexReadProofs` | `TypeOK`, `FixedReadExact`, `LiveReadExplained` | chains, pins, streams, page sizes, row bounds, lags, lane, histories | `IndexAssumption`, `HistoryAssumption`, `RewriteAssumption` |
| `ScanEngineProofs` | `TypeOK`, `EverythingAccountedFor`, `ProbesLiveWhileUseful`, `ClientsClosedAfterUse`, `NoLateRead` (an action property) of `ScanEngine` | chains, deployments, accounts, workers | `EngineAssumption` |
| `SuiRangeScanProofs` | `TypeOK`, `RangeWhole`, `AnsweredAsAlone`, `OneState`, `RetryOnlyUnanswered` | routes, tables, plans, statement sizes | `SampleAssumption` |
| `AccountScopeProofs` | `PinServedEverywhere`, `JudgedByLastRoundTrip`, `AnswersAreContracts`, `ScopeExact` | pool, lag, calls, chunk size, attempts, registry | `RpcAssumption`, `ScopeAssumption` |
| `ScanEngineProofs` | `AnswerExact`, `DebtNeverHidden`, `FailsOnlyOnFaults`, `SurfacesIndependent` of `AdapterReads` | numbers of legs held and of failures, worlds | `AllDisciplined`, which `MethodsDisciplined` states of each adapter |
| `ResponseProofs` | `TypeOK`, `AmountsCurrent`, `FixedExact`, `NothingDropped`, `CountedOnce` of `WalletHoldings` | scans, accounts, tokens, pins, answers, components, cache size | `WalletAssumption`, `ProviderAssumption`, `AdapterAssumption` |
| `ResponseProofs` | `ValuedOrSaid`, `TotalsNet` of `Pricing` | snapshots, policies, pins, quotes, answers | `PricingAssumption` |
| `SuiLatestProofs` | `DialNotInherited`, `MarketsExact`, `LatestAccountedFor` | scans, reads, chain of transactions | `SuiAssumption`, `NaviAssumption` |

**Status cache.** Freshness says nothing of what a caller still waiting will be
told. The invariant adds

* `Order`: the cached block and the newest answer are not ahead of the processor,
  the newest answer is not ahead of the entry, and an outcome in flight is between
  the entry and the processor: reads do not overlap, so they cannot cross;
* `Outcome`: a failed or absent outcome has no block to compare;
* `Asked(c)`: a caller's `low` is not ahead of the processor, nor of the entry if
  the call is not forced;
* `Served(c)`: what a caller will be told is recent enough. This is the argument
  of the code's `tooEarly`: a forced caller that waits on a read it may use either
  started it or has seen out an earlier one, so the read began after the call; the
  read it must not use is exactly the one marked awaited.

The refinement then needs one lemma per kind of step: a return is a `Reply` within
`low..block`, calls, ended contexts and advances are themselves, and all else
stutters.

**Indexer lane.** The slots in use are the requests that hold one, counted; the
queue holds each blocked sender once; nobody waits while a slot is free. The last
needs the hand-over to be one step, and the counting needs each step to move
exactly one request in or out of a set (`FS_AddElement`, `FS_RemoveElement`). For
`GivenUpIsCancelled`, `KnownOnceSubmitted` says that no ID is known before the
submission was answered, so every exit taken before it has nothing to cancel.

**Index reads.** Two versions of an index may be read in one job. `OfOneVersion`
says that what has been admitted is, stream by stream, the first rows one version
has at the query block, and all of them for a stream read to its end. A page from
another version is admitted only if its checkpoint is the one wanted, and then, by
`RewriteAssumption`, the rows at that block are the same, so the page continues
the same list. A page shorter than asked for is the last (`FirstRows`).
`ProofOf` says the same of a proof of emptiness: it is one version's, at its
block. A live read without a lag note is near the pin because the checkpoint it
certified is not after its query block.

**Scan engine.** `EverythingAccountedFor` speaks of the response; `Said` says at
every moment which errors are due (`DueOfChain`, `DueOfJob`) and that just those
have been counted. `Probes` identifies the counter `remaining` with the number of
deployments of the protocol that still wait or read, which is why a probe is
cancelled at the last and not before. `Jobs` ties the queue, the wallet and the
phase together: pricing begins when nothing waits or reads, which also gives
`NoLateRead`. `Chains` says which clients are open in terms of the setup alone.

**Sui range.** `Ranged` says that a range read holds a run of consecutive samples
that begins with the first to end after the earliest instant, and goes on
exactly where the run ends. Shrunk, grown and failed statements all keep this, so
there is no gap and no repetition. Ended well, it holds every sample of the range
there was when it began. `Answering` says that an answer is the one the index alone
gives with m samples completed, m between what the range read found and what is
completed now. Alignment then looks for the samples at an older checkpoint, which
come earlier in the table and so are among the m; a second read began after the
first ended, so it sees them too. That no failed target is asked for needlessly
rests on the table having no gaps: a checkpoint a read did not reach is after its
last sample or before the index's first.

**RPC client and accounts.** `TargetServed` keeps the pin under the head of the
slowest node while it is retried: a pool spreads over `Lag` blocks at most, heads do
not go back, and the pin is `Lag` under the head some node reported. `Recorded`
says that the chunks before the one in flight hold what their contracts answer and
the others nothing; that an element is cleared before each attempt is what makes
`JudgedByLastRoundTrip` and `Recorded` survive a retry. The walk over the registry
has collected, in order, the entries up to the one it is at, and those are the
first of the list.

**Sui latest.** `Dialled` says that the dial in flight is the one that runs and
that each dial without a reader has a read that started it, so there are never more dials than
reads to make them. `Sound` ties a read to the dial it joined while that ran.
`Walked` says that a discovery has found just the markets above the ones still to
be found, at versions of the chain's history that have those counters; the cache
is `0..counter` of the version it is filed under, so stopping at it is as good as
walking on to the beginning.

**Adapters.** The theorems assume of the plans what `MethodsDisciplined` states of
them, and nothing else: no plan is looked into. `ReadInv` follows a run through a
disciplined plan. The step it is at is among those some path reaches, so that a window
or a drop that every path passes has been passed (`Before`, `UpToSubset`); a leg that is
still open at a strict call has its contract; a leg that is held and was not passed
over and is in scope is either open or in a group by the end (`Accounted`, `InScope`); and what an error took back was closed
before it came, so it is not reported later. A debt leaves, or is taken back, in one
step with the asset beside it (`DebtsPaired`), hence no answer shows one without the
other.

**Wallet.** One scan's steps do not touch another's, except through the cache and the
blocklist (`OneScan`, `Mine`), whose entries are statements about the chain: a listed
token reverts (`OnlyRevertedSkipped`). `Rowed` says that the row in hand is still what
the provider, or the pin, said of it, `Positioned` and `Progress` where in which account the
job is, and `Settled` that whatever is worth reporting in an account that is behind has
a holding, an error of the account, or a note. `Owned` gives each holding an amount of a
block that vouches for it (`Vouched`): an answer that may be used or a read at the pin.
`FixedIsExact` then needs the provider's contract, and `EachCountedOnce` that
suppression runs after the last adapter (`Beside`).

**Valuation.** `Quoting` says that whatever is worth something is quoted at the instant
of its own chain, named in an error, or still to be asked for; an answer is filtered by
the query it answers, which is why the quote of another instant cannot get in.
`Reckoned` says that each component before the cursor that has a quote has its value,
and no component any other.

The totals need `Tally`: the running group total is the signed sum of what is valued of
the group at the cursor, the running snapshot total is the sum of the nets of the groups
behind it, and a protocol's summary holds the sums of what the cursor has passed. Each
step adds one member to one of these sets, or none. Sums are folds over sets
(`MapThenSumSet`), so this takes induction over finite sets. The library states it
with an operator parameter, which cannot be used here; `SetInduction` restates it for a
set of subsets and rests on the well-foundedness of the strict subset order
(`FS_StrictSubsetOrderingWellFounded`, `WFMin`). From it follow that the fold exists
(`IterExists`), that it depends on the members' values only (`SumSame`), and, because
the fold takes an arbitrary member first, that any other may be taken first instead
(`SumRemove`, `SumAdd`).

Only model-checked:

* every liveness property (`EveryCallReturns`, `EveryRequestEnds`, `EveryJobEnds`,
  `ScanReturns`, `CallEnds`, `LatestReturns`) and the liveness half of the oracle:
  fairness and `ENABLED` are out of the prover's reach;
* `MethodsDisciplined`: it is about 38 constants, which TLC evaluates.

The type invariants (`TypeOK`) are proved and left to the proofs. They hold what is
more than a type too: no statement of a range read asks for no sample or for more than
the largest number, the wallet's token cache keeps to its bound, and neither it nor the
blocklist ever has the native coin. Each is inductive beside the invariant of its
module (`Assigned`, `Kept` with `Common`, `Once`).

## Not modelled

* Formatting, wire decoding, metrics and receipts, the parse of the processor
  status, the generic parts of row decoding.
* The arithmetic of the adapters: ticks, shares, interest and fixed-point words of
  128 and 256 bits, which TLC's integers do not reach. A leg is held or not held.
* A context that ends inside an adapter: each of its calls then fails, which
  `AdapterReads` has as a fault; the engine's deadline is `ScanEngine`'s.
* A failed row of a tolerant batch, reverted or refused by a node, is one kind of failure
  in `AdapterReads`. Where the
  code passes only a revert over (`executionReverted`) and returns other row errors,
  the second is the fault of a round trip.
* Static registries: the windows, addresses and vault lists are constants of the
  code, and a plan stands for any of them.
* Overflow and rounding of floating-point values, and amounts with a denominator.

## Plan

1. The reconstruction of a sample from range rows (`suiSQLRangeView`) against a
   single read; Suilend's and the CLMMs' selection of objects.
2. Proofs: every safety property a run checks is proved but `MethodsDisciplined`. What
   is left is to unfold that one plan by plan, and liveness, for a prover that has
   fairness.
