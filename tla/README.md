# A TLA+ model of substrate-aggregator

The repository is a Substrate node whose `pallet_aggregator` publishes, for
pairs of currencies, the best path to trade along and what it costs. Offchain
workers of the nodes fetch prices over HTTP, calculate best paths, and send
what changed to the chain in signed payloads of unsigned transactions. The
directory `tla/` models that loop, checks it with TLC on small instances, and
proves its main safety properties with TLAPS for all instances.

Paths below are relative to `pallets/aggregator/` unless they start with
`runtime/` or `node/`.

## The system

| Part | State it keeps | Operations | Talks to |
| --- | --- | --- | --- |
| Pallet on chain (`src/lib.rs`) | `BestPaths`, `MonitoredPairs`, `WhitelistedOffchainAuthorities`, `UnsignedTxNonce` | `ocw_submit_best_paths_changes`, `submit_monitored_pairs`, `add_whitelisted_offchain_authority`, `trade`, `validate_unsigned` | deposits events; called by block authors and by the pools |
| Turn-taking of the workers (`src/lib.rs`, `offchain_worker`, `should_trigger_offchain`) | per node: the next trigger block and a lock with a deadline, in the persistent offchain database | check the trigger, try the lock, work, bump the trigger, drop the guard | started by every import of a block, each in a thread of its own |
| A worker's round (`fetch_prices_and_update_best_paths`) | none; reads the state of the block it was started for | fetch, calculate, compare, sign, send | HTTP, calculator, keystore, transaction pool |
| Calculators (`src/best_path_calculator/`) | none | `calc_best_paths` | pure |
| Price feed (`src/trade_provider/`, `parse_price`) | none | `get_price` | HTTP |
| Node process (`node/src/command.rs`, `node/src/service.rs`) | its tasks; which of them are essential | start in stages, run, stop; `purge-chain`, `revert` and the other subcommands | keeps the database and the keystore of everything above |
| Chain specifications (`node/src/chain_spec.rs`) | authorities, sudo key; nothing of the aggregator | | read at start |
| Transaction pool, gossip, block import (Substrate, wired in `node/src/service.rs`) | pooled transactions, a tree of blocks | | external |

What is hard here, and where the properties aim:

* Workers of successive blocks run at the same time and share two database
  entries with no transaction between them: the trigger is checked before the
  lock is taken; the lock holds only its deadline (100 ms, while one HTTP
  request may take 2 s), so it can expire under its holder, and the late drop
  of a guard clears whatever lock is there by then.
* A node may stop between sending a payload and bumping the trigger.
* Several nodes work for the same nonce; payloads are delayed, reordered and
  repeated, and they are applied to a state that may be blocks newer than the
  one they were calculated from. Only the nonce stands between that and a
  wrong price.
* A batch of changes or of monitored-pair operations may name one pair several
  times; the events have to add up all the same.
* The chain forks. A payload knows its nonce and its block's number, not its
  branch; the two database entries of a node are not rolled back with a branch.
* The database outlives the process: a lock left by a kill, a trigger ahead of
  a chain that was reverted. Start-up has a dozen stages that may fail.
* The algorithm updates its matrix in place, marks missing paths with
  `f64::MAX`, and must tell a gainful round trip from everything else.

What makes each part correct: the *pallet* must apply a payload at most once,
only to the prices it was calculated against, and log exactly what it did; the
*turn-taking* must keep workers out of each other's way while the lock lasts, and the configured
distance between rounds, must not skip rounds for no reason, and must never get stuck;
a *round* must send those pairs that moved beyond the tolerance and no others;
the *calculator* must return real paths, the best ones, or fail when and only
when there is an arbitrage; a *node* that is started again whenever it stops
must bring the board to the provider's price in the end, whatever happened
before.

`PROJECT.json` lists every component and every hazard with its line and the
properties that cover it.

## Modules

| Module | Models | From |
| --- | --- | --- |
| `Blocks` | the block under construction and the sealed blocks | external (`frame_system`) |
| `Utils` | `breaches_tolerance` on u128 with saturation | `src/utils.rs` |
| `Aggregator` | storage, extrinsics, `validate_unsigned` | `src/lib.rs` |
| `EventReplay`, `MCPallet` | the pallet under every call, next to an indexer that reads only events | `src/lib.rs` |
| `OffchainWorker` | trigger, lock and worker threads | `src/lib.rs` |
| `NoopCalculator` | `NoBestPathCalculator` | `noop_calculator.rs` |
| `PriceRound` | what a round computes from the state of its block | `src/lib.rs` |
| `AggregatorSystem`, `MCSystem` | pallet + workers + pools, with the mock runtime's calculator | `src/lib.rs`, runtime, node |
| `MCRuntime` | the same with the runtime's calculator and constants' relation | runtime |
| `PriceBoard` | abstract specification of what a reader of the chain is promised | |
| `Forks`, `MCForks` | pallet + rounds on a tree of blocks | `src/lib.rs`, `node/src/service.rs` |
| `PriceFeed`, `MCPriceFeed` | the fetch loop, `get_price` and `parse_price` | `src/lib.rs`, `crypto_compare.rs`, `src/utils.rs` |
| `BestPathAlgo` | the algorithm as operators | `floyd_warshall/algo.rs` |
| `FloydWarshallCalculator` | from prices to published paths | `floyd_warshall/calculator.rs` |
| `FloydWarshall`, `MCFloydWarshall` | the algorithm, one inner-loop turn per step, next to what it should compute | `floyd_warshall/algo.rs` |
| `NodeService` | one node's process, stage by stage | `node/src/command.rs`, `node/src/service.rs`, `node/src/cli.rs` |
| `Deployment`, `MCDeployment` | that process with the chain, the database and the feed | the same, `node/src/chain_spec.rs`, `src/lib.rs` |
| `Aggregator_proofs`, `PriceRound_proofs` | lemmas about the pallet's calls and about a round, which the next three rest on | |
| `AggregatorSystem_proofs`, `Forks_proofs`, `EventReplay_proofs` | theorems about the system, the tree of blocks, the events | |
| `OffchainWorker_proofs`, `PriceFeed_proofs`, `FloydWarshall_proofs` | theorems about the workers, the feed, the loops of the algorithm | |

`AggregatorSystem` composes `PriceRound` (on `Aggregator`) with
`OffchainWorker`; `Forks` puts `PriceRound` on a tree; `MCRuntime` plugs
`FloydWarshallCalculator` into `AggregatorSystem`; `Deployment` extends
`NodeService`. `FloydWarshall` and `MCRuntime` run the very same operators of
`BestPathAlgo`, so what the first checks of the loops holds for the second.

### State and actions

*Pallet.* A variable per storage item. `BestPaths` is a function from pairs to
a path or `None`; the two double-map keys are one pair. `event` is what the
last step deposited. An extrinsic is one action, with its origin as a
parameter; its second disjunct, `Refused`, is every error: the checks come
before the first write (and the calls are `#[transactional]`), so a refused
call changes nothing. `ocw_submit_best_paths_changes` applies its list through
`PathBefore`, which says what a pair holds just before the i-th change: the
loop of the code as a function of the list. `submit_monitored_pairs` first
keeps the last operation of each provider pair (`LastOperations`), then those
that change the map (`EffectiveOperations`); what remains has one operation
per provider pair, so a set stands for the list. The entries of the
`BestPricesSubmitted` event are a function from the positions of the batch that were
told (`PriceEntries`), as an entry that changes nothing is left out. `ApplyUnsigned` is what the
runtime does with an unsigned transaction in a block: validate, then dispatch.

*Workers.* `pc[n][b]` is the thread of node `n` for block `b`, one label per
point at which other threads can be seen: `check` (before the trigger is
read), `lock` (before `try_lock`), `work`, `bump`, `unlock`, and one per way to end: by itself
(`done`, `skipped`), or cut short, with the label telling how far it had come and whether
its lock stayed behind. The lock is
`free`, `held` or `expired`; expiry is an action of its own, that may happen at
any time with `LockExpires`, and otherwise once the holder has died. `unlock` clears the entry whoever holds it, as
the guard's drop does. `panic` leaves the lock or frees it (the wasm runtime
traps, the native one unwinds). `crash` loses the threads and keeps the
database. A trigger entry that cannot be decoded (`src/lib.rs:448-451`) does not occur, as only the
bump writes it, so that arm is left out. `WorkerSpan` says how long threads may run: a worker of block `b`
has ended before block `b + WorkerSpan` is imported. With 1, workers end before the next
import; with more, they overlap.

*System.* `chain[b]` is the storage as block `b` left it, which is what
a worker of block `b` reads whenever it runs. `sent` is every payload a pool
has accepted; it only grows. `Include` may put any payload of `sent` into any
block, again and again, if `validate_unsigned` accepts it there. The round is
one step because everything it reads is the snapshot and the network. `Govern`
is sudo, with the lists of `PairOperations`: one operation each in `MCSystem`,
since a longer call is worth several calls in the same block
(`DedupeKeepsMeaning`, checked on the pallet alone), and one call with all
pairs in `MCRuntime`. A payload lists its pairs in an arbitrary order
(`Listed`); each occurs once, so the order of the code's map plays no part. Of the
calculator little is assumed: it fails, or returns a map from some
pairs to paths (`CalculatorAssumption`), between currencies it was given prices for
(`CurrencyAssumption`).

*Algorithm.* `Init` picks any table of prices by any providers; `Relax` is one
turn of the inner loop; `Return` looks at the diagonal. `unique_cheapest_edges`
leaves one price per pair and stays with the provider that quoted it. Prices
are powers of two, so their logarithms are integers; a price of zero has weight
infinity, as `-log2(0)`. `calc_best_paths_floyd_warshall` numbers the
currencies that occur, runs the loops as a fold, multiplies the hops of each
path again and cuts the product to whole multiples of `1 / PRECISION`, as the
calculator does. In `MCRuntime` its results are tabulated once. `MAX` and
`INFINITY` are constants of which only that they are no integers and differ is
assumed; `plus` and `exceeds` say how they add and compare. The reference
definitions speak of ways, which are lists of vertices.

*Forks.* `tree` holds the sealed blocks with parent, state and line (the blocks
from it back to genesis, which the headers give); the pallet's
variables are the block being built. `BuildOn` seals it and goes on from any
sealed block, with that block's state: an author builds on the longest branch it
knows, and blocks reach it late. `Work` is the round of any block. `updates`
records which payloads took effect in a block and on what board. A payload
keeps the block it was calculated on (`home`), which the code does not know;
only the properties look at it. The turns are left out: every block's worker
may send, which is more than the code does.

*Process.* `stage` is the next fallible call of `new_partial` or `new_full`,
`tasks` what was spawned so far. `start_fails` is any `?`, `task_ends` the end
of a task; when an essential one ends, the node stops, once `new_full` has
returned (`shut_down`: only then is the task manager waited for). The remote
keystore is refused in the first stage, so the branch at
`node/src/service.rs:173` is unreachable. `kill` and the maintenance
subcommands may come at any time.

*Deployment.* `Service(Step)` is a step of the process and what goes with it:
the worker, and the pool where no one else keeps it. `head` is the state of the
chain: the price of one pair, and whether sudo has set up pairs and whitelist.
Block numbers are replaced by distances, so the model has no end: `lead` is
how far the trigger is ahead of the head, `age` how long a payload has been pooled.
`past` is a block a `revert` leads back to; on a chain of its own the head goes back
and the trigger gets so much further ahead, on a shared chain the node fetches
the blocks again. `purge_chain` loses chain and offchain entries, and keeps the key. A worker
that still works when the next block comes hangs for good and leaves its lock.

*Price feed.* One action per call that can return early: `send`, `try_wait`,
`check_code`, `read_body`. Every error leaves the pair out of the round
(`LeaveOut`, the `.ok()` in the loop). `clock` is the time since the round
began; `new_deadline` is taken anew for each request. The body is read without
a deadline, as in the code. What comes out, a price for some of the monitored pairs, is
what `FetchedPrices` of `PriceRound` ranges over.

Operators under a comment that begins with `Fault` are no part of the model:
each is a mistake the code does not make. When one replaces the operator it is
named for, the property it is listed with in `PROJECT.json` (`mutants`) fails,
which shows that the property can fail.

## What the runs check

| Run | Instance | Shows |
| --- | --- | --- |
| `pallet_events` | 2 pairs, 2 costs, batches and calls of up to 2 entries, 2 effective payloads, 2 blocks | An indexer that replays events has the stored costs and monitored pairs at all times (`EventsRebuildStorage`); a trade is quoted at the last published cost; the dedupe keeps the meaning of the list; `MonitoredPairsSubmitted` is exactly the difference |
| `workers` | 1 node, 7 workers, span 2, delay 4, a lock may expire at any time, panics, 1 crash, fair | `ClearedByAnotherGuard`: what the lock is good for when it may expire: no worker loses it but to the guard of one that overlapped with it; `RoundsAreSpaced`: what is left of the rate limit when workers overlap; `SkippedForAReason`: a turn is given up only because of a recent round, an overlapping worker that took the lock, or a lock that a worker cut short left behind and no round has cleared; `NobodyWaits`: each worker ends or works, though another one hangs in its work or died with the lock |
| `system_race` | 2 nodes (symmetric), 2 workers each, span 2, locks that expire under a worker, 1 crash, costs 2, 3, tolerance 40 % | `LivePayloadsMatchTheBoard`, `ImplementsPriceBoard` under two nodes racing for a nonce, two workers of one node fetching side by side, and one sending twice around a crash |
| `system_runtime` | 1 node, 3 workers, span 1, expiry, delay 2, stay 2; 3 currencies, 4 pairs, prices 1/2 and 2, `PRECISION` 2 | `PublishedPathsAreReal` and, for any calculator, `PublishedPathsAreCalculated`: rounds that price only some pairs, and batches that send only some paths, never mix costs and steps; `OnlyMonitoredCurrenciesArePriced`, while sudo changes the monitored pairs; `NoArbitrageIsSent`; and payloads of one node are `OffchainTriggerDelay` blocks apart with at most one alive: stay and delay fit together with nothing to spare |
| `best_paths` | 4 currencies, any subset of 7 quotes for 6 pairs, one pair by 2 providers, prices 1/2, 2 or 0 | `PathsAreReal` at every turn, `BestPathsAreBest`, `PathsAreSimple`, `FailsExactlyOnArbitrage`; and `NoDetourPaysMore`: chaining two published paths never beats the published one |
| `deployment` | 3 configurations, 2 prices, delay 2, stay 2, 2 faults, 1 move of the price, reverts of 1 block | `BoardFollowsFeed`: the chain comes to show the provider's price and keeps it; `HalfDeadNodesStop` |
| `forks` | 1 pair, costs 2 and 6, 4 sealed blocks and one being built, 3 payloads, stay 2 | `OwnBranchPayloadsMatch`, `OncePerBranch`, `ToleranceOnOwnBranch`: what the linear chain promises holds on each branch for its own payloads |
| `price_feed` | 2 pairs, any answer, three delays of which two outlast the deadline together, six numbers, 4 decimal places | `PairsFailAlone`: a slow or failing server costs only its own pair; `PlainPricesAreExact` |

Four runs exhibit a behaviour in which the code departs from its own text:

* `rate_limit_race`. The README says the trigger constant ensures that fetching
  "doesn't happen too frequently". The trigger is read before the lock and not
  again, so the worker of block b+1 that starts while block b's worker still
  works, and reaches the lock after it was dropped, fetches at once. Holds
  (and is proved) when workers end before the next import; `RoundsAreSpaced` is
  what holds otherwise.
* `dropped_pairs`. `src/lib.rs:470-473` lists "no longer existing elements"
  among the differences that are sent. The code only logs them
  (`src/lib.rs:489`); no removal is ever sent, and a stale price stays.
* `zero_price`. A stored cost of zero makes `breaches_tolerance` divide by
  zero (`src/utils.rs:35`). From then on each worker that has a cost for that pair
  panics before it bumps the trigger, contrary to the doc of
  `offchain_worker`. The run needs no price of zero: the product of two
  positive prices, cut to u128 (`calculator.rs:48`), is one.
* `one_digit_fraction`. `parse_price` reads a fraction of one digit as if a
  zero stood before it: a body of 3.5 gives 3.05. Its doc and its test say that
  the number itself comes back, scaled. It also ignores exponents;
  `PlainPricesAreExact` states what does hold.

The text and the code also differ in four places that no run exhibits; the
properties state what does hold.

* The doc of `offchain_worker` (`src/lib.rs:226-227`) has the
  worker keep the lock until it is done. The lock lasts 100 ms (`src/lib.rs:40`) and a
  single request up to 2 s (`crypto_compare.rs:7`), so the worker of the next
  block may find it expired and fetch as well. Hence no property says that one
  worker works at a time; `ClearedByAnotherGuard` is what the lock does give.
* The doc of `ocw_submit_best_paths_changes` (`src/lib.rs:259`) promises an event
  with all supplied changes. A removal of what is not stored is not listed
  (`src/lib.rs:284`); `EventsRebuildStorage` says that what is listed suffices.
* The same doc (`src/lib.rs:256`) says that the call dedups by provider pair,
  keeping the last operation. It carries out and lists all of them; the
  dedupe is that of `submit_monitored_pairs`. `EventsRebuildStorage` holds all the same.
* The README of the pallet (line 78) says that prices aren't
  updated unless the tolerance is breached. On a chain that forks, a payload of
  another branch with the same nonce takes effect and may replace a cost by
  one within the tolerance; hence *own* in `ToleranceOnOwnBranch`.

A limit that no document denies was seen while the properties above were
made, and shaped one of them. Two rounds that each fetched one
direction of a pair, with an arbitrage between them, may leave a round trip on the board
that gains, as the calculator looks for it in what one round fetched; hence
*sent* in `NoArbitrageIsSent`.

### Bounds, and why they are enough

`MaxBlock` bounds the chain; each run gives it room for what it is about: a
round, its delay and the next round while the first payload is still pooled (`system_*`),
two workers alive at a time, a delay, and the rounds after it with what they find left behind (`workers`), a fork of two
blocks with a payload crossing from one branch to the other and being answered (`forks`).
`MaxCrashes`, `MaxChanges`, `MaxNonce`, `MaxSealed`, `MaxSent`, `MaxFaults`,
`MaxMoves` and `Revertible` are the other bounds. Two entries in a batch are the
least with a duplicate, and two payloads the least with an overwrite. Costs 2
and 3 with a tolerance of 40 % have a step within the tolerance (3 to 2) and one
beyond it (2 to 3); a stored cost of 0, and the division by it, occur in `system_runtime` and `zero_price`. The runtime's tolerance of
one millionth would let every step through. With one key shared by
all nodes nothing is lost: payloads of two nodes are told apart by nothing but
their content. `AmountModulus` is 2^128 scaled down: 8 for trades, so that they
wrap, and 2*10^9 in the system, so that the tolerance is exact. In
`system_runtime` A leads to C directly and by B, and B and C form a round trip,
which with halves and doubles gives a path of two steps, an arbitrage, and a
product that is cut to zero. The runtime's delay and stay are 3 and 3; what matters is that
they are equal. In `best_paths` the six pairs hold round trips of two, three
and four hops and paths of three hops in an order the loops do not follow, with
all three kinds of result. Two faults in `deployment` are a kill with the lock taken
and a revert on top, or a purge after a failed start; more of them only repeat
this, as every fault ends in a stopped node whose database is one of those
already seen. The views of `forks` and `system_race` leave out the last event, which none of their
properties reads and no step depends on. The system runs, `deployment`, `forks` and `pallet_events` find no
deadlock: a refused or repeated call, or a restart, is always possible. The worker runs
and `best_paths` stop when everything has ended, and allow it.

### Fairness

`NobodyWaits`: `FairWorkersSpec` assumes weak fairness of `WorkerStep(n, b)`
for each worker, which is its own steps outside the work: the client spawns a
worker as a task of its own (`node/src/service.rs:209-216`) and runs it until
it returns, and each of these steps is a local database access. Nothing is
assumed of the work. It waits for the network, and the body of a response is
read without a deadline (`crypto_compare.rs:20`; the deadline of line 7 covers
sending and the headers), so it may never end; `NobodyWaits` says that the
other workers go on all the same. Import, expiry and crashes are not fair: they
may never happen. `WorkerSpan` is a bound on what the runs look at, the number
of workers that overlap; it is also the assumption of `RateLimitHolds`. Two
seconds per request and six per block (`runtime/src/lib.rs:115`) leave room for
three slow pairs before workers overlap.

`HalfDeadNodesStop` and `BoardFollowsFeed`: `Deployment`'s `Fairness` assumes
weakly what the code does by itself (a start goes on, the runner stops on an
essential task's end, blocks are authored, threads run, the lock's deadline
passes) and what an operator does (start the node when it is down, insert the
key as `make populate-keys` does, make the sudo calls). Strong fairness is assumed of
three things that are possible again and again without staying so: that sudo's
calls get into a block, that a request is answered before the worker gives up
(`submit`), and that a payload in the pools gets into a block; without the
first nothing is monitored, and without the others no node could publish.
Nothing is assumed of faults, of moves of the price, or of how often a request fails
or hangs in between. The task that starts the workers is spawned without
"essential" (`node/src/service.rs:210`), so a node that lost it serves on and
never feeds again; `BoardFollowsFeed` presupposes that it does not end
(`WorkersStart`).

## What is proved

Each theorem holds for all values of the constants, from the named assumptions
of the modules: constants that count are naturals, markers such as `None`, `Idle` and
`NoTrigger` are not values, `WorkerSpan` is positive, the calculator returns a map from
pairs to paths or fails (`CalculatorAssumption`; its source type is a
`BTreeMap`) and adds no currencies (`CurrencyAssumption`; both calculators build
their result from the prices they are given), nobody quotes a currency in itself
and the quotes that may be given are finitely many (`AlgoAssumption`, `q[1][1] # q[1][2]`; the code does not refuse to monitor
such a pair, and what it would do with one is not modelled), logarithms of prices are between -100 and 100, and a fraction of n digits is below
10^n (`FeedAssumption`). TLC evaluates these assumptions on every run. A theorem
that needs more says so in its own `ASSUME`, and below.

An invariant P is proved from a stronger one, here called the invariant of the
theorem: the initial states have it, each action keeps it, and it
implies P. Where a list, a branch or a set has any size, the step from size n-1
to n is taken by least counterexample (`LeastIsThere`): a set of naturals that is not empty has a least
member, so the least size for which a statement fails follows one for which it
holds. This is how `Listed`, `LogOfProduct`, `TwoTo`, `TenTo` and `InOrder`, which are
recursive functions, are shown to exist and to be what they look like.

*Workers.*

* `WorkersTypeCorrect`: `WorkersSpec => []WorkersTypeOK`.
* `LockIsKept`: `[]ClearedByAnotherGuard`, for any span, with expiring locks,
  panics and crashes. The entry is cleared by the drop of a guard only, and the
  worker that drops one was in its section; the invariant adds `Timely`
  (below), so that any two workers that run at one time overlap.
* `RoundsSpaced`: `[]RoundsAreSpaced`, for any span, with expiring locks,
  panics and crashes: rounds of workers that do not overlap are
  `OffchainTriggerDelay - (WorkerSpan - 1)` blocks apart. The invariant adds
  that a running worker is at most `WorkerSpan` blocks old (`Timely`), bounds
  from below how far a completed round leaves the trigger, whichever of the
  overlapping workers wrote it last (`TriggerCovers`), and states the distance
  for workers that have passed the check already (`Spaced`).
* `RateLimitHolds`: with `WorkerSpan = 1`, `[]RateLimited`, from the same
  invariant. For span 2 it does not hold, as `rate_limit_race` shows.
* `SkipsHaveReasons`: `[]SkippedForAReason`, for any span. The invariant
  ties a trigger to the worker that wrote it (`WriterStep`) and a lock that is
  held to the one that took it (`HolderStep`), alive or cut short, and says that
  no guard was dropped since; so a lock left behind turns nobody down once a later
  round has dropped its own.

*Pallet and its events*, for batches and calls of any length:

* `TypeIsOK`: the storage keeps its type under every call.
* `EventsAreComplete`: `[]EventsRebuildStorage`. A batch may name a pair any
  number of times, and an entry that deletes what is not there is not told. The
  crux is `LastToldStands`: the last entry that was *told* of a pair brought
  what the pair holds after the batch, or none was told, and then the pair had
  nothing before the batch and has nothing after it. The invariant is
  `Mirrored`, costs and pairs of the indexer as stored.
* `TradesAreVerifiable`: `[]TradedAtPublishedCost`, from the same invariant.
* `EventIsTheDifference`: the action property `MonitoredEventIsTheDifference`.
* `DedupeIsFaithful`: `[]DedupeKeepsMeaning`, for lists of any length.
  Carrying the list out in its order is a recursive function (`InOrder`), and
  after its first n operations a provider pair is monitored if and only if the
  last of these n that names it is an addition (`LastOperationStands`).

*Rounds and the system*, for any nodes, keys, pairs, prices and timing:

* `SystemImplementsWorkers`: `Spec => WorkersSpec`. The system refines the
  workers on their own: `fetch_prices_and_update_best_paths` is `finish_work`
  or `panic`, everything else a step of the workers or a stutter. The
  corollary after it carries the rate limit over.
* `LivePayloadsMatch`: `Spec => []LivePayloadsMatchTheBoard`. The invariant
  (`SnapshotInv`) says the nonce is
  a version number of `BestPaths` (two sealed blocks with one nonce have the
  same paths, no sealed nonce exceeds the current one, and one that equals it
  has the current paths), that a payload carries the nonce of the snapshot
  of the block it names, and that workers exist only for sealed blocks.
* `SystemTypeIsOK`: `[]TypeOK`. Its invariant `RoundInv` adds to `SnapshotInv`
  that a payload is a list of `Differences` from its snapshot: each pair once,
  each with no price there or with one that the new cost is beyond the tolerance of.
* `SystemImplementsBoard`: `Spec => ImplementsPriceBoard`, the refinement of
  `PriceBoard`. A payload that takes effect has the current nonce, so by
  `SnapshotInv` the board is the one of its snapshot, and its differences are
  differences from the board (`DifferencesApplied`); every other step is a stutter.
* `PublishedIsCalculated`: `[]PublishedPathsAreCalculated`, for any calculator.
  The invariant adds to `RoundInv` that all paths of a payload are of one
  calculation, from prices of the pairs monitored at its block. It is also why
  `NoArbitrageIsSent` holds: the result of one calculation has no such round
  trip (`DetoursPayNoMore`).
* `OnlyMonitoredPriced`: `[]OnlyMonitoredCurrenciesArePriced`, for every
  calculator that adds no currencies. It follows from `PublishedIsCalculated`:
  the prices of a calculation are of pairs monitored at one sealed block. Of
  *pairs* no such thing holds: Floyd-Warshall publishes pairs nobody monitors,
  composed of those somebody does.
* `SubmissionsSpaced`: `[]SubmissionsAreSpaced`, for one node whose workers end
  before the next import and which is not killed between sending and bumping (`MaxCrashes = 0`;
  `system_race` has such a kill, after which the node sends twice). The invariant adds to that
  of `RoundsSpaced` that whoever sent a payload has gone on to the bump, and that a block
  has one payload.
* `OneLivePayload`: `[]AtMostOneLivePayload`, if moreover `MaxTxPoolStayTime <=
  OffchainTriggerDelay`, as in both runtimes.

*Forks*, for trees of any shape and size, payloads repeated on any branch:

* `ForksTypeIsOK`, and with it the numbers and lines of the tree, and that a payload names the
  number of its block.
* `OwnBranchMatches`: `[]OwnBranchPayloadsMatch`. The invariant says that lines
  are chains (of two blocks on a line one stands on the other) and that the nonce
  is a version number of `BestPaths` along every line. Between branches it is
  not: two of them may have one nonce and different prices.
* `AppliedOncePerBranch`: `[]OncePerBranch`. The invariant adds that the nonces
  of a branch count its updates, block by block, so that two updates of one branch,
  in one block or in two, have different nonces.
* `ToleranceIsKept`: `[]ToleranceOnOwnBranch`. The board a payload of the same
  branch replaced is that of its own snapshot (`UpdatesFit`), and its changes are
  differences from that.

*Price feed*, for any number of pairs and places and any servers:

* `FeedFailsPairByPair`: `[]PairsFailAlone`. The
  invariant says what a request under way has shown about its server at each
  stage (its deadline is a whole `Deadline` away while it is sent; the headers came in
  time; the code was 200), and that the fetched pairs are the good ones among
  those whose request is over.
* `PlainPricesRead`: `[]PlainPricesAreExact`. The fraction is scaled by
  10^(Scale-2) and then divided by 10^(length-2); `ScaledQuotient` says that this cuts
  at the same place as scaling the whole number by 10^Scale. The
  hypotheses of the property, no exponent and not one digit, are what
  `one_digit_fraction` shows to be needed.

*Algorithm*, for any currencies, providers and prices:

* `PathsStayReal`: `[]PathsAreReal`, at every turn of the in-place loops, also
  when a round trip gains and paths grow with every turn. The invariant adds
  that a path over a zero price is a single hop and that every other cost is
  an integer: this is what makes `detour # MAX` and the comparison keep out a
  missing path and the infinite one, and what lets costs be added up
  (`ChainsMultiply`). It does not depend on the order of the loops.
* `TypesStay`: `[]TypeOK`, from the same invariant.
* `ArbitrageIsFound`: `[]FailsExactlyOnArbitrage`.
* `ResultIsBest`: `[]BestPathsAreBest`.
* `ResultIsSimple`: `[]PathsAreSimple`.
* `DetoursPayNoMore`: `[]NoDetourPaysMore`, for any `PRECISION` that is a power of two.
* `LoopsComputeTheFunction`: the loops, turn by turn, return what
  `floyd_warshall` returns, the fold that `calc_best_paths_floyd_warshall` is
  built from. So the theorems above hold of what a round publishes. Its
  invariant compares the matrix with a function on the sets of turns done
  (`Folding`), as the fold is defined by such a function.

These rest on one invariant, `IInv`, which has five parts: the matrix is real
(as above); the result is what the diagonal says when all turns are done
(`Progress`); quotes and empty paths stay in the matrix (`Complete`);
`LowestAt`, for the costs; `OnceAt`, for the hops.

*The costs.* In the textbook each round of the outer loop makes a new
matrix. The code updates the one it has, so when the pair (i, j) is relaxed by
k, the entries of (i, k) and (k, j) may have been relaxed by k already, and
others not. `LowestAt` therefore says for each pair by which
vertices it has been relaxed so far, turn by turn (`Visited`), and that no way
through these costs less than its entry, provided no entry of the diagonal is
below zero. The step: a way through k is cut at k. If it passes k several
times, the pieces between are round trips, and those cost at least zero by the
diagonal entry of k; what is left is a way to k and one from k that do not pass it in
between, which the entries of (i, k) and (k, j) do not exceed, whether they
were updated in this round or not. When the turns are done, all vertices have
been visited.

*The failure.* A diagonal entry below zero costs what its hops cost, so it is
a round trip that gains; cutting it at a vertex it passes twice gives two
shorter round trips, of which one gains, and so on down to a simple one
(`NoGain` and `GainCycle`). Conversely, if no entry of the diagonal is below
zero at the end, `LowestAt` says that no round trip costs less than zero.

*The hops.* If no round trip gains, every entry passes each vertex at most
once, and in between only those it was relaxed by (`OnceAt`). An entry is
replaced only by a strictly cheaper one; if the two halves had a vertex in
common, cutting the round trip between its two occurrences would leave a way no
more expensive, through the vertices visited before, below the entry that stood.
This is where `>` and not `>=` matters, as it does for the mutant.

*The detours.* Two published costs are products, each cut down; a product cut
down is at most the product. The chained ways are a way again, which `LowestAt` says
the entry of the whole does not exceed. For a round trip, `NoGain` bounds the
product by one. Powers are defined recursively, so `PowersMultiply` and
`PowersGrow` come first.

### Model-checked only

* Liveness (`NobodyWaits`, `HalfDeadNodesStop`, `BoardFollowsFeed`): out of the
  prover's reach.
* `PublishedPathsAreReal` and `NoArbitrageIsSent`: they are about the runtime's
  calculator inside the system, with the currencies and prices of `MCRuntime`. The
  theorems hold both halves of the argument: every path published or sent comes
  whole out of one calculation (`PublishedIsCalculated`), and what a
  calculation returns is real and offers no gain (`PathsStayReal`,
  `DetoursPayNoMore`, `LoopsComputeTheFunction`). Only that the numbering of the currencies in
  `graph` and `price_paths` keeps this is left to the run.
* `Deployment`'s `TypeOK`. It would need that the trigger is ahead of the head
  by no more than `OffchainTriggerDelay` and what the faults may still revert.
* In `FloydWarshall`, that the logarithms are integers is a feature of the model
  and not proved of the code: the f64 logarithms are rounded.

## What is not modelled

JSON text (a body holds a number or is no price), the HTTP client, signatures
(valid or not), weights, fees and logging; `heap.rs` (declared in `src/lib.rs:22` and used nowhere);
the template pallet (not in the runtime); benchmarking (test only). `trade`
moves no funds in the code either.

The pool's tags, longevity and priority are inside Substrate, and only
decide which payloads of the growing set are still there; no safety property depends
on one being there. Finality is left out, so the forks of the model include
some that GRANDPA would forbid. The turns of the workers are not on the tree:
only a block that becomes the best one starts a worker, and the numbers of a
node's best blocks grow, so `OffchainWorker`, which knows blocks by number,
describes a node on a forking chain as well. Rounded logarithms are not modelled; of the
node, the RPC services (`rpc.rs` keeps no state), the subcommands that open no
chain, and what `import-blocks` puts into it. Balances, names and bootnodes of the
chain specifications play no part.

`parse_price` works on unbounded integers: the overflow of a product
with the scale, and the wrap of a negative number, are not covered.
`breaches_tolerance` saturates: with the tolerance of 1 that both runtimes
set, that matters for stored costs above 2^127 only. Which of several providers' prices
should survive (`algo.rs:169` keeps the smallest, while the greatest would pay
more) is latent, as there is one provider; the model keeps the smallest, as the
code does.

## Plan

Done, in this order: `Blocks`, `Utils`, `Aggregator`, `EventReplay`,
`OffchainWorker` and its proofs, `PriceBoard`, `AggregatorSystem` and its
proofs, `PriceFeed` and its proof; then `BestPathAlgo`,
`FloydWarshallCalculator` and `FloydWarshall` with several providers,
`MCRuntime`, `NodeService`, `Deployment`, `PriceRound`, `Forks`.

After these the proofs of the pallet, the rounds, the system, the forks and the
reader of numbers; last the complete correctness of the loops, the dedupe, and
that what is published was calculated.

Next modules: `TransactionPool` (tags, longevity, revalidation) in place of
the growing set, if Substrate's behaviour can be pinned down from this
repository alone; two feeding nodes in `Deployment`.

Next theorems: `Deployment`'s `TypeOK`; that `graph` and `price_paths` number the
currencies both ways alike, which would make `PublishedPathsAreReal` a
consequence of the theorems there are.
