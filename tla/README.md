# A TLA+ verification of the Uniswap V2 in-memory indexing system

The Go package under `src/` follows a stream of blocks, discovers Uniswap V2 pools in
them, initializes each pool once over RPC, keeps its reserves up to date from Sync events
and publishes a view of all pools that consumers read without a lock. This directory
specifies that system in TLA+, checks the specifications with TLC on small instances and
proves their safety properties with TLAPS for all instances.

## 1. Inventory

### Components, their state and operations

| Component | Source | State | Operations |
|---|---|---|---|
| Registry | `registry.go` | parallel slices `id`, `token0`, `token1`, `reserve0`, `reserve1`, `pooltype`, `fee`; map `idToIndex` | `addPool`, `updatePool`, `deletePool`, `viewRegistry`, `NewUniswapV2RegistryFromViews`, `getPoolById`, `hasPool` |
| Block listener (fast path) | `system.go` 257-404, 596-620 | writes registry, `pendingInit`, `lastUpdatedAtBlock`, `cachedView`, the queue gauge | bloom test, `getLogsWithRetry`, `handleNewBlock`, `applyUpdates` |
| Initializer loop (slow path) | `system.go` 406-480, 622-713 | drains `pendingInit`; local batch | `runPendingInitializations`, `applyInitializations` |
| Pruner | `system.go` 715-764 | local list of IDs | `pruneBlockedPools` |
| State reconciler | `system.go` 482-594 | local copies of two views and the fresh reserves | `runStateReconciliation` |
| Consumer and manager interface | `system.go` 232-247, 766-825 | none | `View`, `LastUpdatedAtBlock`, `DeletePool`, `DeletePools` |
| Construction and restart | `system.go` 74-230 | none | `validate`, `NewUniswapV2System`, `NewUniswapV2SystemFromViews` |
| PoolInitializer | `initializer/pool.go` | known factories; one semaphore shared by all calls | `Initialize`: per pool factory, tokens, reserves |
| Reserves fetcher | `reserves/reserves.go` | a semaphore per call | `NewGetReserves` and the function it returns |
| Log parsers | `logs/` | none | `UpdatedInBlock`, `DiscoverPools`, `SwapEventInBloom` |
| Errors | `errors.go` | none | error types, `determineErrorType` |
| Metrics | `metrics.go` | Prometheus collectors | `NewMetrics`; updates are in `system.go` |
| ABI | `abi/abi.go` | parsed ABI constant | none |

### Interactions

Four goroutines (listener, initializer, pruner, reconciler) and the callers of
`DeletePool(s)` share one registry, guarded by `mu`. Every writer publishes a fresh copy of
the registry with an atomic store of `cachedView` before it releases `mu`. Consumers, the
pruner and the reconciler read that copy and never take the lock. `lastUpdatedAtBlock` is a
second atomic, stored separately. `pendingInit` passes pools from the listener to the
initializer. The upstream registry (`registerPools`, `poolAddressToID`, `poolIDToAddress`),
the block list (`inBlockedList`), the RPC client and the block provider are injected; other
systems use the same upstream registry.

### Hard behaviours

* **State read, then used without the lock.** The reconciler compares two lock-free views,
  then takes the lock and writes. The pruner decides from a view and deletes later. The
  initializer holds a batch outside the lock during slow RPC calls, while the listener
  handles blocks that concern the same pools.
* **Repetition.** A pool that swaps while its initialization is in flight is queued again,
  because neither the registry nor the queue knows it then.
* **Loss.** A block is dropped on a client or log error; a whole batch is dropped if no
  client can be had; a block without a Swap is skipped even if it has Sync events; Sync
  events of a pool in flight are ignored.
* **Two stores.** The block number and the view are published separately.
* **A call without a timeout.** `FilterLogs` is given the system's context and nothing else
  (`system.go` 302); the calls of the initializer and of the reconciler end after
  `defaultRPCTimeout`.
* **Publication by counting.** Three writers publish only if they counted a change.
* **Counting and re-indexing.** The results of a batch pass through slices of three lengths,
  and the number of errors decides whether anything is published.
* **Aliasing.** Reserves are `*big.Int` values overwritten in place.
* **Swap-and-pop deletion.** The position of one pool changes when another is deleted.
* **Late answers.** A node announces a block before it has indexed it; the listener asks again
  after a delay, and may be cancelled or see another block at that height meanwhile.
* **Calling back under the lock.** The manager's lookups and, in the reconciler, the error
  handler are called while `mu` is held, and both may call `DeletePool`.
* **Restart.** A process may end between any two stores; the next one starts from what its
  owner last saved, with an empty queue, against an upstream registry that kept everything.
* **Shutdown and eventual effects.** Who returns, who converges, who makes progress.

### What makes each component correct

| Component | Properties (state in the module of section 3) |
|---|---|
| Registry | behaves as a map from permanent IDs to records (`RefinesPoolStore`), because positions and IDs stay inverse (`IndexInverse`), rows stay whole (`RowsStayWhole`) and cells are never shared (`NoAliasing`) |
| Listener | block number before events, whoever publishes them (`EventsNotAheadOfBlock`); handles every block unless a call for logs hangs (`BlocksAreHandled`) |
| Initializer | only known factories (`OnlyTrustedTracked`), never overwrites (`InitializationKeepsReserves`), finishes the queue (`QueuedPoolsAreTracked`) |
| Pruner, deletions | deleted stays deleted (`DeletedStaysDeleted`), blocked pools leave (`BlockedPoolsLeave`) |
| Reconciler | convergence (`ViewConverges`); it does *not* satisfy `ReconcilerNeverRegresses` |
| All writers | the view is the registry whenever the lock is free (`ViewMatchesRegistry`) |
| PoolInitializer, reserves fetcher | the limit on RPC calls (`ConcurrencyIsLimited`), a batch of per-pool answers (`RefinesBatch`), nobody waits for nobody (`NoCallIsStuck`), every call returns (`CallsReturn`) |
| `applyInitializations` on slices | a pool enters as itself or the error handler is called for it, once (`RefinesInitializations`, `AddedOrReported`), and what entered is published (`RoundsArePublished`) |
| Log parsers | the last Sync wins, in aligned slices (`LastSyncWins`); every swapped pool once (`SwappedOnce`) |
| `getLogsWithRetry` | a lag that the retries cover loses nothing (`LagTolerated`, `RetriesExhausted`), it returns unless the node never answers (`CallReturns`) |
| Errors, callbacks | no cycle of waiting but two, which the caller can avoid (`DeadlockOnlyByCallback`), and otherwise the lock is always released (`LockIsReleased`) |
| Restart | the replayed stream repairs the snapshot (`StreamBringsUpToDate`); the system's invariants survive |
| Consumers' view of all of it | known pools, with reserves they once had on chain, and a number that grows until the process ends (`RefinesConsumer`) |
| Lifecycle | every goroutine returns after cancellation (`ShutsDown`) |

## 2. Modules

| Module | Role |
|---|---|
| `PoolStore` | abstract specification: a map from IDs to records, an exported copy, and the error of each call |
| `Registry` | `registry.go` on slices, an index map and a heap of cells; `Store == INSTANCE PoolStore` |
| `MCRegistry` | TLC values and the state view for `Registry` |
| `RegistryProofs` | proofs about `Registry`, the refinement of `PoolStore` included |
| `UniswapV2System` | `system.go`: four goroutines, the manager and the world around them |
| `UniswapV2SystemProofs` | proofs about `UniswapV2System` |
| `Batch` | abstract specification: a call that answers its pools one by one |
| `FetchBatch` | `Initialize` and `NewGetReserves`: goroutines, semaphores, wait groups, results by index |
| `MCFetchBatch` | lists of pools for `FetchBatch` |
| `FetchBatchProofs` | proofs about `FetchBatch`, the refinement of `Batch` included |
| `Logs`, `MCLogs`, `LogsProofs` | `UpdatedInBlock` and `DiscoverPools`, turn by turn; lists of logs; proofs |
| `Initializations` | abstract specification: some pools enter the view, each with a row of its own |
| `InitBatch`, `MCInitBatch`, `InitBatchProofs` | `applyInitializations` on its parallel slices; batches; proofs, the refinement of `Initializations` included |
| `LogRetry`, `MCLogRetry`, `LogRetryProofs` | `getLogsWithRetry` beside a node that lags; configured values; proofs |
| `Restart`, `RestartProofs` | `UniswapV2System` in a process that ends and is rebuilt; proofs |
| `Consumer` | abstract specification: what readers of `View` and `LastUpdatedAtBlock` can rely on, through failures and restarts |
| `Callbacks`, `CallbacksProofs` | what each goroutine calls under which lock, and the errors it reports; proofs |

`UniswapV2System` keeps the registry as the map of `PoolStore`. That is licensed by the
refinement theorem: a caller of `registry.go` cannot tell the slices from a map. It answers
the pools of `Initialize` and of the reserves fetcher one by one, in any order
(`InitializePool`, `FetchReserves`), and goes on when all are answered. That is `Batch`,
which `FetchBatch` refines. It has a round of initializations add some of the pools found, each
with its own data, in one step: `Initializations`, which `InitBatch` refines. A block carries
the last Sync of each pool and the set of pools with a Swap (`LastSyncWins`, `SwappedOnce` in
`Logs`), and its logs arrive, are missed or fail (the results of `LogRetry`). `Restart` extends
the system module itself, and the result implements `Consumer`.

### Registry

The state is the Go struct. `attr` holds the four slices `token0`, `token1`, `pooltype` and `fee`
(`Columns`), each appended to, moved and truncated for itself; `Attr(i)` is what they hold at one
position. `reserve0` and `reserve1` are the single column `reserve`: a cell holds the pair. A
reserve is a pointer, so `reserve` and the rows of a view hold *cells* of an explicit `heap`:
`updatePool` writes through the cell it finds, `viewRegistry` and `NewUniswapV2RegistryFromViews`
allocate new ones. Cells that nobody holds are cleared, which stands for garbage collection and
changes nothing a program can observe. `result` is the returned error. The first position is 1.
`WriteView` is the consumer of a view; it modifies the `big.Int` values it was handed when
`ConsumersWrite` is TRUE. `view` is the slice behind `cachedView`; `View()` copies that
slice and not the numbers, so its holder reaches the same cells.

`AddPool` may fail with a `DependencyError` whether the pool exists or not: a lookup of the
pool's ID precedes the test of existence, and the lookups of the tokens follow it.
`NewRegistryFromViews` is applied to a view that `viewRegistry` made; a hand-made snapshot
with the same ID twice is outside the model (it would break `IndexInverse`).

### UniswapV2System

| Variable | Code |
|---|---|
| `mu` | `s.mu`; "free" or held by the listener between two steps |
| `registry` | pools of `s.registry`, each with its reserves and the block they are of (history) |
| `cachedView`, `lastUpdatedAtBlock` | the two atomics |
| `pendingInit`, `pendingInitQueueSize` | the queue and its gauge |
| `listener`, `initializer`, `pruner`, `reconciler` | program counters and local variables |
| `head`, `chain` | the chain's last block and the reserves at it |
| `newBlockEventer` | blocks mined and not yet received |
| `blocked` | what `inBlockedList` answers |
| `registered` | pools for which `poolAddressToID` succeeds |
| `ctxDone`, `faults` | the context, and how many more calls may fail |

Actions follow the code's steps from one access to shared state to the next:

* *listener*: `SkipBlock` (bloom test fails), `ReceiveBlock` (receive, client, the call for logs),
  `FetchLogs` (the answer of that call, retries included), `ApplyBlock` and `PublishBlock` (the
  critical section, split between the two atomic stores), `CountPending` (gauge, after the lock),
  `StopListener`.
* *initializer*: `DrainPending`, `ResetGauge` (gauge, client), `InitializePool(p)`,
  `ApplyInitializations` (registration, `addPool`, `updatePool`, publication),
  `StopInitializer`.
* *pruner*: `StartPruning` (its `View()`), `ScanPool(p)`, `PruneBlocked`, `StopPruner`.
* *reconciler*: `StartReconciling` (first `View()`), `FetchReserves(p)`, `Compare` (second
  `View()`), `ApplyReconciliation`, `StopReconciler`.
* *manager*: `ManagerDelete(S)` stands for `DeletePool` and `DeletePools`.
* *world*: `Mine`, `ToggleBlocked`, `RegisterElsewhere`, `Cancel`.

A pool of `Pools` is a contract that emits V2 Swap and Sync events; those of `Trusted` have a
known factory. A Swap comes with a Sync of the same pool, as in the pair contract, and a Sync may
come alone (mint, burn, `sync`). The bloom filter has no false negatives and may have false
positives, so `ReceiveBlock` is possible on a block without a Swap. RPC reads return the value at
the head *when they are answered*, which may be ahead of the blocks the listener has handled. So a
consumer who reads the view first and the number second may find reserves that are newer than the
number. `EventsNotAheadOfBlock` says, of every step of the system, which: only answers that the
initializer or the reconciler has fetched and applies in that very step, never the events of a
block. The listener reads the block list for all pools of a block in one step: it holds the lock,
and the answers for two pools do not depend on each other.

Assumptions about the injected parts, all taken from how the code uses them: the provider
delivers all blocks in order and without reorganizations (repository README, "Operational
Model"); IDs are permanent; `poolAddressToID` fails exactly for unregistered pools;
`registerPools` returns the existing ID for a registered pool; a snapshot is what an earlier
system exported, at block 0, with pools of known factories. Failures are counted by
`MaxFaults`; one fault can hit any number of the pools of one batched call.

### FetchBatch

`Initialize` and the function that `NewGetReserves` returns have one shape: a loop that takes
a slot of a semaphore and starts a goroutine per pool, goroutines that write at their own
index, and a `WaitGroup`. The module models both. `SharedSemaphore` tells them apart: an
initializer has one semaphore for all its calls and calls `Add(1)` per goroutine; a reserves
fetcher makes a semaphore per call and calls `Add(numPools)` first. `RPCCalls` is 4
(factory, token0, token1, reserves) or 1, `Known` are the pools whose factory is known.

| Variable or action | Code |
|---|---|
| `caller`, `Call`, `Start`, `Return` | the calling goroutine: its loop (`pool.go` 87-92, `reserves.go` 63-67) and `wg.Wait` |
| `worker`, `CheckContext`, `Answered` | the goroutine of a pool: `ctx.Err()`, then its RPC calls |
| `semaphore`, `wg`, `Release`, `Done` | the channel and the wait group, and the two deferred calls in their order |
| `results` | the result slices; a pool stands for what was fetched of it, `"error"` for an entry of `errs` |
| `ctxDone`, `Cancel` | the context of each caller |

`Call` is made again and again by the same caller, so a slot lost in one call would be missed
in a later one. A semaphore of capacity 0 is possible for the reserves fetcher, which does
not check its argument: `Start` is then never enabled. A negative capacity panics in `make`
and is left out.

### Logs

A log is an address, its topics and its data, which are two words or `Malformed` (any other
length). `ReadForSyncs` and `ReadForSwaps` are one turn of the loops over the logs;
`AppendUpdate(a)` and `AppendDiscovered(a)` are one turn of the loops over the maps, for any
key not yet visited, since Go leaves the order of a map open. `LogLists` is a parameter: the
proofs are about every list.

### InitBatch

A pool stands for everything fetched for it, so a row is right if all its columns are the same
pool. `failed` are the positions with an entry in `initErrs`; `valid` is the record of the seven
`valid*` slices; `newPoolIDs` and `regErrs` are what `registerPools` returns, an error slice that
may also be empty; `next` is the index of the running loop. `AddPool` is a turn of the last loop:
`addPool` makes a row under the ID of the address with zero reserves, `updatePool` sets them under
the ID that `registerPools` returned. `originalIndices` is written and never read in the code, so
it is left out. `Publish` is the test of `successfulInits` and the `Unlock`. `ReportError` is a
turn of the loop that calls `errorHandler` after it, `EndRound` its end. `Sync` and `Delete` of
the other goroutines need `mu`: they happen between rounds and while errors are reported.
`handled` (the pools that `errorHandler` was called about) and `entered` (those that the round
published) are history, which no action reads. Upstream, an ID is permanent and registering a pool
again returns its ID.

### LogRetry

Time is counted in `logRetryDelay`. `lag` is how long the node needs to index the block,
counted from the call; `Tick` lets it and the timer of the select run down. `i`, `maxAttempts`
and `InLoop` are the code's, with `1 + logMaxRetries` wrapping around at `MaxInt`. `Ask` calls
`FilterLogs`, `Answer` is its return, which may be an error at any time, and finds logs only if
the canonical block at that height is indexed and has some. There may be no answer: the call has no
deadline. `Retry` and `Cancelled` are the two cases of the select; `Cancelled` is also what a
client does with a call in flight when its context is done (external).
`Reorganize` replaces the block by a sibling, which may need indexing anew.

### Restart

The module extends `UniswapV2System` by the process around it. `Run` is any step of the
system; it also keeps the provider's record of blocks and the gauge `PoolsInRegistry`, which
`updateCachedView` sets. `SaveNumber` and `SaveView` are an owner that takes snapshots with the
two methods the system offers; a snapshot counts once both are read. `Restart` may happen
between any two steps of `Run`, in the middle of a critical section or a batch: lock, queue,
goroutines and collectors are lost, the registry is rebuilt from the snapshot, the constructor
publishes it, starts the goroutines and returns to block 0. `registered`, `blocked` and the
chain live on. `Resume` is the provider: it hands over the blocks from the snapshot's number,
or from an earlier one, again ("persistence, and historical catch-up logic" are its
responsibility by the repository's README). A provider that resumed *after* that number would
lose the block whose number was stored before its view.

`was` is history: the reserves of each pool after each block. No action reads it; the properties
compare what the system holds with it.

### Consumer

The other abstract specifications are about a component; this one is about the whole. A consumer
of `View()` and `LastUpdatedAtBlock()` sees four things happen: pools enter the view (`Track`),
leave it (`Untrack`), have their reserves replaced (`Refresh`), or the number grows (`Advance`),
never two of them in one publication. Reserves that enter or are refreshed are those the pool had
on chain after the block they are attributed to. They need not be newer than those they replace: the
reconciler may go back (`system_stale_correction`). After `Restart` the first view is the one
saved. The mapping to it is direct: `view` is `cachedView`, `number` is `lastUpdatedAtBlock`,
`saved` the snapshot's view. Goroutines, lock, queue, batches, faults and the provider have no
counterpart.

### Callbacks

Here a round is reduced to the calls it makes of injected functions, the lock it holds
meanwhile and the errors it meets. `at` is the place in the round, `todo` and `found` the pools
of its loop. An error is the chain of its types, outermost first; embedding is not wrapping in
Go, so a `RegistrationError` does not match `*InitializationError`, and a plain `SystemError`
is "unknown". Each goroutine's `reports` are the errors it has made and not yet passed on:
`ErrorHandler` classifies and counts the first, then the caller's handler returns
(`HandlerReturns`) or takes `mu` to delete a pool (`HandlerDeletes`, on the types `DeletesOn`).
`Reports` says when a goroutine passes errors on: the listener and the initializer collect and
report after `Unlock`, the reconciler reports under `mu`. The manager's functions take the
manager's lock; a manager that deletes pools calls `DeletePools` after giving up that lock, or
before (`ManagerKeepsLock`). An update error cannot occur in `applyUpdates`, which tests
`hasPool` under the same lock.

## 3. Runs

| Run | Instance | Checks |
|---|---|---|
| `registry` | 3 pools, 2 reserve values, 9 cells, consumers write | `TypeOK`, `IndexInverse`, `RowsStayWhole`, `NoAliasing`, `RefinesPoolStore` |
| `system_queue` | a trusted and an untrusted pool, 3 blocks, 1 fault, initializer and manager | `TypeOK`, `OnlyTrustedTracked`, `ViewMatchesRegistry`, `InitializationKeepsReserves` |
| `system_live` | 1 pool, 2 values, 2 blocks, 1 fault, every goroutine, calls for logs that may hang | `DeletedStaysDeleted`, `EventsNotAheadOfBlock`, `QueuedPoolsAreTracked`, `BlocksAreHandled`, `BlockedPoolsLeave`, `ViewConverges` |
| `system_shutdown` | 1 pool, 2 values, 1 block, 1 fault, every goroutine, cancellation at any moment | `ShutsDown` |
| `batch_initialize` | 2 callers of 2 pools that share a pool, an unknown factory, 4 RPC calls, 2 shared slots | `ConcurrencyIsLimited`, `NoCallIsStuck`, `RefinesBatch`, `CallsReturn` |
| `batch_reserves` | 2 callers of 3 and 2 pools, 2 slots each; the second may hang | `TypeOK`, `NoCallIsStuck`, `CallsReturn` |
| `logs` | every list of at most 3 logs of 2 contracts, 7 lists of topics, 3 data | `TypeOK`, `LastSyncWins`, `SwappedOnce` |
| `init_batch` | batches of 3 and 2 of 3 pools, failures at every stage | `TypeOK`, `AddedOrReported`, `RoundsArePublished`, `RefinesInitializations` |
| `log_retry` | an int of 3 bits, retries -4, -1 to 3, lags 0 to 4 | `TypeOK`, `RetriesExhausted`, `LagTolerated`, `CallReturns` |
| `restart` | 1 pool, 2 values, 3 blocks, 2 restarts, listener and manager | `RestartTypeOK`, `StreamBringsUpToDate`, `RefinesConsumer` |
| `callbacks` | 1 pool, every goroutine, a handler that deletes on two types, one of them reported under the lock, a manager that may keep its lock | `TypeOK`, `DeadlockOnlyByCallback`, `LockIsReleased` |
| `system_stale_correction` | 1 pool of a snapshot, 2 blocks, reconciler | `ReconcilerNeverRegresses`, violated |

Deadlock is checked except where the modelled call ends (`logs`, `log_retry`) and in `callbacks`,
where waiting for ever is the subject of the properties. Larger instances (restarts with the other
goroutines, deletions of several pools that interleave with corrections) are left to the proofs of
the same properties, which put no bound on pools, blocks, failures and restarts.

### Why the bounds are enough

*Registry.* With three pools the deleted row can be first, middle or last, and a moved row
can be deleted or moved again. Nine cells hold a full registry, a full exported view and the
copy being made, so allocation is never refused. TLC explores states up to the names of
cells (`MCView`): which cell is allocated carries no meaning, who shares it does.

*System.* Pools meet only in batched operations: a deletion that names several pools, a batch of
which some pools fail. `system_queue` has two pools for those; elsewhere one pool carries all
interleavings of the goroutines. Three blocks let a pool be queued, queued again while its batch
is in flight, and updated once tracked. Two blocks and two values let reserves change and change
back (the reconciler's idle test sees only values). Shutdown needs one block: with two values it
can leave a snapshot's pool stale, so that a correction is under way when the context is done. One
fault reaches every error path, and two failures in a row do not enable a path that one does not.

*Batches.* Two slots are the fewest with which goroutines of one call overlap, and the two
callers want more slots than there are, so they wait for each other (`batch_initialize`) or
reuse slots within a call (`batch_reserves`). Callers call again for ever.

*Logs.* Three logs of two contracts put an event of another pool, a malformed one or a foreign
one between two events of a pool. *InitBatch.* With three pools a failure can come before,
between and after those that succeed, at each of the stages, and any two of three lengths of
slices differ. The second batch lists pools in another order and meets tracked ones.

*LogRetry.* In three bits the values reach both ends of an int; the lags are below, at and above
the number of retries.

*Restart.* Two restarts let an instance that was catching up be snapshotted and restarted; with
three blocks the replay then starts at, before or after blocks that the snapshot already shows.

*Callbacks.* A cycle of waiting has two members, and pools matter only as the one that a handler
or the manager deletes. The listener's parsers let a list hold two errors, so that a goroutine
goes on reporting after a handler came back.

### Fairness

`FairSpec` has weak fairness of each goroutine's work. The Go scheduler runs every runnable
goroutine, `sync.RWMutex` hands the lock over in turn, and timers tick for ever. The RPC calls of
the initializer and of the reconciler end because each has a timeout (`defaultRPCTimeout` in
`pool.go` and `reserves.go`). The listener's call for logs has none: `system.go` 302 passes the
context of the system. So `FetchLogs`, its answer, has no fairness while the context is not done;
once it is, the client gives the call up (weak fairness of `ctxDone /\ FetchLogs`, external). The
functions of the `Config` (`getClient`, the lookups, the block list) take no context and are assumed
to return (external). What follows: `BlocksAreHandled` allows that the listener stays in such a call
for ever, and nothing else; `QueuedPoolsAreTracked`, `BlockedPoolsLeave` and `ViewConverges` hold
even then; `ShutsDown` covers the cancellation of a call that hangs. The `Stop` actions have
strong fairness: a `select` with several ready cases picks one at random, so a goroutine that
returns to its `select` for ever sees `ctx.Done()` in the end, although the case is not
enabled in between. Nothing is assumed of the world: no block need be mined, no pool
unblocked. Failures stop because `MaxFaults` bounds them: this is the "calls no longer fail"
that convergence needs.

In `FetchBatch` the goroutines of `Responsive` callers run (weak fairness) and their loop gets a
slot when slots are free again and again (strong fairness: goroutines blocked on a full channel
are served in the order they came). A shared semaphore needs all callers to be responsive, which
the timeout of every RPC call of `pool.go` provides. With a semaphore per call nothing is assumed
of the other caller; it may even stop.

In `LogRetry` the call runs on and time passes; that the node answers is not assumed, so
`CallReturns` allows a call that waits for an answer for ever while its context is not done. In
`Restart` only safety is checked, and nothing is assumed. In `Callbacks` nobody stops within a
round and a lock that is free again and again is granted (strong fairness: a `sync.Mutex` whose
waiter has starved for a millisecond is handed over to it), but no round has to begin, and the
handler and the manager return.

### What the violated run shows

`system_stale_correction`. `system.go` 568-569 says that the idle test prevents overwriting fresh
data of the real-time loop with older data of the reconciler. It does not: the test compares
values of two views, so a pool that changed and changed back counts as idle, and between the
second `View()` (533) and `Lock()` (580) an event can be applied that the correction then
replaces. TLC shows a correction that replaces reserves by those of an earlier block. The next
reconciliation repairs it, which is why `ViewConverges` holds.

### Divergences

Places where code and comment disagree that were met while modelling. They are in the models as
the code has them, and no run is about them.

* The queue gauge is raised and reset outside the lock (`system.go` 398, 441): a drain between
  queueing and `Add` leaves it at 1 with an empty queue until the next round ("the current number
  of pools waiting", `metrics.go` 52). The gauge of tracked pools is 0 after construction from a
  snapshot until something is published, since the constructor stores the first view without
  `updateCachedView` (221, 254; `metrics.go` 86).
* `View` promises "a copy of the latest registry view" (232). It copies the slice and shares the
  `*big.Int` reserves with every other reader. The registry is safe (`NoAliasing`, with
  `ConsumersWrite`); other readers are not.
* "We will try to fetch logs at least 1" (297) fails for a negative `LogMaxRetries`, or the largest
  int, which `validate` accepts: every block is then taken to be empty. `RetriesExhausted` and
  `LagTolerated` are about the other values, `TypeOK` and `CallReturns` about all.
* `getLogsWithRetry` is for "a specific block" (281), but its query names the height and the hash it
  computes is only logged: after `Reorganize` it returns the sibling's logs.
* `LastUpdatedAtBlock` is "the last successfully processed block" (244), but is stored before the
  view of that block. That is the safe order for a reader who loads the view first
  (`EventsNotAheadOfBlock`; answers from the head are ahead of it all the same), and a gap for one
  who loads the number first, such as an owner that snapshots. Replaying from the number, not
  after it, closes it (`StreamBringsUpToDate`).
* The example that `errors.go` 55-56 gives for a `DataConsistencyError` is reported as an
  `InitializationError` (`system.go` 696, `NoPoolID`); that type is never built. The reconciler
  wraps failed lookups in `PrunerError` (523, `NoAddress`), "a failure during the periodic pruning
  process" (`errors.go` 88).

## 4. Proofs

The proof modules follow one pattern: an inductive invariant `IInv`, one lemma per action,
`Invariance`, and a theorem per property. Assumptions are those on the constants that each module
names (`ConstantsAssumption`, `SystemAssumption`, `BatchAssumption`, `LogsAssumption`,
`InitBatchAssumption`, `LogRetryAssumption`, `RestartAssumption`, `CallbacksAssumption`), nothing
else; the number of pools, blocks, faults, cells, callers, slots, logs, retries and restarts is
arbitrary.

**RegistryProofs.** `IInv` is `TypeOK /\ IndexInverse /\ RowsStayWhole /\ NoAliasing`. The
parts are only inductive together: a deletion repairs the map for the moved pool alone, which
suffices because the map was the exact inverse; a write through a pointer changes one pool
because no cell is shared. `Refinement` (`Spec => RefinesPoolStore`) shows that each operation
on slices maps to the operation of the same name on the map. Its delicate cases are
`deletePool`, which moves another pool's row, and the two copies, where the values of new
cells must be traced to the old ones.

**UniswapV2SystemProofs.** `IInv` adds to `TypeOK`, `ViewMatchesRegistry` and `OnlyTrustedTracked`
three facts. `LockHeld`: the lock is held between two steps exactly in the listener's critical
section. `BatchInFlight`: what the initializer has found is part of its batch and trusted.
`EventsUnpublished`: in the listener's critical section the registry and the view track the same
pools and differ only by events of a block whose number is stored. They are what makes "publish if
fewer errors than pools" and "publish if something was deleted" publish exactly when needed: a
writer that does not publish has changed nothing (`PublishesNonEmpty`, `DeletePoolsEffect`). From
`IInv` follow the invariants and the three action properties `InitializationKeepsReserves`,
`EventsNotAheadOfBlock` and `DeletedStaysDeleted`. `EventsNotAheadOfBlock` is about every
publication, each with its own reason: the listener's by `EventsUnpublished`, the initializer's
and the reconciler's because the registry was the view before the step, so that what differs are
the answers just applied (`BatchPublished`, `CorrectionPublished`), a deletion because it changes
nothing of what stays (`DeletionPublished`). The last is about pools that are registered or
blocked and neither tracked, queued nor in a batch: no event, correction or batch in flight brings
them back.

The other theorems are the safety halves of liveness properties, which are themselves out of the
provers' reach. `NothingQueuedIsLost` (`Spec => QueuedPoolsAreKept`): a pool of a known factory
that is in the queue is, after every step, in the queue, in the drained batch, among those still
to be asked about or among the answers, or it is in the view, unless a call failed in that step or
the context is done. What `QueuedPoolsAreTracked` adds is only that the goroutine goes on.
`ConvergenceIsKept` (`Spec => SettledStaysSettled`): call a pool settled when no block is to come
or to be applied and its reserves are the chain's in the registry, the view, the initializer's
answers and the reconciler's. Then it stays settled until the next block, whatever is queued, in
flight, deleted or corrected. What `ViewConverges` adds is that it becomes settled. Both follow
from `IInv` step by step. `GapsOnlyByFailure` (`Spec => [](NumbersInOrder /\ NoGap)`): the blocks
announced are the chain's last ones in order, the number is never ahead of the one before them, and
until a call fails or the context is done the number and the blocks still to be handled add up to
the chain's head. What `BlocksAreHandled` adds is that they are handled unless a call hangs; that a failure leaves
a gap, which the next number hides, is the code's. The two parts are inductive together with `IInv`,
which gives their types.

`RoundsAreBounded` (`Spec => RoundsRunOut`) and `ShutdownIsFinal` are that half of `ShutsDown`.
Between two visits to its `select` every step of a goroutine brings it nearer to the next visit:
the listener gets its answer, applies, publishes, counts; the others have one pool less to ask
about, or go on to the part of the round that comes after. No step of another goroutine takes it
further away, and one that has returned takes no step. So a round ends after boundedly many of the
goroutine's own steps, whatever fails and whatever is cancelled in between. When all four have
returned the lock is free, the view is the registry, the number and the queue stay as they are,
and only the manager's deletions, which are published, change anything. What `ShutsDown` adds is
that the steps are taken and that `select` does not overlook the context for ever. TLC checked all
of these before they were proved, with two pools and the initializer and with one pool and other
goroutines; no run repeats it.

**FetchBatchProofs.** `IInv` says that counters count: a semaphore holds as many slots as there
are goroutines between `Start` and `Release` over all calls that share it (`SlotsAreHeld`), a
wait group is the number of goroutines that `Wait` still waits for (`WaitersAreCounted`; which
ones depends on where `Add` is called), the loop has started exactly the goroutines before its
position (`LoopProgress`), and a result is there exactly when its goroutine leaves
(`ResultsWritten`). The first gives `LimitHolds`. All together give `Refinement`: `Wait`
returns on 0, so no goroutine is outstanding, so every position has its answer, and nothing is
left that could write later. They also give `NobodyWaitsForNobody`, the safety half of
`CallsReturn`: a full semaphore of positive capacity has a holder, since it counts holders, and a
wait group above 0 after the loop counts a goroutine that was started and is not done. A slot that
an error path kept would break the first, an `Add` without a goroutine the second. The capacity is
assumed positive because `getReserves` with 0 does wait for nobody (section 5). `NoSlotLeaks` is
the same count between calls: all slots are free again. `CallsAreBounded` gives each goroutine the
steps it has left (`Left`) and each loop the turns it has left (`LoopLeft`): every step of a call
lowers one of them and raises none, and steps of other calls change nothing of it. There is no
retry and no error path that leads back, so all that `CallsReturn` needs besides is fairness.

**LogsProofs.** For any list of logs: what each map holds is the reference definition applied to
the logs read so far (`MapOfSyncs`, `SetOfSwaps`), and each slice lists its map without
repetition (`SlicesOfSyncs`, `SliceOfSwaps`). The reference definitions say which log wins; they
do not fold.

**InitBatchProofs.** `Partition` is the heart of `IInv`: at every turn of every loop the pools of
the batch are added, reported or undecided, and the undecided are exactly those the running
loop has still to reach. At the end none is undecided, so the number of errors is the number of
pools not added, and `successfulInits > 0` holds exactly if something was (`EachRoundPublished`).
After the `Unlock`, `Reports` keeps that count as facts about `entered` and `capturedErrors`, which
other writers cannot change, and says that `handled` is the part of the errors already passed:
`EachAddedOrReported` at the end of the loop.
`ValidPools` (the slices run in parallel) and `Registrations` (an unmarked position has its own
pool's ID) make every new row a pool's own (`Rows`), from which `Refinement` follows: all steps
stutter but `Publish`, which is `Enter` of what was added.

**LogRetryProofs.** `Elapsed` relates the turns made to the time that has passed, so that the last
attempt tells that the node needed more than `logMaxRetries` delays (`LastAttempt`). Overflow is
part of the theorems: the type invariant holds for every configured value, `EveryRetryIsMade` and
`LagIsTolerated` for those whose number of attempts is positive. `CallIsBounded` is the safety half
of `CallReturns`: every step of the call lowers `StepsLeft`, which is never above
`3 * logMaxRetries + 4` then; for the other values the loop makes no turn.

**RestartProofs.** `RInv` is the system's own `IInv`, which every step of `Run` keeps by the lemmas
of `UniswapV2SystemProofs`, and the fact that the pools of a snapshot are trusted and registered.
For `StreamCatchesUp` the channel is related to the record of blocks (`Stream`), and `Shown` says
which blocks each of registry, view and snapshot shows: a snapshot shows those *before* its
number, and so does the state after a restart from it; every number stored is one the registry
shows. Deletions need care: rows disappear and those that stay show what they showed. The theorem
also says what a view that caught up can have wrong: only what it missed in a block that the bloom
filter ruled out, which is what the reconciler is for.

`ConsumerRefinement` (`RestartSpec => RefinesConsumer`) puts no bound on goroutines, failures or
restarts. Its invariant `HInv` adds to `RInv` the history. `Past`: the blocks mined are those that
made `was` what it is, so reserves that differ between two blocks were synced in between. `Feed`:
the channel holds the end of the provider's record, in order, and the listener's block, with the
events it has, comes from it and is later than every number stored. `Sourced`: the registry, the
view, the snapshot, the initializer's answers and the reconciler's all hold only reserves that the
pool once had, each under its block. The last is needed for all five together, because reserves
move from answers to registry to view to snapshot and back; and a correction that was fetched ten
blocks ago is still sourced, though not current. Every step then maps to a step of `Consumer` or
stutters: publication after events or corrections to `Refresh`, `ApplyInitializations` to `Track`,
deletions to `Untrack`.

**CallbacksProofs.** `Places` and `Held` say who holds which lock where; `OnlyUpdates` says that a
goroutine that reports under the lock is the reconciler, about updates. A goroutine that waits for
`mu` and holds it is therefore the reconciler in its handler; one that waits for the manager and
holds `mu` is the listener or the initializer; the manager waits for `mu` with its lock held only
if it keeps it. A cycle of waiting contains one of the three (`Cycles`). `LockIsGivenBack` follows
the holder of `mu`: each of its steps is the next part of the critical section, one pool less in
its loop, or one step less of reporting errors (`Nearer`), and outside the two cycles it waits for
nobody, or for a manager who waits for nobody.

**Only model-checked.** The liveness properties (`QueuedPoolsAreTracked`, `BlocksAreHandled`,
`BlockedPoolsLeave`, `ViewConverges`, `ShutsDown`, `CallsReturn`, `CallReturns`, `LockIsReleased`):
temporal reasoning from fairness and ENABLED is out of the installed provers' reach. The safety half
of each is proved. What must not be lost is kept: `NothingQueuedIsLost`, `GapsOnlyByFailure`,
`NoResurrection` (a blocked pool that has left stays out) and `ConvergenceIsKept`, in the order of
the list. What must not go on for ever runs out, and nobody is kept waiting in vain:
`RoundsAreBounded` with `ShutdownIsFinal`, `CallsAreBounded` with `NobodyWaitsForNobody`,
`CallIsBounded`, and `LockIsGivenBack` with `OnlyTwoCycles`. What TLC adds is that the goroutines
do go on. `RefinesBatch` is checked by a run for
the shared semaphore and proved for both kinds; `RefinesConsumer` is checked by a run with the
listener and the manager and proved for every choice of goroutines.

## 5. Not modelled

| Part | Why |
|---|---|
| Bytes of logs, the bloom filter's bits, `abi` | data; the parsers' tests of topics and lengths are modelled |
| Texts of errors, logging, counters and histograms other than errors by type | observation only; `PoolsPruned` is declared in `metrics.go` and never made |
| `validate` | a list of nil checks that changes no state; it does not check the logger, whose absence panics, nor `LogMaxRetries` (section 3, Divergences) |
| Chain reorganizations beyond `LogRetry` | the provider hands over an ordered, gap-free stream by the repository's README, and nothing in the code undoes a block |
| Hand-made snapshots with an ID twice | `viewRegistry` makes none; two rows with one index entry would break `IndexInverse` |
| `maxConcurrentCalls = 0` of the reserves fetcher | the batch then never starts; `FetchBatch` allows the value and nothing says what it should mean |
| A restart's effect on pools that are registered but not in the snapshot | they are never discovered again (`system.go` 383) unless another component adds them; nothing promises otherwise |
| Deletions after the snapshot | a restart undoes them; `DeletePool` is documented as a low-level method whose caller orchestrates |

## 6. Plan

The modules were written in this order: the registry and its refinement; the concurrent core and
its safety proofs; the worker pools of both RPC components; the parsers, the slices of an
initialization, the retry loop; restart; callbacks and errors. What a next step could add:

1. A provider and an owner that snapshot and resume in other ways (several generations of
   snapshots, a provider that loses blocks), if the repository comes to document them.
2. A composed model of `Callbacks` with the real manager, once its lock discipline is known.
