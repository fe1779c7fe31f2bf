--------------------------- MODULE UniswapV2System ---------------------------
(***************************************************************************)
(* The orchestrator of src/system.go: four goroutines (the block listener, *)
(* the initializer, the pruner and the state reconciler) and the methods   *)
(* a registry manager calls, over one registry guarded by mu and a view of *)
(* it that consumers read without a lock.                                  *)
(*                                                                         *)
(* The registry is the map of PoolStore, which Registry refines.  IDs are  *)
(* permanent, so a pool stands for its address and for its ID; tokens,     *)
(* type and fee never change and are left out.                             *)
(*                                                                         *)
(* A step runs from one access to state that others write to the next.     *)
(* Nothing but the view, lastUpdatedAtBlock and the gauge is visible to a  *)
(* goroutine that does not hold mu, so a critical section with one store   *)
(* to them is one step; the listener's has two stores and is two steps.    *)
(***************************************************************************)
EXTENDS Naturals, Sequences, FiniteSets, Functions

CONSTANTS
  Pools,       \* the pools on chain that look like Uniswap V2 pools
  Trusted,     \* those whose factory is one of the initializer's known factories
  Reserves,    \* the values a pair of reserves can take
  Periodic,    \* the periodic goroutines whose frequency is positive
  MayCancel,   \* whether the context may be cancelled
  MaxBlock,    \* bound: the number of the last block mined
  MaxFaults    \* bound: how many calls to a client or to the upstream registry fail

ASSUME SystemAssumption ==
  /\ IsFiniteSet(Pools)
  /\ Trusted \subseteq Pools
  /\ Periodic \subseteq {"initializer", "pruner", "reconciler"}
  /\ MayCancel \in BOOLEAN
  /\ MaxBlock \in Nat
  /\ MaxFaults \in Nat

VARIABLES
  \* the world around the system
  head,             \* number of the chain's last block
  chain,            \* reserves of each pool at the head
  newBlockEventer,  \* blocks the provider has yet to hand over, in order
  blocked,          \* the block list behind inBlockedList
  registered,       \* pools with an ID in the upstream registry
  ctxDone,          \* the context has been cancelled
  faults,           \* how many more calls may fail
  \* the fields of the system
  mu,                    \* "free", or who holds the lock between two steps
  registry,              \* tracked pools: reserves, and the block they are of (history)
  cachedView,            \* the contents of the last published view
  lastUpdatedAtBlock,
  pendingInit,
  pendingInitQueueSize,  \* the gauge of metrics.go
  \* the goroutines
  listener, initializer, pruner, reconciler

env == <<head, chain, newBlockEventer, blocked, registered, ctxDone, faults>>
fields == <<mu, registry, cachedView, lastUpdatedAtBlock, pendingInit, pendingInitQueueSize>>
locals == <<listener, initializer, pruner, reconciler>>
vars == <<env, fields, locals>>

Entry == [reserve : Reserves, block : 0 .. MaxBlock]
Entries == UNION {[S -> Entry] : S \in SUBSET Pools}
Empty == [p \in {} |-> 0]
Block == [number : 0 .. MaxBlock, swap : SUBSET Pools, sync : UNION {[S -> Reserves] : S \in SUBSET Pools}]
NoBlock == [number |-> 0, swap |-> {}, sync |-> Empty]

ListenerState == [pc : {"idle", "fetching", "applying", "publishing", "counting", "stopped"},
                  block : Block, new : Nat]
InitializerState == [pc : {"idle", "resetting", "fetching", "stopped"},
                     batch : SUBSET Pools, todo : SUBSET Pools, found : Entries]
PrunerState == [pc : {"idle", "scanning", "stopped"},
                pools : SUBSET Pools, poolsToDelete : SUBSET Pools]
ReconcilerState == [pc : {"idle", "fetching", "applying", "stopped"},
                    prev : Entries, todo : SUBSET Pools, fresh : Entries]

IdleListener == [pc |-> "idle", block |-> NoBlock, new |-> 0]
IdleInitializer == [pc |-> "idle", batch |-> {}, todo |-> {}, found |-> Empty]
IdlePruner == [pc |-> "idle", pools |-> {}, poolsToDelete |-> {}]
IdleReconciler == [pc |-> "idle", prev |-> Empty, todo |-> {}, fresh |-> Empty]

\* A goroutine whose frequency is not positive returns at once.
Started(name, idle) == IF name \in Periodic THEN idle ELSE [idle EXCEPT !.pc = "stopped"]

\* NewUniswapV2System starts with no pool, NewUniswapV2SystemFromViews with those of a
\* snapshot.  The snapshot is of block 0 and the provider hands over the blocks after it.
Init ==
  /\ head = 0
  /\ chain \in [Pools -> Reserves]
  /\ newBlockEventer = << >>
  /\ blocked = {}
  /\ ctxDone = FALSE
  /\ faults = MaxFaults
  /\ mu = "free"
  /\ registered \in SUBSET Trusted
  /\ registry = [p \in registered |-> [reserve |-> chain[p], block |-> 0]]
  /\ cachedView = registry
  /\ lastUpdatedAtBlock = 0
  /\ pendingInit = {}
  /\ pendingInitQueueSize = 0
  /\ listener = IdleListener
  /\ initializer = Started("initializer", IdleInitializer)
  /\ pruner = Started("pruner", IdlePruner)
  /\ reconciler = Started("reconciler", IdleReconciler)

-----------------------------------------------------------------------------
\* The world.

\* External: a block with some Sync events and, for some of their pools, Swap events.
Mine ==
  /\ head < MaxBlock
  /\ head' = head + 1
  /\ \E S \in SUBSET Pools : \E sync \in [S -> Reserves], swap \in SUBSET S :
       /\ chain' = [p \in Pools |-> IF p \in S THEN sync[p] ELSE chain[p]]
       /\ newBlockEventer' =
            Append(newBlockEventer, [number |-> head + 1, swap |-> swap, sync |-> sync])
  /\ UNCHANGED <<blocked, registered, ctxDone, faults, fields, locals>>

\* External: the block list gains or loses a pool.
ToggleBlocked(p) ==
  /\ blocked' = IF p \in blocked THEN blocked \ {p} ELSE blocked \cup {p}
  /\ UNCHANGED <<head, chain, newBlockEventer, registered, ctxDone, faults, fields, locals>>

\* External: another system registers a pool upstream ("ensure pool belongs to this system").
RegisterElsewhere(p) ==
  /\ p \notin registered
  /\ registered' = registered \cup {p}
  /\ UNCHANGED <<head, chain, newBlockEventer, blocked, ctxDone, faults, fields, locals>>

\* External: the owner cancels the context.
Cancel ==
  /\ MayCancel
  /\ ~ctxDone
  /\ ctxDone' = TRUE
  /\ UNCHANGED <<head, chain, newBlockEventer, blocked, registered, faults, fields, locals>>

\* A call to a client or to the upstream registry fails.
Fault == faults > 0 /\ faults' = faults - 1
NoFault == UNCHANGED faults
\* The same, for a call that also fails when the context is done.
FaultOrCancelled == Fault \/ (ctxDone /\ NoFault)

\* The answers so far and that of p: its reserves at the head when the call is answered.
WithAnswer(answers, p) ==
  [q \in DOMAIN answers \cup {p} |->
     IF q = p THEN [reserve |-> chain[p], block |-> head] ELSE answers[q]]

-----------------------------------------------------------------------------
\* listenBlockEventer and handleNewBlock.

listenerOnly == <<head, chain, blocked, registered, ctxDone, initializer, pruner, reconciler>>

\* Mutant: the next block's number is stored.
SkipBlockOffByOne ==
  /\ listener.pc = "idle"
  /\ newBlockEventer # << >>
  /\ Head(newBlockEventer).swap = {}
  /\ newBlockEventer' = Tail(newBlockEventer)
  /\ lastUpdatedAtBlock' = Head(newBlockEventer).number + 1
  /\ UNCHANGED <<listenerOnly, faults, mu, registry, cachedView, pendingInit,
                 pendingInitQueueSize, listener>>

\* The bloom filter rules out a Swap: the block is only counted.
SkipBlock ==
  /\ listener.pc = "idle"
  /\ newBlockEventer # << >>
  /\ Head(newBlockEventer).swap = {}
  /\ newBlockEventer' = Tail(newBlockEventer)
  /\ lastUpdatedAtBlock' = Head(newBlockEventer).number
  /\ UNCHANGED <<listenerOnly, faults, mu, registry, cachedView, pendingInit,
                 pendingInitQueueSize, listener>>

\* The filter lets the block through (a false positive without a Swap too): a client is
\* obtained and asked for the block's logs, with the system's context and no timeout.
ReceiveBlock ==
  /\ listener.pc = "idle"
  /\ newBlockEventer # << >>
  /\ newBlockEventer' = Tail(newBlockEventer)
  /\ listener' = [listener EXCEPT !.pc = "fetching", !.block = Head(newBlockEventer)]
  /\ UNCHANGED <<listenerOnly, faults, fields>>

\* The call returns: all of the logs, none although there are some (the node lagged behind
\* every retry), or an error, which drops the block.
FetchLogs ==
  /\ listener.pc = "fetching"
  /\ LET Apply(block) == listener' = [listener EXCEPT !.pc = "applying", !.block = block]
     IN  \/ NoFault /\ Apply(listener.block)
         \/ Fault /\ Apply([NoBlock EXCEPT !.number = listener.block.number])
         \/ FaultOrCancelled /\ listener' = IdleListener
  /\ UNCHANGED <<listenerOnly, newBlockEventer, fields>>

\* Mutant: a registered pool that is not tracked is queued again.
DiscoveredAgain(b) == {p \in b.swap : p \notin blocked /\ p \notin DOMAIN registry}

\* Swaps reveal pools: those neither blocked nor registered by any system are queued.
Discovered(b) == {p \in b.swap : p \notin blocked /\ p \notin registered}

\* applyUpdates: Sync events of pools this system does not track are ignored.
Updated(b) == [p \in DOMAIN registry |->
                 IF p \in DOMAIN b.sync \cap registered
                   THEN [reserve |-> b.sync[p], block |-> b.number]
                   ELSE registry[p]]

\* Mutant: the block number is left for later.
ApplyBlockWithoutNumber ==
  /\ listener.pc = "applying"
  /\ mu = "free"
  /\ mu' = "listener"
  /\ registry' = Updated(listener.block)
  /\ pendingInit' = pendingInit \cup Discovered(listener.block)
  /\ listener' = [listener EXCEPT !.pc = "publishing",
                                  !.new = Cardinality(Discovered(listener.block) \ pendingInit)]
  /\ UNCHANGED <<listenerOnly, newBlockEventer, faults, cachedView, lastUpdatedAtBlock,
                 pendingInitQueueSize>>

\* Under the lock: reserves, queue and block number; the view is published next.
ApplyBlock ==
  /\ listener.pc = "applying"
  /\ mu = "free"
  /\ mu' = "listener"
  /\ LET b == listener.block IN
       /\ registry' = Updated(b)
       /\ pendingInit' = pendingInit \cup Discovered(b)
       /\ lastUpdatedAtBlock' = b.number
       /\ listener' = [listener EXCEPT !.pc = "publishing",
                                       !.new = Cardinality(Discovered(b) \ pendingInit)]
  /\ UNCHANGED <<listenerOnly, newBlockEventer, faults, cachedView, pendingInitQueueSize>>

\* Mutant: the lock is not released.
PublishBlockKeepsLock ==
  /\ listener.pc = "publishing"
  /\ cachedView' = registry
  /\ listener' = IF listener.new = 0
                   THEN IdleListener
                   ELSE [listener EXCEPT !.pc = "counting", !.block = NoBlock]
  /\ UNCHANGED <<listenerOnly, newBlockEventer, faults, mu, registry, lastUpdatedAtBlock,
                 pendingInit, pendingInitQueueSize>>

PublishBlock ==
  /\ listener.pc = "publishing"
  /\ cachedView' = registry
  /\ mu' = "free"
  /\ listener' = IF listener.new = 0
                   THEN IdleListener
                   ELSE [listener EXCEPT !.pc = "counting", !.block = NoBlock]
  /\ UNCHANGED <<listenerOnly, newBlockEventer, faults, registry, lastUpdatedAtBlock,
                 pendingInit, pendingInitQueueSize>>

\* The gauge is raised after the lock has been released.
CountPending ==
  /\ listener.pc = "counting"
  /\ pendingInitQueueSize' = pendingInitQueueSize + listener.new
  /\ listener' = IdleListener
  /\ UNCHANGED <<listenerOnly, newBlockEventer, faults, mu, registry, cachedView,
                 lastUpdatedAtBlock, pendingInit>>

\* Mutant: the context is looked at only when a block has arrived.
StopListenerOnBlock ==
  /\ ctxDone
  /\ listener.pc = "idle"
  /\ newBlockEventer # << >>
  /\ listener' = [listener EXCEPT !.pc = "stopped"]
  /\ UNCHANGED <<listenerOnly, newBlockEventer, faults, fields>>

StopListener ==
  /\ ctxDone
  /\ listener.pc = "idle"
  /\ listener' = [listener EXCEPT !.pc = "stopped"]
  /\ UNCHANGED <<listenerOnly, newBlockEventer, faults, fields>>

\* What the listener does by itself, and with the answer of the node.
ListenerRuns == SkipBlock \/ ReceiveBlock \/ ApplyBlock \/ PublishBlock \/ CountPending
ListenerNext == ListenerRuns \/ FetchLogs

-----------------------------------------------------------------------------
\* runPendingInitializations and applyInitializations.

initializerOnly == <<head, chain, newBlockEventer, blocked, ctxDone, listener, pruner, reconciler>>

\* Mutant: the queue is copied after it was replaced.
DrainPendingLate ==
  /\ initializer.pc = "idle"
  /\ mu = "free"
  /\ initializer' = [initializer EXCEPT !.pc = "resetting"]
  /\ pendingInit' = {}
  /\ UNCHANGED <<initializerOnly, registered, faults, mu, registry, cachedView,
                 lastUpdatedAtBlock, pendingInitQueueSize>>

\* Under the lock: the whole queue becomes the batch.
DrainPending ==
  /\ initializer.pc = "idle"
  /\ mu = "free"
  /\ initializer' = [initializer EXCEPT !.pc = "resetting", !.batch = pendingInit]
  /\ pendingInit' = {}
  /\ UNCHANGED <<initializerOnly, registered, faults, mu, registry, cachedView,
                 lastUpdatedAtBlock, pendingInitQueueSize>>

\* The gauge is reset without the lock; then a client is obtained, or the batch is lost.
ResetGauge ==
  /\ initializer.pc = "resetting"
  /\ pendingInitQueueSize' = 0
  /\ IF initializer.batch = {}
       THEN NoFault /\ initializer' = IdleInitializer
       ELSE \/ /\ NoFault
               /\ initializer' = [initializer EXCEPT !.pc = "fetching", !.todo = initializer.batch]
            \/ Fault /\ initializer' = IdleInitializer
  /\ UNCHANGED <<initializerOnly, registered, mu, registry, cachedView,
                 lastUpdatedAtBlock, pendingInit>>

\* Mutant: the factory is not looked up.
InitializePoolUnchecked(p) ==
  /\ initializer.pc = "fetching"
  /\ p \in initializer.todo
  /\ NoFault
  /\ initializer' = [initializer EXCEPT !.todo = @ \ {p},
                                        !.found = WithAnswer(initializer.found, p)]
  /\ UNCHANGED <<initializerOnly, registered, fields>>

\* PoolInitializer.Initialize, one pool of the batch: its factory must be a known one.
InitializePool(p) ==
  /\ initializer.pc = "fetching"
  /\ p \in initializer.todo
  /\ \/ /\ p \in Trusted
        /\ NoFault
        /\ initializer' = [initializer EXCEPT !.todo = @ \ {p},
                                              !.found = WithAnswer(initializer.found, p)]
     \/ /\ FaultOrCancelled \/ (p \notin Trusted /\ NoFault)
        /\ initializer' = [initializer EXCEPT !.todo = @ \ {p}]
  /\ UNCHANGED <<initializerOnly, registered, fields>>

\* Mutant: updatePool although addPool reported that the pool exists.
WithInitializedAnyway(added) ==
  [p \in DOMAIN registry \cup added |->
     IF p \in DOMAIN initializer.found THEN initializer.found[p] ELSE registry[p]]

\* addPool and updatePool, for a pool this system does not track yet.
WithInitialized(added) ==
  [p \in DOMAIN registry \cup added |->
     IF p \in DOMAIN registry THEN registry[p] ELSE initializer.found[p]]

\* Mutant: the view is published only if no pool failed.
PublishesBatchWithoutErrors(added) == initializer.batch \ added = {}

\* successfulInits > 0: fewer errors were reported than there are pools in the batch.
PublishesBatch(added) ==
  Cardinality(initializer.batch) - Cardinality(initializer.batch \ added) > 0

\* Under the lock: found pools are registered upstream, which returns the ID of one it
\* knows already; those registered and not yet tracked are added.  Either call may fail.
ApplyInitializations ==
  /\ initializer.pc = "fetching"
  /\ initializer.todo = {}
  /\ mu = "free"
  /\ \E ok \in SUBSET DOMAIN initializer.found :
     \E added \in SUBSET (ok \ DOMAIN registry) :
       /\ IF ok = DOMAIN initializer.found /\ added = ok \ DOMAIN registry THEN NoFault ELSE Fault
       /\ registered' = registered \cup ok
       /\ registry' = WithInitialized(added)
       /\ cachedView' = IF PublishesBatch(added) THEN registry' ELSE cachedView
  /\ initializer' = IdleInitializer
  /\ UNCHANGED <<initializerOnly, mu, lastUpdatedAtBlock, pendingInit, pendingInitQueueSize>>

StopInitializer ==
  /\ ctxDone
  /\ initializer.pc = "idle"
  /\ initializer' = [initializer EXCEPT !.pc = "stopped"]
  /\ UNCHANGED <<initializerOnly, registered, faults, fields>>

InitializerNext ==
  \/ DrainPending
  \/ ResetGauge
  \/ \E p \in Pools : InitializePool(p)
  \/ ApplyInitializations

-----------------------------------------------------------------------------
\* DeletePool, DeletePools and pruneBlockedPools.

\* Mutant: nothing is published if some pool was not found.
DeletePoolsAllOrSilent(S) ==
  /\ mu = "free"
  /\ registry' = Restrict(registry, DOMAIN registry \ S)
  /\ cachedView' = IF S \subseteq DOMAIN registry THEN registry' ELSE cachedView
  /\ UNCHANGED <<mu, lastUpdatedAtBlock, pendingInit, pendingInitQueueSize>>

\* Under the lock; the view is published if some pool was deleted.
DeletePools(S) ==
  /\ mu = "free"
  /\ registry' = Restrict(registry, DOMAIN registry \ S)
  /\ cachedView' = IF S \cap DOMAIN registry # {} THEN registry' ELSE cachedView
  /\ UNCHANGED <<mu, lastUpdatedAtBlock, pendingInit, pendingInitQueueSize>>

\* External: the registry manager deletes pools.
ManagerDelete(S) == DeletePools(S) /\ UNCHANGED <<env, locals>>

prunerOnly == <<env, listener, initializer, reconciler>>

\* The pruner's View(); nothing to do if it is empty.
StartPruning ==
  /\ pruner.pc = "idle"
  /\ cachedView # Empty
  /\ pruner' = [pc |-> "scanning", pools |-> DOMAIN cachedView, poolsToDelete |-> {}]
  /\ UNCHANGED <<prunerOnly, fields>>

scanOnly == <<head, chain, newBlockEventer, blocked, registered, ctxDone,
              listener, initializer, reconciler>>

\* Mutant: a pool that is not blocked is kept for deletion.
ScanPoolNegated(p) ==
  /\ pruner.pc = "scanning"
  /\ p \in pruner.pools
  /\ \/ /\ NoFault
        /\ pruner' = [pruner EXCEPT !.pools = @ \ {p}, !.poolsToDelete = @ \cup ({p} \ blocked)]
     \/ Fault /\ pruner' = [pruner EXCEPT !.pools = @ \ {p}]
  /\ UNCHANGED <<scanOnly, fields>>

\* One pool of the view: if its address is found, the block list is consulted.
ScanPool(p) ==
  /\ pruner.pc = "scanning"
  /\ p \in pruner.pools
  /\ \/ /\ NoFault
        /\ pruner' = [pruner EXCEPT !.pools = @ \ {p}, !.poolsToDelete = @ \cup ({p} \cap blocked)]
     \/ Fault /\ pruner' = [pruner EXCEPT !.pools = @ \ {p}]
  /\ UNCHANGED <<scanOnly, fields>>

\* The lock is taken only if there is something to delete.
PruneBlocked ==
  /\ pruner.pc = "scanning"
  /\ pruner.pools = {}
  /\ \/ pruner.poolsToDelete = {} /\ UNCHANGED fields
     \/ pruner.poolsToDelete # {} /\ DeletePools(pruner.poolsToDelete)
  /\ pruner' = IdlePruner
  /\ UNCHANGED prunerOnly

StopPruner ==
  /\ ctxDone
  /\ pruner.pc = "idle"
  /\ pruner' = [pruner EXCEPT !.pc = "stopped"]
  /\ UNCHANGED <<prunerOnly, fields>>

PrunerNext ==
  \/ StartPruning
  \/ \E p \in Pools : ScanPool(p)
  \/ PruneBlocked

-----------------------------------------------------------------------------
\* runStateReconciliation.

reconcilerOnly ==
  <<head, chain, newBlockEventer, blocked, registered, ctxDone, listener, initializer, pruner>>

\* The first View(); then a client is obtained and the address of each pool looked up.
StartReconciling ==
  /\ reconciler.pc = "idle"
  /\ cachedView # Empty
  /\ \E found \in SUBSET DOMAIN cachedView :
       /\ IF found = DOMAIN cachedView THEN NoFault ELSE Fault
       /\ reconciler' = IF found = {}
                          THEN IdleReconciler
                          ELSE [pc |-> "fetching", prev |-> Restrict(cachedView, found),
                                todo |-> found, fresh |-> Empty]
  /\ UNCHANGED <<reconcilerOnly, fields>>

\* getReserves, one pool.
FetchReserves(p) ==
  /\ reconciler.pc = "fetching"
  /\ p \in reconciler.todo
  /\ \/ /\ NoFault
        /\ reconciler' = [reconciler EXCEPT !.todo = @ \ {p},
                                            !.fresh = WithAnswer(reconciler.fresh, p)]
     \/ FaultOrCancelled /\ reconciler' = [reconciler EXCEPT !.todo = @ \ {p}]
  /\ UNCHANGED <<reconcilerOnly, fields>>

isIdle(p) == reconciler.prev[p].reserve = cachedView[p].reserve
\* Mutant: the view is compared with the earlier view and not with the chain.
isStaleAgainstView(p) == cachedView[p].reserve # reconciler.prev[p].reserve
isStale(p) == cachedView[p].reserve # reconciler.fresh[p].reserve

updatesToApply == {p \in DOMAIN reconciler.fresh \cap DOMAIN cachedView : isIdle(p) /\ isStale(p)}

\* The second View(), without the lock: pools to correct are chosen.
Compare ==
  /\ reconciler.pc = "fetching"
  /\ reconciler.todo = {}
  /\ reconciler' =
       IF updatesToApply = {}
         THEN IdleReconciler
         ELSE [IdleReconciler EXCEPT !.pc = "applying",
                                     !.fresh = Restrict(reconciler.fresh, updatesToApply)]
  /\ UNCHANGED <<reconcilerOnly, faults, fields>>

\* Mutant: a pool deleted meanwhile is written back.
ReconciledUpsert ==
  [p \in DOMAIN registry \cup DOMAIN reconciler.fresh |->
     IF p \in DOMAIN reconciler.fresh THEN reconciler.fresh[p] ELSE registry[p]]

\* Under the lock: updatePool for each of them; one deleted meanwhile is reported.
Reconciled ==
  [p \in DOMAIN registry |->
     IF p \in DOMAIN reconciler.fresh THEN reconciler.fresh[p] ELSE registry[p]]

ApplyReconciliation ==
  /\ reconciler.pc = "applying"
  /\ mu = "free"
  /\ registry' = Reconciled
  /\ cachedView' = registry'
  /\ reconciler' = IdleReconciler
  /\ UNCHANGED <<reconcilerOnly, faults, mu, lastUpdatedAtBlock, pendingInit, pendingInitQueueSize>>

StopReconciler ==
  /\ ctxDone
  /\ reconciler.pc = "idle"
  /\ reconciler' = [reconciler EXCEPT !.pc = "stopped"]
  /\ UNCHANGED <<reconcilerOnly, faults, fields>>

ReconcilerNext ==
  \/ StartReconciling
  \/ \E p \in Pools : FetchReserves(p)
  \/ Compare
  \/ ApplyReconciliation

-----------------------------------------------------------------------------
Next ==
  \/ Mine
  \/ \E p \in Pools : ToggleBlocked(p) \/ RegisterElsewhere(p)
  \/ Cancel
  \/ \E S \in SUBSET Pools : ManagerDelete(S)
  \/ ListenerNext \/ StopListener
  \/ InitializerNext \/ StopInitializer
  \/ PrunerNext \/ StopPruner
  \/ ReconcilerNext \/ StopReconciler

Spec == Init /\ [][Next]_vars

\* Go runs every goroutine that can run, and mu is granted in turn; tickers keep ticking.
\* A select with several ready cases picks one at random, so a goroutine that comes back
\* to its select again and again ends up seeing that the context is done.
\*
\* The listener's call for logs has no timeout, so nothing says that it ever returns,
\* unless the context is done.  The calls of the other goroutines' steps do return: those
\* to a node because InitializePool and FetchReserves are under defaultRPCTimeout, those
\* to the functions of the Config (getClient among them) because they are local (external).
Fairness ==
  /\ WF_vars(ListenerRuns) /\ WF_vars(ctxDone /\ FetchLogs) /\ SF_vars(StopListener)
  /\ WF_vars(InitializerNext) /\ SF_vars(StopInitializer)
  /\ WF_vars(PrunerNext) /\ SF_vars(StopPruner)
  /\ WF_vars(ReconcilerNext) /\ SF_vars(StopReconciler)

FairSpec == Spec /\ Fairness

-----------------------------------------------------------------------------
\* The state has the declared types.
TypeOK ==
  /\ head \in 0 .. MaxBlock
  /\ chain \in [Pools -> Reserves]
  /\ newBlockEventer \in Seq(Block)
  /\ blocked \subseteq Pools
  /\ registered \subseteq Pools
  /\ ctxDone \in BOOLEAN
  /\ faults \in 0 .. MaxFaults
  /\ mu \in {"free", "listener"}
  /\ registry \in Entries
  /\ cachedView \in Entries
  /\ lastUpdatedAtBlock \in 0 .. MaxBlock
  /\ pendingInit \subseteq Pools
  /\ pendingInitQueueSize \in Nat
  /\ listener \in ListenerState
  /\ initializer \in InitializerState
  /\ pruner \in PrunerState
  /\ reconciler \in ReconcilerState

\* Whoever changed the registry has published it before letting go of the lock: what
\* consumers, the pruner and the reconciler read without the lock is never an older
\* registry, although three of the four writers publish only if they count a change.
ViewMatchesRegistry == mu = "free" => cachedView = registry

\* "Pools are only initialized if they originate from a whitelisted factory": a pool of
\* an unknown factory is never tracked, and a tracked one has an ID in the upstream
\* registry, so that its Sync events find it.
OnlyTrustedTracked == DOMAIN registry \subseteq Trusted \cap registered

\* A pool may be queued again while its first initialization is in flight.  The second
\* one, whose reserves may be older than events applied since, leaves them alone.
InitializationKeepsReserves ==
  [][initializer' # initializer =>
       \A p \in DOMAIN registry : p \in DOMAIN registry' /\ registry'[p] = registry[p]]_vars

\* Not tracked, not queued, and not being initialized.
Out(p) == p \notin DOMAIN registry \cup pendingInit \cup initializer.batch

\* A pool that is out does not come back by itself if it was deleted or pruned, is another
\* system's (all of these are registered) or is on the block list: not through its later Swap
\* or Sync events, not through a reconciliation that had read it before it was deleted.
DeletedStaysDeleted ==
  [][\A p \in Pools : Out(p) /\ (p \in registered \/ p \in blocked) => Out(p)']_vars

\* The step applies the chain's own answer for p, which the initializer or the reconciler
\* has fetched.
AnswerApplied(p) ==
  \/ /\ initializer' # initializer
     /\ p \in DOMAIN initializer.found
     /\ cachedView'[p] = initializer.found[p]
  \/ /\ reconciler' # reconciler
     /\ p \in DOMAIN reconciler.fresh
     /\ cachedView'[p] = reconciler.fresh[p]

\* lastUpdatedAtBlock and the view are two stores, and four goroutines and a manager
\* publish views.  Whoever publishes, the events of a block are seen after its number: a
\* consumer who reads the view first and the number second holds reserves newer than the
\* number only where they are an answer that the initializer or the reconciler has fetched
\* from the head and applied in the very step that published them.
EventsNotAheadOfBlock ==
  [][\A p \in DOMAIN cachedView' :
        \/ p \in DOMAIN cachedView /\ cachedView'[p] = cachedView[p]
        \/ cachedView'[p].block <= lastUpdatedAtBlock
        \/ AnswerApplied(p)]_vars

\* "This prevents us from overwriting fresh data from the real-time loop with slightly
\* older data from the reconciler": no correction replaces reserves by those of an
\* earlier block.
ReconcilerNeverRegresses ==
  [][reconciler' # reconciler =>
       \A p \in DOMAIN registry \cap DOMAIN registry' :
          registry'[p].reserve # registry[p].reserve => registry'[p].block >= registry[p].block]_vars

\* The fast path catches up with the chain: every block mined is received and handled to
\* its end, for no goroutine keeps the lock and no failure stops the loop.  The only thing
\* that stops it for ever is a call for logs that never returns.
BlocksAreHandled ==
  \/ []<>(ctxDone \/ (newBlockEventer = << >> /\ listener.pc = "idle"))
  \/ <>[](listener.pc = "fetching")

\* A queued pool of a known factory is tracked in the end if no call fails from then on,
\* whatever is blocked, deleted or queued again meanwhile, whatever batch was lost before,
\* and whether or not the listener hangs in a call.
QueuedPoolsAreTracked ==
  \A p \in Trusted, f \in 0 .. MaxFaults :
    (p \in pendingInit /\ faults = f) ~> (p \in DOMAIN cachedView \/ ctxDone \/ faults < f)

\* "System should eventually settle with an empty view": a pool that stays on the block
\* list leaves the view for good, even if its initialization was in flight.
BlockedPoolsLeave ==
  \A p \in Pools : <>[](p \in blocked /\ ~ctxDone) => <>[](p \notin DOMAIN cachedView)

\* "The system's state will always converge to the source of truth": once the chain is
\* quiet and calls no longer fail, the view of every tracked pool is the chain's,
\* whatever was skipped, dropped, missed in flight or overwritten before, and even if the
\* listener hangs in a call for logs for ever.
ViewConverges ==
  <>[](ctxDone \/ \A p \in DOMAIN cachedView : cachedView[p].reserve = chain[p])

\* Once the context is done every goroutine returns, with the lock free.
ShutsDown ==
  ctxDone ~> [](/\ mu = "free"
                /\ \A pc \in {listener.pc, initializer.pc, pruner.pc, reconciler.pc} : pc = "stopped")
=============================================================================
