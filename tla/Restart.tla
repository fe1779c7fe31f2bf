------------------------------- MODULE Restart -------------------------------
(***************************************************************************)
(* UniswapV2System in a process that ends at any moment and is started     *)
(* again with NewUniswapV2SystemFromViews.  Its owner keeps a snapshot:    *)
(* LastUpdatedAtBlock(), and the View() it reads after that.  The block    *)
(* provider, which keeps every block, resumes at that block or earlier.    *)
(* The upstream registry and the block list outlive the process; the       *)
(* queue, the goroutines and the collectors do not.                        *)
(***************************************************************************)
EXTENDS UniswapV2System

CONSTANT MaxRestarts  \* bound: how often the process ends

ASSUME RestartAssumption == MaxRestarts \in Nat

VARIABLES
  mined,            \* the provider's blocks
  was,              \* history: was[n + 1] is the reserves of each pool after block n
  savedNumber,      \* LastUpdatedAtBlock(), read by this process for the next snapshot
  snapshot,         \* the last complete one: a number and a view
  restarts,
  poolsInRegistry   \* the gauge of metrics.go

process == <<savedNumber, snapshot, restarts>>
allVars == <<vars, mined, was, process, poolsInRegistry>>

\* NewMetrics starts the gauge at zero and the constructor stores the first view itself.
RestartInit ==
  /\ Init
  /\ mined = << >>
  /\ was = <<chain>>
  /\ savedNumber = 0
  /\ snapshot = [number |-> 0, view |-> cachedView]
  /\ restarts = 0
  /\ poolsInRegistry = 0

\* updateCachedView runs in every handled block and reconciliation, and wherever the view changes.
UpdatesCachedView ==
  \/ cachedView' # cachedView
  \/ listener.pc = "publishing" /\ listener' # listener
  \/ reconciler.pc = "applying" /\ reconciler' # reconciler

\* Mutant: the gauge is raised instead of set.
PoolsGaugeAdded ==
  IF UpdatesCachedView THEN poolsInRegistry + Cardinality(DOMAIN cachedView') ELSE poolsInRegistry

PoolsGauge ==
  IF UpdatesCachedView THEN Cardinality(DOMAIN cachedView') ELSE poolsInRegistry

\* A step of the running process or of its world.
Run ==
  /\ Next
  /\ mined' = IF head' = head THEN mined ELSE Append(mined, newBlockEventer'[Len(newBlockEventer')])
  /\ was' = IF head' = head THEN was ELSE Append(was, chain')
  /\ poolsInRegistry' = PoolsGauge
  /\ UNCHANGED process

\* External: the owner saves the number, then the view.
SaveNumber ==
  /\ savedNumber' = lastUpdatedAtBlock
  /\ UNCHANGED <<vars, mined, was, snapshot, restarts, poolsInRegistry>>

SaveView ==
  /\ snapshot' = [number |-> savedNumber, view |-> cachedView]
  /\ UNCHANGED <<vars, mined, was, savedNumber, restarts, poolsInRegistry>>

\* External: the provider goes back to the block of the snapshot, or further.
Resume ==
  \E from \in 1 .. IF snapshot.number = 0 THEN 1 ELSE snapshot.number :
    newBlockEventer' = SubSeq(mined, from, Len(mined))

\* The fields of a system constructed with these rows and this first view.
Construct(rows, view) ==
  /\ registry' = rows
  /\ cachedView' = view
  /\ lastUpdatedAtBlock' = 0
  /\ pendingInit' = {} /\ pendingInitQueueSize' = 0
  /\ mu' = "free"
  /\ poolsInRegistry' = 0

\* Mutant: the initial view is not stored.
NewFromViewsUnpublished(views) == Construct(views, Empty)

\* Mutant: the rows keep the reserves that new pools start with.
NewFromViewsWithoutReserves(views) ==
  \E r \in Reserves : LET rows == [p \in DOMAIN views |-> [reserve |-> r, block |-> 0]]
                      IN  Construct(rows, rows)

NewUniswapV2SystemFromViews(views) == Construct(views, views)

StartGoroutines ==
  /\ listener' = IdleListener
  /\ initializer' = Started("initializer", IdleInitializer)
  /\ pruner' = Started("pruner", IdlePruner)
  /\ reconciler' = Started("reconciler", IdleReconciler)

\* The process ends between any two steps, the lock and its memory with it, and is started
\* again, with a context of its own.
Restart ==
  /\ restarts < MaxRestarts
  /\ restarts' = restarts + 1
  /\ NewUniswapV2SystemFromViews(snapshot.view)
  /\ StartGoroutines
  /\ Resume
  /\ ctxDone' = FALSE
  /\ savedNumber' = 0
  /\ UNCHANGED <<head, chain, blocked, registered, faults, mined, was, snapshot>>

RestartNext == Run \/ SaveNumber \/ SaveView \/ Restart

RestartSpec == RestartInit /\ [][RestartNext]_allVars

-----------------------------------------------------------------------------
RestartTypeOK ==
  /\ TypeOK
  /\ mined \in Seq(Block) /\ Len(mined) = head
  /\ was \in Seq([Pools -> Reserves]) /\ Len(was) = head + 1
  /\ savedNumber \in 0 .. MaxBlock
  /\ snapshot \in [number : 0 .. MaxBlock, view : Entries]
  /\ restarts \in 0 .. MaxRestarts
  /\ poolsInRegistry \in 0 .. Cardinality(Trusted)

\* A view shows the events of the first n blocks, of those that the bloom filter lets through.
Shows(view, n) ==
  \A p \in DOMAIN view, k \in 1 .. n :
    p \in DOMAIN mined[k].sync /\ mined[k].swap # {} => view[p].block >= k

\* What a view has wrong it missed in a block that the filter ruled out.
MissesOnlySkipped(view) ==
  \A p \in DOMAIN view : view[p].reserve # chain[p] =>
    \E k \in view[p].block + 1 .. head : p \in DOMAIN mined[k].sync /\ mined[k].swap = {}

\* Without failures the stream alone brings a restarted system up to date.  A snapshot may hold
\* the view of the block before its number, since the number is stored first, and it may be of
\* an instance that was itself catching up; the blocks from its number on, handled a second
\* time and in order, make up for both.
Quiet == Periodic = {} /\ MaxFaults = 0 /\ ~MayCancel

StreamBringsUpToDate ==
  Quiet /\ newBlockEventer = << >> /\ listener.pc = "idle" =>
    Shows(cachedView, head) /\ MissesOnlySkipped(cachedView)

\* Through goroutines, failures and restarts, what consumers read is only ever what the chain
\* once said of pools of known factories, and a number that grows until the process ends.
ForConsumers == INSTANCE Consumer WITH view <- cachedView, number <- lastUpdatedAtBlock,
                                       saved <- snapshot.view

RefinesConsumer == ForConsumers!Spec
==============================================================================
