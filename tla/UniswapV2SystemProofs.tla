------------------------ MODULE UniswapV2SystemProofs ------------------------
(***************************************************************************)
(* Proofs about UniswapV2System.  The safety invariants need three facts   *)
(* about the goroutines: who holds the lock, what a batch in flight can    *)
(* contain, and how the registry differs from the view inside the          *)
(* listener's critical section.                                            *)
(* The last sections prove the safety halves of the liveness properties:   *)
(* what must never be lost for them to hold is never lost, and no          *)
(* goroutine goes on with a round for ever.                                *)
(***************************************************************************)
EXTENDS UniswapV2System, FiniteSetTheorems, SequenceTheorems, TLAPS

\* The lock is held between two steps only by the listener, in its critical section.
LockHeld == mu = "listener" <=> listener.pc = "publishing"

\* A batch yields only pools of its own whose factory is known; none while not fetching.
BatchInFlight ==
  /\ initializer.todo \subseteq initializer.batch
  /\ DOMAIN initializer.found \subseteq initializer.batch \cap Trusted
  /\ initializer.pc # "fetching" => initializer.todo = {} /\ DOMAIN initializer.found = {}

\* In the critical section the registry and the published view track the same pools and
\* differ only by events of blocks whose number is stored.
EventsUnpublished ==
  listener.pc = "publishing" =>
    /\ DOMAIN cachedView = DOMAIN registry
    /\ \A p \in DOMAIN registry :
         registry[p] = cachedView[p] \/ registry[p].block <= lastUpdatedAtBlock

\* The inductive invariant.
IInv ==
  TypeOK /\ LockHeld /\ BatchInFlight /\ EventsUnpublished /\ ViewMatchesRegistry /\ OnlyTrustedTracked

\* A function from pools to entries is one of Entries.
LEMMA EntriesIntro ==
  ASSUME NEW S \in SUBSET Pools, NEW f \in [S -> Entry]
  PROVE  f \in Entries
  BY DEF Entries

\* A member of Entries is a function on some of the pools.
LEMMA EntriesElim ==
  ASSUME NEW f \in Entries
  PROVE  DOMAIN f \subseteq Pools /\ f \in [DOMAIN f -> Entry]
  BY DEF Entries

\* The empty registry and the empty block have their types.
LEMMA EmptyType == Empty \in Entries /\ NoBlock \in Block
<1>1. Empty \in [{} -> Entry] /\ Empty \in [{} -> Reserves]
  BY DEF Empty
<1>2. Empty \in Entries
  BY <1>1, EntriesIntro
<1>3. NoBlock.sync \in [{} -> Reserves] /\ NoBlock.swap = {} /\ NoBlock.number = 0
  BY <1>1 DEF NoBlock
<1>4. 0 \in 0 .. MaxBlock
  BY SystemAssumption
<1>5. Empty \in UNION {[S -> Reserves] : S \in SUBSET Pools}
  BY <1>1
<1> QED BY <1>2, <1>4, <1>5 DEF NoBlock, Block

\* A goroutine between two rounds is in a state of its type.
LEMMA IdleTypes ==
  /\ IdleListener \in ListenerState /\ IdleListener.pc = "idle" /\ IdleListener.block = NoBlock
  /\ IdleInitializer \in InitializerState
  /\ IdlePruner \in PrunerState
  /\ IdleReconciler \in ReconcilerState
  BY EmptyType DEF IdleListener, IdleInitializer, IdlePruner, IdleReconciler,
                   ListenerState, InitializerState, PrunerState, ReconcilerState

\* A fresh system, and one rebuilt from a snapshot, satisfy the invariant.
LEMMA InitInv == Init => IInv
<1> SUFFICES ASSUME Init PROVE IInv
  OBVIOUS
<1>1. TypeOK
  <2>1. registry \in Entries
    <3>1. registered \in SUBSET Pools /\ registry \in [registered -> Entry]
      BY SystemAssumption DEF Init, Entry
    <3> QED BY <3>1, EntriesIntro
  <2>2. newBlockEventer \in Seq(Block)
    BY DEF Init
  <2>3. /\ listener \in ListenerState
        /\ initializer \in InitializerState
        /\ pruner \in PrunerState
        /\ reconciler \in ReconcilerState
    BY IdleTypes DEF Init, Started, InitializerState, PrunerState, ReconcilerState
  <2>4. /\ head \in 0 .. MaxBlock /\ faults \in 0 .. MaxFaults /\ lastUpdatedAtBlock \in 0 .. MaxBlock
        /\ chain \in [Pools -> Reserves]
        /\ registered \subseteq Pools /\ blocked \subseteq Pools /\ pendingInit \subseteq Pools
    BY SystemAssumption DEF Init
  <2> QED BY <2>1, <2>2, <2>3, <2>4 DEF Init, TypeOK
<1>2. LockHeld /\ EventsUnpublished
  BY IdleTypes DEF Init, LockHeld, EventsUnpublished
<1>3. BatchInFlight
  BY EmptyType DEF Init, BatchInFlight, Started, IdleInitializer, Empty
<1>4. ViewMatchesRegistry /\ OnlyTrustedTracked
  BY DEF Init, ViewMatchesRegistry, OnlyTrustedTracked
<1> QED BY <1>1, <1>2, <1>3, <1>4 DEF IInv

-----------------------------------------------------------------------------
\* Restricting entries to some of their pools keeps their values.
LEMMA RestrictType ==
  ASSUME NEW f \in Entries, NEW S \in SUBSET DOMAIN f
  PROVE  /\ Restrict(f, S) \in Entries
         /\ DOMAIN Restrict(f, S) = S
         /\ \A p \in S : Restrict(f, S)[p] = f[p]
<1>1. DOMAIN f \subseteq Pools /\ f \in [DOMAIN f -> Entry]
  BY EntriesElim
<1>2. Restrict(f, S) \in [S -> Entry]
  BY <1>1 DEF Restrict
<1> QED BY <1>1, <1>2, EntriesIntro DEF Restrict

\* An answer from the chain extends the entries gathered so far by one pool.
LEMMA WithAnswerType ==
  ASSUME TypeOK, NEW f \in Entries, NEW p \in Pools
  PROVE  /\ WithAnswer(f, p) \in Entries
         /\ DOMAIN WithAnswer(f, p) = DOMAIN f \cup {p}
<1>1. DOMAIN f \subseteq Pools /\ f \in [DOMAIN f -> Entry]
  BY EntriesElim
<1>2. [reserve |-> chain[p], block |-> head] \in Entry
  BY DEF TypeOK, Entry
<1>3. DOMAIN f \cup {p} \in SUBSET Pools
  BY <1>1
<1>4. WithAnswer(f, p) \in [DOMAIN f \cup {p} -> Entry]
  BY <1>1, <1>2 DEF WithAnswer
<1> QED BY <1>3, <1>4, EntriesIntro DEF WithAnswer

\* The parts of a block.
LEMMA BlockParts ==
  ASSUME NEW b \in Block
  PROVE  /\ b.number \in 0 .. MaxBlock
         /\ b.swap \subseteq Pools
         /\ DOMAIN b.sync \subseteq Pools
         /\ b.sync \in [DOMAIN b.sync -> Reserves]
  BY DEF Block

\* The head and the rest of the blocks not yet handed over.
LEMMA QueueParts ==
  ASSUME TypeOK, newBlockEventer # << >>
  PROVE  Head(newBlockEventer) \in Block /\ Tail(newBlockEventer) \in Seq(Block)
  BY HeadTailProperties DEF TypeOK

\* The parts of the listener's state.
LEMMA ListenerParts ==
  ASSUME TypeOK
  PROVE  /\ listener.block \in Block
         /\ listener.new \in Nat
         /\ listener = [pc |-> listener.pc, block |-> listener.block, new |-> listener.new]
  BY DEF TypeOK, ListenerState

\* The parts of the initializer's state.
LEMMA InitializerParts ==
  ASSUME TypeOK
  PROVE  /\ initializer.batch \subseteq Pools
         /\ initializer.todo \subseteq Pools
         /\ initializer.found \in Entries
  BY DEF TypeOK, InitializerState

\* The parts of the reconciler's state.
LEMMA ReconcilerParts ==
  ASSUME TypeOK
  PROVE  /\ reconciler.todo \subseteq Pools
         /\ reconciler.prev \in Entries
         /\ reconciler.fresh \in Entries
  BY DEF TypeOK, ReconcilerState

-----------------------------------------------------------------------------
\* A mined block changes nothing inside the system.
LEMMA MineInv ==
  ASSUME IInv, Mine
  PROVE  IInv'
<1> USE DEF IInv
<1>1. PICK S \in SUBSET Pools : \E sync \in [S -> Reserves], swap \in SUBSET S :
        /\ chain' = [p \in Pools |-> IF p \in S THEN sync[p] ELSE chain[p]]
        /\ newBlockEventer' =
             Append(newBlockEventer, [number |-> head + 1, swap |-> swap, sync |-> sync])
  BY DEF Mine
<1>2. PICK sync \in [S -> Reserves], swap \in SUBSET S :
        /\ chain' = [p \in Pools |-> IF p \in S THEN sync[p] ELSE chain[p]]
        /\ newBlockEventer' =
             Append(newBlockEventer, [number |-> head + 1, swap |-> swap, sync |-> sync])
  BY <1>1
<1>3. head' \in 0 .. MaxBlock /\ head' = head + 1
  BY SystemAssumption DEF Mine, TypeOK
<1>4. chain' \in [Pools -> Reserves]
  BY <1>2 DEF TypeOK
<1>5. [number |-> head + 1, swap |-> swap, sync |-> sync] \in Block
  BY <1>3 DEF Block
<1>6. newBlockEventer' \in Seq(Block)
  BY <1>2, <1>5, AppendProperties DEF TypeOK
<1>7. TypeOK'
  BY <1>3, <1>4, <1>6 DEF TypeOK, Mine, fields, locals
<1> QED BY <1>7 DEF Mine, fields, locals, LockHeld, BatchInFlight, EventsUnpublished,
                    ViewMatchesRegistry, OnlyTrustedTracked

\* The other steps of the world leave the system alone and never unregister a pool.
LEMMA WorldInv ==
  ASSUME IInv, Cancel \/ \E p \in Pools : ToggleBlocked(p) \/ RegisterElsewhere(p)
  PROVE  IInv'
<1> USE DEF IInv
<1>1. TypeOK' /\ registered \subseteq registered'
  BY DEF Cancel, ToggleBlocked, RegisterElsewhere, TypeOK, fields, locals
<1>2. UNCHANGED <<fields, locals>>
  BY DEF Cancel, ToggleBlocked, RegisterElsewhere
<1> QED BY <1>1, <1>2 DEF fields, locals, LockHeld, BatchInFlight, EventsUnpublished,
                          ViewMatchesRegistry, OnlyTrustedTracked

\* A block ruled out by its bloom filter changes only the block number.
LEMMA SkipBlockInv ==
  ASSUME IInv, SkipBlock
  PROVE  IInv'
<1> USE DEF IInv
<1>1. Head(newBlockEventer) \in Block /\ Tail(newBlockEventer) \in Seq(Block)
  BY QueueParts DEF SkipBlock
<1>2. newBlockEventer' \in Seq(Block) /\ lastUpdatedAtBlock' \in 0 .. MaxBlock
  BY <1>1, BlockParts DEF SkipBlock
<1>3. TypeOK'
  BY <1>2 DEF TypeOK, SkipBlock, listenerOnly
<1>4. LockHeld' /\ BatchInFlight' /\ ViewMatchesRegistry' /\ OnlyTrustedTracked'
  BY DEF SkipBlock, listenerOnly, LockHeld, BatchInFlight, ViewMatchesRegistry, OnlyTrustedTracked
<1>5. EventsUnpublished'
  BY DEF SkipBlock, listenerOnly, EventsUnpublished
<1> QED BY <1>3, <1>4, <1>5

\* To ask for logs the listener takes no lock and changes nothing that others read.
LEMMA ReceiveBlockInv ==
  ASSUME IInv, ReceiveBlock
  PROVE  IInv'
<1> USE DEF IInv
<1>1. Head(newBlockEventer) \in Block /\ Tail(newBlockEventer) \in Seq(Block)
  BY QueueParts DEF ReceiveBlock
<1>2. listener.pc = "idle" /\ listener'.pc = "fetching" /\ listener' \in ListenerState
  BY <1>1 DEF ReceiveBlock, TypeOK, ListenerState
<1>3. UNCHANGED <<listenerOnly, faults, fields>> /\ newBlockEventer' \in Seq(Block)
  BY <1>1 DEF ReceiveBlock
<1>4. TypeOK'
  BY <1>2, <1>3 DEF TypeOK, listenerOnly, fields
<1> QED BY <1>2, <1>3, <1>4 DEF listenerOnly, fields, LockHeld, BatchInFlight, EventsUnpublished,
                                ViewMatchesRegistry, OnlyTrustedTracked

\* The answer, however late, finds the listener without the lock.
LEMMA FetchLogsInv ==
  ASSUME IInv, FetchLogs
  PROVE  IInv'
<1> USE DEF IInv
<1>1. listener.block \in Block
  BY ListenerParts
<1>2. [NoBlock EXCEPT !.number = listener.block.number] \in Block
  BY <1>1, EmptyType, BlockParts DEF Block
<1>3. \/ listener' = IdleListener
      \/ \E block \in Block : listener' = [listener EXCEPT !.pc = "applying", !.block = block]
  BY <1>1, <1>2 DEF FetchLogs
<1>4. listener' \in ListenerState
  <2>1. CASE listener' = IdleListener
    BY <2>1, IdleTypes
  <2>2. CASE \E block \in Block : listener' = [listener EXCEPT !.pc = "applying", !.block = block]
    BY <2>2 DEF TypeOK, ListenerState
  <2> QED BY <1>3, <2>1, <2>2
<1>5. faults' \in 0 .. MaxFaults
  BY SystemAssumption DEF FetchLogs, NoFault, Fault, FaultOrCancelled, TypeOK
<1>6. UNCHANGED <<listenerOnly, newBlockEventer, fields>>
  BY DEF FetchLogs
<1>7. TypeOK'
  BY <1>4, <1>5, <1>6 DEF TypeOK, listenerOnly, fields
<1>8. listener.pc = "fetching" /\ listener'.pc # "publishing"
  BY <1>3, IdleTypes DEF FetchLogs, TypeOK, ListenerState
<1> QED BY <1>6, <1>7, <1>8 DEF listenerOnly, fields, LockHeld, BatchInFlight, EventsUnpublished,
                                ViewMatchesRegistry, OnlyTrustedTracked

\* applyUpdates keeps the set of tracked pools; what it changes carries the block's number.
LEMMA UpdatedType ==
  ASSUME TypeOK, NEW b \in Block
  PROVE  /\ Updated(b) \in Entries
         /\ DOMAIN Updated(b) = DOMAIN registry
         /\ \A p \in DOMAIN registry : Updated(b)[p] = registry[p] \/ Updated(b)[p].block = b.number
<1>1. DOMAIN registry \subseteq Pools /\ registry \in [DOMAIN registry -> Entry]
  BY EntriesElim DEF TypeOK
<1>2. \A p \in DOMAIN b.sync : [reserve |-> b.sync[p], block |-> b.number] \in Entry
  BY BlockParts DEF Entry
<1>3. Updated(b) \in [DOMAIN registry -> Entry]
  BY <1>1, <1>2 DEF Updated
<1>4. \A p \in DOMAIN registry : Updated(b)[p] = registry[p] \/ Updated(b)[p].block = b.number
  BY DEF Updated
<1> QED BY <1>1, <1>3, <1>4, EntriesIntro

\* After the first half of the critical section the view is the old registry, and every entry
\* that differs from it is of the stored block.
LEMMA ApplyBlockInv ==
  ASSUME IInv, ApplyBlock
  PROVE  IInv'
<1> USE DEF IInv
<1> DEFINE b == listener.block
<1>1. b \in Block
  BY ListenerParts
<1> HIDE DEF b
<1>2. /\ registry' = Updated(b)
      /\ pendingInit' = pendingInit \cup Discovered(b)
      /\ lastUpdatedAtBlock' = b.number
      /\ listener' = [listener EXCEPT !.pc = "publishing",
                                      !.new = Cardinality(Discovered(b) \ pendingInit)]
      /\ mu = "free" /\ mu' = "listener"
      /\ UNCHANGED <<listenerOnly, newBlockEventer, faults, cachedView, pendingInitQueueSize>>
  BY DEF ApplyBlock, b
<1>3. Discovered(b) \subseteq Pools /\ lastUpdatedAtBlock' \in 0 .. MaxBlock
  BY <1>1, <1>2, BlockParts DEF Discovered
<1>4. Cardinality(Discovered(b) \ pendingInit) \in Nat
  BY <1>3, SystemAssumption, FS_Subset, FS_CardinalityType
<1>5. listener' \in ListenerState /\ listener'.pc = "publishing"
  BY <1>2, <1>4 DEF TypeOK, ListenerState
<1>6. /\ registry' \in Entries
      /\ DOMAIN registry' = DOMAIN registry
      /\ \A p \in DOMAIN registry : registry'[p] = registry[p] \/ registry'[p].block = lastUpdatedAtBlock'
  BY <1>1, <1>2, UpdatedType
<1>7. TypeOK'
  BY <1>2, <1>3, <1>5, <1>6 DEF TypeOK, listenerOnly
<1>8. EventsUnpublished'
  <2>1. cachedView = registry /\ cachedView' = registry
    BY <1>2 DEF ViewMatchesRegistry
  <2>2. lastUpdatedAtBlock' <= lastUpdatedAtBlock'
    BY <1>3
  <2> QED BY <1>6, <2>1, <2>2 DEF EventsUnpublished
<1>9. LockHeld' /\ ViewMatchesRegistry'
  BY <1>2, <1>5 DEF LockHeld, ViewMatchesRegistry
<1>10. BatchInFlight' /\ OnlyTrustedTracked'
  BY <1>2, <1>6 DEF listenerOnly, BatchInFlight, OnlyTrustedTracked
<1> QED BY <1>7, <1>8, <1>9, <1>10

\* The second half publishes the registry and releases the lock.
LEMMA PublishBlockInv ==
  ASSUME IInv, PublishBlock
  PROVE  IInv'
<1> USE DEF IInv
<1>1. listener' \in ListenerState /\ listener'.pc # "publishing"
  <2>1. listener' = IdleListener \/ listener' = [listener EXCEPT !.pc = "counting", !.block = NoBlock]
    BY DEF PublishBlock
  <2> QED BY <2>1, IdleTypes, EmptyType DEF TypeOK, ListenerState
<1>2. TypeOK'
  BY <1>1 DEF TypeOK, PublishBlock, listenerOnly
<1>3. LockHeld' /\ EventsUnpublished' /\ ViewMatchesRegistry'
  BY <1>1 DEF PublishBlock, LockHeld, EventsUnpublished, ViewMatchesRegistry
<1>4. BatchInFlight' /\ OnlyTrustedTracked'
  BY DEF PublishBlock, listenerOnly, BatchInFlight, OnlyTrustedTracked
<1> QED BY <1>2, <1>3, <1>4

\* Raising the gauge touches nothing else.
LEMMA CountPendingInv ==
  ASSUME IInv, CountPending
  PROVE  IInv'
<1> USE DEF IInv
<1>1. pendingInitQueueSize' \in Nat
  BY ListenerParts DEF CountPending, TypeOK
<1>2. TypeOK'
  BY <1>1, IdleTypes DEF TypeOK, CountPending, listenerOnly
<1>3. listener.pc = "counting" /\ listener'.pc = "idle"
  BY IdleTypes DEF CountPending
<1>4. LockHeld' /\ EventsUnpublished' /\ ViewMatchesRegistry'
  BY <1>3 DEF CountPending, LockHeld, EventsUnpublished, ViewMatchesRegistry
<1>5. BatchInFlight' /\ OnlyTrustedTracked'
  BY DEF CountPending, listenerOnly, BatchInFlight, OnlyTrustedTracked
<1> QED BY <1>2, <1>4, <1>5

\* The listener returns only between two blocks, without the lock.
LEMMA StopListenerInv ==
  ASSUME IInv, StopListener
  PROVE  IInv'
<1> USE DEF IInv
<1>1. listener' \in ListenerState /\ listener.pc = "idle" /\ listener'.pc = "stopped"
  BY DEF StopListener, TypeOK, ListenerState
<1>2. TypeOK'
  BY <1>1 DEF TypeOK, StopListener, listenerOnly, fields
<1> QED BY <1>1, <1>2 DEF StopListener, listenerOnly, fields, LockHeld, BatchInFlight,
                          EventsUnpublished, ViewMatchesRegistry, OnlyTrustedTracked

-----------------------------------------------------------------------------
\* A step that leaves the registry, the view and the listener alone preserves the invariant
\* if it keeps the types and the batch in order.
LEMMA InitializerFrame ==
  ASSUME IInv, TypeOK', BatchInFlight', UNCHANGED <<registered, registry, cachedView>>,
         UNCHANGED <<mu, lastUpdatedAtBlock, listener>>
  PROVE  IInv'
  BY DEF IInv, LockHeld, EventsUnpublished, ViewMatchesRegistry, OnlyTrustedTracked

\* The drained queue becomes the batch of an initializer that has found nothing yet.
LEMMA DrainPendingInv ==
  ASSUME IInv, DrainPending
  PROVE  IInv'
<1> USE DEF IInv
<1>1. initializer' = [initializer EXCEPT !.pc = "resetting", !.batch = pendingInit]
  BY DEF DrainPending
<1>2. initializer' \in InitializerState
  BY <1>1 DEF TypeOK, InitializerState
<1>3. TypeOK'
  BY <1>2 DEF TypeOK, DrainPending, initializerOnly
<1>4. BatchInFlight'
  BY <1>1 DEF DrainPending, BatchInFlight, TypeOK, InitializerState
<1> QED BY <1>3, <1>4, InitializerFrame DEF DrainPending, initializerOnly

\* The number of calls that may still fail never leaves its range.
LEMMA FaultType ==
  ASSUME TypeOK, NoFault \/ FaultOrCancelled
  PROVE  faults' \in 0 .. MaxFaults
  BY SystemAssumption DEF NoFault, Fault, FaultOrCancelled, TypeOK

\* The batch is either to be fetched as a whole or dropped as a whole.
LEMMA ResetGaugeInv ==
  ASSUME IInv, ResetGauge
  PROVE  IInv'
<1> USE DEF IInv
<1>1. /\ faults' \in 0 .. MaxFaults
      /\ \/ initializer' = IdleInitializer
         \/ initializer' = [initializer EXCEPT !.pc = "fetching", !.todo = initializer.batch]
  BY FaultType DEF ResetGauge, FaultOrCancelled
<1>2. initializer' \in InitializerState
  BY <1>1, IdleTypes DEF TypeOK, InitializerState
<1>3. BatchInFlight'
  <2>1. CASE initializer' = IdleInitializer
    BY <2>1 DEF IdleInitializer, BatchInFlight, Empty
  <2>2. CASE initializer' = [initializer EXCEPT !.pc = "fetching", !.todo = initializer.batch]
    BY <2>2 DEF BatchInFlight, TypeOK, InitializerState
  <2> QED BY <1>1, <2>1, <2>2
<1>4. TypeOK'
  BY <1>1, <1>2 DEF TypeOK, ResetGauge, initializerOnly
<1> QED BY <1>3, <1>4, InitializerFrame DEF ResetGauge, initializerOnly

\* Only a pool of the batch whose factory is known enters the result.
LEMMA InitializePoolInv ==
  ASSUME IInv, NEW p \in Pools, InitializePool(p)
  PROVE  IInv'
<1> USE DEF IInv
<1>1. faults' \in 0 .. MaxFaults /\ UNCHANGED <<initializerOnly, registered, fields>>
  BY FaultType DEF InitializePool
<1>2. p \in initializer.todo /\ initializer.found \in Entries /\ initializer.batch \subseteq Pools
  BY InitializerParts DEF InitializePool
<1>3. \/ /\ p \in Trusted
         /\ initializer' = [initializer EXCEPT !.todo = @ \ {p},
                                               !.found = WithAnswer(initializer.found, p)]
      \/ initializer' = [initializer EXCEPT !.todo = @ \ {p}]
  BY DEF InitializePool
<1>4. initializer' \in InitializerState
  <2>1. WithAnswer(initializer.found, p) \in Entries
    BY <1>2, WithAnswerType
  <2> QED BY <1>3, <2>1 DEF TypeOK, InitializerState
<1>5. BatchInFlight'
  <2>1. initializer'.batch = initializer.batch /\ initializer'.todo \subseteq initializer.todo
    BY <1>3 DEF TypeOK, InitializerState
  <2>2. DOMAIN initializer'.found \subseteq initializer.batch \cap Trusted
    <3>1. CASE initializer' = [initializer EXCEPT !.todo = @ \ {p}]
      BY <3>1 DEF BatchInFlight, TypeOK, InitializerState
    <3>2. CASE /\ p \in Trusted
               /\ initializer' = [initializer EXCEPT !.todo = @ \ {p},
                                                     !.found = WithAnswer(initializer.found, p)]
      <4>1. initializer'.found = WithAnswer(initializer.found, p)
        BY <3>2 DEF TypeOK, InitializerState
      <4>2. DOMAIN WithAnswer(initializer.found, p) = DOMAIN initializer.found \cup {p}
        BY <1>2, WithAnswerType
      <4> QED BY <1>2, <3>2, <4>1, <4>2 DEF BatchInFlight
    <3> QED BY <1>3, <3>1, <3>2
  <2>3. initializer'.pc = "fetching"
    BY <1>3 DEF InitializePool, TypeOK, InitializerState
  <2> QED BY <2>1, <2>2, <2>3 DEF BatchInFlight
<1>6. TypeOK'
  BY <1>1, <1>4 DEF TypeOK, initializerOnly, fields
<1> QED BY <1>1, <1>5, <1>6, InitializerFrame DEF initializerOnly, fields

\* Adding initialized pools leaves the entries of tracked ones alone.
LEMMA WithInitializedType ==
  ASSUME TypeOK, NEW added \in SUBSET DOMAIN initializer.found
  PROVE  /\ WithInitialized(added) \in Entries
         /\ DOMAIN WithInitialized(added) = DOMAIN registry \cup added
         /\ \A p \in DOMAIN registry : WithInitialized(added)[p] = registry[p]
<1>1. /\ DOMAIN registry \subseteq Pools /\ registry \in [DOMAIN registry -> Entry]
      /\ DOMAIN initializer.found \subseteq Pools
      /\ initializer.found \in [DOMAIN initializer.found -> Entry]
  BY EntriesElim, InitializerParts DEF TypeOK
<1>2. WithInitialized(added) \in [DOMAIN registry \cup added -> Entry]
  BY <1>1 DEF WithInitialized
<1>3. DOMAIN registry \cup added \in SUBSET Pools
  BY <1>1
<1> QED BY <1>2, <1>3, EntriesIntro DEF WithInitialized

\* The publication test counts errors; it is met whenever some pool was added.
LEMMA PublishesNonEmpty ==
  ASSUME NEW batch \in SUBSET Pools, NEW added \in SUBSET batch, added # {}
  PROVE  Cardinality(batch) - Cardinality(batch \ added) > 0
<1>1. IsFiniteSet(batch) /\ IsFiniteSet(batch \ added)
  BY SystemAssumption, FS_Subset
<1>2. Cardinality(batch) \in Nat /\ Cardinality(batch \ added) \in Nat
  BY <1>1, FS_CardinalityType
<1>3. batch \ added # batch /\ batch \ added \in SUBSET batch
  OBVIOUS
<1>4. /\ Cardinality(batch \ added) <= Cardinality(batch)
      /\ Cardinality(batch) # Cardinality(batch \ added)
  BY <1>1, <1>3, FS_Subset
<1> QED BY <1>2, <1>4

\* The view equals the registry after a batch, whether or not it was published: if it was
\* not, no pool was added.
LEMMA ApplyInitializationsInv ==
  ASSUME IInv, ApplyInitializations
  PROVE  IInv'
<1> USE DEF IInv
<1>1. PICK ok \in SUBSET DOMAIN initializer.found : \E added \in SUBSET (ok \ DOMAIN registry) :
        /\ IF ok = DOMAIN initializer.found /\ added = ok \ DOMAIN registry THEN NoFault ELSE Fault
        /\ registered' = registered \cup ok
        /\ registry' = WithInitialized(added)
        /\ cachedView' = IF PublishesBatch(added) THEN registry' ELSE cachedView
  BY DEF ApplyInitializations
<1>2. PICK added \in SUBSET (ok \ DOMAIN registry) :
        /\ IF ok = DOMAIN initializer.found /\ added = ok \ DOMAIN registry THEN NoFault ELSE Fault
        /\ registered' = registered \cup ok
        /\ registry' = WithInitialized(added)
        /\ cachedView' = IF PublishesBatch(added) THEN registry' ELSE cachedView
  BY <1>1
<1>3. /\ mu = "free" /\ cachedView = registry /\ listener.pc # "publishing"
      /\ initializer' = IdleInitializer
      /\ UNCHANGED <<initializerOnly, mu, lastUpdatedAtBlock, pendingInit, pendingInitQueueSize>>
  BY DEF ApplyInitializations, ViewMatchesRegistry, LockHeld
<1>4. /\ registry' \in Entries
      /\ DOMAIN registry' = DOMAIN registry \cup added
      /\ \A p \in DOMAIN registry : registry'[p] = registry[p]
  <2>1. added \subseteq DOMAIN initializer.found
    OBVIOUS
  <2> QED BY <1>2, <2>1, WithInitializedType
<1>5. DOMAIN initializer.found \subseteq initializer.batch \cap Trusted
  BY DEF BatchInFlight
<1>6. ok \subseteq Trusted /\ ok \subseteq Pools
  BY <1>5, SystemAssumption
<1>7. cachedView' = registry'
  <2>1. CASE added = {}
    <3>1. registry' = [p \in DOMAIN registry |-> registry[p]]
      BY <1>2, <2>1 DEF WithInitialized
    <3>2. registry = [p \in DOMAIN registry |-> registry[p]]
      BY EntriesElim DEF TypeOK
    <3> QED BY <1>2, <1>3, <3>1, <3>2
  <2>2. CASE added # {}
    <3>1. added \subseteq initializer.batch /\ initializer.batch \in SUBSET Pools
      BY <1>5, InitializerParts
    <3> QED BY <1>2, <2>2, <3>1, PublishesNonEmpty DEF PublishesBatch
  <2> QED BY <2>1, <2>2
<1>8. faults' \in 0 .. MaxFaults
  BY <1>2, FaultType DEF FaultOrCancelled
<1>9. TypeOK'
  BY <1>2, <1>3, <1>4, <1>6, <1>7, <1>8, IdleTypes DEF TypeOK, initializerOnly
<1>10. BatchInFlight'
  BY <1>3 DEF IdleInitializer, BatchInFlight, Empty
<1>11. OnlyTrustedTracked'
  BY <1>2, <1>4, <1>6 DEF OnlyTrustedTracked
<1>12. LockHeld' /\ EventsUnpublished' /\ ViewMatchesRegistry'
  BY <1>3, <1>7 DEF initializerOnly, LockHeld, EventsUnpublished, ViewMatchesRegistry
<1> QED BY <1>9, <1>10, <1>11, <1>12

\* The initializer returns only between two batches.
LEMMA StopInitializerInv ==
  ASSUME IInv, StopInitializer
  PROVE  IInv'
<1> USE DEF IInv
<1>1. initializer' \in InitializerState /\ initializer' = [initializer EXCEPT !.pc = "stopped"]
  BY DEF StopInitializer, TypeOK, InitializerState
<1>2. TypeOK'
  BY <1>1 DEF TypeOK, StopInitializer, initializerOnly, fields
<1>3. BatchInFlight'
  BY <1>1 DEF StopInitializer, BatchInFlight, TypeOK, InitializerState
<1> QED BY <1>2, <1>3, InitializerFrame DEF StopInitializer, initializerOnly, fields

-----------------------------------------------------------------------------
\* A step that replaces the registry while the lock is free, and publishes it.
LEMMA RegistryFrame ==
  ASSUME IInv, TypeOK', mu = "free", cachedView' = registry',
         DOMAIN registry' \subseteq DOMAIN registry,
         UNCHANGED <<registered, mu, lastUpdatedAtBlock, listener, initializer>>
  PROVE  IInv'
<1> USE DEF IInv
<1>1. LockHeld' /\ listener'.pc # "publishing"
  BY DEF LockHeld
<1>2. EventsUnpublished' /\ ViewMatchesRegistry'
  BY <1>1 DEF EventsUnpublished, ViewMatchesRegistry
<1>3. BatchInFlight' /\ OnlyTrustedTracked'
  BY DEF BatchInFlight, OnlyTrustedTracked
<1> QED BY <1>1, <1>2, <1>3

\* DeletePools publishes exactly when it deletes something, so the view is the registry after it.
LEMMA DeletePoolsEffect ==
  ASSUME IInv, NEW S, DeletePools(S)
  PROVE  /\ mu = "free" /\ mu' = mu
         /\ registry' \in Entries
         /\ DOMAIN registry' = DOMAIN registry \ S
         /\ cachedView' = registry'
         /\ UNCHANGED <<lastUpdatedAtBlock, pendingInit, pendingInitQueueSize>>
<1> USE DEF IInv
<1>1. registry \in Entries /\ registry = [p \in DOMAIN registry |-> registry[p]]
  BY EntriesElim DEF TypeOK
<1>2. registry' \in Entries /\ DOMAIN registry' = DOMAIN registry \ S
  <2>1. DOMAIN registry \ S \in SUBSET DOMAIN registry
    OBVIOUS
  <2> QED BY <1>1, <2>1, RestrictType DEF DeletePools
<1>3. cachedView = registry
  BY DEF DeletePools, ViewMatchesRegistry
<1>4. cachedView' = registry'
  <2>1. CASE S \cap DOMAIN registry # {}
    BY <2>1 DEF DeletePools
  <2>2. CASE S \cap DOMAIN registry = {}
    <3>1. DOMAIN registry \ S = DOMAIN registry
      BY <2>2
    <3>2. registry' = [p \in DOMAIN registry |-> registry[p]]
      BY <3>1 DEF DeletePools, Restrict
    <3> QED BY <1>1, <1>3, <2>2, <3>2 DEF DeletePools
  <2> QED BY <2>1, <2>2
<1> QED BY <1>2, <1>4 DEF DeletePools

\* Deletions by the registry manager preserve the invariant.
LEMMA ManagerDeleteInv ==
  ASSUME IInv, NEW S \in SUBSET Pools, ManagerDelete(S)
  PROVE  IInv'
<1> USE DEF IInv
<1>1. DeletePools(S) /\ UNCHANGED <<env, locals>>
  BY DEF ManagerDelete
<1>2. /\ mu = "free" /\ mu' = mu
      /\ registry' \in Entries
      /\ DOMAIN registry' = DOMAIN registry \ S
      /\ cachedView' = registry'
      /\ UNCHANGED <<lastUpdatedAtBlock, pendingInit, pendingInitQueueSize>>
  BY <1>1, DeletePoolsEffect
<1>3. TypeOK'
  BY <1>1, <1>2 DEF TypeOK, env, locals
<1>4. DOMAIN registry' \subseteq DOMAIN registry
  BY <1>2
<1> QED BY <1>1, <1>2, <1>3, <1>4, RegistryFrame DEF env, locals

\* The pruner's view is read without the lock and changes nothing.
LEMMA StartPruningInv ==
  ASSUME IInv, StartPruning
  PROVE  IInv'
<1> USE DEF IInv
<1>1. DOMAIN cachedView \subseteq Pools
  BY EntriesElim DEF TypeOK
<1>2. pruner' \in PrunerState
  BY <1>1 DEF StartPruning, PrunerState
<1>3. TypeOK'
  BY <1>2 DEF TypeOK, StartPruning, prunerOnly, env, fields
<1> QED BY <1>3, InitializerFrame DEF StartPruning, prunerOnly, env, fields, BatchInFlight

\* Neither does consulting the block list.
LEMMA ScanPoolInv ==
  ASSUME IInv, NEW p \in Pools, ScanPool(p)
  PROVE  IInv'
<1> USE DEF IInv
<1>1. pruner' \in PrunerState
  BY DEF ScanPool, TypeOK, PrunerState
<1>2. faults' \in 0 .. MaxFaults
  BY FaultType DEF ScanPool, FaultOrCancelled
<1>3. TypeOK'
  BY <1>1, <1>2 DEF TypeOK, ScanPool, scanOnly, fields
<1> QED BY <1>3, InitializerFrame DEF ScanPool, scanOnly, fields, BatchInFlight

\* The pruner's deletions preserve the invariant, even of pools gone in the meantime.
LEMMA PruneBlockedInv ==
  ASSUME IInv, PruneBlocked
  PROVE  IInv'
<1> USE DEF IInv
<1>1. CASE UNCHANGED fields
  <2>1. TypeOK'
    BY <1>1, IdleTypes DEF TypeOK, PruneBlocked, prunerOnly, env, fields
  <2> QED BY <1>1, <2>1, InitializerFrame DEF PruneBlocked, prunerOnly, env, fields, BatchInFlight
<1>2. CASE DeletePools(pruner.poolsToDelete)
  <2>1. /\ mu = "free" /\ mu' = mu
        /\ registry' \in Entries
        /\ DOMAIN registry' = DOMAIN registry \ pruner.poolsToDelete
        /\ cachedView' = registry'
        /\ UNCHANGED <<lastUpdatedAtBlock, pendingInit, pendingInitQueueSize>>
    BY <1>2, DeletePoolsEffect
  <2>2. TypeOK'
    BY <2>1, IdleTypes DEF TypeOK, PruneBlocked, prunerOnly, env
  <2>3. DOMAIN registry' \subseteq DOMAIN registry
    BY <2>1
  <2> QED BY <2>1, <2>2, <2>3, RegistryFrame DEF PruneBlocked, prunerOnly, env
<1> QED BY <1>1, <1>2 DEF PruneBlocked

\* The pruner returns only between two rounds.
LEMMA StopPrunerInv ==
  ASSUME IInv, StopPruner
  PROVE  IInv'
<1> USE DEF IInv
<1>1. pruner' \in PrunerState
  BY DEF StopPruner, TypeOK, PrunerState
<1>2. TypeOK'
  BY <1>1 DEF TypeOK, StopPruner, prunerOnly, env, fields
<1> QED BY <1>2, InitializerFrame DEF StopPruner, prunerOnly, env, fields, BatchInFlight

-----------------------------------------------------------------------------
\* A step that only changes the reconciler's state.
LEMMA ReconcilerFrame ==
  ASSUME IInv, reconciler' \in ReconcilerState, faults' \in 0 .. MaxFaults,
         UNCHANGED <<reconcilerOnly, fields>>
  PROVE  IInv'
<1>1. TypeOK'
  BY DEF IInv, TypeOK, reconcilerOnly, fields
<1>2. BatchInFlight'
  BY DEF IInv, BatchInFlight, reconcilerOnly
<1> QED BY <1>1, <1>2, InitializerFrame DEF reconcilerOnly, fields

\* A reconciliation starts from a copy of the view.
LEMMA StartReconcilingInv ==
  ASSUME IInv, StartReconciling
  PROVE  IInv'
<1> USE DEF IInv
<1>1. PICK found \in SUBSET DOMAIN cachedView :
        /\ IF found = DOMAIN cachedView THEN NoFault ELSE Fault
        /\ reconciler' = IF found = {}
                           THEN IdleReconciler
                           ELSE [pc |-> "fetching", prev |-> Restrict(cachedView, found),
                                 todo |-> found, fresh |-> Empty]
  BY DEF StartReconciling
<1>2. cachedView \in Entries /\ DOMAIN cachedView \subseteq Pools
  BY EntriesElim DEF TypeOK
<1>3. found \subseteq Pools /\ Restrict(cachedView, found) \in Entries
  BY <1>2, RestrictType
<1>4. reconciler' \in ReconcilerState
  BY <1>1, <1>3, IdleTypes, EmptyType DEF ReconcilerState
<1>5. faults' \in 0 .. MaxFaults
  BY <1>1, FaultType DEF FaultOrCancelled
<1> QED BY <1>4, <1>5, ReconcilerFrame DEF StartReconciling

\* It collects reserves from the chain in a state of its own.
LEMMA FetchReservesInv ==
  ASSUME IInv, NEW p \in Pools, FetchReserves(p)
  PROVE  IInv'
<1> USE DEF IInv
<1>1. \/ reconciler' = [reconciler EXCEPT !.todo = @ \ {p},
                                          !.fresh = WithAnswer(reconciler.fresh, p)]
      \/ reconciler' = [reconciler EXCEPT !.todo = @ \ {p}]
  BY DEF FetchReserves
<1>2. WithAnswer(reconciler.fresh, p) \in Entries
  BY ReconcilerParts, WithAnswerType
<1>3. reconciler' \in ReconcilerState
  BY <1>1, <1>2 DEF TypeOK, ReconcilerState
<1>4. faults' \in 0 .. MaxFaults
  BY FaultType DEF FetchReserves
<1> QED BY <1>3, <1>4, ReconcilerFrame DEF FetchReserves

\* It keeps those it will apply.
LEMMA CompareInv ==
  ASSUME IInv, Compare
  PROVE  IInv'
<1> USE DEF IInv
<1>1. updatesToApply \in SUBSET DOMAIN reconciler.fresh /\ reconciler.fresh \in Entries
  BY ReconcilerParts DEF updatesToApply
<1>2. Restrict(reconciler.fresh, updatesToApply) \in Entries
  BY <1>1, RestrictType
<1>3. \/ reconciler' = IdleReconciler
      \/ reconciler' = [IdleReconciler EXCEPT !.pc = "applying",
                                              !.fresh = Restrict(reconciler.fresh, updatesToApply)]
  BY DEF Compare
<1>4. reconciler' \in ReconcilerState
  BY <1>2, <1>3, IdleTypes DEF ReconcilerState
<1> QED BY <1>4, ReconcilerFrame DEF Compare, TypeOK

\* Corrections keep the set of tracked pools.
LEMMA ReconciledType ==
  ASSUME TypeOK
  PROVE  Reconciled \in Entries /\ DOMAIN Reconciled = DOMAIN registry
<1>1. /\ DOMAIN registry \in SUBSET Pools /\ registry \in [DOMAIN registry -> Entry]
      /\ reconciler.fresh \in [DOMAIN reconciler.fresh -> Entry]
  BY EntriesElim, ReconcilerParts DEF TypeOK
<1>2. Reconciled \in [DOMAIN registry -> Entry]
  BY <1>1 DEF Reconciled
<1> QED BY <1>1, <1>2, EntriesIntro DEF Reconciled

\* Corrections are applied and published under the lock.
LEMMA ApplyReconciliationInv ==
  ASSUME IInv, ApplyReconciliation
  PROVE  IInv'
<1> USE DEF IInv
<1>1. registry' \in Entries /\ DOMAIN registry' = DOMAIN registry
  BY ReconciledType DEF ApplyReconciliation
<1>2. TypeOK'
  BY <1>1, IdleTypes DEF TypeOK, ApplyReconciliation, reconcilerOnly
<1> QED BY <1>1, <1>2, RegistryFrame DEF ApplyReconciliation, reconcilerOnly

\* The reconciler returns only between two rounds.
LEMMA StopReconcilerInv ==
  ASSUME IInv, StopReconciler
  PROVE  IInv'
<1> USE DEF IInv
<1>1. reconciler' \in ReconcilerState /\ faults' \in 0 .. MaxFaults
  BY DEF StopReconciler, TypeOK, ReconcilerState
<1> QED BY <1>1, ReconcilerFrame DEF StopReconciler

-----------------------------------------------------------------------------
\* Every step of every goroutine and of the world preserves the invariant.
LEMMA NextInv ==
  ASSUME IInv, [Next]_vars
  PROVE  IInv'
<1>1. CASE Mine
  BY <1>1, MineInv
<1>2. CASE Cancel \/ \E p \in Pools : ToggleBlocked(p) \/ RegisterElsewhere(p)
  BY <1>2, WorldInv
<1>3. CASE \E S \in SUBSET Pools : ManagerDelete(S)
  BY <1>3, ManagerDeleteInv
<1>4. CASE ListenerNext \/ StopListener
  BY <1>4, SkipBlockInv, ReceiveBlockInv, FetchLogsInv, ApplyBlockInv, PublishBlockInv,
     CountPendingInv, StopListenerInv DEF ListenerNext, ListenerRuns
<1>5. CASE InitializerNext \/ StopInitializer
  BY <1>5, DrainPendingInv, ResetGaugeInv, InitializePoolInv, ApplyInitializationsInv,
     StopInitializerInv DEF InitializerNext
<1>6. CASE PrunerNext \/ StopPruner
  BY <1>6, StartPruningInv, ScanPoolInv, PruneBlockedInv, StopPrunerInv DEF PrunerNext
<1>7. CASE ReconcilerNext \/ StopReconciler
  BY <1>7, StartReconcilingInv, FetchReservesInv, CompareInv, ApplyReconciliationInv,
     StopReconcilerInv DEF ReconcilerNext
<1>8. CASE UNCHANGED vars
  BY <1>8 DEF vars, env, fields, locals, IInv, TypeOK, LockHeld, BatchInFlight,
              EventsUnpublished, ViewMatchesRegistry, OnlyTrustedTracked
<1> QED BY <1>1, <1>2, <1>3, <1>4, <1>5, <1>6, <1>7, <1>8 DEF Next

\* IInv is an invariant of the system for any pools, any number of blocks and any failures.
THEOREM Invariance == Spec => []IInv
<1>1. Init => IInv
  BY InitInv
<1>2. IInv /\ [Next]_vars => IInv'
  BY NextInv
<1> QED BY <1>1, <1>2, PTL DEF Spec

\* Every variable, the local state of the four goroutines included, always has its type.
THEOREM TypeCorrect == Spec => []TypeOK
<1>1. IInv => TypeOK
  BY DEF IInv
<1> QED BY <1>1, Invariance, PTL

\* Whenever the lock is free, what consumers read is the registry.
THEOREM ViewIsRegistry == Spec => []ViewMatchesRegistry
<1>1. IInv => ViewMatchesRegistry
  BY DEF IInv
<1> QED BY <1>1, Invariance, PTL

\* No pool of an unknown factory is ever tracked, and every tracked pool is known upstream.
THEOREM Whitelist == Spec => []OnlyTrustedTracked
<1>1. IInv => OnlyTrustedTracked
  BY DEF IInv
<1> QED BY <1>1, Invariance, PTL

-----------------------------------------------------------------------------
\* What a step of each goroutine leaves alone.
LEMMA StepFrames ==
  ASSUME [Next]_vars
  PROVE  /\ \/ UNCHANGED initializer
            \/ InitializerNext \/ StopInitializer
         /\ \/ UNCHANGED listener
            \/ ListenerNext \/ StopListener
<1>1. CASE Mine \/ Cancel \/ \E p \in Pools : ToggleBlocked(p) \/ RegisterElsewhere(p)
  BY <1>1 DEF Mine, Cancel, ToggleBlocked, RegisterElsewhere, locals
<1>2. CASE \E S \in SUBSET Pools : ManagerDelete(S)
  BY <1>2 DEF ManagerDelete, locals
<1>3. CASE ListenerNext \/ StopListener
  BY <1>3 DEF ListenerNext, ListenerRuns, StopListener, SkipBlock, ReceiveBlock,
              FetchLogs, ApplyBlock, PublishBlock, CountPending, listenerOnly
<1>4. CASE InitializerNext \/ StopInitializer
  BY <1>4 DEF InitializerNext, StopInitializer, DrainPending, ResetGauge, InitializePool,
              ApplyInitializations, initializerOnly
<1>5. CASE PrunerNext \/ StopPruner
  BY <1>5 DEF PrunerNext, StopPruner, StartPruning, ScanPool, PruneBlocked, prunerOnly, scanOnly
<1>6. CASE ReconcilerNext \/ StopReconciler
  BY <1>6 DEF ReconcilerNext, StopReconciler, StartReconciling, FetchReserves, Compare,
              ApplyReconciliation, reconcilerOnly
<1>7. CASE UNCHANGED vars
  BY <1>7 DEF vars, locals
<1> QED BY <1>1, <1>2, <1>3, <1>4, <1>5, <1>6, <1>7 DEF Next

\* No step of the initializer drops a tracked pool or changes its reserves.
LEMMA InitializerKeepsReserves ==
  ASSUME IInv, InitializerNext \/ StopInitializer, NEW p \in DOMAIN registry
  PROVE  p \in DOMAIN registry' /\ registry'[p] = registry[p]
<1>1. CASE ApplyInitializations
  <2>1. PICK ok \in SUBSET DOMAIN initializer.found, added \in SUBSET DOMAIN initializer.found :
          registry' = WithInitialized(added)
    BY <1>1 DEF ApplyInitializations
  <2> QED BY <2>1, WithInitializedType DEF IInv
<1>2. CASE DrainPending \/ ResetGauge \/ (\E q \in Pools : InitializePool(q)) \/ StopInitializer
  BY <1>2 DEF DrainPending, ResetGauge, InitializePool, StopInitializer, fields
<1> QED BY <1>1, <1>2 DEF InitializerNext

\* An initialization, even a second one of a pool already updated by events, never
\* overwrites what is tracked.
THEOREM InitializationNeverOverwrites == Spec => InitializationKeepsReserves
<1>1. IInv /\ [Next]_vars =>
        (initializer' # initializer =>
           \A p \in DOMAIN registry : p \in DOMAIN registry' /\ registry'[p] = registry[p])
  BY StepFrames, InitializerKeepsReserves
<1> QED BY <1>1, Invariance, PTL DEF Spec, InitializationKeepsReserves

\* What a step publishes for p is what was there, or of a block whose number is stored, or
\* an answer that the step applies.
PublishedInOrder(p) ==
  \/ p \in DOMAIN cachedView /\ cachedView'[p] = cachedView[p]
  \/ cachedView'[p].block <= lastUpdatedAtBlock
  \/ AnswerApplied(p)

\* A batch is published with what was tracked as it was and the rest as it was found.
LEMMA BatchPublished ==
  ASSUME IInv, InitializerNext \/ StopInitializer, NEW p \in DOMAIN cachedView'
  PROVE  PublishedInOrder(p)
<1> USE DEF IInv
<1>1. CASE ApplyInitializations
  <2>1. PICK ok \in SUBSET DOMAIN initializer.found, added \in SUBSET DOMAIN initializer.found :
          /\ registry' = WithInitialized(added)
          /\ cachedView' = IF PublishesBatch(added) THEN registry' ELSE cachedView
    BY <1>1 DEF ApplyInitializations
  <2>2. initializer' # initializer /\ cachedView = registry
    BY <1>1 DEF ApplyInitializations, IdleInitializer, ViewMatchesRegistry
  <2>3. CASE cachedView' = cachedView
    BY <2>3 DEF PublishedInOrder
  <2>4. CASE cachedView' = registry' /\ p \in DOMAIN registry
    BY <2>1, <2>2, <2>4 DEF PublishedInOrder, WithInitialized
  <2>5. CASE cachedView' = registry' /\ p \notin DOMAIN registry
    <3>1. p \in added /\ cachedView'[p] = initializer.found[p]
      BY <2>1, <2>5 DEF WithInitialized
    <3> QED BY <2>2, <3>1 DEF PublishedInOrder, AnswerApplied
  <2> QED BY <2>1, <2>3, <2>4, <2>5
<1>2. CASE DrainPending \/ ResetGauge \/ (\E q \in Pools : InitializePool(q)) \/ StopInitializer
  BY <1>2 DEF DrainPending, ResetGauge, InitializePool, StopInitializer, fields, PublishedInOrder
<1> QED BY <1>1, <1>2 DEF InitializerNext

\* A deletion publishes nothing new.
LEMMA DeletionPublished ==
  ASSUME IInv, NEW S, DeletePools(S), NEW p \in DOMAIN cachedView'
  PROVE  PublishedInOrder(p)
<1>1. cachedView = registry /\ (cachedView' = cachedView \/ cachedView' = Restrict(registry, DOMAIN registry \ S))
  BY DEF IInv, DeletePools, ViewMatchesRegistry
<1> QED BY <1>1 DEF Restrict, PublishedInOrder

\* Corrections are published as they were fetched.
LEMMA CorrectionPublished ==
  ASSUME IInv, ReconcilerNext \/ StopReconciler, NEW p \in DOMAIN cachedView'
  PROVE  PublishedInOrder(p)
<1> USE DEF IInv
<1>1. CASE ApplyReconciliation
  <2>1. /\ cachedView = registry /\ cachedView' = Reconciled
        /\ reconciler' # reconciler
    BY <1>1 DEF ApplyReconciliation, IdleReconciler, ViewMatchesRegistry
  <2> QED BY <2>1 DEF Reconciled, PublishedInOrder, AnswerApplied
<1>2. CASE StartReconciling \/ (\E q \in Pools : FetchReserves(q)) \/ Compare \/ StopReconciler
  BY <1>2 DEF StartReconciling, FetchReserves, Compare, StopReconciler, fields, PublishedInOrder
<1> QED BY <1>1, <1>2 DEF ReconcilerNext

\* Whoever publishes a view, the events of a block are seen after its number; only answers
\* from the chain's head may be ahead of it.
THEOREM NumberBeforeEvents == Spec => EventsNotAheadOfBlock
<1>1. ASSUME IInv, ListenerNext \/ StopListener, NEW p \in DOMAIN cachedView'
      PROVE  PublishedInOrder(p)
  <2> USE DEF PublishedInOrder
  <2>1. CASE PublishBlock
    BY <1>1, <2>1 DEF PublishBlock, IInv, EventsUnpublished
  <2>2. CASE SkipBlock \/ ReceiveBlock \/ FetchLogs \/ ApplyBlock \/ CountPending \/ StopListener
    BY <1>1, <2>2 DEF SkipBlock, ReceiveBlock, FetchLogs, ApplyBlock, CountPending, StopListener, fields
  <2> QED BY <1>1, <2>1, <2>2 DEF ListenerNext, ListenerRuns
<1>2. ASSUME IInv, PrunerNext \/ StopPruner, NEW p \in DOMAIN cachedView'
      PROVE  PublishedInOrder(p)
  <2>1. CASE PruneBlocked /\ DeletePools(pruner.poolsToDelete)
    BY <1>2, <2>1, DeletionPublished
  <2>2. CASE UNCHANGED fields
    BY <2>2 DEF fields, PublishedInOrder
  <2> QED BY <1>2, <2>1, <2>2 DEF PrunerNext, StartPruning, ScanPool, PruneBlocked, StopPruner
<1>3. IInv /\ [Next]_vars => \A p \in DOMAIN cachedView' : PublishedInOrder(p)
  <2> SUFFICES ASSUME IInv, [Next]_vars, NEW p \in DOMAIN cachedView' PROVE PublishedInOrder(p)
    OBVIOUS
  <2>1. CASE \E S \in SUBSET Pools : ManagerDelete(S)
    BY <2>1, DeletionPublished DEF ManagerDelete
  <2>2. CASE \/ Mine \/ Cancel \/ (\E q \in Pools : ToggleBlocked(q) \/ RegisterElsewhere(q))
             \/ UNCHANGED vars
    BY <2>2 DEF Mine, Cancel, ToggleBlocked, RegisterElsewhere, vars, fields, PublishedInOrder
  <2> QED BY <1>1, <1>2, <2>1, <2>2, BatchPublished, CorrectionPublished DEF Next
<1>4. IInv /\ [Next]_vars =>
        \A p \in DOMAIN cachedView' :
          \/ p \in DOMAIN cachedView /\ cachedView'[p] = cachedView[p]
          \/ cachedView'[p].block <= lastUpdatedAtBlock
          \/ AnswerApplied(p)
  BY <1>3 DEF PublishedInOrder
<1> QED BY <1>4, Invariance, PTL DEF Spec, EventsNotAheadOfBlock

\* No step tracks or queues a pool that is out and registered or blocked.
LEMMA OutStep ==
  ASSUME IInv, [Next]_vars, NEW p \in Pools, Out(p), p \in registered \/ p \in blocked
  PROVE  Out(p)'
<1> USE DEF IInv
<1>0. p \notin DOMAIN registry /\ p \notin pendingInit /\ p \notin initializer.batch
  BY DEF Out
<1>1. SUFFICES p \notin DOMAIN registry' /\ p \notin pendingInit' /\ p \notin initializer'.batch
  BY DEF Out
<1>2. CASE Mine \/ Cancel \/ \E q \in Pools : ToggleBlocked(q) \/ RegisterElsewhere(q)
  BY <1>0, <1>2 DEF Mine, Cancel, ToggleBlocked, RegisterElsewhere, fields, locals
<1>3. CASE \E S \in SUBSET Pools : ManagerDelete(S)
  <2>1. PICK S \in SUBSET Pools : ManagerDelete(S)
    BY <1>3
  <2>2. DeletePools(S) /\ UNCHANGED <<env, locals>>
    BY <2>1 DEF ManagerDelete
  <2> QED BY <1>0, <2>2, DeletePoolsEffect DEF env, locals
<1>4. CASE ListenerNext \/ StopListener
  <2>1. CASE ApplyBlock
    <3>1. DOMAIN registry' = DOMAIN registry
      BY <2>1, ListenerParts, UpdatedType DEF ApplyBlock
    <3> QED BY <1>0, <2>1, <3>1 DEF ApplyBlock, Discovered, listenerOnly
  <2>2. CASE SkipBlock \/ ReceiveBlock \/ FetchLogs \/ PublishBlock \/ CountPending \/ StopListener
    BY <1>0, <2>2 DEF SkipBlock, ReceiveBlock, FetchLogs, PublishBlock, CountPending, StopListener,
                      listenerOnly, fields
  <2> QED BY <1>4, <2>1, <2>2 DEF ListenerNext, ListenerRuns
<1>5. CASE InitializerNext \/ StopInitializer
  <2>1. CASE DrainPending
    BY <1>0, <2>1 DEF DrainPending, TypeOK, InitializerState
  <2>2. CASE ResetGauge
    <3>1. \/ initializer' = IdleInitializer
          \/ initializer' = [initializer EXCEPT !.pc = "fetching", !.todo = initializer.batch]
      BY <2>2 DEF ResetGauge
    <3>2. initializer'.batch \subseteq initializer.batch
      <4>1. CASE initializer' = IdleInitializer
        BY <4>1 DEF IdleInitializer
      <4>2. CASE initializer' = [initializer EXCEPT !.pc = "fetching", !.todo = initializer.batch]
        BY <4>2 DEF TypeOK, InitializerState
      <4> QED BY <3>1, <4>1, <4>2
    <3> QED BY <1>0, <2>2, <3>2 DEF ResetGauge
  <2>3. CASE \E q \in Pools : InitializePool(q)
    BY <1>0, <2>3 DEF InitializePool, fields, TypeOK, InitializerState
  <2>4. CASE ApplyInitializations
    <3>1. PICK ok \in SUBSET DOMAIN initializer.found, added \in SUBSET DOMAIN initializer.found :
            registered' = registered \cup ok /\ registry' = WithInitialized(added)
      BY <2>4 DEF ApplyInitializations
    <3>2. p \notin added
      BY <1>0 DEF BatchInFlight
    <3> QED BY <1>0, <2>4, <3>1, <3>2 DEF WithInitialized, ApplyInitializations, IdleInitializer
  <2>5. CASE StopInitializer
    BY <1>0, <2>5 DEF StopInitializer, fields, TypeOK, InitializerState
  <2> QED BY <1>5, <2>1, <2>2, <2>3, <2>4, <2>5 DEF InitializerNext
<1>6. CASE PrunerNext \/ StopPruner
  <2>1. CASE PruneBlocked
    BY <1>0, <2>1, DeletePoolsEffect DEF PruneBlocked, prunerOnly, env, fields
  <2>2. CASE StartPruning \/ (\E q \in Pools : ScanPool(q)) \/ StopPruner
    BY <1>0, <2>2 DEF StartPruning, ScanPool, StopPruner, prunerOnly, scanOnly, env, fields
  <2> QED BY <1>6, <2>1, <2>2 DEF PrunerNext
<1>7. CASE ReconcilerNext \/ StopReconciler
  <2>1. CASE ApplyReconciliation
    BY <1>0, <2>1, ReconciledType DEF ApplyReconciliation, reconcilerOnly
  <2>2. CASE StartReconciling \/ (\E q \in Pools : FetchReserves(q)) \/ Compare \/ StopReconciler
    BY <1>0, <2>2 DEF StartReconciling, FetchReserves, Compare, StopReconciler,
                      reconcilerOnly, fields
  <2> QED BY <1>7, <2>1, <2>2 DEF ReconcilerNext
<1>8. CASE UNCHANGED vars
  BY <1>0, <1>8 DEF vars, env, fields, locals
<1> QED BY <1>2, <1>3, <1>4, <1>5, <1>6, <1>7, <1>8 DEF Next

\* A deleted or blocked pool never comes back, whatever events, batches and corrections are in
\* flight.
THEOREM NoResurrection == Spec => DeletedStaysDeleted
<1>1. IInv /\ [Next]_vars =>
        \A p \in Pools : Out(p) /\ (p \in registered \/ p \in blocked) => Out(p)'
  BY OutStep
<1> QED BY <1>1, Invariance, PTL DEF Spec, DeletedStaysDeleted
-----------------------------------------------------------------------------
(***************************************************************************)
(* The safety half of two liveness properties: what QueuedPoolsAreTracked  *)
(* waits for is never lost on the way, and what ViewConverges reaches      *)
(* stays.                                                                  *)
(***************************************************************************)

\* A pool on its way from the queue to the registry.
InFlight(p) ==
  \/ p \in pendingInit
  \/ initializer.pc = "resetting" /\ p \in initializer.batch
  \/ initializer.pc = "fetching" /\ p \in initializer.todo \cup DOMAIN initializer.found

\* A queued pool of a known factory is on its way until it is in the view, unless a call fails
\* or the system is shut down: no drain, no full batch, no deletion and no block loses it.
QueuedPoolsAreKept ==
  [][\A p \in Trusted : InFlight(p) =>
       InFlight(p)' \/ p \in DOMAIN cachedView' \/ faults' < faults \/ ctxDone]_vars

\* The pool's reserves are the chain's wherever the system holds them, and no block is to come.
Settled(p) ==
  /\ newBlockEventer = << >>
  /\ listener.pc \notin {"fetching", "applying"}
  /\ p \in DOMAIN registry => registry[p].reserve = chain[p]
  /\ p \in DOMAIN cachedView => cachedView[p].reserve = chain[p]
  /\ p \in DOMAIN initializer.found => initializer.found[p].reserve = chain[p]
  /\ p \in DOMAIN reconciler.fresh => reconciler.fresh[p].reserve = chain[p]

\* Once a pool's reserves are right they stay right until the next block, whatever is in flight,
\* deleted, queued, corrected or published in any order.
SettledStaysSettled == [][\A p \in Pools : Settled(p) /\ head' = head => Settled(p)']_vars

\* Only the initializer takes pools from the queue.
LEMMA QueueGrows ==
  ASSUME [Next]_vars
  PROVE  pendingInit \subseteq pendingInit' \/ DrainPending
<1>1. CASE Mine \/ Cancel \/ \E p \in Pools : ToggleBlocked(p) \/ RegisterElsewhere(p)
  BY <1>1 DEF Mine, Cancel, ToggleBlocked, RegisterElsewhere, fields
<1>2. CASE \E S \in SUBSET Pools : ManagerDelete(S)
  BY <1>2 DEF ManagerDelete, DeletePools
<1>3. CASE ListenerNext \/ StopListener
  BY <1>3 DEF ListenerNext, ListenerRuns, StopListener, SkipBlock, ReceiveBlock,
              FetchLogs, ApplyBlock, PublishBlock, CountPending, fields
<1>4. CASE InitializerNext \/ StopInitializer
  BY <1>4 DEF InitializerNext, StopInitializer, ResetGauge, InitializePool,
              ApplyInitializations, fields
<1>5. CASE PrunerNext \/ StopPruner
  BY <1>5 DEF PrunerNext, StopPruner, StartPruning, ScanPool, PruneBlocked, DeletePools, fields
<1>6. CASE ReconcilerNext \/ StopReconciler
  BY <1>6 DEF ReconcilerNext, StopReconciler, StartReconciling, FetchReserves, Compare,
              ApplyReconciliation, fields
<1>7. CASE UNCHANGED vars
  BY <1>7 DEF vars, fields
<1> QED BY <1>1, <1>2, <1>3, <1>4, <1>5, <1>6, <1>7 DEF Next

\* A step of the initializer moves a pool of a known factory on, or a call has failed.
LEMMA InitializerKeepsPools ==
  ASSUME IInv, IInv', InitializerNext \/ StopInitializer, NEW p \in Trusted, InFlight(p)
  PROVE  InFlight(p)' \/ p \in DOMAIN cachedView' \/ faults' < faults \/ ctxDone
<1> USE DEF IInv
<1>1. initializer \in InitializerState /\ faults \in Nat
  BY SystemAssumption DEF TypeOK
<1>2. CASE DrainPending
  <2>1. initializer.pc = "idle" /\ p \in pendingInit
    BY <1>2 DEF DrainPending, InFlight
  <2>2. initializer'.pc = "resetting" /\ p \in initializer'.batch
    BY <1>1, <1>2, <2>1 DEF DrainPending, InitializerState
  <2> QED BY <2>2 DEF InFlight
<1>3. CASE ResetGauge
  <2>1. CASE p \in pendingInit
    BY <1>3, <2>1 DEF ResetGauge, InFlight
  <2>2. CASE p \in initializer.batch
    <3>1. \/ initializer' = [initializer EXCEPT !.pc = "fetching", !.todo = initializer.batch]
          \/ Fault
      BY <1>3, <2>2 DEF ResetGauge
    <3>2. CASE Fault
      BY <1>1, <3>2 DEF Fault
    <3>3. CASE initializer' = [initializer EXCEPT !.pc = "fetching", !.todo = initializer.batch]
      BY <1>1, <2>2, <3>3 DEF InFlight, InitializerState
    <3> QED BY <3>1, <3>2, <3>3
  <2>3. initializer.pc = "resetting"
    BY <1>3 DEF ResetGauge
  <2> QED BY <2>1, <2>2, <2>3 DEF InFlight
<1>4. ASSUME NEW q \in Pools, InitializePool(q)
      PROVE  InFlight(p)' \/ faults' < faults \/ ctxDone
  <2>1. pendingInit' = pendingInit /\ initializer.pc = "fetching" /\ initializer'.pc = "fetching"
    BY <1>1, <1>4 DEF InitializePool, fields, InitializerState
  <2>2. CASE p = q /\ (FaultOrCancelled \/ p \notin Trusted)
    BY <1>1, <2>2 DEF FaultOrCancelled, Fault
  <2>3. CASE ~(p = q /\ (FaultOrCancelled \/ p \notin Trusted))
    <3>1. \/ /\ initializer'.todo = initializer.todo \ {q}
             /\ initializer'.found = WithAnswer(initializer.found, q)
          \/ /\ initializer'.todo = initializer.todo \ {q}
             /\ initializer'.found = initializer.found
             /\ p # q
      BY <1>1, <1>4, <2>3 DEF InitializePool, InitializerState
    <3>2. DOMAIN WithAnswer(initializer.found, q) = DOMAIN initializer.found \cup {q}
      BY InitializerParts, WithAnswerType
    <3> QED BY <2>1, <3>1, <3>2 DEF InFlight
  <2> QED BY <2>2, <2>3
<1>5. CASE ApplyInitializations
  <2>1. PICK ok \in SUBSET DOMAIN initializer.found : \E added \in SUBSET (ok \ DOMAIN registry) :
          /\ IF ok = DOMAIN initializer.found /\ added = ok \ DOMAIN registry THEN NoFault ELSE Fault
          /\ registry' = WithInitialized(added)
    BY <1>5 DEF ApplyInitializations
  <2>2. PICK added \in SUBSET (ok \ DOMAIN registry) :
          /\ IF ok = DOMAIN initializer.found /\ added = ok \ DOMAIN registry THEN NoFault ELSE Fault
          /\ registry' = WithInitialized(added)
    BY <2>1
  <2>3. CASE Fault
    BY <1>1, <2>3 DEF Fault
  <2>4. CASE p \in pendingInit
    BY <1>5, <2>4 DEF ApplyInitializations, InFlight
  <2>5. CASE ~Fault /\ p \notin pendingInit
    <3>1. p \in DOMAIN initializer.found
      BY <1>5, <2>5 DEF ApplyInitializations, InFlight
    <3>2. added = DOMAIN initializer.found \ DOMAIN registry
      BY <2>2, <2>5
    <3>3. DOMAIN registry' = DOMAIN registry \cup added
      BY <2>2 DEF WithInitialized
    <3>4. cachedView' = registry'
      BY <1>5 DEF ApplyInitializations, ViewMatchesRegistry
    <3> QED BY <3>1, <3>2, <3>3, <3>4
  <2> QED BY <2>3, <2>4, <2>5
<1>6. CASE StopInitializer
  <2>1. p \in pendingInit /\ pendingInit' = pendingInit
    BY <1>6 DEF StopInitializer, InFlight, fields
  <2> QED BY <2>1 DEF InFlight
<1> QED BY <1>2, <1>3, <1>4, <1>5, <1>6 DEF InitializerNext

\* No pool of a known factory is lost between the queue and the view.
THEOREM NothingQueuedIsLost == Spec => QueuedPoolsAreKept
<1>1. IInv /\ IInv' /\ [Next]_vars =>
        \A p \in Trusted : InFlight(p) =>
          InFlight(p)' \/ p \in DOMAIN cachedView' \/ faults' < faults \/ ctxDone
  <2> SUFFICES ASSUME IInv, IInv', [Next]_vars, NEW p \in Trusted, InFlight(p)
               PROVE  InFlight(p)' \/ p \in DOMAIN cachedView' \/ faults' < faults \/ ctxDone
    OBVIOUS
  <2>1. CASE InitializerNext \/ StopInitializer
    BY <2>1, InitializerKeepsPools
  <2>2. CASE UNCHANGED initializer
    <3>1. CASE DrainPending
      BY <3>1, InitializerKeepsPools DEF InitializerNext
    <3>2. CASE pendingInit \subseteq pendingInit'
      BY <2>2, <3>2 DEF InFlight
    <3> QED BY <3>1, <3>2, QueueGrows
  <2> QED BY <2>1, <2>2, StepFrames
<1> QED BY <1>1, Invariance, PTL DEF Spec, QueuedPoolsAreKept

\* A step that writes only reserves that the pool has on chain keeps it settled.
LEMMA SettledStep ==
  ASSUME IInv, IInv', [Next]_vars, NEW p \in Pools, Settled(p), head' = head
  PROVE  Settled(p)'
<1> USE DEF IInv
<1>0. head \in Nat /\ initializer \in InitializerState /\ reconciler \in ReconcilerState
  BY SystemAssumption DEF TypeOK
<1>1. CASE Mine
  BY <1>0, <1>1 DEF Mine
<1>2. CASE Cancel \/ \E q \in Pools : ToggleBlocked(q) \/ RegisterElsewhere(q)
  BY <1>2 DEF Cancel, ToggleBlocked, RegisterElsewhere, fields, locals, Settled
<1>3. CASE \E S \in SUBSET Pools : ManagerDelete(S)
  BY <1>3 DEF ManagerDelete, DeletePools, Restrict, env, locals, Settled
<1>4. CASE ListenerNext \/ StopListener
  <2>1. CASE SkipBlock \/ ReceiveBlock \/ FetchLogs \/ ApplyBlock
    BY <2>1 DEF SkipBlock, ReceiveBlock, FetchLogs, ApplyBlock, Settled
  <2>2. CASE PublishBlock \/ CountPending \/ StopListener
    <3>1. listener'.pc \notin {"fetching", "applying"}
      BY <2>2, ListenerParts, IdleTypes DEF PublishBlock, CountPending, StopListener
    <3> QED BY <2>2, <3>1 DEF PublishBlock, CountPending, StopListener, listenerOnly, fields, Settled
  <2> QED BY <1>4, <2>1, <2>2 DEF ListenerNext, ListenerRuns
<1>5. CASE InitializerNext \/ StopInitializer
  <2>1. UNCHANGED <<newBlockEventer, chain, listener, reconciler>>
    BY <1>5 DEF InitializerNext, StopInitializer, DrainPending, ResetGauge, InitializePool,
                ApplyInitializations, initializerOnly
  <2>2. CASE DrainPending \/ ResetGauge \/ StopInitializer
    <3>1. UNCHANGED <<registry, cachedView>>
      BY <2>2 DEF DrainPending, ResetGauge, StopInitializer, fields
    <3>2. initializer'.found = initializer.found \/ DOMAIN initializer'.found = {}
      <4>1. CASE DrainPending
        BY <1>0, <4>1 DEF DrainPending, InitializerState
      <4>2. CASE ResetGauge
        <5>1. \/ initializer' = IdleInitializer
              \/ initializer' = [initializer EXCEPT !.pc = "fetching", !.todo = initializer.batch]
          BY <4>2 DEF ResetGauge
        <5>2. CASE initializer' = IdleInitializer
          BY <5>2 DEF IdleInitializer, Empty
        <5>3. CASE initializer' = [initializer EXCEPT !.pc = "fetching", !.todo = initializer.batch]
          BY <1>0, <5>3 DEF InitializerState
        <5> QED BY <5>1, <5>2, <5>3
      <4>3. CASE StopInitializer
        BY <1>0, <4>3 DEF StopInitializer, InitializerState
      <4> QED BY <2>2, <4>1, <4>2, <4>3
    <3>3. p \in DOMAIN initializer'.found => initializer'.found[p].reserve = chain[p]
      <4>1. CASE initializer'.found = initializer.found
        BY <4>1 DEF Settled
      <4>2. CASE DOMAIN initializer'.found = {}
        BY <4>2
      <4> QED BY <3>2, <4>1, <4>2
    <3> QED BY <2>1, <3>1, <3>3 DEF Settled
  <2>3. ASSUME NEW q \in Pools, InitializePool(q) PROVE Settled(p)'
    <3>1. UNCHANGED <<registry, cachedView>>
      BY <2>3 DEF InitializePool, fields
    <3>2. \/ initializer'.found = initializer.found
          \/ initializer'.found = WithAnswer(initializer.found, q)
      BY <1>0, <2>3 DEF InitializePool, InitializerState
    <3> QED BY <2>1, <3>1, <3>2 DEF Settled, WithAnswer
  <2>4. CASE ApplyInitializations
    <3>1. PICK added \in SUBSET DOMAIN initializer.found :
            /\ registry' = WithInitialized(added)
            /\ cachedView' = registry' \/ cachedView' = cachedView
      BY <2>4 DEF ApplyInitializations
    <3>2. DOMAIN initializer'.found = {}
      BY <2>4 DEF ApplyInitializations, IdleInitializer, Empty
    <3> QED BY <2>1, <3>1, <3>2 DEF Settled, WithInitialized
  <2> QED BY <1>5, <2>2, <2>3, <2>4 DEF InitializerNext
<1>6. CASE PrunerNext \/ StopPruner
  BY <1>6 DEF PrunerNext, StopPruner, StartPruning, ScanPool, PruneBlocked, DeletePools, Restrict,
              prunerOnly, scanOnly, env, fields, Settled
<1>7. CASE ReconcilerNext \/ StopReconciler
  <2>1. UNCHANGED <<newBlockEventer, chain, listener, initializer>>
    BY <1>7 DEF ReconcilerNext, StopReconciler, StartReconciling, FetchReserves, Compare,
                ApplyReconciliation, reconcilerOnly
  <2>2. CASE ApplyReconciliation
    <3>1. DOMAIN reconciler'.fresh = {}
      BY <2>2 DEF ApplyReconciliation, IdleReconciler, Empty
    <3> QED BY <2>1, <2>2, <3>1 DEF ApplyReconciliation, Reconciled, Settled
  <2>3. CASE StartReconciling \/ Compare \/ StopReconciler
    <3>1. UNCHANGED <<registry, cachedView>>
      BY <2>3 DEF StartReconciling, Compare, StopReconciler, fields
    <3>2. \/ reconciler'.fresh = reconciler.fresh
          \/ DOMAIN reconciler'.fresh = {}
          \/ reconciler'.fresh = Restrict(reconciler.fresh, updatesToApply)
      <4>1. CASE StartReconciling
        <5>1. PICK found \in SUBSET DOMAIN cachedView :
                reconciler' = (IF found = {} THEN IdleReconciler
                               ELSE [pc |-> "fetching", prev |-> Restrict(cachedView, found),
                                     todo |-> found, fresh |-> Empty])
          BY <4>1 DEF StartReconciling
        <5>2. reconciler'.fresh = Empty
          BY <5>1 DEF IdleReconciler
        <5> QED BY <5>2 DEF Empty
      <4>2. CASE Compare
        <5>1. CASE updatesToApply = {}
          BY <4>2, <5>1 DEF Compare, IdleReconciler, Empty
        <5>2. CASE updatesToApply # {}
          BY <4>2, <5>2 DEF Compare, IdleReconciler
        <5> QED BY <5>1, <5>2
      <4>3. CASE StopReconciler
        BY <1>0, <4>3 DEF StopReconciler, ReconcilerState
      <4> QED BY <2>3, <4>1, <4>2, <4>3
    <3>3. updatesToApply \subseteq DOMAIN reconciler.fresh
      BY DEF updatesToApply
    <3>4. p \in DOMAIN reconciler'.fresh => reconciler'.fresh[p].reserve = chain[p]
      <4>1. CASE reconciler'.fresh = reconciler.fresh
        BY <4>1 DEF Settled
      <4>2. CASE DOMAIN reconciler'.fresh = {}
        BY <4>2
      <4>3. CASE reconciler'.fresh = Restrict(reconciler.fresh, updatesToApply)
        BY <3>3, <4>3 DEF Settled, Restrict
      <4> QED BY <3>2, <4>1, <4>2, <4>3
    <3> QED BY <2>1, <3>1, <3>4 DEF Settled
  <2>4. ASSUME NEW q \in Pools, FetchReserves(q) PROVE Settled(p)'
    <3>1. UNCHANGED <<registry, cachedView>>
      BY <2>4 DEF FetchReserves, fields
    <3>2. \/ reconciler'.fresh = reconciler.fresh
          \/ reconciler'.fresh = WithAnswer(reconciler.fresh, q)
      BY <1>0, <2>4 DEF FetchReserves, ReconcilerState
    <3> QED BY <2>1, <3>1, <3>2 DEF Settled, WithAnswer
  <2> QED BY <1>7, <2>2, <2>3, <2>4 DEF ReconcilerNext
<1>8. CASE UNCHANGED vars
  BY <1>8 DEF vars, env, fields, locals, Settled
<1> QED BY <1>1, <1>2, <1>3, <1>4, <1>5, <1>6, <1>7, <1>8 DEF Next

\* A view that has converged stays converged while no block is mined.
THEOREM ConvergenceIsKept == Spec => SettledStaysSettled
<1>1. IInv /\ IInv' /\ [Next]_vars => \A p \in Pools : Settled(p) /\ head' = head => Settled(p)'
  BY SettledStep
<1> QED BY <1>1, Invariance, PTL DEF Spec, SettledStaysSettled
-----------------------------------------------------------------------------
(***************************************************************************)
(* The safety half of BlocksAreHandled: the number that consumers read and *)
(* the blocks still to be handled make up the chain.                       *)
(***************************************************************************)

\* How many blocks the listener has yet to count: those announced and the one it has taken.
Unhandled == Len(newBlockEventer) + IF listener.pc \in {"fetching", "applying"} THEN 1 ELSE 0

\* The blocks announced are the chain's last ones, in order; the listener has the one before.
NumbersInOrder ==
  /\ \A k \in 1 .. Len(newBlockEventer) : newBlockEventer[k].number + Len(newBlockEventer) = head + k
  /\ listener.pc \in {"fetching", "applying"} => listener.block.number + Len(newBlockEventer) = head
  /\ lastUpdatedAtBlock + Unhandled <= head

\* Until a call fails or the context is done the number leaves out no block and is ahead of none:
\* what is mined is counted or still to be handled.
NoGap == faults = MaxFaults /\ ~ctxDone => lastUpdatedAtBlock + Unhandled = head

BInv == IInv /\ NumbersInOrder /\ NoGap

\* Failures are only used up.
LEMMA FaultsFall ==
  ASSUME [Next]_vars
  PROVE  faults' = faults \/ (faults' = faults - 1 /\ faults > 0)
<1> USE DEF NoFault, Fault
<1>1. CASE Mine \/ Cancel \/ \E p \in Pools : ToggleBlocked(p) \/ RegisterElsewhere(p)
  BY <1>1 DEF Mine, Cancel, ToggleBlocked, RegisterElsewhere, fields, locals
<1>2. CASE \E S \in SUBSET Pools : ManagerDelete(S)
  BY <1>2 DEF ManagerDelete, DeletePools, env, locals
<1>3. CASE ListenerNext \/ StopListener
  BY <1>3 DEF ListenerNext, ListenerRuns, StopListener, SkipBlock, ReceiveBlock,
              FetchLogs, ApplyBlock, PublishBlock, CountPending, FaultOrCancelled, listenerOnly
<1>4. CASE InitializerNext \/ StopInitializer
  BY <1>4 DEF InitializerNext, StopInitializer, DrainPending, ResetGauge, InitializePool,
              ApplyInitializations, FaultOrCancelled, initializerOnly, fields
<1>5. CASE PrunerNext \/ StopPruner
  BY <1>5 DEF PrunerNext, StopPruner, StartPruning, ScanPool, PruneBlocked, DeletePools,
              prunerOnly, scanOnly, env, fields
<1>6. CASE ReconcilerNext \/ StopReconciler
  BY <1>6 DEF ReconcilerNext, StopReconciler, StartReconciling, FetchReserves, Compare,
              ApplyReconciliation, FaultOrCancelled, reconcilerOnly, fields
<1>7. CASE UNCHANGED vars
  BY <1>7 DEF vars, env, fields, locals
<1> QED BY <1>1, <1>2, <1>3, <1>4, <1>5, <1>6, <1>7 DEF Next

\* The context is done for good.
LEMMA ContextStays ==
  ASSUME [Next]_vars
  PROVE  ctxDone => ctxDone'
<1>1. CASE Mine \/ Cancel \/ \E p \in Pools : ToggleBlocked(p) \/ RegisterElsewhere(p)
  BY <1>1 DEF Mine, Cancel, ToggleBlocked, RegisterElsewhere, fields, locals
<1>2. CASE \E S \in SUBSET Pools : ManagerDelete(S)
  BY <1>2 DEF ManagerDelete, DeletePools, env, locals
<1>3. CASE ListenerNext \/ StopListener
  BY <1>3 DEF ListenerNext, ListenerRuns, StopListener, SkipBlock, ReceiveBlock,
              FetchLogs, ApplyBlock, PublishBlock, CountPending, FaultOrCancelled, listenerOnly
<1>4. CASE InitializerNext \/ StopInitializer
  BY <1>4 DEF InitializerNext, StopInitializer, DrainPending, ResetGauge, InitializePool,
              ApplyInitializations, FaultOrCancelled, initializerOnly, fields
<1>5. CASE PrunerNext \/ StopPruner
  BY <1>5 DEF PrunerNext, StopPruner, StartPruning, ScanPool, PruneBlocked, DeletePools,
              prunerOnly, scanOnly, env, fields
<1>6. CASE ReconcilerNext \/ StopReconciler
  BY <1>6 DEF ReconcilerNext, StopReconciler, StartReconciling, FetchReserves, Compare,
              ApplyReconciliation, FaultOrCancelled, reconcilerOnly, fields
<1>7. CASE UNCHANGED vars
  BY <1>7 DEF vars, env, fields, locals
<1> QED BY <1>1, <1>2, <1>3, <1>4, <1>5, <1>6, <1>7 DEF Next

\* The numbers are touched by the chain and the listener alone.
LEMMA NumberFrames ==
  ASSUME [Next]_vars
  PROVE  \/ UNCHANGED <<head, newBlockEventer, lastUpdatedAtBlock, listener>>
         \/ Mine \/ ListenerNext \/ StopListener
<1>1. CASE Mine \/ Cancel \/ \E p \in Pools : ToggleBlocked(p) \/ RegisterElsewhere(p)
  BY <1>1 DEF Mine, Cancel, ToggleBlocked, RegisterElsewhere, fields, locals
<1>2. CASE \E S \in SUBSET Pools : ManagerDelete(S)
  BY <1>2 DEF ManagerDelete, DeletePools, env, locals
<1>3. CASE ListenerNext \/ StopListener
  BY <1>3 DEF ListenerNext, ListenerRuns, StopListener, SkipBlock, ReceiveBlock,
              FetchLogs, ApplyBlock, PublishBlock, CountPending, FaultOrCancelled, listenerOnly
<1>4. CASE InitializerNext \/ StopInitializer
  BY <1>4 DEF InitializerNext, StopInitializer, DrainPending, ResetGauge, InitializePool,
              ApplyInitializations, FaultOrCancelled, initializerOnly, fields
<1>5. CASE PrunerNext \/ StopPruner
  BY <1>5 DEF PrunerNext, StopPruner, StartPruning, ScanPool, PruneBlocked, DeletePools,
              prunerOnly, scanOnly, env, fields
<1>6. CASE ReconcilerNext \/ StopReconciler
  BY <1>6 DEF ReconcilerNext, StopReconciler, StartReconciling, FetchReserves, Compare,
              ApplyReconciliation, FaultOrCancelled, reconcilerOnly, fields
<1>7. CASE UNCHANGED vars
  BY <1>7 DEF vars, env, fields, locals
<1> QED BY <1>1, <1>2, <1>3, <1>4, <1>5, <1>6, <1>7 DEF Next

\* A block counted or taken from the channel is the next one in order.
LEMMA NumbersStep == BInv /\ [Next]_vars => (NumbersInOrder /\ NoGap)'
<1> SUFFICES ASSUME BInv, [Next]_vars PROVE (NumbersInOrder /\ NoGap)'
  OBVIOUS
<1> USE DEF BInv
<1>1. /\ head \in Nat /\ lastUpdatedAtBlock \in Nat /\ faults \in Nat /\ faults <= MaxFaults
      /\ MaxFaults \in Nat
      /\ newBlockEventer \in Seq(Block) /\ Len(newBlockEventer) \in Nat
  BY SystemAssumption DEF IInv, TypeOK
<1>2. /\ faults' = MaxFaults => faults = MaxFaults
      /\ ~ctxDone' => ~ctxDone
  <2>1. faults' = faults \/ (faults' = faults - 1 /\ faults > 0)
    BY FaultsFall DEF BInv
  <2> QED BY <1>1, <2>1, ContextStays
<1>3. /\ Unhandled \in Nat
      /\ lastUpdatedAtBlock + Unhandled <= head
      /\ faults = MaxFaults /\ ~ctxDone => lastUpdatedAtBlock + Unhandled = head
      /\ listener.pc \in {"fetching", "applying"} => listener.block.number + Len(newBlockEventer) = head
  BY <1>1 DEF NumbersInOrder, NoGap, Unhandled
<1>4. \A k \in 1 .. Len(newBlockEventer) :
        newBlockEventer[k].number \in Nat /\ newBlockEventer[k].number + Len(newBlockEventer) = head + k
  <2>1. \A k \in 1 .. Len(newBlockEventer) : newBlockEventer[k] \in Block
    BY <1>1
  <2>2. \A b \in Block : b.number \in Nat
    BY <1>1 DEF Block
  <2> QED BY <2>1, <2>2 DEF NumbersInOrder
<1>5. CASE UNCHANGED <<head, newBlockEventer, lastUpdatedAtBlock, listener>>
  BY <1>2, <1>5 DEF NumbersInOrder, NoGap, Unhandled
<1>6. CASE Mine
  <2>1. PICK b : newBlockEventer' = Append(newBlockEventer, b) /\ b.number = head + 1
    BY <1>6 DEF Mine
  <2>2. head' = head + 1 /\ lastUpdatedAtBlock' = lastUpdatedAtBlock /\ listener' = listener
    BY <1>6 DEF Mine, fields, locals
  <2>3. b.number = head + 1
    BY <2>1
  <2>4. /\ Len(newBlockEventer') = Len(newBlockEventer) + 1
        /\ \A k \in 1 .. Len(newBlockEventer) : newBlockEventer'[k] = newBlockEventer[k]
        /\ newBlockEventer'[Len(newBlockEventer) + 1] = b
    BY <1>1, <2>1
  <2>5. ASSUME NEW k \in 1 .. Len(newBlockEventer')
        PROVE  newBlockEventer'[k].number + Len(newBlockEventer') = head' + k
    <3>1. CASE k = Len(newBlockEventer) + 1
      BY <1>1, <2>2, <2>3, <2>4, <3>1
    <3>2. CASE k \in 1 .. Len(newBlockEventer)
      <4>1. newBlockEventer[k].number \in Nat /\ newBlockEventer[k].number + Len(newBlockEventer) = head + k
        BY <1>4, <3>2
      <4>2. newBlockEventer'[k] = newBlockEventer[k]
        BY <2>4, <3>2
      <4>3. Len(newBlockEventer') = Len(newBlockEventer) + 1 /\ head' = head + 1 /\ k \in Nat
        BY <1>1, <2>2, <2>4, <3>2
      <4>4. newBlockEventer'[k].number + (Len(newBlockEventer) + 1) = (head + 1) + k
        BY <1>1, <4>1, <4>2, <4>3
      <4> QED BY <4>3, <4>4
    <3> QED BY <1>1, <2>4, <3>1, <3>2
  <2>6. listener.block.number \in Nat
    BY ListenerParts, SystemAssumption DEF Block, IInv
  <2>7. Unhandled' = Unhandled + 1 /\ Unhandled \in Nat
    BY <1>1, <2>2, <2>4 DEF Unhandled
  <2>8. NumbersInOrder'
    <3>1. listener'.pc \in {"fetching", "applying"} =>
            listener'.block.number + Len(newBlockEventer') = head'
      <4>1. listener.pc \in {"fetching", "applying"} =>
              listener.block.number + (Len(newBlockEventer) + 1) = head + 1
        BY <1>1, <1>3, <2>6
      <4> QED BY <2>2, <2>4, <4>1
    <3>2. lastUpdatedAtBlock' + Unhandled' <= head'
      BY <1>1, <1>3, <2>2, <2>7
    <3> QED BY <2>5, <3>1, <3>2 DEF NumbersInOrder
  <2>9. NoGap'
    <3>1. faults' = MaxFaults /\ ~ctxDone' => lastUpdatedAtBlock' + Unhandled' = head'
      BY <1>1, <1>2, <1>3, <2>2, <2>7
    <3> QED BY <3>1 DEF NoGap
  <2> QED BY <2>8, <2>9
<1>7. CASE SkipBlock \/ ReceiveBlock
  <2>1. /\ newBlockEventer # << >> /\ newBlockEventer' = Tail(newBlockEventer)
        /\ listener.pc \notin {"fetching", "applying"} /\ head' = head
    BY <1>7 DEF SkipBlock, ReceiveBlock, listenerOnly
  <2>2. /\ Len(newBlockEventer) > 0 /\ Len(newBlockEventer') = Len(newBlockEventer) - 1
        /\ \A k \in 1 .. Len(newBlockEventer') : newBlockEventer'[k] = newBlockEventer[k + 1]
        /\ Head(newBlockEventer) = newBlockEventer[1]
    BY <1>1, <2>1
  <2>4. \A k \in 1 .. Len(newBlockEventer') : newBlockEventer'[k].number + Len(newBlockEventer') = head' + k
    <3>1. ASSUME NEW k \in 1 .. Len(newBlockEventer')
          PROVE  newBlockEventer'[k].number + Len(newBlockEventer') = head' + k
      <4>1. k + 1 \in 1 .. Len(newBlockEventer) /\ k \in Nat
        BY <1>1, <2>2
      <4>2. /\ newBlockEventer'[k] = newBlockEventer[k + 1]
            /\ newBlockEventer[k + 1].number \in Nat
            /\ newBlockEventer[k + 1].number + Len(newBlockEventer) = head + (k + 1)
        BY <1>4, <2>2, <4>1
      <4>3. /\ Len(newBlockEventer') = Len(newBlockEventer) - 1 /\ head' = head
            /\ Len(newBlockEventer) \in Int /\ head \in Int /\ k \in Int
        BY <1>1, <2>1, <2>2, <4>1
      <4>4. newBlockEventer'[k].number + (Len(newBlockEventer) - 1) = head + k
        <5> DEFINE l == Len(newBlockEventer)
                   n == newBlockEventer[k + 1].number
        <5>1. l \in Int /\ n \in Int /\ head \in Int /\ k \in Int /\ n + l = head + (k + 1)
          BY <4>2, <4>3
        <5> HIDE DEF l, n
        <5>2. n + (l - 1) = head + k
          BY <5>1
        <5> QED BY <4>2, <5>2 DEF l, n
      <4> QED BY <4>3, <4>4
    <3> QED BY <3>1
  <2>5. Head(newBlockEventer).number \in Nat /\ Head(newBlockEventer).number + Len(newBlockEventer) = head + 1
    <3>1. 1 \in 1 .. Len(newBlockEventer)
      BY <1>1, <2>2
    <3> QED BY <1>4, <2>2, <3>1
  <2>6. Unhandled = Len(newBlockEventer)
    BY <1>1, <2>1 DEF Unhandled
  <2>7. CASE SkipBlock
    <3>1. lastUpdatedAtBlock' = Head(newBlockEventer).number /\ listener' = listener
      BY <2>7 DEF SkipBlock
    <3>2. Unhandled' = Len(newBlockEventer) - 1
      BY <1>1, <2>1, <2>2, <3>1 DEF Unhandled
    <3>3. lastUpdatedAtBlock' + Unhandled' = head' /\ lastUpdatedAtBlock' + Unhandled' <= head'
      <4>1. Head(newBlockEventer).number + (Len(newBlockEventer) - 1) = head
        BY <1>1, <2>5
      <4> QED BY <1>1, <2>1, <3>1, <3>2, <4>1
    <3> QED BY <2>1, <2>4, <3>1, <3>3 DEF NumbersInOrder, NoGap
  <2>8. CASE ReceiveBlock
    <3>1. /\ lastUpdatedAtBlock' = lastUpdatedAtBlock /\ faults' = faults
          /\ listener'.pc = "fetching" /\ listener'.block = Head(newBlockEventer)
      BY <2>8, ListenerParts DEF ReceiveBlock, fields, IInv
    <3>2. Unhandled' = Len(newBlockEventer)
      BY <1>1, <2>2, <3>1 DEF Unhandled
    <3>3. listener'.block.number + Len(newBlockEventer') = head'
      <4>1. Head(newBlockEventer).number + (Len(newBlockEventer) - 1) = head
        BY <1>1, <2>5
      <4> QED BY <2>1, <2>2, <3>1, <4>1
    <3>4. lastUpdatedAtBlock' + Unhandled' <= head'
      BY <1>1, <1>3, <2>1, <2>6, <3>1, <3>2
    <3>5. faults' = MaxFaults /\ ~ctxDone' => lastUpdatedAtBlock' + Unhandled' = head'
      BY <1>2, <1>3, <2>1, <2>6, <3>1, <3>2
    <3> QED BY <2>4, <3>3, <3>4, <3>5 DEF NumbersInOrder, NoGap
  <2> QED BY <1>7, <2>7, <2>8
<1>8. CASE FetchLogs
  <2>1. /\ listener.pc = "fetching"
        /\ UNCHANGED <<head, newBlockEventer, lastUpdatedAtBlock>>
        /\ \/ /\ listener'.pc = "applying"
              /\ listener'.block.number = listener.block.number
           \/ listener'.pc = "idle" /\ (Fault \/ ctxDone)
    BY <1>8, ListenerParts, IdleTypes
       DEF FetchLogs, listenerOnly, fields, FaultOrCancelled, NoBlock, IInv
  <2>2. CASE listener'.pc = "applying" /\ listener'.block.number = listener.block.number
    <3>1. Unhandled' = Unhandled
      BY <2>1, <2>2 DEF Unhandled
    <3> QED BY <1>2, <2>1, <2>2, <3>1 DEF NumbersInOrder, NoGap
  <2>3. CASE listener'.pc = "idle" /\ (Fault \/ ctxDone)
    <3>1. Unhandled = Len(newBlockEventer) + 1 /\ Unhandled' = Len(newBlockEventer)
      BY <1>1, <2>1, <2>3 DEF Unhandled
    <3>2. ~(faults' = MaxFaults /\ ~ctxDone')
      BY <1>1, <1>2, <2>3 DEF Fault
    <3>3. lastUpdatedAtBlock' + Unhandled' <= head'
      BY <1>1, <1>3, <2>1, <3>1
    <3> QED BY <2>1, <2>3, <3>2, <3>3 DEF NumbersInOrder, NoGap
  <2> QED BY <2>1, <2>2, <2>3
<1>9. CASE ApplyBlock
  <2>1. /\ listener.pc = "applying" /\ listener'.pc = "publishing"
        /\ lastUpdatedAtBlock' = listener.block.number
        /\ head' = head /\ newBlockEventer' = newBlockEventer
    BY <1>9, ListenerParts DEF ApplyBlock, listenerOnly, IInv
  <2>2. listener.block.number \in Nat
    BY ListenerParts, SystemAssumption DEF Block, IInv
  <2>3. Unhandled' = Len(newBlockEventer)
    BY <1>1, <2>1 DEF Unhandled
  <2> QED BY <1>1, <2>1, <2>2, <2>3 DEF NumbersInOrder, NoGap
<1>10. CASE PublishBlock \/ CountPending \/ StopListener
  <2>1. /\ listener.pc \notin {"fetching", "applying"}
        /\ listener'.pc \notin {"fetching", "applying"}
        /\ UNCHANGED <<head, newBlockEventer, lastUpdatedAtBlock>>
    BY <1>10, ListenerParts, IdleTypes DEF PublishBlock, CountPending, StopListener, listenerOnly,
                                          fields, IInv
  <2>2. Unhandled' = Unhandled
    BY <2>1 DEF Unhandled
  <2> QED BY <1>2, <2>1, <2>2 DEF NumbersInOrder, NoGap
<1> QED BY <1>5, <1>6, <1>7, <1>9, <1>10, <1>8, NumberFrames DEF BInv, ListenerNext, ListenerRuns

\* Without a failure the number never skips a block of the chain, however many are waiting.
THEOREM GapsOnlyByFailure == Spec => [](NumbersInOrder /\ NoGap)
<1>1. Init => NumbersInOrder /\ NoGap
  <2> SUFFICES ASSUME Init PROVE NumbersInOrder /\ NoGap
    OBVIOUS
  <2>1. Len(newBlockEventer) = 0 /\ listener.pc = "idle" /\ head = 0 /\ lastUpdatedAtBlock = 0
    BY DEF Init, IdleListener
  <2> QED BY <2>1 DEF NumbersInOrder, NoGap, Unhandled
<1>2. Init => BInv
  BY <1>1, InitInv DEF BInv
<1>3. BInv /\ [Next]_vars => BInv'
  BY NumbersStep, NextInv DEF BInv
<1>4. BInv => NumbersInOrder /\ NoGap
  BY DEF BInv
<1> QED BY <1>2, <1>3, <1>4, PTL DEF Spec
-----------------------------------------------------------------------------
(***************************************************************************)
(* The safety half of ShutsDown: a goroutine is never more than boundedly  *)
(* many of its own steps away from the select that sees the context done,  *)
(* and once all four have returned nothing is left to do.                  *)
(***************************************************************************)

\* How far the listener is from its select.
ListenerDistance ==
  CASE listener.pc = "fetching" -> 4
    [] listener.pc = "applying" -> 3
    [] listener.pc = "publishing" -> 2
    [] listener.pc = "counting" -> 1
    [] OTHER -> 0

\* A pool less to ask about: S is what a goroutine has left.
OneLess(S, T) == T \subseteq S /\ T # S

ListenerComesBack ==
  listener.pc # "idle" /\ listener' # listener => ListenerDistance' < ListenerDistance

InitializerComesBack ==
  initializer.pc # "idle" /\ initializer' # initializer =>
    \/ initializer.pc = "resetting" /\ initializer'.pc \in {"fetching", "idle"}
    \/ initializer.pc = "fetching" /\ initializer'.pc = "idle"
    \/ /\ initializer.pc = "fetching" /\ initializer'.pc = "fetching"
       /\ OneLess(initializer.todo, initializer'.todo)

PrunerComesBack ==
  pruner.pc # "idle" /\ pruner' # pruner =>
    \/ pruner.pc = "scanning" /\ pruner'.pc = "idle"
    \/ /\ pruner.pc = "scanning" /\ pruner'.pc = "scanning"
       /\ OneLess(pruner.pools, pruner'.pools)

ReconcilerComesBack ==
  reconciler.pc # "idle" /\ reconciler' # reconciler =>
    \/ reconciler.pc = "fetching" /\ reconciler'.pc \in {"applying", "idle"}
    \/ reconciler.pc = "applying" /\ reconciler'.pc = "idle"
    \/ /\ reconciler.pc = "fetching" /\ reconciler'.pc = "fetching"
       /\ OneLess(reconciler.todo, reconciler'.todo)

\* Inside a round every step of a goroutine brings it nearer to its select, and no step of
\* another one takes it further away: a round of n pools ends after at most n + 3 steps, and
\* a block after five, whatever fails.  A goroutine that has returned takes no step.
RoundsRunOut ==
  [][ListenerComesBack /\ InitializerComesBack /\ PrunerComesBack /\ ReconcilerComesBack]_vars

\* Every goroutine has returned.
AtRest == \A pc \in {listener.pc, initializer.pc, pruner.pc, reconciler.pc} : pc = "stopped"

\* No goroutine returns with the lock, or before what it changed is published.
RestsPublished == AtRest => mu = "free" /\ cachedView = registry

\* From then on only the registry manager changes the system: its deletions, which are
\* published.  The number and the queue stay, no pool is added and no reserves change.
RestIsFinal ==
  [][AtRest =>
       /\ UNCHANGED <<locals, mu, lastUpdatedAtBlock, pendingInit, pendingInitQueueSize>>
       /\ DOMAIN registry' \subseteq DOMAIN registry
       /\ \A p \in DOMAIN registry' : registry'[p] = registry[p]
       /\ cachedView' = registry']_vars

\* What a step of the two periodic readers leaves alone.
LEMMA ReaderFrames ==
  ASSUME [Next]_vars
  PROVE  /\ UNCHANGED pruner \/ PrunerNext \/ StopPruner
         /\ UNCHANGED reconciler \/ ReconcilerNext \/ StopReconciler
<1>1. CASE Mine \/ Cancel \/ \E p \in Pools : ToggleBlocked(p) \/ RegisterElsewhere(p)
  BY <1>1 DEF Mine, Cancel, ToggleBlocked, RegisterElsewhere, locals
<1>2. CASE \E S \in SUBSET Pools : ManagerDelete(S)
  BY <1>2 DEF ManagerDelete, locals
<1>3. CASE ListenerNext \/ StopListener
  BY <1>3 DEF ListenerNext, ListenerRuns, StopListener, SkipBlock, ReceiveBlock,
              FetchLogs, ApplyBlock, PublishBlock, CountPending, listenerOnly
<1>4. CASE InitializerNext \/ StopInitializer
  BY <1>4 DEF InitializerNext, StopInitializer, DrainPending, ResetGauge, InitializePool,
              ApplyInitializations, initializerOnly
<1>5. CASE PrunerNext \/ StopPruner
  BY <1>5 DEF PrunerNext, StopPruner, StartPruning, ScanPool, PruneBlocked, prunerOnly, scanOnly
<1>6. CASE ReconcilerNext \/ StopReconciler
  BY <1>6 DEF ReconcilerNext, StopReconciler, StartReconciling, FetchReserves, Compare,
              ApplyReconciliation, reconcilerOnly
<1>7. CASE UNCHANGED vars
  BY <1>7 DEF vars, locals
<1> QED BY <1>1, <1>2, <1>3, <1>4, <1>5, <1>6, <1>7 DEF Next

\* The listener applies a block, publishes it and counts what it queued.
LEMMA ListenerNearer ==
  ASSUME TypeOK, [Next]_vars
  PROVE  ListenerComesBack
<1>1. CASE SkipBlock \/ ReceiveBlock \/ StopListener
  BY <1>1 DEF SkipBlock, ReceiveBlock, StopListener, ListenerComesBack
<1>2. CASE FetchLogs
  <2>1. listener.pc = "fetching" /\ listener'.pc \in {"applying", "idle"}
    BY <1>2, ListenerParts, IdleTypes DEF FetchLogs
  <2> QED BY <2>1 DEF ListenerComesBack, ListenerDistance
<1>3. CASE ApplyBlock
  <2>1. listener.pc = "applying" /\ listener'.pc = "publishing"
    BY <1>3, ListenerParts DEF ApplyBlock
  <2> QED BY <2>1 DEF ListenerComesBack, ListenerDistance
<1>4. CASE PublishBlock
  <2>1. listener.pc = "publishing" /\ listener'.pc \in {"counting", "idle"}
    BY <1>4, ListenerParts DEF PublishBlock, IdleListener
  <2> QED BY <2>1 DEF ListenerComesBack, ListenerDistance
<1>5. CASE CountPending
  <2>1. listener.pc = "counting" /\ listener'.pc = "idle"
    BY <1>5 DEF CountPending, IdleListener
  <2> QED BY <2>1 DEF ListenerComesBack, ListenerDistance
<1>6. CASE UNCHANGED listener
  BY <1>6 DEF ListenerComesBack
<1> QED BY <1>1, <1>2, <1>3, <1>4, <1>5, <1>6, StepFrames DEF ListenerNext, ListenerRuns

\* The initializer resets the gauge, asks about each pool of its batch, and applies it.
LEMMA InitializerNearer ==
  ASSUME TypeOK, [Next]_vars
  PROVE  InitializerComesBack
<1>1. initializer \in InitializerState
  BY DEF TypeOK
<1>2. CASE DrainPending \/ StopInitializer
  BY <1>2 DEF DrainPending, StopInitializer, InitializerComesBack
<1>3. CASE ResetGauge
  <2>1. /\ initializer.pc = "resetting"
        /\ \/ initializer' = IdleInitializer
           \/ initializer' = [initializer EXCEPT !.pc = "fetching", !.todo = initializer.batch]
    BY <1>3 DEF ResetGauge
  <2>2. CASE initializer' = IdleInitializer
    BY <2>1, <2>2 DEF IdleInitializer, InitializerComesBack
  <2>3. CASE initializer' = [initializer EXCEPT !.pc = "fetching", !.todo = initializer.batch]
    <3>1. initializer'.pc = "fetching"
      BY <1>1, <2>3 DEF InitializerState
    <3> QED BY <2>1, <3>1 DEF InitializerComesBack
  <2> QED BY <2>1, <2>2, <2>3
<1>4. ASSUME NEW p \in Pools, InitializePool(p)
      PROVE  InitializerComesBack
  <2>1. /\ initializer.pc = "fetching" /\ p \in initializer.todo
        /\ initializer'.pc = "fetching" /\ initializer'.todo = initializer.todo \ {p}
    BY <1>1, <1>4 DEF InitializePool, InitializerState
  <2> QED BY <2>1 DEF InitializerComesBack, OneLess
<1>5. CASE ApplyInitializations
  <2>1. initializer.pc = "fetching" /\ initializer'.pc = "idle"
    BY <1>5 DEF ApplyInitializations, IdleInitializer
  <2> QED BY <2>1 DEF InitializerComesBack
<1>6. CASE UNCHANGED initializer
  BY <1>6 DEF InitializerComesBack
<1> QED BY <1>2, <1>3, <1>4, <1>5, <1>6, StepFrames DEF InitializerNext

\* The pruner consults the block list about each pool of its view, and deletes.
LEMMA PrunerNearer ==
  ASSUME TypeOK, [Next]_vars
  PROVE  PrunerComesBack
<1>1. pruner \in PrunerState
  BY DEF TypeOK
<1>2. CASE StartPruning \/ StopPruner
  BY <1>2 DEF StartPruning, StopPruner, PrunerComesBack
<1>3. ASSUME NEW p \in Pools, ScanPool(p)
      PROVE  PrunerComesBack
  <2>1. /\ pruner.pc = "scanning" /\ p \in pruner.pools
        /\ pruner'.pc = "scanning" /\ pruner'.pools = pruner.pools \ {p}
    BY <1>1, <1>3 DEF ScanPool, PrunerState
  <2> QED BY <2>1 DEF PrunerComesBack, OneLess
<1>4. CASE PruneBlocked
  <2>1. pruner.pc = "scanning" /\ pruner'.pc = "idle"
    BY <1>4 DEF PruneBlocked, IdlePruner
  <2> QED BY <2>1 DEF PrunerComesBack
<1>5. CASE UNCHANGED pruner
  BY <1>5 DEF PrunerComesBack
<1> QED BY <1>2, <1>3, <1>4, <1>5, ReaderFrames DEF PrunerNext

\* The reconciler asks about each pool of its view, compares, and applies.
LEMMA ReconcilerNearer ==
  ASSUME TypeOK, [Next]_vars
  PROVE  ReconcilerComesBack
<1>1. reconciler \in ReconcilerState
  BY DEF TypeOK
<1>2. CASE StartReconciling \/ StopReconciler
  BY <1>2 DEF StartReconciling, StopReconciler, ReconcilerComesBack
<1>3. ASSUME NEW p \in Pools, FetchReserves(p)
      PROVE  ReconcilerComesBack
  <2>1. /\ reconciler.pc = "fetching" /\ p \in reconciler.todo
        /\ reconciler'.pc = "fetching" /\ reconciler'.todo = reconciler.todo \ {p}
    BY <1>1, <1>3 DEF FetchReserves, ReconcilerState
  <2> QED BY <2>1 DEF ReconcilerComesBack, OneLess
<1>4. CASE Compare
  <2>1. reconciler.pc = "fetching" /\ reconciler'.pc \in {"applying", "idle"}
    BY <1>4 DEF Compare, IdleReconciler
  <2> QED BY <2>1 DEF ReconcilerComesBack
<1>5. CASE ApplyReconciliation
  <2>1. reconciler.pc = "applying" /\ reconciler'.pc = "idle"
    BY <1>5 DEF ApplyReconciliation, IdleReconciler
  <2> QED BY <2>1 DEF ReconcilerComesBack
<1>6. CASE UNCHANGED reconciler
  BY <1>6 DEF ReconcilerComesBack
<1> QED BY <1>2, <1>3, <1>4, <1>5, <1>6, ReaderFrames DEF ReconcilerNext

\* No round goes on for ever, whatever the others do: cancelling the context, or the next
\* tick, is noticed after boundedly many steps of each goroutine.
THEOREM RoundsAreBounded == Spec => RoundsRunOut
<1>1. TypeOK /\ [Next]_vars =>
        ListenerComesBack /\ InitializerComesBack /\ PrunerComesBack /\ ReconcilerComesBack
  BY ListenerNearer, InitializerNearer, PrunerNearer, ReconcilerNearer
<1> QED BY <1>1, TypeCorrect, PTL DEF Spec, RoundsRunOut

\* At rest the lock is free, and so the view is the registry.
LEMMA RestParts ==
  ASSUME IInv, AtRest
  PROVE  /\ listener.pc = "stopped" /\ initializer.pc = "stopped"
         /\ pruner.pc = "stopped" /\ reconciler.pc = "stopped"
         /\ mu = "free" /\ cachedView = registry
<1>1. /\ listener.pc = "stopped" /\ initializer.pc = "stopped"
      /\ pruner.pc = "stopped" /\ reconciler.pc = "stopped"
  BY DEF AtRest
<1>2. mu = "free"
  BY <1>1 DEF IInv, LockHeld, TypeOK
<1>3. cachedView = registry
  BY <1>2 DEF IInv, ViewMatchesRegistry
<1> QED BY <1>1, <1>2, <1>3

\* At rest no goroutine takes a step, and the manager only deletes.
LEMMA RestStep ==
  ASSUME IInv, AtRest, [Next]_vars
  PROVE  /\ UNCHANGED <<locals, mu, lastUpdatedAtBlock, pendingInit, pendingInitQueueSize>>
         /\ DOMAIN registry' \subseteq DOMAIN registry
         /\ \A p \in DOMAIN registry' : registry'[p] = registry[p]
         /\ cachedView' = registry'
<1>1. CASE UNCHANGED <<fields, locals>>
  BY <1>1, RestParts DEF fields
<1>2. ASSUME NEW S \in SUBSET Pools, ManagerDelete(S)
      PROVE  /\ UNCHANGED <<locals, mu, lastUpdatedAtBlock, pendingInit, pendingInitQueueSize>>
             /\ DOMAIN registry' \subseteq DOMAIN registry
             /\ \A p \in DOMAIN registry' : registry'[p] = registry[p]
             /\ cachedView' = registry'
  <2>1. DeletePools(S) /\ UNCHANGED locals
    BY <1>2 DEF ManagerDelete
  <2>2. /\ mu' = mu /\ cachedView' = registry'
        /\ DOMAIN registry' = DOMAIN registry \ S
        /\ UNCHANGED <<lastUpdatedAtBlock, pendingInit, pendingInitQueueSize>>
    BY <2>1, DeletePoolsEffect
  <2>3. \A p \in DOMAIN registry' : registry'[p] = registry[p]
    BY <2>1, <2>2 DEF DeletePools, Restrict
  <2> QED BY <2>1, <2>2, <2>3
<1>3. ~(ListenerNext \/ StopListener)
  BY RestParts DEF ListenerNext, ListenerRuns, StopListener, SkipBlock, ReceiveBlock,
              FetchLogs, ApplyBlock, PublishBlock, CountPending
<1>4. ~(InitializerNext \/ StopInitializer)
  BY RestParts DEF InitializerNext, StopInitializer, DrainPending, ResetGauge, InitializePool,
                   ApplyInitializations
<1>5. ~(PrunerNext \/ StopPruner)
  BY RestParts DEF PrunerNext, StopPruner, StartPruning, ScanPool, PruneBlocked
<1>6. ~(ReconcilerNext \/ StopReconciler)
  BY RestParts DEF ReconcilerNext, StopReconciler, StartReconciling, FetchReserves, Compare,
                   ApplyReconciliation
<1>7. CASE Mine \/ Cancel \/ \E p \in Pools : ToggleBlocked(p) \/ RegisterElsewhere(p)
  BY <1>1, <1>7 DEF Mine, Cancel, ToggleBlocked, RegisterElsewhere
<1>8. CASE UNCHANGED vars
  BY <1>1, <1>8 DEF vars
<1> QED BY <1>2, <1>3, <1>4, <1>5, <1>6, <1>7, <1>8 DEF Next

\* After the last goroutine has returned the lock is free, the view is the registry, and
\* nothing but the manager's deletions changes either again.
THEOREM ShutdownIsFinal == Spec => []RestsPublished /\ RestIsFinal
<1>1. IInv => RestsPublished
  BY RestParts DEF RestsPublished
<1>2. IInv /\ [Next]_vars =>
        (AtRest =>
           /\ UNCHANGED <<locals, mu, lastUpdatedAtBlock, pendingInit, pendingInitQueueSize>>
           /\ DOMAIN registry' \subseteq DOMAIN registry
           /\ \A p \in DOMAIN registry' : registry'[p] = registry[p]
           /\ cachedView' = registry')
  BY RestStep
<1> QED BY <1>1, <1>2, Invariance, PTL DEF Spec, RestIsFinal
=============================================================================
