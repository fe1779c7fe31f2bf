---------------------------- MODULE RestartProofs ----------------------------
(***************************************************************************)
(* Proofs about Restart, for every number of pools, blocks and restarts:   *)
(* the safety invariants of the system survive the end of the process, the *)
(* stream alone brings a restarted system up to date, and the system, its  *)
(* failures and restarts included, implements the specification Consumer.  *)
(***************************************************************************)
EXTENDS Restart, UniswapV2SystemProofs

\* The invariant of the system, and what the snapshot can hold.
RInv ==
  /\ IInv
  /\ RestartTypeOK
  /\ DOMAIN snapshot.view \subseteq Trusted \cap registered

\* The number of blocks the listener has taken, and of those its registry shows.
Taken == head - Len(newBlockEventer)
Handled == IF listener.pc \in {"fetching", "applying"} THEN Taken - 1 ELSE Taken

\* Nothing but the listener runs.
ListenerAlone ==
  /\ initializer.pc = "stopped" /\ pruner.pc = "stopped" /\ reconciler.pc = "stopped"
  /\ ~ctxDone
  /\ faults = 0

\* The channel holds the provider's last blocks, and the listener the one before them.
Stream ==
  /\ \A k \in 1 .. head : mined[k].number = k
  /\ Len(newBlockEventer) <= head
  /\ \A k \in 1 .. Len(newBlockEventer) : newBlockEventer[k] = mined[Taken + k]
  /\ listener.pc \in {"fetching", "applying", "publishing"} => Taken >= 1
  /\ listener.pc \in {"fetching", "applying"} => listener.block = mined[Taken]

\* What the registry, the view and the snapshot show, and the numbers that were stored.
Shown ==
  /\ Shows(registry, Handled)
  /\ Shows(cachedView, IF listener.pc = "publishing" THEN Taken - 1 ELSE Handled)
  /\ lastUpdatedAtBlock <= Handled
  /\ savedNumber <= Handled
  /\ snapshot.number <= head
  /\ Shows(snapshot.view, snapshot.number - 1)

SInv == RInv /\ (Quiet => ListenerAlone /\ Stream /\ Shown)

-----------------------------------------------------------------------------
\* What consumers read tracks only pools of known factories that are known upstream.
LEMMA ViewTracked ==
  ASSUME IInv
  PROVE  DOMAIN cachedView \subseteq Trusted \cap registered
  BY DEF IInv, TypeOK, LockHeld, EventsUnpublished, ViewMatchesRegistry, OnlyTrustedTracked

\* The number of trusted pools bounds that of any trusted pools.
LEMMA TrustedBound ==
  ASSUME NEW S \in SUBSET Trusted
  PROVE  Cardinality(S) \in 0 .. Cardinality(Trusted)
<1>1. IsFiniteSet(Trusted)
  BY FS_Subset, SystemAssumption
<1>2. IsFiniteSet(S) /\ Cardinality(S) <= Cardinality(Trusted)
  BY <1>1, FS_Subset
<1> QED BY <1>1, <1>2, FS_CardinalityType

\* Only a new block changes the head and the chain, and no step unregisters a pool.
LEMMA WorldSteps ==
  ASSUME IInv, Next
  PROVE  /\ Mine \/ (head' = head /\ chain' = chain)
         /\ registered \subseteq registered'
<1>1. CASE Mine \/ Cancel \/ \E p \in Pools : ToggleBlocked(p) \/ RegisterElsewhere(p)
  BY <1>1 DEF Mine, Cancel, ToggleBlocked, RegisterElsewhere
<1>2. CASE \E S \in SUBSET Pools : ManagerDelete(S)
  BY <1>2 DEF ManagerDelete, env
<1>3. CASE ListenerNext \/ StopListener
  BY <1>3 DEF ListenerNext, ListenerRuns, StopListener, SkipBlock, ReceiveBlock,
              FetchLogs, ApplyBlock, PublishBlock, CountPending, listenerOnly
<1>4. CASE InitializerNext \/ StopInitializer
  BY <1>4 DEF InitializerNext, StopInitializer, DrainPending, ResetGauge, InitializePool,
              ApplyInitializations, initializerOnly
<1>5. CASE PrunerNext \/ StopPruner
  BY <1>5 DEF PrunerNext, StopPruner, StartPruning, ScanPool, PruneBlocked, prunerOnly, scanOnly,
              env
<1>6. CASE ReconcilerNext \/ StopReconciler
  BY <1>6 DEF ReconcilerNext, StopReconciler, StartReconciling, FetchReserves, Compare,
              ApplyReconciliation, reconcilerOnly
<1> QED BY <1>1, <1>2, <1>3, <1>4, <1>5, <1>6 DEF Next

\* The provider keeps a mined block and hands it over.
LEMMA MinedBlock ==
  ASSUME RInv, Mine, Run
  PROVE  \E b \in Block :
           /\ b.number = head + 1 /\ head' = head + 1 /\ head' \in Nat
           /\ mined' = Append(mined, b)
           /\ newBlockEventer' = Append(newBlockEventer, b)
<1> USE DEF RInv, RestartTypeOK
<1>1. head \in Nat /\ head' = head + 1 /\ head < MaxBlock /\ MaxBlock \in Nat
  BY SystemAssumption DEF Mine, TypeOK
<1>2. PICK S \in SUBSET Pools : \E sync \in [S -> Reserves], swap \in SUBSET S :
        newBlockEventer' =
          Append(newBlockEventer, [number |-> head + 1, swap |-> swap, sync |-> sync])
  BY DEF Mine
<1>3. PICK sync \in [S -> Reserves], swap \in SUBSET S :
        newBlockEventer' =
          Append(newBlockEventer, [number |-> head + 1, swap |-> swap, sync |-> sync])
  BY <1>2
<1> DEFINE b == [number |-> head + 1, swap |-> swap, sync |-> sync]
<1>4. b \in Block /\ b.number = head + 1
  BY <1>1 DEF Block
<1>5. newBlockEventer' = Append(newBlockEventer, b) /\ newBlockEventer \in Seq(Block)
  BY <1>3 DEF TypeOK
<1> HIDE DEF b
<1>6. newBlockEventer'[Len(newBlockEventer')] = b
  BY <1>4, <1>5
<1>7. mined' = Append(mined, b)
  BY <1>1, <1>6 DEF Run
<1> QED BY <1>1, <1>4, <1>5, <1>7

\* A first process satisfies the invariant, with a snapshot of its first view.
LEMMA RestartInitInv == RestartInit => RInv
<1> SUFFICES ASSUME RestartInit PROVE RInv
  OBVIOUS
<1>1. IInv
  BY InitInv DEF RestartInit
<1>2. /\ mined \in Seq(Block) /\ Len(mined) = head
      /\ was \in Seq([Pools -> Reserves]) /\ Len(was) = head + 1
      /\ savedNumber \in 0 .. MaxBlock /\ restarts \in 0 .. MaxRestarts
      /\ snapshot \in [number : 0 .. MaxBlock, view : Entries]
  BY <1>1, SystemAssumption, RestartAssumption DEF RestartInit, Init, IInv, TypeOK
<1>3. poolsInRegistry \in 0 .. Cardinality(Trusted)
  BY TrustedBound, FS_EmptySet DEF RestartInit
<1>4. DOMAIN snapshot.view \subseteq Trusted \cap registered
  BY <1>1, ViewTracked DEF RestartInit
<1> QED BY <1>1, <1>2, <1>3, <1>4 DEF RInv, RestartTypeOK, IInv

\* A step of the living process keeps it.
LEMMA RunInv ==
  ASSUME RInv, Run
  PROVE  RInv'
<1> USE DEF RInv, RestartTypeOK
<1>1. IInv' /\ TypeOK'
  BY NextInv DEF Run, IInv
<1>2. registered \subseteq registered' /\ UNCHANGED <<savedNumber, snapshot, restarts>>
  BY WorldSteps DEF Run, process
<1>3. mined' \in Seq(Block) /\ Len(mined') = head'
  <2>1. CASE Mine
    <3>1. PICK b \in Block : head' = head + 1 /\ mined' = Append(mined, b)
      BY <2>1, MinedBlock
    <3> QED BY <3>1
  <2>2. CASE head' = head
    BY <2>2 DEF Run
  <2> QED BY <2>1, <2>2, WorldSteps DEF Run
<1>4. poolsInRegistry' \in 0 .. Cardinality(Trusted)
  <2>1. DOMAIN cachedView' \subseteq Trusted
    BY <1>1 DEF IInv, TypeOK, LockHeld, EventsUnpublished, ViewMatchesRegistry, OnlyTrustedTracked
  <2>2. Cardinality(DOMAIN cachedView') \in 0 .. Cardinality(Trusted)
    BY <2>1, TrustedBound
  <2> QED BY <2>2 DEF Run, PoolsGauge
<1>5. was' \in Seq([Pools -> Reserves]) /\ Len(was') = head' + 1
  <2>1. chain' \in [Pools -> Reserves] /\ was \in Seq([Pools -> Reserves]) /\ Len(was) = head + 1
    BY <1>1 DEF TypeOK
  <2>2. CASE head' # head
    <3>1. head' = head + 1 /\ was' = Append(was, chain')
      BY <2>2, MinedBlock, WorldSteps DEF Run
    <3> QED BY <2>1, <3>1
  <2>3. CASE head' = head
    BY <2>1, <2>3 DEF Run
  <2> QED BY <2>2, <2>3
<1> QED BY <1>1, <1>2, <1>3, <1>4, <1>5

\* A snapshot holds a view that was published.
LEMMA SaveInv ==
  ASSUME RInv, SaveNumber \/ SaveView
  PROVE  RInv'
<1> USE DEF RInv, RestartTypeOK
<1>1. UNCHANGED <<vars, mined, was, restarts, poolsInRegistry>>
  BY DEF SaveNumber, SaveView
<1>2. IInv' /\ TypeOK' /\ UNCHANGED <<registered, head>>
  BY <1>1, NextInv DEF IInv, vars, env
<1>3. CASE SaveNumber
  BY <1>1, <1>2, <1>3 DEF SaveNumber, IInv, TypeOK
<1>4. CASE SaveView
  <2>1. snapshot' = [number |-> savedNumber, view |-> cachedView] /\ savedNumber' = savedNumber
    BY <1>4 DEF SaveView
  <2>2. snapshot' \in [number : 0 .. MaxBlock, view : Entries]
    BY <2>1 DEF TypeOK
  <2> QED BY <1>1, <1>2, <2>1, <2>2, ViewTracked
<1> QED BY <1>3, <1>4

\* The provider resumes with its blocks from some number on.
LEMMA ResumedStream ==
  ASSUME RInv, Resume
  PROVE  \E from \in 1 .. IF snapshot.number = 0 THEN 1 ELSE snapshot.number :
           /\ newBlockEventer' \in Seq(Block)
           /\ Len(newBlockEventer') = IF from <= head THEN head - from + 1 ELSE 0
           /\ \A k \in 1 .. head - from + 1 : newBlockEventer'[k] = mined[from + k - 1]
<1> USE DEF RInv, RestartTypeOK
<1>1. PICK from \in 1 .. IF snapshot.number = 0 THEN 1 ELSE snapshot.number :
        newBlockEventer' = SubSeq(mined, from, Len(mined))
  BY DEF Resume
<1>2. from \in Int /\ from >= 1 /\ head \in Nat /\ Len(mined) = head /\ mined \in Seq(Block)
  BY <1>1, SystemAssumption DEF TypeOK
<1>3. \A i \in from .. head : mined[i] \in Block
  BY <1>2
<1>4. /\ SubSeq(mined, from, head) \in Seq(Block)
      /\ Len(SubSeq(mined, from, head)) = IF from <= head THEN head - from + 1 ELSE 0
      /\ \A i \in 1 .. head - from + 1 : SubSeq(mined, from, head)[i] = mined[from + i - 1]
  <2>1. from \in Int /\ head \in Int
    BY <1>2
  <2> HIDE DEF RInv, RestartTypeOK
  <2> QED BY <2>1, <1>3, SubSeqProperties
<1> QED BY <1>1, <1>2, <1>4

\* A process rebuilt from a snapshot satisfies the invariant again.
LEMMA RestartInv ==
  ASSUME RInv, Restart
  PROVE  RInv'
<1> USE DEF RInv, RestartTypeOK
<1>1. /\ registry' = snapshot.view /\ cachedView' = snapshot.view
      /\ lastUpdatedAtBlock' = 0 /\ pendingInit' = {} /\ pendingInitQueueSize' = 0
      /\ mu' = "free" /\ poolsInRegistry' = 0
  BY DEF Restart, NewUniswapV2SystemFromViews, Construct
<1>2. /\ listener' = IdleListener
      /\ initializer' = Started("initializer", IdleInitializer)
      /\ pruner' = Started("pruner", IdlePruner)
      /\ reconciler' = Started("reconciler", IdleReconciler)
  BY DEF Restart, StartGoroutines
<1>3. /\ restarts < MaxRestarts /\ restarts' = restarts + 1 /\ ctxDone' = FALSE
      /\ savedNumber' = 0
      /\ UNCHANGED <<head, chain, blocked, registered, faults, mined, was, snapshot>>
  BY DEF Restart
<1>4. snapshot.view \in Entries
  OBVIOUS
<1>5. newBlockEventer' \in Seq(Block)
  BY ResumedStream DEF Restart
<1>6. /\ listener' \in ListenerState
      /\ initializer' \in InitializerState
      /\ pruner' \in PrunerState
      /\ reconciler' \in ReconcilerState
  BY <1>2, IdleTypes DEF Started, InitializerState, PrunerState, ReconcilerState
<1>7. TypeOK'
  <2>1. /\ head \in 0 .. MaxBlock /\ chain \in [Pools -> Reserves] /\ blocked \subseteq Pools
        /\ registered \subseteq Pools /\ faults \in 0 .. MaxFaults
    BY DEF TypeOK
  <2>2. 0 \in 0 .. MaxBlock /\ 0 \in Nat
    BY SystemAssumption
  <2> HIDE DEF RInv, RestartTypeOK
  <2> QED BY <1>1, <1>3, <1>4, <1>5, <1>6, <2>1, <2>2 DEF TypeOK
<1>8. LockHeld' /\ EventsUnpublished'
  BY <1>1, <1>2, IdleTypes DEF LockHeld, EventsUnpublished
<1>9. BatchInFlight'
  <2>1. initializer'.todo = {} /\ initializer'.found = Empty /\ initializer'.batch = {}
    BY <1>2 DEF Started, IdleInitializer
  <2>2. initializer'.pc # "fetching" /\ DOMAIN Empty = {}
    BY <1>2 DEF Started, IdleInitializer, Empty
  <2> QED BY <2>1, <2>2 DEF BatchInFlight
<1>10. ViewMatchesRegistry' /\ OnlyTrustedTracked'
  BY <1>1, <1>3 DEF ViewMatchesRegistry, OnlyTrustedTracked
<1>11. restarts' \in 0 .. MaxRestarts /\ savedNumber' \in 0 .. MaxBlock
  BY <1>3, SystemAssumption, RestartAssumption
<1>12. poolsInRegistry' \in 0 .. Cardinality(Trusted)
  BY <1>1, TrustedBound, FS_EmptySet
<1> QED BY <1>3, <1>7, <1>8, <1>9, <1>10, <1>11, <1>12 DEF IInv

\* So every step keeps it.
LEMMA RestartNextInv ==
  ASSUME RInv, [RestartNext]_allVars
  PROVE  RInv'
<1>1. CASE RestartNext
  BY <1>1, RunInv, SaveInv, RestartInv DEF RestartNext
<1>2. CASE UNCHANGED allVars
  <2>1. UNCHANGED <<vars, mined, was, savedNumber, snapshot, restarts, poolsInRegistry>>
    BY <1>2 DEF allVars, process
  <2>2. IInv' /\ TypeOK' /\ UNCHANGED <<registered, head>>
    BY <2>1, NextInv DEF RInv, IInv, vars, env
  <2> QED BY <2>1, <2>2 DEF RInv, RestartTypeOK
<1> QED BY <1>1, <1>2

\* The invariant of the process always holds.
LEMMA RestartInvariance == RestartSpec => []RInv
<1>1. RInv /\ [RestartNext]_allVars => RInv'
  BY RestartNextInv
<1> QED BY RestartInitInv, <1>1, PTL DEF RestartSpec

\* Every variable has its type across any number of restarts.
THEOREM RestartTypeCorrect == RestartSpec => []RestartTypeOK
<1>1. RInv => RestartTypeOK
  BY DEF RInv
<1> QED BY <1>1, RestartInvariance, PTL

\* A process that ends inside the critical section leaves no trace of it: whenever the lock is
\* free, in whichever process, consumers read the registry.
THEOREM RestartViewIsRegistry == RestartSpec => []ViewMatchesRegistry
<1>1. RInv => ViewMatchesRegistry
  BY DEF RInv, IInv
<1> QED BY <1>1, RestartInvariance, PTL

\* A snapshot brings back no pool of an unknown factory and none that is not known upstream.
THEOREM RestartWhitelist == RestartSpec => []OnlyTrustedTracked
<1>1. RInv => OnlyTrustedTracked
  BY DEF RInv, IInv
<1> QED BY <1>1, RestartInvariance, PTL

-----------------------------------------------------------------------------
\* Shows, for any list of blocks.
ShowsOf(blocks, view, n) ==
  \A p \in DOMAIN view, k \in 1 .. n :
    p \in DOMAIN blocks[k].sync /\ blocks[k].swap # {} => view[p].block >= k

\* Shown, with the blocks as a parameter.
LEMMA ShownOf ==
  Shown <=> /\ ShowsOf(mined, registry, Handled)
            /\ ShowsOf(mined, cachedView, IF listener.pc = "publishing" THEN Taken - 1 ELSE Handled)
            /\ lastUpdatedAtBlock <= Handled
            /\ savedNumber <= Handled
            /\ snapshot.number <= head
            /\ ShowsOf(mined, snapshot.view, snapshot.number - 1)
  BY DEF Shown, Shows, ShowsOf

\* The same after a step.
LEMMA ShownOfNext ==
  Shown' <=> /\ ShowsOf(mined', registry', Handled')
             /\ ShowsOf(mined', cachedView',
                        IF listener'.pc = "publishing" THEN Taken' - 1 ELSE Handled')
             /\ lastUpdatedAtBlock' <= Handled'
             /\ savedNumber' <= Handled'
             /\ snapshot'.number <= head'
             /\ ShowsOf(mined', snapshot'.view, snapshot'.number - 1)
  BY DEF Shown, Shows, ShowsOf

\* What shows the events of n blocks shows those of fewer.
LEMMA ShowsFewer ==
  ASSUME NEW blocks, NEW view, NEW n \in Int, NEW m \in Int, m <= n, ShowsOf(blocks, view, n)
  PROVE  ShowsOf(blocks, view, m)
  BY DEF ShowsOf

\* A block mined later does not change what a view shows of the earlier ones.
LEMMA ShowsAppended ==
  ASSUME NEW blocks \in Seq(Block), NEW b \in Block, NEW view, NEW n \in Int, n <= Len(blocks),
         ShowsOf(blocks, view, n)
  PROVE  ShowsOf(Append(blocks, b), view, n)
<1>1. \A k \in 1 .. n : Append(blocks, b)[k] = blocks[k]
  OBVIOUS
<1> QED BY <1>1 DEF ShowsOf

\* The types of the numbers.
LEMMA Numbers ==
  ASSUME RInv
  PROVE  /\ head \in Nat /\ Len(mined) = head /\ mined \in Seq(Block)
         /\ newBlockEventer \in Seq(Block) /\ Len(newBlockEventer) \in Nat
         /\ Taken \in Int /\ Handled \in Int /\ Handled <= Taken
         /\ lastUpdatedAtBlock \in Nat /\ savedNumber \in Nat /\ snapshot.number \in Nat
<1>1. head \in Nat /\ lastUpdatedAtBlock \in Nat /\ savedNumber \in Nat /\ snapshot.number \in Nat
  BY SystemAssumption DEF RInv, RestartTypeOK, TypeOK
<1>2. newBlockEventer \in Seq(Block) /\ mined \in Seq(Block) /\ Len(mined) = head
  BY DEF RInv, RestartTypeOK, TypeOK
<1> QED BY <1>1, <1>2 DEF Taken, Handled

\* Without failures and without the periodic goroutines only these steps are possible.
LEMMA QuietSteps ==
  ASSUME Quiet, RInv, ListenerAlone, Next
  PROVE  \/ Mine
         \/ UNCHANGED <<head, newBlockEventer, ctxDone, faults, fields, locals>>
         \/ \E S \in SUBSET Pools : ManagerDelete(S)
         \/ ListenerNext
<1>1. CASE Cancel \/ \E p \in Pools : ToggleBlocked(p) \/ RegisterElsewhere(p)
  BY <1>1 DEF Quiet, Cancel, ToggleBlocked, RegisterElsewhere
<1>2. CASE StopListener \/ StopInitializer \/ StopPruner \/ StopReconciler
  BY <1>2 DEF ListenerAlone, StopListener, StopInitializer, StopPruner, StopReconciler
<1>3. CASE InitializerNext \/ PrunerNext \/ ReconcilerNext
  BY <1>3 DEF ListenerAlone, InitializerNext, DrainPending, ResetGauge, InitializePool,
     ApplyInitializations, PrunerNext, StartPruning, ScanPool, PruneBlocked, ReconcilerNext,
     StartReconciling, FetchReserves, Compare, ApplyReconciliation
<1> QED BY <1>1, <1>2, <1>3 DEF Next

\* The first block in the channel is the next one that the provider keeps.
LEMMA NextBlock ==
  ASSUME RInv, Stream, newBlockEventer # << >>
  PROVE  /\ Head(newBlockEventer) = mined[Taken + 1] /\ mined[Taken + 1].number = Taken + 1
         /\ Taken + 1 \in 1 .. head
         /\ Tail(newBlockEventer) \in Seq(Block)
         /\ Len(Tail(newBlockEventer)) = Len(newBlockEventer) - 1
         /\ \A k \in 1 .. Len(newBlockEventer) - 1 : Tail(newBlockEventer)[k] = mined[Taken + 1 + k]
<1>1. /\ newBlockEventer \in Seq(Block) /\ head \in Nat /\ Len(newBlockEventer) \in Nat
      /\ Taken \in Int /\ Len(newBlockEventer) > 0
  BY Numbers
<1>2. Head(newBlockEventer) = newBlockEventer[1]
  BY <1>1
<1>3. newBlockEventer[1] = mined[Taken + 1]
  BY <1>1 DEF Stream
<1>4. Taken + 1 \in 1 .. head
  BY <1>1 DEF Stream, Taken
<1>5. /\ Tail(newBlockEventer) \in Seq(Block)
      /\ Len(Tail(newBlockEventer)) = Len(newBlockEventer) - 1
      /\ \A k \in 1 .. Len(Tail(newBlockEventer)) : Tail(newBlockEventer)[k] = newBlockEventer[k + 1]
  BY <1>1, HeadTailProperties
<1>6. \A k \in 1 .. Len(newBlockEventer) - 1 : newBlockEventer[k + 1] = mined[Taken + (k + 1)]
  BY <1>1 DEF Stream
<1>7. \A k \in 1 .. Len(newBlockEventer) - 1 : Taken + (k + 1) = Taken + 1 + k
  BY <1>1
<1> QED BY <1>2, <1>3, <1>4, <1>5, <1>6, <1>7 DEF Stream

\* A mined block enters the record and the channel.
LEMMA StreamMine ==
  ASSUME RInv, ListenerAlone, Stream, Shown, Mine, Run
  PROVE  ListenerAlone' /\ Stream' /\ Shown'
<1>1. PICK b \in Block :
        /\ b.number = head + 1 /\ head' = head + 1
        /\ mined' = Append(mined, b) /\ newBlockEventer' = Append(newBlockEventer, b)
  BY MinedBlock
<1>2. UNCHANGED <<ctxDone, faults, fields, locals, savedNumber, snapshot>>
  BY DEF Mine, Run, process
<1>3. /\ head \in Nat /\ Len(mined) = head /\ mined \in Seq(Block)
      /\ newBlockEventer \in Seq(Block) /\ Len(newBlockEventer) \in Nat
      /\ Taken \in Int /\ Handled \in Int /\ Handled <= Taken
      /\ snapshot.number \in Nat
  BY Numbers
<1>4. /\ Len(newBlockEventer') = Len(newBlockEventer) + 1
      /\ \A k \in 1 .. Len(newBlockEventer) : newBlockEventer'[k] = newBlockEventer[k]
      /\ newBlockEventer'[Len(newBlockEventer) + 1] = b
      /\ \A k \in 1 .. head : mined'[k] = mined[k]
      /\ mined'[head + 1] = b
  BY <1>1, <1>3
<1>5. Taken' = Taken /\ Handled' = Handled
  BY <1>1, <1>2, <1>3, <1>4 DEF Taken, Handled, locals
<1>6. Taken >= 0 /\ Taken <= head /\ Taken + Len(newBlockEventer) = head
  BY <1>3 DEF Stream, Taken
<1>7. ListenerAlone'
  BY <1>2 DEF ListenerAlone, locals
<1>8. Stream'
  <2>1. \A k \in 1 .. head' : mined'[k].number = k
    BY <1>1, <1>3, <1>4 DEF Stream
  <2>2. \A k \in 1 .. Len(newBlockEventer') : newBlockEventer'[k] = mined'[Taken' + k]
    <3>1. \A k \in 1 .. Len(newBlockEventer) : Taken + k \in 1 .. head
      BY <1>3, <1>6
    <3>2. \A k \in 1 .. Len(newBlockEventer) : newBlockEventer'[k] = mined'[Taken + k]
      BY <1>4, <3>1 DEF Stream
    <3>3. newBlockEventer'[Len(newBlockEventer) + 1] = mined'[Taken + (Len(newBlockEventer) + 1)]
      <4>1. Taken + (Len(newBlockEventer) + 1) = head + 1
        BY <1>3, <1>6
      <4> QED BY <1>4, <4>1
    <3>4. 1 .. Len(newBlockEventer') = 1 .. Len(newBlockEventer) \cup {Len(newBlockEventer) + 1}
      BY <1>3, <1>4
    <3> QED BY <1>5, <3>2, <3>3, <3>4
  <2>3. Len(newBlockEventer') <= head'
    BY <1>1, <1>3, <1>4 DEF Stream
  <2>4. listener.pc \in {"fetching", "applying"} => listener.block = mined'[Taken]
    BY <1>3, <1>4, <1>6 DEF Stream
  <2> QED BY <1>2, <1>5, <2>1, <2>2, <2>3, <2>4 DEF Stream, locals
<1>9. Shown'
  <2>1. \A v, n : n \in Int /\ n <= head /\ ShowsOf(mined, v, n) => ShowsOf(mined', v, n)
    BY <1>1, <1>3, ShowsAppended
  <2>2. /\ ShowsOf(mined', registry, Handled)
        /\ ShowsOf(mined', cachedView, IF listener.pc = "publishing" THEN Taken - 1 ELSE Handled)
        /\ ShowsOf(mined', snapshot.view, snapshot.number - 1)
    BY <1>3, <1>6, <2>1, ShownOf
  <2>3. snapshot.number <= head'
    BY <1>1, <1>3 DEF Shown
  <2> QED BY <1>2, <1>5, <2>2, <2>3, ShownOf, ShownOfNext DEF fields, locals
<1> QED BY <1>7, <1>8, <1>9

\* A block without a Swap is taken; nothing of it has to be shown.
LEMMA StreamSkipBlock ==
  ASSUME RInv, ListenerAlone, Stream, Shown, SkipBlock, mined' = mined, UNCHANGED process
  PROVE  ListenerAlone' /\ Stream' /\ Shown'
<1>1. /\ listener.pc = "idle" /\ newBlockEventer # << >> /\ Head(newBlockEventer).swap = {}
      /\ newBlockEventer' = Tail(newBlockEventer)
      /\ lastUpdatedAtBlock' = Head(newBlockEventer).number
      /\ UNCHANGED <<head, ctxDone, initializer, pruner, reconciler, faults, registry, cachedView,
                     listener, mined, savedNumber, snapshot>>
  BY DEF SkipBlock, listenerOnly, process
<1>2. /\ head \in Nat /\ Len(newBlockEventer) \in Nat /\ Taken \in Int /\ savedNumber \in Nat
  BY Numbers
<1>3. /\ Head(newBlockEventer) = mined[Taken + 1] /\ mined[Taken + 1].number = Taken + 1
      /\ Taken + 1 \in 1 .. head
      /\ Len(newBlockEventer') = Len(newBlockEventer) - 1
      /\ \A k \in 1 .. Len(newBlockEventer) - 1 : newBlockEventer'[k] = mined[Taken + 1 + k]
  BY <1>1, NextBlock
<1>4. Taken' = Taken + 1 /\ Handled' = Taken + 1 /\ Handled = Taken
  BY <1>1, <1>2, <1>3 DEF Taken, Handled
<1>5. \A v : ShowsOf(mined, v, Taken) => ShowsOf(mined, v, Taken + 1)
  BY <1>1, <1>2, <1>3 DEF ShowsOf
<1>6. Shown'
  BY <1>1, <1>2, <1>3, <1>4, <1>5, ShownOf, ShownOfNext
<1>7. ListenerAlone' /\ Stream'
  BY <1>1, <1>2, <1>3, <1>4 DEF ListenerAlone, Stream
<1> QED BY <1>6, <1>7

\* The listener holds the block that it took.
LEMMA StreamReceiveBlock ==
  ASSUME RInv, ListenerAlone, Stream, Shown, ReceiveBlock, mined' = mined, UNCHANGED process
  PROVE  ListenerAlone' /\ Stream' /\ Shown'
<1>1. /\ listener.pc = "idle" /\ newBlockEventer # << >>
      /\ newBlockEventer' = Tail(newBlockEventer)
      /\ UNCHANGED <<head, ctxDone, initializer, pruner, reconciler, faults, registry, cachedView,
                     lastUpdatedAtBlock, mined, savedNumber, snapshot>>
  BY DEF ReceiveBlock, listenerOnly, fields, process
<1>2. /\ head \in Nat /\ Len(newBlockEventer) \in Nat /\ Taken \in Int
  BY Numbers
<1>3. /\ Head(newBlockEventer) = mined[Taken + 1]
      /\ Taken + 1 \in 1 .. head
      /\ Len(newBlockEventer') = Len(newBlockEventer) - 1
      /\ \A k \in 1 .. Len(newBlockEventer) - 1 : newBlockEventer'[k] = mined[Taken + 1 + k]
  BY <1>1, NextBlock
<1>4. listener'.pc = "fetching" /\ listener'.block = mined[Taken + 1]
  <2>1. listener = [pc |-> listener.pc, block |-> listener.block, new |-> listener.new]
    BY ListenerParts DEF RInv, IInv
  <2> QED BY <1>3, <2>1 DEF ReceiveBlock
<1>5. Taken' = Taken + 1 /\ Handled' = Taken /\ Handled = Taken
  BY <1>1, <1>2, <1>3, <1>4 DEF Taken, Handled
<1>6. Shown'
  BY <1>1, <1>4, <1>5, ShownOf, ShownOfNext
<1>7. ListenerAlone' /\ Stream'
  BY <1>1, <1>2, <1>3, <1>4, <1>5 DEF ListenerAlone, Stream
<1> QED BY <1>6, <1>7

\* Without failures the call returns the logs of that block.
LEMMA StreamFetchLogs ==
  ASSUME RInv, ListenerAlone, Stream, Shown, FetchLogs, mined' = mined, UNCHANGED process
  PROVE  ListenerAlone' /\ Stream' /\ Shown'
<1>1. /\ listener.pc = "fetching"
      /\ UNCHANGED <<head, newBlockEventer, ctxDone, initializer, pruner, reconciler, registry,
                     cachedView, lastUpdatedAtBlock, mined, savedNumber, snapshot>>
  BY DEF FetchLogs, listenerOnly, fields, process
<1>2. listener'.pc = "applying" /\ listener'.block = listener.block /\ faults' = faults
  <2>1. ~Fault /\ ~FaultOrCancelled
    BY DEF ListenerAlone, Fault, FaultOrCancelled
  <2>2. listener' = [listener EXCEPT !.pc = "applying", !.block = listener.block] /\ NoFault
    BY <2>1 DEF FetchLogs
  <2>3. listener = [pc |-> listener.pc, block |-> listener.block, new |-> listener.new]
    BY ListenerParts DEF RInv, IInv
  <2> QED BY <2>2, <2>3 DEF NoFault
<1>3. Taken' = Taken /\ Handled' = Handled
  BY <1>1, <1>2 DEF Taken, Handled
<1>4. Shown'
  BY <1>1, <1>2, <1>3, ShownOf, ShownOfNext
<1>5. ListenerAlone' /\ Stream'
  BY <1>1, <1>2, <1>3 DEF ListenerAlone, Stream
<1> QED BY <1>4, <1>5

\* The registry shows the block that is applied; the view is one block behind the number.
LEMMA StreamApplyBlock ==
  ASSUME RInv, ListenerAlone, Stream, Shown, ApplyBlock, mined' = mined, UNCHANGED process
  PROVE  ListenerAlone' /\ Stream' /\ Shown'
<1> DEFINE b == listener.block
<1>1. /\ listener.pc = "applying" /\ registry' = Updated(b) /\ lastUpdatedAtBlock' = b.number
      /\ UNCHANGED <<head, ctxDone, initializer, pruner, reconciler, newBlockEventer, faults,
                     cachedView, mined, savedNumber, snapshot>>
  BY DEF ApplyBlock, listenerOnly, process
<1>2. listener'.pc = "publishing"
  <2>1. listener = [pc |-> listener.pc, block |-> listener.block, new |-> listener.new]
    BY ListenerParts DEF RInv, IInv
  <2> QED BY <2>1 DEF ApplyBlock
<1>3. head \in Nat /\ Taken \in Int /\ Taken >= 1 /\ Taken <= head /\ savedNumber \in Nat
  BY <1>1, Numbers DEF Stream, Taken
<1>4. b = mined[Taken] /\ b.number = Taken
  BY <1>1, <1>3 DEF Stream
<1>5. Taken' = Taken /\ Handled' = Taken /\ Handled = Taken - 1
  BY <1>1, <1>2 DEF Taken, Handled
<1>6. ShowsOf(mined, registry', Taken)
  <2>1. ShowsOf(mined, registry, Taken - 1)
    BY <1>5, ShownOf
  <2>2. DOMAIN registry' = DOMAIN registry /\ DOMAIN registry \subseteq registered
    BY <1>1 DEF Updated, RInv, IInv, OnlyTrustedTracked
  <2>3. ASSUME NEW p \in DOMAIN registry, NEW k \in 1 .. Taken, p \in DOMAIN mined[k].sync,
               mined[k].swap # {}
        PROVE  registry'[p].block >= k
    <3>1. CASE p \in DOMAIN b.sync
      <4>1. registry'[p].block = Taken
        BY <1>1, <1>4, <2>2, <3>1 DEF Updated
      <4> QED BY <1>3, <4>1
    <3>2. CASE p \notin DOMAIN b.sync
      <4>1. registry'[p] = registry[p] /\ k \in 1 .. Taken - 1
        BY <1>1, <1>3, <1>4, <2>3, <3>2 DEF Updated
      <4> QED BY <2>1, <2>3, <4>1 DEF ShowsOf
    <3> QED BY <3>1, <3>2
  <2> QED BY <2>2, <2>3 DEF ShowsOf
<1>7. Shown'
  BY <1>1, <1>2, <1>3, <1>4, <1>5, <1>6, ShownOf, ShownOfNext
<1>8. ListenerAlone' /\ Stream'
  BY <1>1, <1>2, <1>3, <1>5 DEF ListenerAlone, Stream
<1> QED BY <1>7, <1>8

\* Then the view shows it too.
LEMMA StreamPublishBlock ==
  ASSUME RInv, ListenerAlone, Stream, Shown, PublishBlock \/ CountPending, mined' = mined,
         UNCHANGED process
  PROVE  ListenerAlone' /\ Stream' /\ Shown'
<1>1. /\ listener.pc \in {"publishing", "counting"}
      /\ UNCHANGED <<head, ctxDone, initializer, pruner, reconciler, newBlockEventer, faults,
                     registry, lastUpdatedAtBlock, mined, savedNumber, snapshot>>
      /\ cachedView' = registry \/ (listener.pc = "counting" /\ cachedView' = cachedView)
  BY DEF PublishBlock, CountPending, listenerOnly, process
<1>2. listener'.pc \in {"idle", "counting"}
  <2>1. listener = [pc |-> listener.pc, block |-> listener.block, new |-> listener.new]
    BY ListenerParts DEF RInv, IInv
  <2>2. [listener EXCEPT !.pc = "counting", !.block = NoBlock].pc = "counting"
    BY <2>1
  <2>3. \/ listener' = IdleListener
        \/ listener' = [listener EXCEPT !.pc = "counting", !.block = NoBlock]
    BY DEF PublishBlock, CountPending
  <2> QED BY <2>2, <2>3, IdleTypes
<1>3. Taken' = Taken /\ Handled' = Taken /\ Handled = Taken
  BY <1>1, <1>2 DEF Taken, Handled
<1>4. Shown'
  BY <1>1, <1>2, <1>3, ShownOf, ShownOfNext
<1>5. ListenerAlone' /\ Stream'
  BY <1>1, <1>2, <1>3 DEF ListenerAlone, Stream
<1> QED BY <1>4, <1>5

\* A deletion leaves the rows of other pools, and what they show, alone.
LEMMA StreamManagerDelete ==
  ASSUME RInv, ListenerAlone, Stream, Shown, NEW S \in SUBSET Pools, ManagerDelete(S),
         mined' = mined, UNCHANGED process
  PROVE  ListenerAlone' /\ Stream' /\ Shown'
<1>1. /\ mu = "free" /\ registry' = Restrict(registry, DOMAIN registry \ S)
      /\ cachedView' = registry' \/ cachedView' = cachedView
      /\ UNCHANGED <<env, locals, lastUpdatedAtBlock, mined, savedNumber, snapshot>>
  BY DEF ManagerDelete, DeletePools, process
<1>2. listener.pc # "publishing"
  BY <1>1 DEF RInv, IInv, LockHeld
<1>3. Taken' = Taken /\ Handled' = Handled /\ head' = head /\ listener' = listener
  BY <1>1 DEF Taken, Handled, env, locals
<1>4. ShowsOf(mined, registry, Handled) => ShowsOf(mined, registry', Handled)
  BY <1>1 DEF ShowsOf, Restrict
<1>5. Shown'
  BY <1>1, <1>2, <1>3, <1>4, ShownOf, ShownOfNext
<1>6. ListenerAlone' /\ Stream'
  BY <1>1, <1>3 DEF ListenerAlone, Stream, env, locals
<1> QED BY <1>5, <1>6

\* Steps of the world leave the stream alone.
LEMMA StreamFrame ==
  ASSUME ListenerAlone, Stream, Shown, mined' = mined, UNCHANGED process,
         UNCHANGED <<head, newBlockEventer, ctxDone, faults, fields, locals>>
  PROVE  ListenerAlone' /\ Stream' /\ Shown'
<1>1. UNCHANGED <<registry, cachedView, lastUpdatedAtBlock, listener, initializer, pruner,
                  reconciler, savedNumber, snapshot>>
  BY DEF fields, locals, process
<1>2. Taken' = Taken /\ Handled' = Handled
  BY <1>1 DEF Taken, Handled
<1>3. ListenerAlone'
  BY <1>1 DEF ListenerAlone
<1>4. Stream'
  BY <1>1, <1>2 DEF Stream
<1>5. Shown'
  BY <1>1, <1>2, ShownOf, ShownOfNext
<1> QED BY <1>3, <1>4, <1>5

\* So every step of a quiet process keeps what is shown.
LEMMA StreamRun ==
  ASSUME Quiet, RInv, ListenerAlone, Stream, Shown, Run
  PROVE  ListenerAlone' /\ Stream' /\ Shown'
<1>1. UNCHANGED process /\ Next /\ (head' = head => mined' = mined)
  BY DEF Run
<1>2. CASE Mine
  BY <1>2, StreamMine
<1>3. CASE head' = head
  <2>1. CASE \E S \in SUBSET Pools : ManagerDelete(S)
    BY <1>1, <1>3, <2>1, StreamManagerDelete
  <2>2. CASE ListenerNext
    <3>1. mined' = mined /\ UNCHANGED process
      BY <1>1, <1>3
    <3>2. CASE SkipBlock
      BY <3>1, <3>2, StreamSkipBlock
    <3>3. CASE FetchLogs
      BY <3>1, <3>3, StreamFetchLogs
    <3>4. CASE ApplyBlock
      BY <3>1, <3>4, StreamApplyBlock
    <3>5. CASE PublishBlock \/ CountPending
      BY <3>1, <3>5, StreamPublishBlock
    <3>6. CASE ReceiveBlock
      BY <3>1, <3>6, StreamReceiveBlock
    <3> QED BY <2>2, <3>2, <3>3, <3>4, <3>5, <3>6 DEF ListenerNext, ListenerRuns
  <2>3. CASE UNCHANGED <<head, newBlockEventer, ctxDone, faults, fields, locals>>
    BY <1>1, <1>3, <2>3, StreamFrame
  <2> QED BY <1>1, <1>2, <2>1, <2>2, <2>3, QuietSteps
<1> QED BY <1>1, <1>2, <1>3, WorldSteps DEF RInv

\* A view saved after the number shows at least the blocks before that number.
LEMMA StreamSave ==
  ASSUME RInv, ListenerAlone, Stream, Shown, SaveNumber \/ SaveView
  PROVE  ListenerAlone' /\ Stream' /\ Shown'
<1>1. UNCHANGED <<vars, mined>>
  BY DEF SaveNumber, SaveView
<1>2. /\ Taken' = Taken /\ Handled' = Handled
      /\ UNCHANGED <<head, registry, cachedView, lastUpdatedAtBlock, listener, mined>>
  BY <1>1 DEF vars, env, fields, locals, Taken, Handled
<1>3. ListenerAlone' /\ Stream'
  BY <1>1, <1>2 DEF ListenerAlone, Stream, vars, env, locals
<1>4. CASE SaveNumber
  BY <1>2, <1>3, <1>4, ShownOf, ShownOfNext DEF SaveNumber
<1>5. CASE SaveView
  <2>1. /\ savedNumber' = savedNumber /\ snapshot'.number = savedNumber
        /\ snapshot'.view = cachedView
    BY <1>5 DEF SaveView
  <2>2. /\ head \in Nat /\ Len(newBlockEventer) \in Nat /\ Taken \in Int /\ Handled \in Int
        /\ Handled <= Taken /\ savedNumber \in Nat
    BY Numbers
  <2>3. Taken <= head
    BY <2>2 DEF Taken
  <2>4. savedNumber <= Handled
    BY DEF Shown
  <2>5. ShowsOf(mined, cachedView, savedNumber - 1)
    <3>1. ShowsOf(mined, cachedView, IF listener.pc = "publishing" THEN Taken - 1 ELSE Handled)
      BY ShownOf
    <3>2. savedNumber - 1 <= IF listener.pc = "publishing" THEN Taken - 1 ELSE Handled
      BY <2>2, <2>4
    <3> QED BY <2>2, <3>1, <3>2, ShowsFewer
  <2>6. savedNumber <= head
    BY <2>2, <2>3, <2>4
  <2> QED BY <1>2, <1>3, <2>1, <2>4, <2>5, <2>6, ShownOf, ShownOfNext
<1> QED BY <1>4, <1>5

\* The blocks from the number on, handed over again, bring the snapshot's view up to date.
LEMMA StreamRestart ==
  ASSUME Quiet, RInv, ListenerAlone, Stream, Shown, Restart
  PROVE  ListenerAlone' /\ Stream' /\ Shown'
<1>1. /\ registry' = snapshot.view /\ cachedView' = snapshot.view
      /\ lastUpdatedAtBlock' = 0 /\ savedNumber' = 0 /\ ctxDone' = FALSE
      /\ listener' = IdleListener
      /\ initializer' = Started("initializer", IdleInitializer)
      /\ pruner' = Started("pruner", IdlePruner)
      /\ reconciler' = Started("reconciler", IdleReconciler)
      /\ UNCHANGED <<head, faults, mined, snapshot>>
  BY DEF Restart, NewUniswapV2SystemFromViews, Construct, StartGoroutines
<1>2. PICK from \in 1 .. IF snapshot.number = 0 THEN 1 ELSE snapshot.number :
        /\ Len(newBlockEventer') = IF from <= head THEN head - from + 1 ELSE 0
        /\ \A k \in 1 .. head - from + 1 : newBlockEventer'[k] = mined[from + k - 1]
  BY ResumedStream DEF Restart
<1>3. head \in Nat /\ snapshot.number \in Nat /\ snapshot.number <= head
  BY Numbers DEF Shown
<1>4. from \in Nat /\ from >= 1 /\ from <= head + 1 /\ from - 1 <= head
      /\ (from - 1 = 0 \/ from - 1 <= snapshot.number - 1)
  BY <1>2, <1>3
<1>5. Len(newBlockEventer') = head - from + 1
  BY <1>2, <1>3, <1>4
<1>6. listener'.pc = "idle"
  BY <1>1, IdleTypes
<1>7. Taken' = from - 1 /\ Handled' = from - 1
  BY <1>1, <1>3, <1>4, <1>5, <1>6 DEF Taken, Handled
<1>8. ListenerAlone'
  BY <1>1 DEF ListenerAlone, Quiet, Started, IdleInitializer, IdlePruner, IdleReconciler
<1>9. Stream'
  <2>1. \A k \in 1 .. head - from + 1 : newBlockEventer'[k] = mined[from - 1 + k]
    <3>1. \A k \in 1 .. head - from + 1 : from - 1 + k = from + k - 1
      BY <1>3, <1>4
    <3> QED BY <1>2, <3>1
  <2>2. Len(newBlockEventer') <= head'
    BY <1>1, <1>3, <1>4, <1>5
  <2> QED BY <1>1, <1>5, <1>6, <1>7, <2>1, <2>2 DEF Stream
<1>10. ShowsOf(mined, snapshot.view, from - 1)
  <2>1. CASE from - 1 = 0
    BY <2>1 DEF ShowsOf
  <2>2. CASE from - 1 <= snapshot.number - 1
    BY <1>3, <1>4, <2>2, ShownOf, ShowsFewer
  <2> QED BY <1>4, <2>1, <2>2
<1>11. 0 <= from - 1
  BY <1>4
<1>12. Shown'
  BY <1>1, <1>3, <1>6, <1>7, <1>10, <1>11, ShownOf, ShownOfNext
<1> QED BY <1>8, <1>9, <1>12

\* Before the first block there is nothing to show.
LEMMA StreamInit ==
  ASSUME Quiet, RestartInit
  PROVE  ListenerAlone /\ Stream /\ Shown
<1>1. /\ head = 0 /\ newBlockEventer = << >> /\ ctxDone = FALSE /\ faults = 0
      /\ listener.pc = "idle" /\ mined = << >> /\ savedNumber = 0 /\ lastUpdatedAtBlock = 0
      /\ snapshot.number = 0
      /\ initializer.pc = "stopped" /\ pruner.pc = "stopped" /\ reconciler.pc = "stopped"
  BY IdleTypes DEF RestartInit, Init, Quiet, Started, IdleInitializer, IdlePruner, IdleReconciler
<1>2. Taken = 0 /\ Handled = 0
  <2>1. Len(newBlockEventer) = 0 /\ listener.pc \notin {"fetching", "applying"}
    BY <1>1, EmptySeq, LenProperties
  <2>2. head = 0
    BY <1>1
  <2>3. Taken = 0
    BY <2>1, <2>2 DEF Taken
  <2> QED BY <2>1, <2>3 DEF Handled
<1>3. \A v : ShowsOf(mined, v, 0) /\ ShowsOf(mined, v, 0 - 1)
  BY DEF ShowsOf
<1>4. Shown
  BY <1>1, <1>2, <1>3, ShownOf
<1>5. ListenerAlone /\ Stream
  BY <1>1, <1>2 DEF ListenerAlone, Stream
<1> QED BY <1>4, <1>5

\* In a process in which nothing fails, this always holds.
LEMMA StreamInvariance == RestartSpec => []SInv
<1>1. RestartInit => SInv
  BY RestartInitInv, StreamInit DEF SInv
<1>2. SInv /\ [RestartNext]_allVars => SInv'
  <2> SUFFICES ASSUME SInv, [RestartNext]_allVars PROVE SInv'
    OBVIOUS
  <2>1. RInv'
    BY RestartNextInv DEF SInv
  <2>2. ASSUME Quiet PROVE ListenerAlone' /\ Stream' /\ Shown'
    <3>1. RInv /\ ListenerAlone /\ Stream /\ Shown
      BY <2>2 DEF SInv
    <3>2. CASE UNCHANGED allVars
      BY <3>1, <3>2, StreamFrame DEF allVars, vars, env
    <3>3. CASE RestartNext
      BY <2>2, <3>1, <3>3, StreamRun, StreamSave, StreamRestart DEF RestartNext
    <3> QED BY <3>2, <3>3
  <2>3. (Quiet => ListenerAlone /\ Stream /\ Shown)'
    BY <2>2 DEF Quiet
  <2> QED BY <2>1, <2>3 DEF SInv
<1> QED BY <1>1, <1>2, PTL DEF RestartSpec

-----------------------------------------------------------------------------
\* In the history h, every pool had the reserves of its entry after the block of the entry.
AllHappened(h, entries) ==
  \A p \in DOMAIN entries :
    /\ entries[p].block \in 0 .. Len(h) - 1
    /\ entries[p].reserve = h[entries[p].block + 1][p]

\* The history is that of the chain: it ends at the head, the events of every block tell it,
\* and reserves change only by events.
Past ==
  /\ was[head + 1] = chain
  /\ \A k \in 1 .. head : mined[k].number = k
  /\ \A k \in 1 .. head : \A p \in DOMAIN mined[k].sync : was[k + 1][p] = mined[k].sync[p]
  /\ \A p \in Pools : \A k \in 0 .. head :
       was[k + 1][p] # chain[p] => \E j \in k + 1 .. head : p \in DOMAIN mined[j].sync

\* Blocks come in order and the listener holds one later than all those it counted.
Feed ==
  /\ Len(newBlockEventer) <= head
  /\ \A k \in 1 .. Len(newBlockEventer) : newBlockEventer[k] = mined[Taken + k]
  /\ lastUpdatedAtBlock <= Taken
  /\ listener.pc \in {"fetching", "applying"} =>
       /\ lastUpdatedAtBlock < listener.block.number
       /\ listener.block.number <= Taken
       /\ \A p \in DOMAIN listener.block.sync :
            was[listener.block.number + 1][p] = listener.block.sync[p]

\* Whatever holds reserves holds those of the past: what the goroutines have in flight too.
Sourced ==
  /\ AllHappened(was, registry)
  /\ AllHappened(was, cachedView)
  /\ AllHappened(was, snapshot.view)
  /\ AllHappened(was, initializer.found)
  /\ AllHappened(was, reconciler.fresh)

HInv == RInv /\ Past /\ Feed /\ Sourced

\* The types of the history.
LEMMA HistoryType ==
  ASSUME RInv
  PROVE  was \in Seq([Pools -> Reserves]) /\ Len(was) = head + 1 /\ head \in Nat
  BY Numbers DEF RInv, RestartTypeOK

\* A later block does not change what happened before.
LEMMA HappenedStays ==
  ASSUME NEW h \in Seq([Pools -> Reserves]), NEW now \in [Pools -> Reserves],
         NEW entries \in Entries, AllHappened(h, entries)
  PROVE  AllHappened(Append(h, now), entries)
<1>1. Len(h) \in Nat /\ Len(Append(h, now)) = Len(h) + 1
  OBVIOUS
<1>2. \A p \in DOMAIN entries : entries[p].block \in 0 .. Len(h) - 1
  BY DEF AllHappened
<1>3. \A k \in 0 .. Len(h) - 1 : Append(h, now)[k + 1] = h[k + 1]
  BY <1>1
<1>4. \A k \in 0 .. Len(h) - 1 : k \in 0 .. Len(Append(h, now)) - 1
  BY <1>1
<1> QED BY <1>2, <1>3, <1>4 DEF AllHappened

\* Nothing to show, nothing to have happened; and some of what happened has happened.
LEMMA HappenedParts ==
  /\ \A h : AllHappened(h, Empty)
  /\ \A h : \A f \in Entries : \A S \in SUBSET DOMAIN f :
       AllHappened(h, f) => AllHappened(h, Restrict(f, S))
<1>1. DOMAIN Empty = {}
  BY DEF Empty
<1>2. ASSUME NEW h, NEW f \in Entries, NEW S \in SUBSET DOMAIN f, AllHappened(h, f)
      PROVE  AllHappened(h, Restrict(f, S))
  BY <1>2, RestrictType DEF AllHappened
<1> QED BY <1>1, <1>2 DEF AllHappened

\* An answer from the chain is of the head.
LEMMA AnswerHappened ==
  ASSUME RInv, Past, NEW f \in Entries, NEW p \in Pools, AllHappened(was, f)
  PROVE  AllHappened(was, WithAnswer(f, p))
<1>1. Len(was) = head + 1 /\ head \in Nat
  BY HistoryType
<1>2. DOMAIN WithAnswer(f, p) = DOMAIN f \cup {p}
  BY WithAnswerType DEF RInv, RestartTypeOK
<1>3. ASSUME NEW q \in DOMAIN f \cup {p}
      PROVE  /\ WithAnswer(f, p)[q].block \in 0 .. Len(was) - 1
             /\ WithAnswer(f, p)[q].reserve = was[WithAnswer(f, p)[q].block + 1][q]
  <2>1. CASE q = p
    BY <1>1, <2>1 DEF WithAnswer, Past
  <2>2. CASE q # p
    BY <2>2 DEF WithAnswer, AllHappened
  <2> QED BY <2>1, <2>2
<1> QED BY <1>2, <1>3 DEF AllHappened

\* Nothing was before the first block.
LEMMA HistoryInit == RestartInit => HInv
<1> SUFFICES ASSUME RestartInit PROVE HInv
  OBVIOUS
<1>1. /\ head = 0 /\ was = <<chain>> /\ newBlockEventer = << >> /\ lastUpdatedAtBlock = 0
      /\ registry = [p \in registered |-> [reserve |-> chain[p], block |-> 0]]
      /\ cachedView = registry /\ snapshot.view = cachedView
      /\ initializer = Started("initializer", IdleInitializer)
      /\ reconciler = Started("reconciler", IdleReconciler)
      /\ listener.pc = "idle"
  BY IdleTypes DEF RestartInit, Init
<1>2. RInv
  BY RestartInitInv
<1>3. Len(was) = 1 /\ was[1] = chain
  BY <1>1
<1>4. Past
  BY <1>1, <1>3 DEF Past
<1>5. Len(newBlockEventer) = 0 /\ Taken = 0
  <2>1. Len(newBlockEventer) = 0
    BY <1>1, EmptySeq, LenProperties
  <2>2. head = 0
    BY <1>1
  <2> QED BY <2>1, <2>2 DEF Taken
<1>6. Feed
  BY <1>1, <1>5 DEF Feed
<1>7. AllHappened(was, registry)
  BY <1>1, <1>3 DEF AllHappened
<1>8. initializer.found = Empty /\ reconciler.fresh = Empty
  BY <1>1 DEF Started, IdleInitializer, IdleReconciler
<1>9. Sourced
  BY <1>1, <1>7, <1>8, HappenedParts DEF Sourced
<1> QED BY <1>2, <1>4, <1>6, <1>9 DEF HInv

\* The parts that hold reserves.
LEMMA SourceTypes ==
  ASSUME RInv
  PROVE  /\ registry \in Entries /\ cachedView \in Entries /\ snapshot.view \in Entries
         /\ initializer.found \in Entries /\ reconciler.fresh \in Entries
  BY InitializerParts, ReconcilerParts DEF RInv, RestartTypeOK, TypeOK

\* A mined block extends the history by what its events say.
LEMMA MinePast ==
  ASSUME RInv, Past, Mine, Run
  PROVE  Past' /\ was' = Append(was, chain') /\ chain' \in [Pools -> Reserves]
<1>1. PICK S \in SUBSET Pools : \E sync \in [S -> Reserves], swap \in SUBSET S :
        /\ chain' = [p \in Pools |-> IF p \in S THEN sync[p] ELSE chain[p]]
        /\ newBlockEventer' =
             Append(newBlockEventer, [number |-> head + 1, swap |-> swap, sync |-> sync])
  BY DEF Mine
<1>2. PICK sync \in [S -> Reserves], swap \in SUBSET S :
        /\ chain' = [p \in Pools |-> IF p \in S THEN sync[p] ELSE chain[p]]
        /\ newBlockEventer' =
             Append(newBlockEventer, [number |-> head + 1, swap |-> swap, sync |-> sync])
  BY <1>1
<1> DEFINE b == [number |-> head + 1, swap |-> swap, sync |-> sync]
<1>3. /\ head \in Nat /\ Len(mined) = head /\ mined \in Seq(Block)
      /\ newBlockEventer \in Seq(Block) /\ Len(newBlockEventer) \in Nat
  BY Numbers
<1>4. was \in Seq([Pools -> Reserves]) /\ Len(was) = head + 1 /\ chain \in [Pools -> Reserves]
  BY HistoryType DEF RInv, RestartTypeOK, TypeOK
<1>5. head' = head + 1 /\ head' # head
  BY <1>3 DEF Mine
<1>6. was' = Append(was, chain') /\ mined' = Append(mined, newBlockEventer'[Len(newBlockEventer')])
  BY <1>5 DEF Run
<1>7. newBlockEventer'[Len(newBlockEventer')] = b
  BY <1>2, <1>3
<1>8. chain' \in [Pools -> Reserves]
  BY <1>2, <1>4
<1>9. /\ \A k \in 1 .. head : mined'[k] = mined[k]
      /\ mined'[head + 1] = b
      /\ \A k \in 0 .. head : was'[k + 1] = was[k + 1]
      /\ was'[head + 2] = chain'
  BY <1>3, <1>4, <1>6, <1>7, <1>8
<1>10. DOMAIN b.sync = S /\ b.number = head + 1 /\ \A p \in S : b.sync[p] = chain'[p]
  BY <1>2
<1>11. \A k \in 1 .. head' : mined'[k].number = k
  BY <1>3, <1>5, <1>9, <1>10 DEF Past
<1>12. \A k \in 1 .. head' : \A p \in DOMAIN mined'[k].sync : was'[k + 1][p] = mined'[k].sync[p]
  <2>1. \A k \in 1 .. head : \A p \in DOMAIN mined'[k].sync : was'[k + 1][p] = mined'[k].sync[p]
    BY <1>3, <1>9 DEF Past
  <2>2. \A p \in DOMAIN mined'[head + 1].sync : was'[(head + 1) + 1][p] = mined'[head + 1].sync[p]
    BY <1>3, <1>9, <1>10
  <2> QED BY <1>3, <1>5, <2>1, <2>2
<1>13. ASSUME NEW p \in Pools, NEW k \in 0 .. head', was'[k + 1][p] # chain'[p]
       PROVE  \E j \in k + 1 .. head' : p \in DOMAIN mined'[j].sync
  <2>1. k \in 0 .. head
    BY <1>3, <1>5, <1>9, <1>13
  <2>2. CASE p \in S
    <3>1. head + 1 \in k + 1 .. head' /\ p \in DOMAIN mined'[head + 1].sync
      BY <1>3, <1>5, <1>9, <1>10, <2>1, <2>2
    <3> QED BY <3>1
  <2>3. CASE p \notin S
    <3>1. was[k + 1][p] # chain[p]
      BY <1>2, <1>9, <1>13, <2>1, <2>3
    <3>2. PICK j \in k + 1 .. head : p \in DOMAIN mined[j].sync
      BY <2>1, <3>1 DEF Past
    <3>3. j \in k + 1 .. head' /\ j \in 1 .. head
      BY <1>3, <1>5, <2>1
    <3> QED BY <1>9, <3>2, <3>3
  <2> QED BY <2>2, <2>3
<1>14. was'[head' + 1] = chain'
  BY <1>3, <1>5, <1>9
<1> QED BY <1>6, <1>8, <1>11, <1>12, <1>13, <1>14 DEF Past

\* So everything still holds after it.
LEMMA MineHistory ==
  ASSUME HInv, Mine, Run
  PROVE  HInv'
<1> USE DEF HInv
<1>1. RInv' /\ Past' /\ was' = Append(was, chain') /\ chain' \in [Pools -> Reserves]
  BY RunInv, MinePast
<1>2. was \in Seq([Pools -> Reserves]) /\ Len(was) = head + 1
  BY HistoryType
<1>3. UNCHANGED <<fields, locals, snapshot>>
  BY DEF Mine, Run, process
<1>4. Sourced'
  <2>1. \A f \in Entries : AllHappened(was, f) => AllHappened(was', f)
    BY <1>1, <1>2, HappenedStays
  <2> QED BY <1>3, <2>1, SourceTypes DEF Sourced, fields, locals
<1>5. Feed'
  <2>1. PICK b \in Block :
          /\ b.number = head + 1 /\ head' = head + 1
          /\ mined' = Append(mined, b) /\ newBlockEventer' = Append(newBlockEventer, b)
    BY MinedBlock
  <2>2. /\ head \in Nat /\ Len(mined) = head /\ mined \in Seq(Block)
        /\ newBlockEventer \in Seq(Block) /\ Len(newBlockEventer) \in Nat
        /\ Taken \in Int
    BY Numbers
  <2>3. /\ Len(newBlockEventer') = Len(newBlockEventer) + 1
        /\ \A k \in 1 .. Len(newBlockEventer) : newBlockEventer'[k] = newBlockEventer[k]
        /\ newBlockEventer'[Len(newBlockEventer) + 1] = b
        /\ \A k \in 1 .. head : mined'[k] = mined[k]
        /\ mined'[head + 1] = b
    BY <2>1, <2>2
  <2>4. Taken' = Taken
    BY <2>1, <2>2, <2>3 DEF Taken
  <2>5. Taken >= 0 /\ Taken <= head /\ Taken + Len(newBlockEventer) = head
    BY <2>2 DEF Feed, Taken
  <2>6. \A k \in 1 .. Len(newBlockEventer') : newBlockEventer'[k] = mined'[Taken' + k]
    <3>1. \A k \in 1 .. Len(newBlockEventer) : Taken + k \in 1 .. head
      BY <2>2, <2>5
    <3>2. \A k \in 1 .. Len(newBlockEventer) : newBlockEventer'[k] = mined'[Taken + k]
      BY <2>3, <3>1 DEF Feed
    <3>3. newBlockEventer'[Len(newBlockEventer) + 1] = mined'[Taken + (Len(newBlockEventer) + 1)]
      <4>1. Taken + (Len(newBlockEventer) + 1) = head + 1
        BY <2>2, <2>5
      <4> QED BY <2>3, <4>1
    <3>4. 1 .. Len(newBlockEventer') = 1 .. Len(newBlockEventer) \cup {Len(newBlockEventer) + 1}
      BY <2>2, <2>3
    <3> QED BY <2>4, <3>2, <3>3, <3>4
  <2>7. Len(newBlockEventer') <= head'
    <3>1. Len(newBlockEventer) <= head
      BY DEF Feed
    <3> QED BY <2>1, <2>2, <2>3, <3>1
  <2>8. listener.pc \in {"fetching", "applying"} =>
          \A p \in DOMAIN listener.block.sync :
            was'[listener.block.number + 1][p] = listener.block.sync[p]
    <3>1. listener.block.number \in Nat
      BY ListenerParts, BlockParts DEF RInv, RestartTypeOK
    <3>2. \A k \in 0 .. head : was'[k + 1] = was[k + 1]
      BY <1>1, <1>2, <2>2
    <3>3. listener.pc \in {"fetching", "applying"} =>
            /\ listener.block.number <= Taken
            /\ \A p \in DOMAIN listener.block.sync :
                 was[listener.block.number + 1][p] = listener.block.sync[p]
      BY DEF Feed
    <3>4. listener.pc \in {"fetching", "applying"} => listener.block.number \in 0 .. head
      BY <2>2, <2>5, <3>1, <3>3
    <3> QED BY <3>2, <3>3, <3>4
  <2> QED BY <1>3, <2>4, <2>6, <2>7, <2>8 DEF Feed, fields, locals
<1> QED BY <1>1, <1>4, <1>5

\* A step that takes no block and leaves what the goroutines hold alone.
LEMMA HistoryFrame ==
  ASSUME HInv, RInv', UNCHANGED <<head, chain, mined, was, snapshot, listener, newBlockEventer>>,
         lastUpdatedAtBlock' = lastUpdatedAtBlock,
         Sourced'
  PROVE  HInv'
<1>1. Taken' = Taken
  BY DEF Taken
<1>2. Past' /\ Feed'
  BY <1>1 DEF HInv, Past, Feed
<1> QED BY <1>2 DEF HInv

\* The first block in the channel: later than those counted, and its events tell the history.
LEMMA FeedNext ==
  ASSUME HInv, newBlockEventer # << >>
  PROVE  /\ Head(newBlockEventer).number = Taken + 1
         /\ lastUpdatedAtBlock < Taken + 1 /\ Taken + 1 <= head
         /\ Len(Tail(newBlockEventer)) = Len(newBlockEventer) - 1
         /\ \A k \in 1 .. Len(newBlockEventer) - 1 : Tail(newBlockEventer)[k] = mined[Taken + 1 + k]
         /\ \A p \in DOMAIN Head(newBlockEventer).sync :
              was[Taken + 2][p] = Head(newBlockEventer).sync[p]
<1>1. /\ newBlockEventer \in Seq(Block) /\ head \in Nat /\ Len(newBlockEventer) \in Nat
      /\ Taken \in Int /\ Len(newBlockEventer) > 0 /\ lastUpdatedAtBlock \in Nat
  BY Numbers DEF HInv
<1>2. Head(newBlockEventer) = newBlockEventer[1]
  BY <1>1
<1>3. newBlockEventer[1] = mined[Taken + 1]
  BY <1>1 DEF HInv, Feed
<1>4. Taken + 1 \in 1 .. head /\ lastUpdatedAtBlock <= Taken
  BY <1>1 DEF HInv, Feed, Taken
<1>5. /\ Len(Tail(newBlockEventer)) = Len(newBlockEventer) - 1
      /\ \A k \in 1 .. Len(Tail(newBlockEventer)) : Tail(newBlockEventer)[k] = newBlockEventer[k + 1]
  BY <1>1, HeadTailProperties
<1>6. \A k \in 1 .. Len(newBlockEventer) - 1 : newBlockEventer[k + 1] = mined[Taken + (k + 1)]
  BY <1>1 DEF HInv, Feed
<1>7. \A k \in 1 .. Len(newBlockEventer) - 1 : Taken + (k + 1) = Taken + 1 + k
  BY <1>1
<1>8. \A p \in DOMAIN mined[Taken + 1].sync : was[(Taken + 1) + 1][p] = mined[Taken + 1].sync[p]
  BY <1>4 DEF HInv, Past
<1>9. (Taken + 1) + 1 = Taken + 2
  BY <1>1
<1>10. mined[Taken + 1].number = Taken + 1
  BY <1>4 DEF HInv, Past
<1>11. lastUpdatedAtBlock < Taken + 1 /\ Taken + 1 <= head
  BY <1>1, <1>4
<1> QED BY <1>2, <1>3, <1>5, <1>6, <1>7, <1>8, <1>9, <1>10, <1>11

\* The number of the block in the listener's hands, and the lengths it is compared with.
LEMMA ListenerNumber ==
  ASSUME RInv
  PROVE  listener.block.number \in Nat /\ Len(newBlockEventer) \in Nat
<1>1. TypeOK
  BY DEF RInv, RestartTypeOK
<1>2. listener.block.number \in 0 .. MaxBlock /\ newBlockEventer \in Seq(Block)
  <2>1. newBlockEventer \in Seq(Block)
    BY <1>1 DEF TypeOK
  <2> QED BY <1>1, <2>1, ListenerParts, BlockParts
<1> QED BY <1>2

\* The listener's number follows the blocks; what it writes are the events of its block.
LEMMA ListenerHistory ==
  ASSUME HInv, RInv', ListenerNext \/ StopListener,
         UNCHANGED <<mined, was, snapshot>>
  PROVE  HInv'
<1> USE DEF HInv
<1>0. UNCHANGED <<head, chain, initializer, reconciler>>
  BY DEF ListenerNext, ListenerRuns, StopListener, SkipBlock, ReceiveBlock,
              FetchLogs, ApplyBlock, PublishBlock, CountPending,
         listenerOnly
<1>1. /\ head \in Nat /\ Len(newBlockEventer) \in Nat /\ Taken \in Int /\ lastUpdatedAtBlock \in Nat
  BY Numbers
<1>2. Past'
  BY <1>0 DEF Past
<1>3. ASSUME newBlockEventer' = Tail(newBlockEventer), newBlockEventer # << >>,
             lastUpdatedAtBlock' \in Nat, lastUpdatedAtBlock' <= Taken + 1,
             listener'.pc \in {"fetching", "applying"} =>
               /\ lastUpdatedAtBlock' < listener'.block.number
               /\ listener'.block.number <= Taken + 1
               /\ \A p \in DOMAIN listener'.block.sync :
                    was[listener'.block.number + 1][p] = listener'.block.sync[p]
      PROVE  Feed'
  <2>1. /\ Len(newBlockEventer') = Len(newBlockEventer) - 1
        /\ \A k \in 1 .. Len(newBlockEventer) - 1 : newBlockEventer'[k] = mined[Taken + 1 + k]
    BY <1>3, FeedNext
  <2>2. Taken' = Taken + 1
    BY <1>0, <1>1, <2>1 DEF Taken
  <2>3. Len(newBlockEventer') <= head
    BY <1>1, <2>1 DEF Feed
  <2>4. \A k \in 1 .. Len(newBlockEventer') : newBlockEventer'[k] = mined'[Taken' + k]
    BY <2>1, <2>2
  <2>5. lastUpdatedAtBlock' <= Taken' /\ Len(newBlockEventer') <= head'
    BY <1>0, <1>3, <2>2, <2>3
  <2>6. listener'.pc \in {"fetching", "applying"} =>
          /\ lastUpdatedAtBlock' < listener'.block.number
          /\ listener'.block.number <= Taken'
          /\ \A p \in DOMAIN listener'.block.sync :
               was'[listener'.block.number + 1][p] = listener'.block.sync[p]
    BY <1>3, <2>2
  <2> QED BY <2>4, <2>5, <2>6 DEF Feed
<1>4. listener = [pc |-> listener.pc, block |-> listener.block, new |-> listener.new]
  BY ListenerParts DEF RInv, RestartTypeOK
<1>5. CASE SkipBlock
  <2>1. Feed'
    <3>1. lastUpdatedAtBlock' = Taken + 1 /\ listener.pc = "idle" /\ listener' = listener
      BY <1>5, FeedNext DEF SkipBlock
    <3> QED BY <1>1, <1>3, <1>5, <3>1, FeedNext DEF SkipBlock
  <2> QED BY <1>0, <1>2, <1>5, <2>1 DEF SkipBlock, Sourced
<1>6. CASE ReceiveBlock
  <2> DEFINE b == Head(newBlockEventer)
  <2>1. /\ newBlockEventer # << >> /\ newBlockEventer' = Tail(newBlockEventer)
        /\ UNCHANGED fields
        /\ listener'.pc = "fetching" /\ listener'.block = b
    BY <1>4, <1>6 DEF ReceiveBlock
  <2>2. /\ b.number = Taken + 1 /\ lastUpdatedAtBlock < Taken + 1
        /\ \A p \in DOMAIN b.sync : was[(Taken + 1) + 1][p] = b.sync[p]
    BY <1>1, <2>1, FeedNext
  <2> HIDE DEF b
  <2>3. lastUpdatedAtBlock' = lastUpdatedAtBlock
    BY <2>1 DEF fields
  <2>4. lastUpdatedAtBlock' \in Nat /\ lastUpdatedAtBlock' <= Taken + 1
    BY <1>1, <2>2, <2>3
  <2>5. /\ listener'.block.number = Taken + 1
        /\ \A p \in DOMAIN listener'.block.sync :
             was[(Taken + 1) + 1][p] = listener'.block.sync[p]
    BY <2>1, <2>2
  <2>6. Feed'
    BY <1>1, <1>3, <2>1, <2>2, <2>3, <2>4, <2>5
  <2> QED BY <1>0, <1>2, <2>1, <2>6 DEF fields, Sourced
<1>7. CASE FetchLogs
  <2> DEFINE e == [NoBlock EXCEPT !.number = listener.block.number]
  <2>1. /\ listener.pc = "fetching" /\ UNCHANGED <<newBlockEventer, fields>>
        /\ \/ listener' = [listener EXCEPT !.pc = "applying", !.block = listener.block]
           \/ listener' = [listener EXCEPT !.pc = "applying", !.block = e]
           \/ listener' = IdleListener
    BY <1>7 DEF FetchLogs
  <2>2. e.number = listener.block.number /\ DOMAIN e.sync = {}
    BY DEF NoBlock, Empty
  <2> HIDE DEF e
  <2>3. \/ listener'.pc = "applying" /\ listener'.block = listener.block
        \/ listener'.pc = "applying" /\ listener'.block = e
        \/ listener'.pc = "idle"
    BY <1>4, <2>1, IdleTypes
  <2>4. Taken' = Taken /\ lastUpdatedAtBlock' = lastUpdatedAtBlock
    BY <1>0, <2>1 DEF Taken, fields
  <2>5. Feed'
    BY <1>0, <2>1, <2>2, <2>3, <2>4 DEF Feed
  <2> QED BY <1>0, <1>2, <2>1, <2>5 DEF fields, Sourced
<1>8. CASE ApplyBlock
  <2> DEFINE b == listener.block
  <2>1. /\ listener.pc = "applying" /\ registry' = Updated(b) /\ lastUpdatedAtBlock' = b.number
        /\ newBlockEventer' = newBlockEventer /\ cachedView' = cachedView
    BY <1>8 DEF ApplyBlock
  <2>2. listener'.pc = "publishing"
    BY <1>4, <1>8 DEF ApplyBlock
  <2>3. /\ b.number \in Nat /\ b.number <= Taken
        /\ \A p \in DOMAIN b.sync : was[b.number + 1][p] = b.sync[p]
    BY <2>1, ListenerNumber DEF Feed
  <2> HIDE DEF b
  <2>4. Taken' = Taken
    BY <1>0, <2>1 DEF Taken
  <2>5. Feed'
    BY <1>0, <2>1, <2>2, <2>3, <2>4 DEF Feed
  <2>6. AllHappened(was, registry')
    <3>1. Taken <= head /\ Len(was) = head + 1
      BY <1>1, HistoryType DEF Taken
    <3>2. b.number \in 0 .. Len(was) - 1
      BY <1>1, <2>3, <3>1
    <3> QED BY <2>1, <2>3, <3>2 DEF Updated, AllHappened, Sourced
  <2> QED BY <1>0, <1>2, <2>1, <2>5, <2>6 DEF Sourced
<1>9. CASE PublishBlock \/ CountPending
  <2>1. /\ listener.pc \in {"publishing", "counting"}
        /\ UNCHANGED <<newBlockEventer, registry, lastUpdatedAtBlock>>
        /\ cachedView' = registry \/ cachedView' = cachedView
        /\ listener' = IdleListener \/ listener' = [listener EXCEPT !.pc = "counting", !.block = NoBlock]
    BY <1>9 DEF PublishBlock, CountPending
  <2>2. listener'.pc \notin {"fetching", "applying"} /\ Taken' = Taken
    BY <1>0, <1>4, <2>1, IdleTypes DEF Taken
  <2> QED BY <1>0, <1>2, <2>1, <2>2 DEF Feed, Sourced
<1>10. CASE StopListener
  <2>1. listener'.pc = "stopped" /\ UNCHANGED <<newBlockEventer, fields>>
    BY <1>4, <1>10 DEF StopListener
  <2>2. Taken' = Taken
    BY <1>0, <2>1 DEF Taken
  <2> QED BY <1>0, <1>2, <2>1, <2>2 DEF Feed, Sourced, fields
<1> QED BY <1>5, <1>6, <1>7, <1>8, <1>9, <1>10 DEF ListenerNext, ListenerRuns

\* What the initializer fetched happened, and pools enter with what was fetched for them.
LEMMA InitializerHistory ==
  ASSUME HInv, RInv', InitializerNext \/ StopInitializer, UNCHANGED <<mined, was, snapshot>>
  PROVE  HInv'
<1> USE DEF HInv
<1>1. UNCHANGED <<head, chain, listener, newBlockEventer, lastUpdatedAtBlock, reconciler>>
  BY DEF InitializerNext, StopInitializer, DrainPending, ResetGauge, InitializePool,
         ApplyInitializations, initializerOnly, fields
<1>2. initializer \in InitializerState /\ initializer.found \in Entries /\ TypeOK
  BY InitializerParts DEF RInv, RestartTypeOK, TypeOK
<1>3. IdleInitializer.found = Empty
  BY DEF IdleInitializer
<1>4. CASE DrainPending \/ ResetGauge \/ StopInitializer
  <2>1. UNCHANGED <<registry, cachedView>>
    BY <1>4 DEF DrainPending, ResetGauge, StopInitializer, fields
  <2>2. initializer'.found = initializer.found \/ initializer'.found = Empty
    BY <1>2, <1>3, <1>4 DEF DrainPending, ResetGauge, StopInitializer, InitializerState
  <2>3. Sourced'
    BY <1>1, <2>1, <2>2, HappenedParts DEF Sourced
  <2> QED BY <1>1, <2>3, HistoryFrame
<1>5. ASSUME NEW p \in Pools, InitializePool(p)
      PROVE  HInv'
  <2>1. UNCHANGED <<registry, cachedView>>
    BY <1>5 DEF InitializePool, fields
  <2>2. \/ initializer'.found = initializer.found
        \/ initializer'.found = WithAnswer(initializer.found, p)
    BY <1>2, <1>5 DEF InitializePool, InitializerState
  <2>3. AllHappened(was, initializer'.found)
    BY <1>2, <2>2, AnswerHappened DEF Sourced
  <2>4. Sourced'
    BY <1>1, <2>1, <2>3 DEF Sourced
  <2> QED BY <1>1, <2>4, HistoryFrame
<1>6. CASE ApplyInitializations
  <2>1. PICK added \in SUBSET DOMAIN initializer.found :
          /\ registry' = WithInitialized(added)
          /\ cachedView' = registry' \/ cachedView' = cachedView
    BY <1>6 DEF ApplyInitializations
  <2>2. initializer' = IdleInitializer
    BY <1>6 DEF ApplyInitializations
  <2>3. AllHappened(was, registry')
    BY <2>1 DEF WithInitialized, AllHappened, Sourced
  <2>4. Sourced'
    BY <1>1, <1>3, <2>1, <2>2, <2>3, HappenedParts DEF Sourced
  <2> QED BY <1>1, <2>4, HistoryFrame
<1> QED BY <1>4, <1>5, <1>6 DEF InitializerNext

\* Deletions leave the entries of other pools alone.
LEMMA DeletionsHistory ==
  ASSUME HInv, RInv', PrunerNext \/ StopPruner \/ \E S \in SUBSET Pools : ManagerDelete(S),
         UNCHANGED <<mined, was, snapshot>>
  PROVE  HInv'
<1> USE DEF HInv
<1>1. UNCHANGED <<head, chain, listener, newBlockEventer, lastUpdatedAtBlock, initializer, reconciler>>
  BY DEF PrunerNext, StopPruner, StartPruning, ScanPool, PruneBlocked, ManagerDelete, DeletePools,
         prunerOnly, scanOnly, env, fields, locals
<1>2. \/ UNCHANGED <<registry, cachedView>>
      \/ \E S : /\ registry' = Restrict(registry, DOMAIN registry \ S)
                /\ cachedView' = registry' \/ cachedView' = cachedView
  BY DEF PrunerNext, StopPruner, StartPruning, ScanPool, PruneBlocked, ManagerDelete, DeletePools,
         fields
<1>3. AllHappened(was, registry') /\ AllHappened(was, cachedView')
  BY <1>2, SourceTypes, HappenedParts DEF Sourced
<1>4. Sourced'
  BY <1>1, <1>3 DEF Sourced
<1> QED BY <1>1, <1>4, HistoryFrame

\* A correction writes what the chain answered.
LEMMA ReconcilerHistory ==
  ASSUME HInv, RInv', ReconcilerNext \/ StopReconciler, UNCHANGED <<mined, was, snapshot>>
  PROVE  HInv'
<1> USE DEF HInv
<1>1. UNCHANGED <<head, chain, listener, newBlockEventer, lastUpdatedAtBlock, initializer>>
  BY DEF ReconcilerNext, StopReconciler, StartReconciling, FetchReserves, Compare,
         ApplyReconciliation, reconcilerOnly, fields
<1>2. reconciler \in ReconcilerState /\ reconciler.fresh \in Entries /\ TypeOK
  BY ReconcilerParts DEF RInv, RestartTypeOK, TypeOK
<1>3. IdleReconciler.fresh = Empty
  BY DEF IdleReconciler
<1>4. CASE ApplyReconciliation
  <2>1. /\ registry' = Reconciled /\ cachedView' = registry' /\ reconciler' = IdleReconciler
    BY <1>4 DEF ApplyReconciliation
  <2>2. AllHappened(was, registry')
    BY <2>1 DEF Reconciled, AllHappened, Sourced
  <2>3. Sourced'
    BY <1>1, <1>3, <2>1, <2>2, HappenedParts DEF Sourced
  <2> QED BY <1>1, <2>3, HistoryFrame
<1>5. CASE StartReconciling \/ StopReconciler \/ Compare
  <2>1. UNCHANGED <<registry, cachedView>>
    BY <1>5 DEF StartReconciling, StopReconciler, Compare, fields
  <2>2. \/ reconciler'.fresh = Empty
        \/ reconciler'.fresh = reconciler.fresh
        \/ reconciler'.fresh = Restrict(reconciler.fresh, updatesToApply)
    <3>1. CASE StartReconciling
      BY <1>3, <3>1 DEF StartReconciling
    <3>2. CASE StopReconciler
      BY <1>2, <3>2 DEF StopReconciler, ReconcilerState
    <3>3. CASE Compare
      BY <1>3, <3>3 DEF Compare, IdleReconciler
    <3> QED BY <1>5, <3>1, <3>2, <3>3
  <2>3. updatesToApply \in SUBSET DOMAIN reconciler.fresh
    BY DEF updatesToApply
  <2>4. AllHappened(was, reconciler'.fresh)
    BY <1>2, <2>2, <2>3, HappenedParts DEF Sourced
  <2>5. Sourced'
    BY <1>1, <2>1, <2>4 DEF Sourced
  <2> QED BY <1>1, <2>5, HistoryFrame
<1>6. ASSUME NEW p \in Pools, FetchReserves(p)
      PROVE  HInv'
  <2>1. UNCHANGED <<registry, cachedView>>
    BY <1>6 DEF FetchReserves, fields
  <2>2. \/ reconciler'.fresh = reconciler.fresh
        \/ reconciler'.fresh = WithAnswer(reconciler.fresh, p)
    BY <1>2, <1>6 DEF FetchReserves, ReconcilerState
  <2>3. AllHappened(was, reconciler'.fresh)
    BY <1>2, <2>2, AnswerHappened DEF Sourced
  <2>4. Sourced'
    BY <1>1, <2>1, <2>3 DEF Sourced
  <2> QED BY <1>1, <2>4, HistoryFrame
<1> QED BY <1>4, <1>5, <1>6 DEF ReconcilerNext

\* A step of the process or its world keeps the history and what is held of it.
LEMMA RunHistory ==
  ASSUME HInv, Run
  PROVE  HInv'
<1>1. RInv' /\ Next /\ snapshot' = snapshot
  BY RunInv DEF HInv, Run, process
<1>2. CASE Mine
  BY <1>2, MineHistory
<1>3. CASE head' = head /\ chain' = chain
  <2>1. UNCHANGED <<mined, was, snapshot>>
    BY <1>1, <1>3 DEF Run
  <2>2. CASE Cancel \/ \E p \in Pools : ToggleBlocked(p) \/ RegisterElsewhere(p)
    <3>1. UNCHANGED <<newBlockEventer, fields, locals>>
      BY <2>2 DEF Cancel, ToggleBlocked, RegisterElsewhere
    <3>2. Sourced'
      BY <2>1, <3>1 DEF HInv, Sourced, fields, locals
    <3> QED BY <1>1, <1>3, <2>1, <3>1, <3>2, HistoryFrame DEF fields, locals
  <2>3. CASE ListenerNext \/ StopListener
    BY <1>1, <2>1, <2>3, ListenerHistory
  <2>4. CASE InitializerNext \/ StopInitializer
    BY <1>1, <2>1, <2>4, InitializerHistory
  <2>5. CASE PrunerNext \/ StopPruner \/ \E S \in SUBSET Pools : ManagerDelete(S)
    BY <1>1, <2>1, <2>5, DeletionsHistory
  <2>6. CASE ReconcilerNext \/ StopReconciler
    BY <1>1, <2>1, <2>6, ReconcilerHistory
  <2> QED BY <1>1, <1>2, <2>2, <2>3, <2>4, <2>5, <2>6 DEF Next
<1> QED BY <1>1, <1>2, <1>3, WorldSteps DEF HInv, RInv

\* A snapshot is of a published view.
LEMMA SaveHistory ==
  ASSUME HInv, SaveNumber \/ SaveView
  PROVE  HInv'
<1>1. UNCHANGED <<vars, mined, was>> /\ RInv'
  BY SaveInv DEF HInv, SaveNumber, SaveView
<1>2. snapshot'.view = snapshot.view \/ snapshot'.view = cachedView
  BY DEF SaveNumber, SaveView
<1>3. Sourced'
  BY <1>1, <1>2 DEF HInv, Sourced, vars, fields, locals
<1>4. Taken' = Taken
  BY <1>1 DEF Taken, vars, env
<1>5. Past' /\ Feed'
  BY <1>1, <1>4 DEF HInv, Past, Feed, vars, env, fields, locals
<1> QED BY <1>1, <1>3, <1>5 DEF HInv

\* A new process starts from the past and counts blocks from the beginning.
LEMMA RestartHistory ==
  ASSUME HInv, Restart
  PROVE  HInv'
<1> USE DEF HInv
<1>1. /\ registry' = snapshot.view /\ cachedView' = snapshot.view
      /\ lastUpdatedAtBlock' = 0
      /\ listener' = IdleListener
      /\ initializer' = Started("initializer", IdleInitializer)
      /\ reconciler' = Started("reconciler", IdleReconciler)
      /\ UNCHANGED <<head, chain, mined, was, snapshot>>
  BY DEF Restart, NewUniswapV2SystemFromViews, Construct, StartGoroutines
<1>2. PICK from \in 1 .. IF snapshot.number = 0 THEN 1 ELSE snapshot.number :
        /\ Len(newBlockEventer') = IF from <= head THEN head - from + 1 ELSE 0
        /\ \A k \in 1 .. head - from + 1 : newBlockEventer'[k] = mined[from + k - 1]
  BY ResumedStream DEF Restart
<1>3. RInv' /\ Past'
  BY <1>1, RestartInv DEF Past
<1>4. initializer'.found = Empty /\ reconciler'.fresh = Empty /\ listener'.pc = "idle"
  BY <1>1, IdleTypes DEF Started, IdleInitializer, IdleReconciler
<1>5. Sourced'
  BY <1>1, <1>4, HappenedParts DEF Sourced
<1>6. head \in Nat /\ from \in Nat /\ from >= 1
  BY <1>2, Numbers
<1>7. Feed'
  <2>1. CASE from <= head
    <3>1. Len(newBlockEventer') = head - from + 1 /\ Taken' = from - 1
      BY <1>1, <1>2, <1>6, <2>1 DEF Taken
    <3>2. \A k \in 1 .. head - from + 1 : from - 1 + k = from + k - 1
      BY <1>6
    <3>3. \A k \in 1 .. Len(newBlockEventer') : newBlockEventer'[k] = mined'[Taken' + k]
      BY <1>1, <1>2, <3>1, <3>2
    <3>4. Len(newBlockEventer') <= head' /\ lastUpdatedAtBlock' <= Taken'
      BY <1>1, <1>6, <3>1
    <3> QED BY <1>4, <3>3, <3>4 DEF Feed
  <2>2. CASE ~(from <= head)
    <3>1. Len(newBlockEventer') = 0 /\ Taken' = head
      BY <1>1, <1>2, <1>6, <2>2 DEF Taken
    <3>2. Len(newBlockEventer') <= head' /\ lastUpdatedAtBlock' <= Taken'
      BY <1>1, <1>6, <3>1
    <3> QED BY <1>4, <3>1, <3>2 DEF Feed
  <2> QED BY <2>1, <2>2
<1> QED BY <1>3, <1>5, <1>7

\* So all of it always holds.
LEMMA HistoryInvariance == RestartSpec => []HInv
<1>1. HInv /\ [RestartNext]_allVars => HInv'
  <2> SUFFICES ASSUME HInv, [RestartNext]_allVars PROVE HInv'
    OBVIOUS
  <2>1. CASE RestartNext
    BY <2>1, RunHistory, SaveHistory, RestartHistory DEF RestartNext
  <2>2. CASE UNCHANGED allVars
    <3>1. UNCHANGED <<vars, mined, was, snapshot>> /\ RInv'
      BY <2>2, RestartNextInv DEF HInv, allVars, process
    <3>2. Sourced'
      BY <3>1 DEF HInv, Sourced, vars, fields, locals
    <3> QED BY <3>1, <3>2, HistoryFrame DEF vars, env, fields, locals
  <2> QED BY <2>1, <2>2
<1> QED BY HistoryInit, <1>1, PTL DEF RestartSpec

-----------------------------------------------------------------------------
\* However often the process ended, and wherever the provider resumed as long as it was not
\* after the snapshot's block: once the stream is handled the view shows all of its events, and
\* reserves that are not the chain's are those that the bloom filter kept from it.
THEOREM StreamCatchesUp == RestartSpec => []StreamBringsUpToDate
<1>1. ASSUME SInv, HInv, Quiet, newBlockEventer = << >>, listener.pc = "idle"
      PROVE  Shows(cachedView, head) /\ MissesOnlySkipped(cachedView)
  <2>1. Shown /\ head \in Nat
    BY <1>1, Numbers DEF SInv
  <2>2. Taken = head /\ Handled = head
    BY <1>1, <2>1 DEF Taken, Handled
  <2>3. Shows(cachedView, head)
    BY <1>1, <2>1, <2>2 DEF Shown
  <2>4. ASSUME NEW p \in DOMAIN cachedView, cachedView[p].reserve # chain[p]
        PROVE  \E k \in cachedView[p].block + 1 .. head : p \in DOMAIN mined[k].sync /\ mined[k].swap = {}
    <3>1. p \in Pools /\ cachedView[p].block \in 0 .. head
      <4>1. Len(was) = head + 1 /\ cachedView \in Entries
        BY <1>1, HistoryType, SourceTypes DEF HInv
      <4> QED BY <1>1, <2>1, <4>1, EntriesElim DEF HInv, Sourced, AllHappened
    <3>2. was[cachedView[p].block + 1][p] # chain[p]
      BY <1>1, <2>4 DEF HInv, Sourced, AllHappened
    <3>3. PICK k \in cachedView[p].block + 1 .. head : p \in DOMAIN mined[k].sync
      BY <1>1, <3>1, <3>2 DEF HInv, Past
    <3>4. k \in 1 .. head /\ ~(cachedView[p].block >= k)
      BY <2>1, <3>1
    <3>5. mined[k].swap = {}
      BY <2>3, <3>3, <3>4 DEF Shows
    <3> QED BY <3>3, <3>5
  <2> QED BY <2>3, <2>4 DEF MissesOnlySkipped
<1>2. SInv /\ HInv => StreamBringsUpToDate
  BY <1>1 DEF StreamBringsUpToDate
<1> QED BY <1>2, StreamInvariance, HistoryInvariance, PTL

-----------------------------------------------------------------------------
\* Nobody can tell a step that changes neither what consumers read nor what is saved of it.
LEMMA Unseen ==
  ASSUME UNCHANGED <<was, cachedView, lastUpdatedAtBlock, snapshot>>
  PROVE  [ForConsumers!Next]_(ForConsumers!vars)
  BY DEF ForConsumers!vars

\* Publishing other reserves of the past for the same pools is a refresh.
LEMMA SeenAsRefresh ==
  ASSUME AllHappened(was, cachedView'), DOMAIN cachedView' = DOMAIN cachedView,
         UNCHANGED <<was, lastUpdatedAtBlock, snapshot>>
  PROVE  ForConsumers!Next
<1>1. \A p \in DOMAIN cachedView : ForConsumers!Happened(p, cachedView'[p])
  BY DEF AllHappened, ForConsumers!Happened
<1> QED BY <1>1 DEF ForConsumers!Refresh, ForConsumers!Next

\* The listener advances the number when it takes a block, and refreshes reserves after that.
LEMMA ListenerSeen ==
  ASSUME HInv, HInv', ListenerNext \/ StopListener, UNCHANGED <<was, snapshot>>
  PROVE  [ForConsumers!Next]_(ForConsumers!vars)
<1>1. head \in Nat /\ lastUpdatedAtBlock \in Nat /\ Taken \in Int /\ Len(was) = head + 1
  BY Numbers, HistoryType DEF HInv
<1>2. CASE SkipBlock
  <2>1. lastUpdatedAtBlock' = Taken + 1 /\ lastUpdatedAtBlock < Taken + 1 /\ Taken + 1 <= head
    BY <1>2, FeedNext DEF SkipBlock
  <2>2. lastUpdatedAtBlock' \in lastUpdatedAtBlock + 1 .. Len(was) - 1
    BY <1>1, <2>1
  <2> QED BY <1>2, <2>2 DEF SkipBlock, ForConsumers!Advance, ForConsumers!Next
<1>3. CASE ApplyBlock
  <2>1. /\ lastUpdatedAtBlock' = listener.block.number
        /\ lastUpdatedAtBlock < listener.block.number /\ listener.block.number <= Taken
    BY <1>3 DEF ApplyBlock, HInv, Feed
  <2>2. listener.block.number \in Nat /\ Len(newBlockEventer) \in Nat
    BY ListenerNumber DEF HInv
  <2>3. Taken <= head
    BY <1>1, <2>2 DEF Taken
  <2>4. lastUpdatedAtBlock' \in Nat /\ lastUpdatedAtBlock' > lastUpdatedAtBlock /\ lastUpdatedAtBlock' <= Taken
    BY <2>1, <2>2
  <2>5. lastUpdatedAtBlock' \in lastUpdatedAtBlock + 1 .. Len(was) - 1
    BY <1>1, <2>3, <2>4
  <2> QED BY <1>3, <2>5 DEF ApplyBlock, ForConsumers!Advance, ForConsumers!Next
<1>4. CASE PublishBlock
  <2>1. /\ cachedView' = registry /\ registry' = registry
        /\ lastUpdatedAtBlock' = lastUpdatedAtBlock
    BY <1>4 DEF PublishBlock
  <2>2. DOMAIN cachedView = DOMAIN registry
    BY <1>4 DEF PublishBlock, HInv, RInv, IInv, EventsUnpublished
  <2>3. AllHappened(was, cachedView')
    BY <2>1 DEF HInv, Sourced
  <2> QED BY <2>1, <2>2, <2>3, SeenAsRefresh
<1>5. CASE ReceiveBlock \/ FetchLogs \/ CountPending \/ StopListener
  BY <1>5, Unseen DEF ReceiveBlock, FetchLogs, CountPending, StopListener, fields
<1> QED BY <1>2, <1>3, <1>4, <1>5 DEF ListenerNext, ListenerRuns

\* The initializer only tracks pools.
LEMMA InitializerSeen ==
  ASSUME HInv, HInv', InitializerNext \/ StopInitializer, UNCHANGED <<was, snapshot>>
  PROVE  [ForConsumers!Next]_(ForConsumers!vars)
<1>1. CASE ApplyInitializations
  <2>1. PICK added \in SUBSET DOMAIN initializer.found : registry' = WithInitialized(added)
    BY <1>1 DEF ApplyInitializations
  <2>2. mu = "free" /\ mu' = "free" /\ lastUpdatedAtBlock' = lastUpdatedAtBlock
    BY <1>1 DEF ApplyInitializations
  <2>3. cachedView = registry /\ cachedView' = registry'
    BY <2>2 DEF HInv, RInv, IInv, ViewMatchesRegistry
  <2>4. /\ DOMAIN registry' = DOMAIN registry \cup added
        /\ \A p \in DOMAIN registry : registry'[p] = registry[p]
    BY <2>1, WithInitializedType DEF HInv, RInv, RestartTypeOK
  <2>5. DOMAIN cachedView' \subseteq Trusted
    BY ViewTracked DEF HInv, RInv, IInv, OnlyTrustedTracked, ViewMatchesRegistry, TypeOK, LockHeld,
                       EventsUnpublished
  <2>6. \A p \in DOMAIN cachedView' : ForConsumers!Happened(p, cachedView'[p])
    BY DEF HInv, Sourced, AllHappened, ForConsumers!Happened
  <2> QED BY <2>2, <2>3, <2>4, <2>5, <2>6 DEF ForConsumers!Track, ForConsumers!Next
<1>2. CASE DrainPending \/ ResetGauge \/ (\E p \in Pools : InitializePool(p)) \/ StopInitializer
  BY <1>2, Unseen DEF DrainPending, ResetGauge, InitializePool, StopInitializer, fields
<1> QED BY <1>1, <1>2 DEF InitializerNext

\* The pruner and the manager only untrack pools.
LEMMA DeletionsSeen ==
  ASSUME HInv, PrunerNext \/ StopPruner \/ \E S \in SUBSET Pools : ManagerDelete(S),
         UNCHANGED <<was, snapshot>>
  PROVE  [ForConsumers!Next]_(ForConsumers!vars)
<1>1. ASSUME NEW S, DeletePools(S)
      PROVE  ForConsumers!Next
  <2>1. cachedView = registry
    BY <1>1 DEF DeletePools, HInv, RInv, IInv, ViewMatchesRegistry
  <2>2. cachedView' = registry' /\ lastUpdatedAtBlock' = lastUpdatedAtBlock
    BY <1>1, DeletePoolsEffect DEF HInv, RInv
  <2>3. registry' = [p \in DOMAIN registry \ S |-> registry[p]]
    BY <1>1 DEF DeletePools, Restrict
  <2>4. DOMAIN cachedView \ S \in SUBSET DOMAIN cachedView
    OBVIOUS
  <2>5. ForConsumers!Untrack
    BY <2>1, <2>2, <2>3, <2>4 DEF ForConsumers!Untrack
  <2> QED BY <2>5 DEF ForConsumers!Next
<1>2. CASE \E S \in SUBSET Pools : ManagerDelete(S)
  BY <1>1, <1>2 DEF ManagerDelete
<1>3. CASE PruneBlocked
  <2>1. CASE UNCHANGED fields
    BY <2>1, Unseen DEF fields
  <2>2. CASE DeletePools(pruner.poolsToDelete)
    BY <1>1, <2>2
  <2> QED BY <1>3, <2>1, <2>2 DEF PruneBlocked
<1>4. CASE StartPruning \/ (\E p \in Pools : ScanPool(p)) \/ StopPruner
  BY <1>4, Unseen DEF StartPruning, ScanPool, StopPruner, fields
<1> QED BY <1>2, <1>3, <1>4 DEF PrunerNext

\* A correction is a refresh.
LEMMA ReconcilerSeen ==
  ASSUME HInv, HInv', ReconcilerNext \/ StopReconciler, UNCHANGED <<was, snapshot>>
  PROVE  [ForConsumers!Next]_(ForConsumers!vars)
<1>1. CASE ApplyReconciliation
  <2>1. /\ cachedView = registry /\ cachedView' = registry' /\ registry' = Reconciled
        /\ lastUpdatedAtBlock' = lastUpdatedAtBlock
    BY <1>1 DEF ApplyReconciliation, HInv, RInv, IInv, ViewMatchesRegistry
  <2>2. DOMAIN registry' = DOMAIN registry
    BY <2>1, ReconciledType DEF HInv, RInv, RestartTypeOK
  <2>3. AllHappened(was, cachedView')
    BY DEF HInv, Sourced
  <2> QED BY <2>1, <2>2, <2>3, SeenAsRefresh
<1>2. CASE StartReconciling \/ (\E p \in Pools : FetchReserves(p)) \/ Compare \/ StopReconciler
  BY <1>2, Unseen DEF StartReconciling, FetchReserves, Compare, StopReconciler, fields
<1> QED BY <1>1, <1>2 DEF ReconcilerNext

\* Every step of a process and its world is one of the consumers' specification, or unseen.
LEMMA RunSeen ==
  ASSUME HInv, HInv', Run
  PROVE  [ForConsumers!Next]_(ForConsumers!vars)
<1>1. Next /\ snapshot' = snapshot
  BY DEF Run, process
<1>2. CASE Mine
  <2>1. was' = Append(was, chain') /\ chain' \in [Pools -> Reserves]
    BY <1>2, MinePast DEF HInv
  <2>2. UNCHANGED <<cachedView, lastUpdatedAtBlock>>
    BY <1>2 DEF Mine, fields
  <2> QED BY <1>1, <2>1, <2>2 DEF ForConsumers!Mine, ForConsumers!Next
<1>3. CASE head' = head /\ chain' = chain
  <2>1. UNCHANGED <<was, snapshot>>
    BY <1>1, <1>3 DEF Run
  <2>2. CASE Cancel \/ \E p \in Pools : ToggleBlocked(p) \/ RegisterElsewhere(p)
    BY <2>1, <2>2, Unseen DEF Cancel, ToggleBlocked, RegisterElsewhere, fields
  <2>3. CASE ListenerNext \/ StopListener
    BY <2>1, <2>3, ListenerSeen
  <2>4. CASE InitializerNext \/ StopInitializer
    BY <2>1, <2>4, InitializerSeen
  <2>5. CASE PrunerNext \/ StopPruner \/ \E S \in SUBSET Pools : ManagerDelete(S)
    BY <2>1, <2>5, DeletionsSeen
  <2>6. CASE ReconcilerNext \/ StopReconciler
    BY <2>1, <2>6, ReconcilerSeen
  <2> QED BY <1>1, <1>2, <2>2, <2>3, <2>4, <2>5, <2>6 DEF Next
<1> QED BY <1>1, <1>2, <1>3, WorldSteps DEF HInv, RInv

\* The system with its four goroutines, its failures and its restarts implements the consumers'
\* specification: what View() returns is the chain's past, changed in one way at a time, and
\* LastUpdatedAtBlock() grows until the process ends.
THEOREM ConsumerRefinement == RestartSpec => RefinesConsumer
<1>1. RestartInit => ForConsumers!Init
  <2> SUFFICES ASSUME RestartInit PROVE ForConsumers!Init
    OBVIOUS
  <2>1. HInv /\ was = <<chain>> /\ chain \in [Pools -> Reserves] /\ snapshot.view = cachedView
        /\ lastUpdatedAtBlock = 0
    BY HistoryInit DEF RestartInit, Init
  <2>2. DOMAIN cachedView \subseteq Trusted
    BY <2>1, ViewTracked DEF HInv, RInv
  <2>3. \A p \in DOMAIN cachedView : ForConsumers!Happened(p, cachedView[p])
    BY <2>1 DEF HInv, Sourced, AllHappened, ForConsumers!Happened
  <2> QED BY <2>1, <2>2, <2>3 DEF ForConsumers!Init
<1>2. HInv /\ HInv' /\ [RestartNext]_allVars => [ForConsumers!Next]_(ForConsumers!vars)
  <2> SUFFICES ASSUME HInv, HInv', [RestartNext]_allVars
               PROVE  [ForConsumers!Next]_(ForConsumers!vars)
    OBVIOUS
  <2>1. CASE Run
    BY <2>1, RunSeen
  <2>2. CASE SaveNumber
    <3>1. UNCHANGED <<was, cachedView, lastUpdatedAtBlock, snapshot>>
      BY <2>2 DEF SaveNumber, vars, fields
    <3> QED BY <3>1, Unseen
  <2>3. CASE SaveView
    <3>1. UNCHANGED <<was, cachedView, lastUpdatedAtBlock>> /\ snapshot'.view = cachedView
      BY <2>3 DEF SaveView, vars, fields
    <3> QED BY <3>1 DEF ForConsumers!Save, ForConsumers!Next
  <2>4. CASE Restart
    <3>1. cachedView' = snapshot.view /\ lastUpdatedAtBlock' = 0 /\ UNCHANGED <<was, snapshot>>
      BY <2>4 DEF Restart, NewUniswapV2SystemFromViews, Construct
    <3> QED BY <3>1 DEF ForConsumers!Restart, ForConsumers!Next
  <2>5. CASE UNCHANGED allVars
    BY <2>5, Unseen DEF allVars, vars, fields, process
  <2> QED BY <2>1, <2>2, <2>3, <2>4, <2>5 DEF RestartNext
<1> QED BY <1>1, <1>2, HistoryInvariance, PTL DEF RestartSpec, RefinesConsumer, ForConsumers!Spec
==============================================================================
