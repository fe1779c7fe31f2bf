-------------------------- MODULE FetchBatchProofs --------------------------
(***************************************************************************)
(* Proofs about FetchBatch: a semaphore counts exactly the goroutines that *)
(* hold one of its slots, a WaitGroup exactly those that are still to be   *)
(* waited for.  Hence the limit on RPC calls, that no call waits for a     *)
(* slot or a goroutine that nobody has, and the refinement of Batch, for   *)
(* any number of callers, pools, slots and RPC calls; and no call makes    *)
(* more than boundedly many steps.                                         *)
(***************************************************************************)
EXTENDS FetchBatch, FiniteSetTheorems, TLAPS

Slotted == {"started", "asking", "releasing"}
Unawaited == IF SharedSemaphore THEN {"none", "done"} ELSE {"done"}

\* The goroutines between taking and giving back a slot of semaphore s.
Holding(s) ==
  {g \in Goroutines : g[1] \in s /\ worker[g[1]][g[2]].pc \in Slotted}

\* The positions whose goroutine wg.Wait waits for: those started, or all, depending on
\* where Add is called.
Outstanding(c) ==
  {i \in Positions(c) : worker[c][i].pc \notin Unawaited}

\* A semaphore counts the goroutines that hold a slot.
SlotsAreHeld == \A s \in Semaphores : semaphore[s] = Cardinality(Holding(s))

\* A WaitGroup counts the goroutines of the call.
WaitersAreCounted ==
  \A c \in Callers : caller[c].pc = "looping" => wg[c] = Cardinality(Outstanding(c))

\* The loop has started the goroutines before its position, and no other; between two calls
\* none is left.
LoopProgress ==
  \A c \in Callers :
    /\ caller[c].pc = "looping" =>
         /\ caller[c].next <= Len(PoolAddrs[c]) + 1
         /\ \A i \in Positions(c) : worker[c][i].pc = "none" <=> i >= caller[c].next
    /\ caller[c].pc = "returned" => \A i \in Positions(c) : worker[c][i].pc \in {"none", "done"}

\* A result is written exactly when its goroutine leaves.
ResultsWritten ==
  \A c \in Callers : \A i \in Positions(c) :
    results[c][i] # "none" <=> worker[c][i].pc \in {"releasing", "leaving", "done"}

\* The inductive invariant.
IInv == TypeOK /\ SlotsAreHeld /\ WaitersAreCounted /\ LoopProgress /\ ResultsWritten

-----------------------------------------------------------------------------
\* There are finitely many goroutines.
LEMMA GoroutinesFinite == IsFiniteSet(Goroutines)
<1> DEFINE T == {{c} \X Positions(c) : c \in Callers}
           f == [c \in Callers |-> {c} \X Positions(c)]
<1>1. f \in Surjection(Callers, T)
  BY DEF Surjection
<1>2. IsFiniteSet(T)
  BY <1>1, FS_Surjection, BatchAssumption
<1>3. ASSUME NEW c \in Callers PROVE IsFiniteSet({c} \X Positions(c))
  <2>1. Len(PoolAddrs[c]) \in Nat
    BY BatchAssumption
  <2>2. IsFiniteSet(Positions(c))
    BY <2>1, FS_Interval DEF Positions
  <2> QED BY <2>2, FS_Singleton, FS_Product
<1> QED BY <1>2, <1>3, FS_UNION DEF Goroutines

\* So are the sets that the counters count.
LEMMA CountedFinite ==
  /\ \A s : IsFiniteSet(Holding(s)) /\ IsFiniteSet(Holding(s)') /\ IsFiniteSet(Asking(s))
  /\ \A c \in Callers : IsFiniteSet(Outstanding(c)) /\ IsFiniteSet(Outstanding(c)')
<1>1. ASSUME NEW s PROVE IsFiniteSet(Holding(s)) /\ IsFiniteSet(Holding(s)') /\ IsFiniteSet(Asking(s))
  <2>1. /\ Holding(s) \in SUBSET Goroutines
        /\ Holding(s)' \in SUBSET Goroutines
        /\ Asking(s) \in SUBSET Goroutines
    BY DEF Holding, Asking, Goroutines, Positions
  <2> QED BY <2>1, GoroutinesFinite, FS_Subset
<1>2. ASSUME NEW c \in Callers PROVE IsFiniteSet(Outstanding(c)) /\ IsFiniteSet(Outstanding(c)')
  <2>1. Len(PoolAddrs[c]) \in Nat
    BY BatchAssumption
  <2>2. IsFiniteSet(Positions(c))
    BY <2>1, FS_Interval DEF Positions
  <2>3. Outstanding(c) \in SUBSET Positions(c) /\ Outstanding(c)' \in SUBSET Positions(c)
    BY DEF Outstanding, Positions
  <2> QED BY <2>2, <2>3, FS_Subset
<1> QED BY <1>1, <1>2

\* A caller belongs to one semaphore.
LEMMA OneSemaphore ==
  ASSUME NEW c \in Callers
  PROVE  /\ Sharing(c) \in Semaphores
         /\ c \in Sharing(c)
         /\ \A s \in Semaphores : c \in s => s = Sharing(c)
  BY DEF Sharing, Semaphores

\* A goroutine is a caller and a position of its call.
LEMMA GoroutineOf ==
  /\ \A c \in Callers : \A i \in Positions(c) : <<c, i>> \in Goroutines
  /\ \A g \in Goroutines : g[1] \in Callers /\ g[2] \in Positions(g[1]) /\ g = <<g[1], g[2]>>
<1>1. \A g \in Goroutines : \E c \in Callers : g \in {c} \X Positions(c)
  BY DEF Goroutines
<1>2. ASSUME NEW c \in Callers, NEW i \in Positions(c) PROVE <<c, i>> \in Goroutines
  <2>1. <<c, i>> \in {c} \X Positions(c)
    OBVIOUS
  <2> QED BY <2>1 DEF Goroutines
<1>3. ASSUME NEW g \in Goroutines
      PROVE  g[1] \in Callers /\ g[2] \in Positions(g[1]) /\ g = <<g[1], g[2]>>
  <2>1. PICK c \in Callers : g \in {c} \X Positions(c)
    BY <1>1
  <2> QED BY <2>1
<1> QED BY <1>2, <1>3

\* Positions are natural numbers up to the length of the list.
LEMMA PositionsLemma ==
  ASSUME NEW c \in Callers
  PROVE  Len(PoolAddrs[c]) \in Nat /\ Positions(c) = 1 .. Len(PoolAddrs[c]) /\ Positions(c) \subseteq Nat
<1>1. Len(PoolAddrs[c]) \in Nat
  BY BatchAssumption
<1> QED BY <1>1 DEF Positions

\* The goroutines keep their type.
LEMMA WorkerTypes ==
  ASSUME TypeOK, NEW c \in Callers, NEW i \in Positions(c), NEW w \in WorkerState,
         worker' = [worker EXCEPT ![c][i] = w]
  PROVE  /\ DOMAIN worker' = Callers
         /\ \A d \in Callers : worker'[d] \in [Positions(d) -> WorkerState]
  BY DEF TypeOK

\* The holders of slots after a step of one goroutine.
LEMMA HoldingStep ==
  ASSUME TypeOK, NEW c \in Callers, NEW i \in Positions(c), NEW w \in WorkerState,
         worker' = [worker EXCEPT ![c][i] = w], NEW s
  PROVE  Holding(s)' = IF c \in s
                         THEN IF w.pc \in Slotted THEN Holding(s) \cup {<<c, i>>}
                                                  ELSE Holding(s) \ {<<c, i>>}
                         ELSE Holding(s)
<1>1. \A d \in Callers : \A j \in Positions(d) :
        worker'[d][j] = IF d = c /\ j = i THEN w ELSE worker[d][j]
  BY DEF TypeOK
<1>2. \A g \in Goroutines :
        worker'[g[1]][g[2]] = IF g = <<c, i>> THEN w ELSE worker[g[1]][g[2]]
  BY <1>1, GoroutineOf
<1>3. <<c, i>> \in Goroutines /\ <<c, i>>[1] = c
  BY GoroutineOf
<1>4. Holding(s)' = {g \in Goroutines : g[1] \in s /\ worker'[g[1]][g[2]].pc \in Slotted}
  BY DEF Holding, Goroutines, Positions, Slotted
<1> QED BY <1>2, <1>3, <1>4 DEF Holding

\* A goroutine that enters or keeps the part with a slot is a holder.
LEMMA HoldsSlot ==
  ASSUME TypeOK, NEW c \in Callers, NEW i \in Positions(c), NEW w \in WorkerState,
         worker' = [worker EXCEPT ![c][i] = w], w.pc \in Slotted
  PROVE  \A s : Holding(s)' = IF c \in s THEN Holding(s) \cup {<<c, i>>} ELSE Holding(s)
  BY HoldingStep, Zenon

\* A goroutine outside that part is none.
LEMMA HoldsNoSlot ==
  ASSUME TypeOK, NEW c \in Callers, NEW i \in Positions(c), NEW w \in WorkerState,
         worker' = [worker EXCEPT ![c][i] = w], w.pc \notin Slotted
  PROVE  \A s : Holding(s)' = IF c \in s THEN Holding(s) \ {<<c, i>>} ELSE Holding(s)
  BY HoldingStep, Zenon

\* The goroutines that are waited for, after a step of one of them.
LEMMA OutstandingStep ==
  ASSUME TypeOK, NEW c \in Callers, NEW i \in Positions(c), NEW w \in WorkerState,
         worker' = [worker EXCEPT ![c][i] = w], NEW d \in Callers
  PROVE  Outstanding(d)' =
           IF d = c THEN IF w.pc \in Unawaited THEN Outstanding(d) \ {i} ELSE Outstanding(d) \cup {i}
                    ELSE Outstanding(d)
<1>1. \A j \in Positions(d) : worker'[d][j] = IF d = c /\ j = i THEN w ELSE worker[d][j]
  BY DEF TypeOK
<1>2. Outstanding(d)' = {j \in Positions(d) : worker'[d][j].pc \notin Unawaited}
  BY DEF Outstanding, Positions, Unawaited
<1> QED BY <1>1, <1>2 DEF Outstanding

\* A goroutine that has started and not left is waited for.
LEMMA IsAwaited ==
  ASSUME TypeOK, NEW c \in Callers, NEW i \in Positions(c), NEW w \in WorkerState,
         worker' = [worker EXCEPT ![c][i] = w], w.pc \notin Unawaited
  PROVE  \A d \in Callers : Outstanding(d)' = IF d = c THEN Outstanding(d) \cup {i} ELSE Outstanding(d)
  BY OutstandingStep, Zenon

\* A goroutine that is done is not.
LEMMA IsUnawaited ==
  ASSUME TypeOK, NEW c \in Callers, NEW i \in Positions(c), NEW w \in WorkerState,
         worker' = [worker EXCEPT ![c][i] = w], w.pc \in Unawaited
  PROVE  \A d \in Callers : Outstanding(d)' = IF d = c THEN Outstanding(d) \ {i} ELSE Outstanding(d)
  BY OutstandingStep, Zenon

\* The parts of IInv about the counters name the sets in the next state.
LEMMA CountersPrimed ==
  /\ SlotsAreHeld' <=> \A s \in Semaphores : semaphore'[s] = Cardinality(Holding(s)')
  /\ WaitersAreCounted' <=>
       \A c \in Callers : caller'[c].pc = "looping" => wg'[c] = Cardinality(Outstanding(c)')
  BY DEF SlotsAreHeld, WaitersAreCounted, Semaphores, Sharing

\* So do the parts about the goroutines, whose positions do not change.
LEMMA ProgressPrimed ==
  /\ LoopProgress' <=>
       \A c \in Callers :
         /\ caller'[c].pc = "looping" =>
              /\ caller'[c].next <= Len(PoolAddrs[c]) + 1
              /\ \A i \in Positions(c) : worker'[c][i].pc = "none" <=> i >= caller'[c].next
         /\ caller'[c].pc = "returned" => \A i \in Positions(c) : worker'[c][i].pc \in {"none", "done"}
  /\ ResultsWritten' <=>
       \A c \in Callers : \A i \in Positions(c) :
         results'[c][i] # "none" <=> worker'[c][i].pc \in {"releasing", "leaving", "done"}
  BY DEF LoopProgress, ResultsWritten, Positions

\* Nobody has started.
LEMMA InitInv == Init => IInv
<1> SUFFICES ASSUME Init PROVE IInv
  OBVIOUS
<1> USE DEF Init
<1>1. TypeOK
  BY BatchAssumption DEF TypeOK, WorkerState, NoWorker
<1>2. \A s : Holding(s) = {}
  BY GoroutineOf DEF Holding, NoWorker, Slotted
<1>3. SlotsAreHeld
  BY <1>2, FS_EmptySet DEF SlotsAreHeld
<1>4. WaitersAreCounted /\ LoopProgress
  BY DEF WaitersAreCounted, LoopProgress, NoWorker
<1>5. ResultsWritten
  BY DEF ResultsWritten, NoWorker
<1> QED BY <1>1, <1>3, <1>4, <1>5 DEF IInv

\* The goroutines of the calls before are gone: a new call starts from its own empty slices.
LEMMA CallInv ==
  ASSUME IInv, NEW c \in Callers, Call(c)
  PROVE  IInv'
<1> USE DEF IInv
<1>1. /\ caller' = [caller EXCEPT ![c] = [pc |-> "looping", next |-> 1]]
      /\ worker' = [worker EXCEPT ![c] = [i \in Positions(c) |-> NoWorker]]
      /\ results' = [results EXCEPT ![c] = [i \in Positions(c) |-> "none"]]
      /\ wg' = [wg EXCEPT ![c] = IF SharedSemaphore THEN 0 ELSE Len(PoolAddrs[c])]
      /\ semaphore' = [semaphore EXCEPT ![Sharing(c)] = IF Sharing(c) = {c} THEN 0 ELSE @]
      /\ ctxDone' = ctxDone
      /\ caller[c].pc = "returned"
  BY DEF Call
<1>2. Len(PoolAddrs[c]) \in Nat
  BY BatchAssumption
<1>3. TypeOK'
  <2>1. ctxDone' \subseteq Callers /\ wg' \in [Callers -> Nat]
    BY <1>1, <1>2 DEF TypeOK
  <2>2. caller' \in [Callers -> [pc : {"looping", "returned"}, next : Nat \ {0}]]
    BY <1>1 DEF TypeOK
  <2>3. semaphore' \in [Semaphores -> 0 .. MaxConcurrentCalls]
    <3>1. Sharing(c) \in Semaphores /\ MaxConcurrentCalls \in Nat
      BY OneSemaphore, BatchAssumption
    <3>2. (IF Sharing(c) = {c} THEN 0 ELSE semaphore[Sharing(c)]) \in 0 .. MaxConcurrentCalls
      BY <3>1 DEF TypeOK
    <3> QED BY <1>1, <3>1, <3>2 DEF TypeOK
  <2>4. NoWorker \in WorkerState
    BY BatchAssumption DEF WorkerState, NoWorker
  <2>5. DOMAIN worker' = Callers /\ \A d \in Callers : worker'[d] \in [Positions(d) -> WorkerState]
    BY <1>1, <2>4 DEF TypeOK
  <2>6. /\ DOMAIN results' = Callers
        /\ \A d \in Callers : results'[d] \in [Positions(d) -> Pools \cup {"none", "error"}]
    BY <1>1 DEF TypeOK
  <2> QED BY <2>1, <2>2, <2>3, <2>5, <2>6 DEF TypeOK, Positions, Semaphores, Sharing, WorkerState
<1>4. \A g \in Goroutines : worker'[g[1]][g[2]].pc \in Slotted <=> worker[g[1]][g[2]].pc \in Slotted
  <2>1. ASSUME NEW g \in Goroutines
        PROVE  worker'[g[1]][g[2]].pc \in Slotted <=> worker[g[1]][g[2]].pc \in Slotted
    <3>1. g[1] \in Callers /\ g[2] \in Positions(g[1])
      BY GoroutineOf
    <3>2. CASE g[1] = c
      <4>1. worker'[c][g[2]].pc = "none"
        BY <1>1, <3>1, <3>2 DEF TypeOK, NoWorker
      <4>2. worker[c][g[2]].pc \in {"none", "done"}
        BY <1>1, <3>1, <3>2 DEF LoopProgress
      <4> QED BY <3>2, <4>1, <4>2 DEF Slotted
    <3>3. CASE g[1] # c
      BY <1>1, <3>1, <3>3 DEF TypeOK
    <3> QED BY <3>2, <3>3
  <2> QED BY <2>1
<1>5. \A s : Holding(s)' = Holding(s)
  <2>1. \A s : Holding(s)' = {g \in Goroutines : g[1] \in s /\ worker'[g[1]][g[2]].pc \in Slotted}
    BY DEF Holding, Goroutines, Positions, Slotted
  <2> QED BY <1>4, <2>1 DEF Holding
<1>6. Holding({c}) = {}
  BY <1>1, GoroutineOf DEF Holding, LoopProgress, Slotted
<1>7. SlotsAreHeld'
  <2>1. ASSUME NEW s \in Semaphores PROVE semaphore'[s] = Cardinality(Holding(s)')
    <3>1. CASE s = Sharing(c) /\ Sharing(c) = {c}
      BY <1>1, <1>5, <1>6, <3>1, FS_EmptySet DEF TypeOK
    <3>2. CASE ~(s = Sharing(c) /\ Sharing(c) = {c})
      BY <1>1, <1>5, <3>2 DEF TypeOK, SlotsAreHeld
    <3> QED BY <3>1, <3>2
  <2> QED BY <2>1, CountersPrimed
<1>8. WaitersAreCounted'
  <2>1. ASSUME NEW d \in Callers, caller'[d].pc = "looping"
        PROVE  wg'[d] = Cardinality(Outstanding(d)')
    <3>1. Outstanding(d)' = {j \in Positions(d) : worker'[d][j].pc \notin Unawaited}
      BY DEF Outstanding, Positions, Unawaited
    <3>2. CASE d # c
      <4>1. Outstanding(d)' = Outstanding(d)
        BY <1>1, <3>1, <3>2 DEF TypeOK, Outstanding
      <4> QED BY <1>1, <2>1, <3>2, <4>1 DEF TypeOK, WaitersAreCounted
    <3>3. CASE d = c /\ SharedSemaphore
      <4>1. Outstanding(d)' = {}
        BY <1>1, <3>1, <3>3 DEF TypeOK, NoWorker, Unawaited
      <4> QED BY <1>1, <3>3, <4>1, FS_EmptySet DEF TypeOK
    <3>4. CASE d = c /\ ~SharedSemaphore
      <4>1. Outstanding(d)' = 1 .. Len(PoolAddrs[c])
        BY <1>1, <3>1, <3>4 DEF TypeOK, NoWorker, Unawaited, Positions
      <4>2. Cardinality(1 .. Len(PoolAddrs[c])) = Len(PoolAddrs[c])
        BY <1>2, FS_Interval
      <4> QED BY <1>1, <3>4, <4>1, <4>2 DEF TypeOK
    <3> QED BY <3>2, <3>3, <3>4
  <2> QED BY <2>1, CountersPrimed
<1>9. LoopProgress'
  <2>1. ASSUME NEW d \in Callers, d # c
        PROVE  caller'[d] = caller[d] /\ worker'[d] = worker[d]
    BY <1>1, <2>1 DEF TypeOK
  <2>2. /\ caller'[c].pc = "looping" /\ caller'[c].next = 1
        /\ \A i \in Positions(c) : worker'[c][i].pc = "none"
    BY <1>1 DEF TypeOK, NoWorker
  <2>3. \A i \in Positions(c) : i >= 1
    BY PositionsLemma
  <2>4. 1 <= Len(PoolAddrs[c]) + 1
    BY <1>2
  <2>5. ASSUME NEW d \in Callers
        PROVE  /\ caller'[d].pc = "looping" =>
                    /\ caller'[d].next <= Len(PoolAddrs[d]) + 1
                    /\ \A j \in Positions(d) : worker'[d][j].pc = "none" <=> j >= caller'[d].next
               /\ caller'[d].pc = "returned" => \A j \in Positions(d) : worker'[d][j].pc \in {"none", "done"}
    <3>1. CASE d = c
      BY <2>2, <2>3, <2>4, <3>1
    <3>2. CASE d # c
      BY <2>1, <3>2 DEF LoopProgress
    <3> QED BY <3>1, <3>2
  <2> QED BY <2>5, ProgressPrimed
<1>10. ResultsWritten'
  <2>1. ASSUME NEW d \in Callers, d # c
        PROVE  results'[d] = results[d] /\ worker'[d] = worker[d]
    BY <1>1, <2>1 DEF TypeOK
  <2>2. \A i \in Positions(c) : worker'[c][i].pc = "none" /\ results'[c][i] = "none"
    BY <1>1 DEF TypeOK, NoWorker
  <2> QED BY <2>1, <2>2 DEF ResultsWritten, Positions
<1> QED BY <1>3, <1>7, <1>8, <1>9, <1>10

\* A loop that takes a slot starts the next goroutine, which no counter had counted.
LEMMA StartInv ==
  ASSUME IInv, NEW c \in Callers, Start(c)
  PROVE  IInv'
<1> USE DEF IInv
<1> DEFINE i == caller[c].next
           w == [worker[c][i] EXCEPT !.pc = "started"]
<1>1. /\ i \in Positions(c)
      /\ caller[c].next = i /\ caller[c].pc = "looping"
      /\ semaphore[Sharing(c)] < MaxConcurrentCalls
      /\ semaphore' = [semaphore EXCEPT ![Sharing(c)] = @ + 1]
      /\ wg' = IF SharedSemaphore THEN [wg EXCEPT ![c] = @ + 1] ELSE wg
      /\ caller' = [caller EXCEPT ![c].next = i + 1]
      /\ ctxDone' = ctxDone /\ results' = results
  BY DEF Start, TypeOK
<1>2. worker' = [worker EXCEPT ![c][i] = w]
  BY DEF Start, TypeOK
<1>3. /\ worker[c][i].pc = "none"
      /\ worker[c][i] \in WorkerState /\ w \in WorkerState /\ w.pc = "started"
  <2>1. worker[c][i].pc = "none"
    BY <1>1, PositionsLemma DEF LoopProgress
  <2>2. worker[c][i] \in WorkerState
    BY <1>1 DEF TypeOK
  <2> QED BY <2>1, <2>2 DEF WorkerState
<1> HIDE DEF w, i
<1>4. TypeOK /\ i \in Positions(c) /\ w \in WorkerState
  BY <1>1, <1>3
<1>5. /\ DOMAIN worker' = Callers
      /\ \A d \in Callers : worker'[d] \in [Positions(d) -> WorkerState]
  BY <1>1, <1>2, <1>3, WorkerTypes, Zenon
<1>6. \A d \in Callers : \A j \in Positions(d) :
        worker'[d][j] = IF d = c /\ j = i THEN w ELSE worker[d][j]
  BY <1>1, <1>2, <1>3 DEF TypeOK
<1>7. \A s : Holding(s)' = IF c \in s THEN Holding(s) \cup {<<c, i>>} ELSE Holding(s)
  <2>1. w.pc \in Slotted
    BY <1>3 DEF Slotted
  <2> QED BY <1>2, <1>4, <2>1, HoldsSlot, Zenon
<1>8. \A d \in Callers : Outstanding(d)' = IF d = c THEN Outstanding(d) \cup {i} ELSE Outstanding(d)
  <2>1. w.pc \notin Unawaited
    BY <1>3 DEF Unawaited
  <2> QED BY <1>2, <1>4, <2>1, IsAwaited, Zenon
<1>9. Sharing(c) \in Semaphores /\ c \in Sharing(c) /\ \A s \in Semaphores : c \in s => s = Sharing(c)
  BY OneSemaphore
<1>10. TypeOK'
  <2>1. semaphore' \in [Semaphores -> 0 .. MaxConcurrentCalls]
    <3>1. MaxConcurrentCalls \in Nat /\ semaphore[Sharing(c)] \in 0 .. MaxConcurrentCalls
      BY <1>9, BatchAssumption DEF TypeOK
    <3>2. semaphore[Sharing(c)] + 1 \in 0 .. MaxConcurrentCalls
      BY <1>1, <3>1
    <3> QED BY <1>1, <1>9, <3>2 DEF TypeOK
  <2>2. wg' \in [Callers -> Nat]
    BY <1>1 DEF TypeOK
  <2>3. caller' \in [Callers -> [pc : {"looping", "returned"}, next : Nat \ {0}]]
    BY <1>1 DEF TypeOK
  <2> QED BY <1>1, <1>5, <2>1, <2>2, <2>3 DEF TypeOK, Positions, Semaphores, Sharing, WorkerState
<1>11. SlotsAreHeld'
  <2>1. ASSUME NEW s \in Semaphores PROVE semaphore'[s] = Cardinality(Holding(s)')
    <3>1. CASE s = Sharing(c)
      <4>1. <<c, i>> \notin Holding(s)
        BY <1>3 DEF Holding, Slotted
      <4>2. Cardinality(Holding(s)') = Cardinality(Holding(s)) + 1
        BY <1>7, <1>9, <3>1, <4>1, CountedFinite, FS_AddElement
      <4> QED BY <1>1, <3>1, <4>2 DEF TypeOK, SlotsAreHeld
    <3>2. CASE s # Sharing(c)
      <4>1. Holding(s)' = Holding(s)
        BY <1>7, <1>9, <3>2
      <4> QED BY <1>1, <3>2, <4>1 DEF TypeOK, SlotsAreHeld
    <3> QED BY <3>1, <3>2
  <2> QED BY <2>1, CountersPrimed
<1>12. WaitersAreCounted'
  <2>1. ASSUME NEW d \in Callers, caller'[d].pc = "looping"
        PROVE  wg'[d] = Cardinality(Outstanding(d)')
    <3>1. caller[d].pc = "looping"
      BY <1>1, <2>1 DEF TypeOK
    <3>2. wg[d] = Cardinality(Outstanding(d))
      BY <3>1 DEF WaitersAreCounted
    <3>3. CASE d # c
      BY <1>1, <1>8, <3>2, <3>3 DEF TypeOK
    <3>4. CASE d = c /\ SharedSemaphore
      <4>1. i \notin Outstanding(c)
        BY <1>3, <3>4 DEF Outstanding, Unawaited
      <4>2. Cardinality(Outstanding(c)') = Cardinality(Outstanding(c)) + 1
        BY <1>8, <4>1, CountedFinite, FS_AddElement
      <4> QED BY <1>1, <3>2, <3>4, <4>2 DEF TypeOK
    <3>5. CASE d = c /\ ~SharedSemaphore
      <4>1. i \in Outstanding(c)
        BY <1>1, <1>3, <3>5 DEF Outstanding, Unawaited
      <4>2. Outstanding(c)' = Outstanding(c)
        BY <1>8, <4>1
      <4> QED BY <1>1, <3>2, <3>5, <4>2
    <3> QED BY <3>3, <3>4, <3>5
  <2> QED BY <2>1, CountersPrimed
<1>13. LoopProgress'
  <2>1. ASSUME NEW d \in Callers, d # c
        PROVE  caller'[d] = caller[d] /\ \A j \in Positions(d) : worker'[d][j] = worker[d][j]
    BY <1>1, <1>6, <2>1 DEF TypeOK
  <2>2. caller'[c].pc = "looping" /\ caller'[c].next = i + 1
    BY <1>1 DEF TypeOK
  <2>3. i \in Nat /\ i <= Len(PoolAddrs[c])
    BY <1>1, PositionsLemma
  <2>4. \A j \in Positions(c) : worker'[c][j].pc = "none" <=> j >= i + 1
    <3>1. ASSUME NEW j \in Positions(c) PROVE worker'[c][j].pc = "none" <=> j >= i + 1
      <4>1. worker[c][j].pc = "none" <=> j >= i
        BY <1>1 DEF LoopProgress
      <4>2. worker'[c][j] = IF j = i THEN w ELSE worker[c][j]
        BY <1>6
      <4>3. j \in Nat
        BY PositionsLemma
      <4> QED BY <1>3, <2>3, <4>1, <4>2, <4>3
    <3> QED BY <3>1
  <2>5. Len(PoolAddrs[c]) \in Nat
    BY PositionsLemma
  <2>6. i + 1 <= Len(PoolAddrs[c]) + 1
    BY <2>3, <2>5
  <2>7. ASSUME NEW d \in Callers
        PROVE  /\ caller'[d].pc = "looping" =>
                    /\ caller'[d].next <= Len(PoolAddrs[d]) + 1
                    /\ \A j \in Positions(d) : worker'[d][j].pc = "none" <=> j >= caller'[d].next
               /\ caller'[d].pc = "returned" => \A j \in Positions(d) : worker'[d][j].pc \in {"none", "done"}
    <3>1. CASE d = c
      BY <2>2, <2>4, <2>6, <3>1
    <3>2. CASE d # c
      BY <2>1, <3>2 DEF LoopProgress
    <3> QED BY <3>1, <3>2
  <2> QED BY <2>7, ProgressPrimed
<1>14. ResultsWritten'
  BY <1>1, <1>3, <1>6 DEF ResultsWritten, Positions
<1> QED BY <1>10, <1>11, <1>12, <1>13, <1>14

\* Only the caller's program counter changes; nothing is left to wait for.
LEMMA ReturnInv ==
  ASSUME IInv, NEW c \in Callers, Return(c)
  PROVE  /\ IInv'
         /\ \A i \in Positions(c) : worker[c][i].pc = "done"
<1> USE DEF IInv
<1>1. /\ caller[c].pc = "looping" /\ caller[c].next \notin Positions(c) /\ wg[c] = 0
      /\ caller' = [caller EXCEPT ![c].pc = "returned"]
      /\ UNCHANGED <<ctxDone, worker, semaphore, wg, results>>
  BY DEF Return
<1>2. Outstanding(c) = {}
  BY <1>1, CountedFinite, FS_EmptySet DEF WaitersAreCounted
<1>3. \A i \in Positions(c) : worker[c][i].pc # "none"
  <2>1. caller[c].next \in Nat \ {0}
    BY DEF TypeOK
  <2>2. caller[c].next > Len(PoolAddrs[c])
    BY <1>1, <2>1, PositionsLemma
  <2>3. \A i \in Positions(c) : i \in Nat /\ i < caller[c].next
    BY <2>1, <2>2, PositionsLemma
  <2>4. \A i \in Positions(c) : worker[c][i].pc = "none" <=> i >= caller[c].next
    BY <1>1 DEF LoopProgress
  <2> QED BY <2>1, <2>3, <2>4
<1>4. \A i \in Positions(c) : worker[c][i].pc = "done"
  BY <1>2, <1>3 DEF Outstanding, Unawaited
<1>5. TypeOK' /\ ResultsWritten'
  <2>1. caller' \in [Callers -> [pc : {"looping", "returned"}, next : Nat \ {0}]]
    BY <1>1 DEF TypeOK
  <2>2. TypeOK'
    BY <1>1, <2>1 DEF TypeOK, Positions, Semaphores, Sharing, WorkerState
  <2>3. ResultsWritten'
    BY <1>1 DEF ResultsWritten, Positions
  <2> QED BY <2>2, <2>3
<1>6. (\A s : Holding(s)' = Holding(s)) /\ (\A d \in Callers : Outstanding(d)' = Outstanding(d))
  BY <1>1 DEF Holding, Outstanding, Goroutines, Positions, Slotted, Unawaited
<1>7. SlotsAreHeld' /\ WaitersAreCounted'
  BY <1>1, <1>6, CountersPrimed DEF SlotsAreHeld, WaitersAreCounted, TypeOK
<1>8. LoopProgress'
  BY <1>1, <1>4 DEF LoopProgress, TypeOK, Positions
<1> QED BY <1>4, <1>5, <1>7, <1>8

\* A goroutine that goes on asking keeps its slot and writes nothing.
LEMMA AskInv ==
  ASSUME IInv, NEW c \in Callers, NEW i \in Positions(c), NEW w \in WorkerState,
         worker[c][i].pc \in {"started", "asking"}, w.pc = "asking",
         worker' = [worker EXCEPT ![c][i] = w],
         UNCHANGED <<ctxDone, caller, semaphore, wg, results>>
  PROVE  IInv'
<1> USE DEF IInv
<1>1. \A s : Holding(s)' = Holding(s)
  <2>1. w.pc \in Slotted /\ worker[c][i].pc \in Slotted
    BY DEF Slotted
  <2>2. \A s : Holding(s)' = IF c \in s THEN Holding(s) \cup {<<c, i>>} ELSE Holding(s)
    BY <2>1, HoldsSlot, Zenon
  <2>3. \A s : c \in s => <<c, i>> \in Holding(s)
    BY <2>1, GoroutineOf DEF Holding
  <2> QED BY <2>2, <2>3
<1>2. \A d \in Callers : Outstanding(d)' = Outstanding(d)
  <2>1. w.pc \notin Unawaited /\ worker[c][i].pc \notin Unawaited
    BY DEF Unawaited
  <2>2. \A d \in Callers : Outstanding(d)' = IF d = c THEN Outstanding(d) \cup {i} ELSE Outstanding(d)
    BY <2>1, IsAwaited, Zenon
  <2>3. i \in Outstanding(c)
    BY <2>1 DEF Outstanding
  <2> QED BY <2>2, <2>3
<1>3. \A d \in Callers : \A j \in Positions(d) :
        worker'[d][j] = IF d = c /\ j = i THEN w ELSE worker[d][j]
  BY DEF TypeOK
<1>4. TypeOK'
  <2>1. /\ DOMAIN worker' = Callers
        /\ \A d \in Callers : worker'[d] \in [Positions(d) -> WorkerState]
    BY WorkerTypes, Zenon
  <2> QED BY <2>1 DEF TypeOK, Positions, Semaphores, Sharing, WorkerState
<1>5. SlotsAreHeld' /\ WaitersAreCounted'
  BY <1>1, <1>2, CountersPrimed DEF SlotsAreHeld, WaitersAreCounted
<1>6. LoopProgress'
  BY <1>3 DEF LoopProgress, Positions
<1>7. ResultsWritten'
  BY <1>3 DEF ResultsWritten, Positions
<1> QED BY <1>4, <1>5, <1>6, <1>7

\* A goroutine that finishes writes one result and still holds its slot.
LEMMA FinishInv ==
  ASSUME IInv, NEW c \in Callers, NEW i \in Positions(c),
         NEW result \in Pools \cup {"error"},
         worker[c][i].pc \in {"started", "asking"},
         Finish(c, i, result),
         UNCHANGED <<ctxDone, caller, semaphore, wg>>
  PROVE  IInv'
<1> USE DEF IInv
<1> DEFINE w == [worker[c][i] EXCEPT !.pc = "releasing"]
<1>1. worker' = [worker EXCEPT ![c][i] = w] /\ w \in WorkerState /\ w.pc = "releasing"
  <2>1. worker[c][i] \in WorkerState
    BY DEF TypeOK
  <2> QED BY <2>1 DEF Finish, TypeOK, WorkerState
<1> HIDE DEF w
<1>2. /\ DOMAIN results' = Callers
      /\ \A d \in Callers : results'[d] \in [Positions(d) -> Pools \cup {"none", "error"}]
      /\ \A d \in Callers : \A j \in Positions(d) :
           results'[d][j] = IF d = c /\ j = i THEN result ELSE results[d][j]
  BY DEF Finish, TypeOK
<1>3. \A s : Holding(s)' = Holding(s)
  <2>1. w.pc \in Slotted /\ worker[c][i].pc \in Slotted
    BY <1>1 DEF Slotted
  <2>2. \A s : Holding(s)' = IF c \in s THEN Holding(s) \cup {<<c, i>>} ELSE Holding(s)
    BY <1>1, <2>1, HoldsSlot, Zenon
  <2>3. \A s : c \in s => <<c, i>> \in Holding(s)
    BY <2>1, GoroutineOf DEF Holding
  <2> QED BY <2>1, <2>2, <2>3
<1>4. \A d \in Callers : Outstanding(d)' = Outstanding(d)
  <2>1. w.pc \notin Unawaited /\ worker[c][i].pc \notin Unawaited
    BY <1>1 DEF Unawaited
  <2>2. \A d \in Callers : Outstanding(d)' = IF d = c THEN Outstanding(d) \cup {i} ELSE Outstanding(d)
    BY <1>1, <2>1, IsAwaited, Zenon
  <2>3. i \in Outstanding(c)
    BY <2>1 DEF Outstanding
  <2> QED BY <2>2, <2>3
<1>5. \A d \in Callers : \A j \in Positions(d) :
        worker'[d][j] = IF d = c /\ j = i THEN w ELSE worker[d][j]
  BY <1>1 DEF TypeOK
<1>6. TypeOK'
  <2>1. /\ DOMAIN worker' = Callers
        /\ \A d \in Callers : worker'[d] \in [Positions(d) -> WorkerState]
    BY <1>1, WorkerTypes, Zenon
  <2> QED BY <1>2, <2>1 DEF TypeOK, Positions, Semaphores, Sharing, WorkerState
<1>7. SlotsAreHeld' /\ WaitersAreCounted'
  BY <1>3, <1>4, CountersPrimed DEF SlotsAreHeld, WaitersAreCounted
<1>8. LoopProgress'
  BY <1>1, <1>5 DEF LoopProgress, Positions
<1>9. ResultsWritten'
  <2>1. result # "none"
    BY BatchAssumption
  <2> QED BY <1>1, <1>2, <1>5, <2>1 DEF ResultsWritten, Positions
<1> QED BY <1>6, <1>7, <1>8, <1>9

\* A goroutine that gives its slot back was counted by its semaphore.
LEMMA ReleaseInv ==
  ASSUME IInv, NEW c \in Callers, NEW i \in Positions(c), Release(c, i)
  PROVE  IInv'
<1> USE DEF IInv
<1> DEFINE w == [worker[c][i] EXCEPT !.pc = "leaving"]
<1>1. /\ worker[c][i].pc = "releasing"
      /\ semaphore' = [semaphore EXCEPT ![Sharing(c)] = @ - 1]
      /\ UNCHANGED <<ctxDone, caller, wg, results>>
  BY DEF Release
<1>2. worker' = [worker EXCEPT ![c][i] = w] /\ w \in WorkerState /\ w.pc = "leaving"
  <2>1. worker[c][i] \in WorkerState
    BY DEF TypeOK
  <2> QED BY <2>1 DEF Release, TypeOK, WorkerState
<1> HIDE DEF w
<1>3. \A s : Holding(s)' = IF c \in s THEN Holding(s) \ {<<c, i>>} ELSE Holding(s)
  <2>1. w.pc \notin Slotted
    BY <1>2 DEF Slotted
  <2> QED BY <1>2, <2>1, HoldsNoSlot, Zenon
<1>4. \A d \in Callers : Outstanding(d)' = Outstanding(d)
  <2>1. w.pc \notin Unawaited /\ worker[c][i].pc \notin Unawaited
    BY <1>1, <1>2 DEF Unawaited
  <2>2. \A d \in Callers : Outstanding(d)' = IF d = c THEN Outstanding(d) \cup {i} ELSE Outstanding(d)
    BY <1>2, <2>1, IsAwaited, Zenon
  <2>3. i \in Outstanding(c)
    BY <2>1 DEF Outstanding
  <2> QED BY <2>2, <2>3
<1>5. \A d \in Callers : \A j \in Positions(d) :
        worker'[d][j] = IF d = c /\ j = i THEN w ELSE worker[d][j]
  BY <1>2 DEF TypeOK
<1>6. Sharing(c) \in Semaphores /\ c \in Sharing(c) /\ \A s \in Semaphores : c \in s => s = Sharing(c)
  BY OneSemaphore
<1>7. /\ Cardinality(Holding(Sharing(c))) \in Nat
      /\ Cardinality(Holding(Sharing(c))') = Cardinality(Holding(Sharing(c))) - 1
      /\ Cardinality(Holding(Sharing(c))') \in Nat
  <2>1. <<c, i>> \in Holding(Sharing(c))
    BY <1>1, <1>6, GoroutineOf DEF Holding, Slotted
  <2>2. Holding(Sharing(c))' = Holding(Sharing(c)) \ {<<c, i>>}
    BY <1>3, <1>6
  <2>3. IsFiniteSet(Holding(Sharing(c))) /\ IsFiniteSet(Holding(Sharing(c))')
    BY CountedFinite
  <2>4. Cardinality(Holding(Sharing(c)) \ {<<c, i>>}) = Cardinality(Holding(Sharing(c))) - 1
    BY <2>1, <2>3, FS_RemoveElement
  <2> QED BY <2>2, <2>3, <2>4, FS_CardinalityType
<1>8. TypeOK'
  <2>1. semaphore[Sharing(c)] \in 0 .. MaxConcurrentCalls /\ semaphore[Sharing(c)] - 1 \in Nat
    <3>1. semaphore[Sharing(c)] = Cardinality(Holding(Sharing(c)))
      BY <1>6 DEF SlotsAreHeld
    <3>2. semaphore[Sharing(c)] \in 0 .. MaxConcurrentCalls
      BY <1>6 DEF TypeOK
    <3> QED BY <1>7, <3>1, <3>2
  <2>2. semaphore' \in [Semaphores -> 0 .. MaxConcurrentCalls]
    <3>1. MaxConcurrentCalls \in Nat
      BY BatchAssumption
    <3>2. semaphore[Sharing(c)] - 1 \in 0 .. MaxConcurrentCalls
      BY <2>1, <3>1
    <3> QED BY <1>1, <1>6, <3>2 DEF TypeOK
  <2>3. /\ DOMAIN worker' = Callers
        /\ \A d \in Callers : worker'[d] \in [Positions(d) -> WorkerState]
    BY <1>2, WorkerTypes, Zenon
  <2> QED BY <1>1, <2>2, <2>3 DEF TypeOK, Positions, Semaphores, Sharing, WorkerState
<1>9. SlotsAreHeld'
  <2>1. ASSUME NEW s \in Semaphores PROVE semaphore'[s] = Cardinality(Holding(s)')
    <3>1. CASE s = Sharing(c)
      BY <1>1, <1>7, <3>1 DEF TypeOK, SlotsAreHeld
    <3>2. CASE s # Sharing(c)
      <4>1. Holding(s)' = Holding(s)
        BY <1>3, <1>6, <3>2
      <4> QED BY <1>1, <3>2, <4>1 DEF TypeOK, SlotsAreHeld
    <3> QED BY <3>1, <3>2
  <2> QED BY <2>1, CountersPrimed
<1>10. WaitersAreCounted'
  BY <1>1, <1>4, CountersPrimed DEF WaitersAreCounted
<1>11. LoopProgress' /\ ResultsWritten'
  BY <1>1, <1>2, <1>5 DEF LoopProgress, ResultsWritten, Positions
<1> QED BY <1>8, <1>9, <1>10, <1>11

\* A goroutine that is done was counted by its WaitGroup, and its call still runs.
LEMMA DoneInv ==
  ASSUME IInv, NEW c \in Callers, NEW i \in Positions(c), Done(c, i)
  PROVE  IInv'
<1> USE DEF IInv
<1> DEFINE w == [worker[c][i] EXCEPT !.pc = "done"]
<1>1. /\ worker[c][i].pc = "leaving"
      /\ wg' = [wg EXCEPT ![c] = @ - 1]
      /\ UNCHANGED <<ctxDone, caller, semaphore, results>>
  BY DEF Done
<1>2. worker' = [worker EXCEPT ![c][i] = w] /\ w \in WorkerState /\ w.pc = "done"
  <2>1. worker[c][i] \in WorkerState
    BY DEF TypeOK
  <2> QED BY <2>1 DEF Done, TypeOK, WorkerState
<1> HIDE DEF w
<1>3. \A s : Holding(s)' = Holding(s)
  <2>1. w.pc \notin Slotted /\ worker[c][i].pc \notin Slotted
    BY <1>1, <1>2 DEF Slotted
  <2>2. \A s : Holding(s)' = IF c \in s THEN Holding(s) \ {<<c, i>>} ELSE Holding(s)
    BY <1>2, <2>1, HoldsNoSlot, Zenon
  <2>3. \A s : <<c, i>> \notin Holding(s)
    BY <2>1 DEF Holding
  <2> QED BY <2>2, <2>3
<1>4. \A d \in Callers : Outstanding(d)' = IF d = c THEN Outstanding(d) \ {i} ELSE Outstanding(d)
  <2>1. w.pc \in Unawaited
    BY <1>2 DEF Unawaited
  <2> QED BY <1>2, <2>1, IsUnawaited, Zenon
<1>5. \A d \in Callers : \A j \in Positions(d) :
        worker'[d][j] = IF d = c /\ j = i THEN w ELSE worker[d][j]
  BY <1>2 DEF TypeOK
<1>6. /\ caller[c].pc = "looping"
      /\ wg[c] = Cardinality(Outstanding(c))
      /\ Cardinality(Outstanding(c)') = Cardinality(Outstanding(c)) - 1
      /\ Cardinality(Outstanding(c)') \in Nat /\ Cardinality(Outstanding(c)) \in Nat
  <2>1. i \in Outstanding(c)
    BY <1>1 DEF Outstanding, Unawaited
  <2>2. caller[c].pc = "looping"
    BY <1>1 DEF LoopProgress, TypeOK
  <2>3. IsFiniteSet(Outstanding(c)) /\ IsFiniteSet(Outstanding(c)')
    BY CountedFinite
  <2>4. Cardinality(Outstanding(c) \ {i}) = Cardinality(Outstanding(c)) - 1
    BY <2>1, <2>3, FS_RemoveElement
  <2> QED BY <1>4, <2>2, <2>3, <2>4, FS_CardinalityType DEF WaitersAreCounted
<1>7. TypeOK'
  <2>1. wg' \in [Callers -> Nat]
    BY <1>1, <1>6 DEF TypeOK
  <2>2. /\ DOMAIN worker' = Callers
        /\ \A d \in Callers : worker'[d] \in [Positions(d) -> WorkerState]
    BY <1>2, WorkerTypes, Zenon
  <2> QED BY <1>1, <2>1, <2>2 DEF TypeOK, Positions, Semaphores, Sharing, WorkerState
<1>8. SlotsAreHeld'
  BY <1>1, <1>3, CountersPrimed DEF SlotsAreHeld
<1>9. WaitersAreCounted'
  <2>1. ASSUME NEW d \in Callers, caller'[d].pc = "looping"
        PROVE  wg'[d] = Cardinality(Outstanding(d)')
    <3>1. CASE d = c
      BY <1>1, <1>6, <3>1 DEF TypeOK
    <3>2. CASE d # c
      BY <1>1, <1>4, <2>1, <3>2 DEF TypeOK, WaitersAreCounted
    <3> QED BY <3>1, <3>2
  <2> QED BY <2>1, CountersPrimed
<1>10. LoopProgress' /\ ResultsWritten'
  BY <1>1, <1>2, <1>5 DEF LoopProgress, ResultsWritten, Positions
<1> QED BY <1>7, <1>8, <1>9, <1>10

\* Nothing but the contexts changes.
LEMMA CancelInv ==
  ASSUME IInv, ctxDone' \subseteq Callers, UNCHANGED <<caller, worker, semaphore, wg, results>>
  PROVE  IInv'
<1> USE DEF IInv
<1>1. TypeOK' /\ LoopProgress' /\ ResultsWritten'
  BY DEF TypeOK, LoopProgress, ResultsWritten, Positions, Semaphores, Sharing, WorkerState
<1>2. (\A s : Holding(s)' = Holding(s)) /\ (\A d \in Callers : Outstanding(d)' = Outstanding(d))
  BY DEF Holding, Outstanding, Goroutines, Positions, Slotted, Unawaited
<1>3. SlotsAreHeld' /\ WaitersAreCounted'
  BY <1>2, CountersPrimed DEF SlotsAreHeld, WaitersAreCounted
<1> QED BY <1>1, <1>3

\* The two steps of a goroutine that asks: it goes on, or it finishes with an error or with
\* what it fetched of its own pool, if that is known.
LEMMA AskingStep ==
  ASSUME TypeOK, NEW c \in Callers, NEW i \in Positions(c), CheckContext(c, i) \/ Answered(c, i)
  PROVE  /\ worker[c][i].pc \in {"started", "asking"}
         /\ UNCHANGED <<ctxDone, caller, semaphore, wg>>
         /\ \/ /\ UNCHANGED results
               /\ \E w \in WorkerState : w.pc = "asking" /\ worker' = [worker EXCEPT ![c][i] = w]
            \/ \E result \in Pools \cup {"error"} :
                 /\ result = "error" \/ (result = PoolAddrs[c][i] /\ result \in Known)
                 /\ Finish(c, i, result)
<1>1. worker[c][i] \in WorkerState
  BY DEF TypeOK
<1>2. RPCCalls \in Nat \ {0} /\ Known \subseteq Pools
  BY BatchAssumption
<1>3. CASE CheckContext(c, i)
  <2>1. [pc |-> "asking", rpc |-> 1] \in WorkerState
    BY <1>2 DEF WorkerState
  <2> QED BY <1>3, <2>1 DEF CheckContext
<1>4. CASE Answered(c, i)
  <2> DEFINE w == [worker[c][i] EXCEPT !.rpc = @ + 1]
  <2>1. CASE worker[c][i].rpc < RPCCalls /\ worker' = [worker EXCEPT ![c][i].rpc = @ + 1] /\ UNCHANGED results
    <3>1. w \in WorkerState /\ w.pc = "asking"
      BY <1>1, <1>2, <1>4, <2>1 DEF Answered, WorkerState
    <3>2. worker' = [worker EXCEPT ![c][i] = w]
      BY <2>1 DEF TypeOK
    <3> HIDE DEF w
    <3> QED BY <1>4, <2>1, <3>1, <3>2 DEF Answered
  <2>2. CASE PoolAddrs[c][i] \in Known /\ Finish(c, i, PoolAddrs[c][i])
    BY <1>2, <1>4, <2>2 DEF Answered
  <2>3. CASE Finish(c, i, "error")
    BY <1>4, <2>3 DEF Answered
  <2> QED BY <1>4, <2>1, <2>2, <2>3 DEF Answered
<1> QED BY <1>3, <1>4

\* Every step preserves the invariant.
LEMMA NextInv == IInv /\ [Next]_vars => IInv'
<1> SUFFICES ASSUME IInv, [Next]_vars PROVE IInv'
  OBVIOUS
<1>1. ASSUME NEW c \in Callers, Call(c) PROVE IInv'
  BY <1>1, CallInv
<1>2. ASSUME NEW c \in Callers, Cancel(c) PROVE IInv'
  BY <1>2, CancelInv DEF Cancel, IInv, TypeOK
<1>3. ASSUME NEW c \in Callers, Start(c) PROVE IInv'
  BY <1>3, StartInv
<1>4. ASSUME NEW c \in Callers, Return(c) PROVE IInv'
  BY <1>4, ReturnInv
<1>5. ASSUME NEW c \in Callers, NEW i \in Positions(c), CheckContext(c, i) \/ Answered(c, i) PROVE IInv'
  <2>1. TypeOK
    BY DEF IInv
  <2>2. worker[c][i].pc \in {"started", "asking"} /\ UNCHANGED <<ctxDone, caller, semaphore, wg>>
    BY <1>5, <2>1, AskingStep
  <2>3. CASE /\ UNCHANGED results
             /\ \E w \in WorkerState : w.pc = "asking" /\ worker' = [worker EXCEPT ![c][i] = w]
    BY <2>2, <2>3, AskInv
  <2>4. CASE \E result \in Pools \cup {"error"} : Finish(c, i, result)
    BY <2>2, <2>4, FinishInv
  <2> QED BY <1>5, <2>1, <2>3, <2>4, AskingStep
<1>6. ASSUME NEW c \in Callers, NEW i \in Positions(c), Release(c, i) PROVE IInv'
  BY <1>6, ReleaseInv
<1>7. ASSUME NEW c \in Callers, NEW i \in Positions(c), Done(c, i) PROVE IInv'
  BY <1>7, DoneInv
<1>8. CASE UNCHANGED vars
  BY <1>8, CancelInv DEF vars, IInv, TypeOK
<1> QED BY <1>1, <1>2, <1>3, <1>4, <1>5, <1>6, <1>7, <1>8 DEF Next, Work

\* The invariant holds in every reachable state.
LEMMA Invariance == Spec => []IInv
  BY InitInv, NextInv, PTL DEF Spec

-----------------------------------------------------------------------------
\* The state always has the declared types: no semaphore overflows, no counter is negative.
THEOREM TypeCorrect == Spec => []TypeOK
<1>1. IInv => TypeOK
  BY DEF IInv
<1> QED BY <1>1, Invariance, PTL

\* Who asks holds a slot, so a semaphore's capacity bounds the RPC calls in flight: over all
\* calls of Initialize that share it, or within one call of the function of NewGetReserves.
THEOREM LimitHolds == Spec => []ConcurrencyIsLimited
<1>1. IInv => ConcurrencyIsLimited
  <2> SUFFICES ASSUME IInv PROVE ConcurrencyIsLimited
    OBVIOUS
  <2>1. ASSUME NEW s \in Semaphores PROVE Cardinality(Asking(s)) <= MaxConcurrentCalls
    <3>1. Asking(s) \in SUBSET Holding(s) /\ IsFiniteSet(Holding(s)) /\ IsFiniteSet(Asking(s))
      BY CountedFinite DEF Asking, Holding, Slotted
    <3>2. Cardinality(Asking(s)) <= Cardinality(Holding(s))
      BY <3>1, FS_Subset
    <3>3. Cardinality(Asking(s)) \in Nat /\ Cardinality(Holding(s)) \in Nat
      BY <3>1, FS_CardinalityType
    <3>4. Cardinality(Holding(s)) \in 0 .. MaxConcurrentCalls
      BY DEF IInv, TypeOK, SlotsAreHeld
    <3>5. MaxConcurrentCalls \in Nat
      BY BatchAssumption
    <3> QED BY <3>2, <3>3, <3>4, <3>5
  <2>2. SharedSemaphore => Callers \in Semaphores
    BY BatchAssumption DEF Semaphores, Sharing
  <2>3. ~SharedSemaphore => \A c \in Callers : {c} \in Semaphores
    BY DEF Semaphores, Sharing
  <2> QED BY <2>1, <2>2, <2>3 DEF ConcurrencyIsLimited
<1> QED BY <1>1, Invariance, PTL

\* A call that waits, waits for a goroutine that can go on: a full semaphore has holders, and
\* what the WaitGroup still counts has been started.  A semaphore without capacity is excluded:
\* no goroutine of a batch would ever hold a slot of it.
THEOREM NobodyWaitsForNobody ==
  ASSUME MaxConcurrentCalls > 0
  PROVE  Spec => []NoCallIsStuck
<1>1. IInv => NoCallIsStuck
  <2> SUFFICES ASSUME IInv, NEW c \in Callers, caller[c].pc = "looping"
               PROVE  IF caller[c].next \in Positions(c)
                        THEN \/ semaphore[Sharing(c)] < MaxConcurrentCalls
                             \/ \E d \in Sharing(c) : \E i \in Positions(d) : worker[d][i].pc \in Slotted
                        ELSE \/ wg[c] = 0
                             \/ \E i \in Positions(c) :
                                  worker[c][i].pc \in {"started", "asking", "releasing", "leaving"}
    BY DEF NoCallIsStuck, Slotted
  <2> USE DEF IInv
  <2>1. CASE caller[c].next \in Positions(c) /\ ~(semaphore[Sharing(c)] < MaxConcurrentCalls)
    <3>1. /\ semaphore[Sharing(c)] = Cardinality(Holding(Sharing(c)))
          /\ semaphore[Sharing(c)] \in 0 .. MaxConcurrentCalls
      BY OneSemaphore DEF SlotsAreHeld, TypeOK
    <3>2. Cardinality(Holding(Sharing(c))) # 0
      BY <2>1, <3>1, BatchAssumption
    <3>3. PICK g \in Holding(Sharing(c)) : TRUE
      BY <3>2, FS_EmptySet
    <3>4. g[1] \in Sharing(c) /\ g[2] \in Positions(g[1]) /\ worker[g[1]][g[2]].pc \in Slotted
      BY <3>3, GoroutineOf DEF Holding
    <3> QED BY <2>1, <3>4
  <2>2. CASE caller[c].next \notin Positions(c) /\ wg[c] # 0
    <3>1. Cardinality(Outstanding(c)) # 0
      BY <2>2 DEF WaitersAreCounted
    <3>2. PICK i \in Outstanding(c) : TRUE
      BY <3>1, FS_EmptySet
    <3>3. i \in Positions(c) /\ worker[c][i].pc # "done" /\ worker[c][i] \in WorkerState
      BY <3>2 DEF Outstanding, Unawaited, TypeOK
    <3>4. worker[c][i].pc # "none"
      <4>1. caller[c].next \in Nat \ {0} /\ caller[c].next <= Len(PoolAddrs[c]) + 1
        BY DEF LoopProgress, TypeOK
      <4>2. Len(PoolAddrs[c]) \in Nat /\ Positions(c) = 1 .. Len(PoolAddrs[c])
        BY PositionsLemma
      <4>3. ~(i >= caller[c].next)
        BY <2>2, <3>3, <4>1, <4>2
      <4> QED BY <3>3, <4>3 DEF LoopProgress
    <3> QED BY <2>2, <3>3, <3>4 DEF WorkerState
  <2> QED BY <2>1, <2>2
<1> QED BY <1>1, Invariance, PTL

\* Between calls no slot of a semaphore is taken.
AllSlotsBack ==
  \A s \in Semaphores : (\A c \in s : caller[c].pc = "returned") => semaphore[s] = 0

\* Calls give back every slot they took, also the ones that failed or were cancelled: the
\* capacity that the calls of an initializer share never shrinks.
THEOREM NoSlotLeaks == Spec => []AllSlotsBack
<1>1. IInv => AllSlotsBack
  <2> SUFFICES ASSUME IInv, NEW s \in Semaphores, \A c \in s : caller[c].pc = "returned"
               PROVE  semaphore[s] = 0
    BY DEF AllSlotsBack
  <2>1. Holding(s) = {}
    BY GoroutineOf DEF IInv, LoopProgress, Holding, Slotted
  <2> QED BY <2>1, FS_EmptySet DEF IInv, SlotsAreHeld
<1> QED BY <1>1, Invariance, PTL

\* A goroutine that finishes answers the pool at its own position of a running call.
LEMMA FinishAnswers ==
  ASSUME IInv, NEW c \in Callers, NEW i \in Positions(c), NEW result,
         result = "error" \/ (result = PoolAddrs[c][i] /\ result \in Known),
         worker[c][i].pc \in {"started", "asking"},
         Finish(c, i, result), UNCHANGED caller
  PROVE  BatchSpec!Answer(c, i)
<1>1. caller[c].pc = "looping" /\ results[c][i] = "none"
  <2>1. caller[c].pc \in {"looping", "returned"}
    BY DEF IInv, TypeOK
  <2>2. caller[c].pc # "returned"
    BY DEF IInv, LoopProgress
  <2>3. results[c][i] = "none"
    BY DEF IInv, ResultsWritten
  <2> QED BY <2>1, <2>2, <2>3
<1>2. results' = [results EXCEPT ![c][i] = result]
  BY DEF Finish
<1> QED BY <1>1, <1>2 DEF BatchSpec!Answer

\* The goroutines, semaphores and wait groups implement a batch: when a call returns, every
\* position has its own answer, and none is written twice or late.
THEOREM Refinement == Spec => RefinesBatch
<1>1. Init => BatchSpec!Init
  BY DEF Init, BatchSpec!Init, Positions, BatchSpec!Positions
<1>2. IInv /\ [Next]_vars => [BatchSpec!Next]_(BatchSpec!vars)
  <2> SUFFICES ASSUME IInv, [Next]_vars
               PROVE  BatchSpec!Next \/ UNCHANGED BatchSpec!vars
    OBVIOUS
  <2> USE DEF BatchSpec!Next, BatchSpec!vars
  <2>1. ASSUME NEW c \in Callers, Call(c) PROVE BatchSpec!Call(c)
    BY <2>1 DEF Call, BatchSpec!Call, Positions, BatchSpec!Positions, IInv, TypeOK
  <2>2. ASSUME NEW c \in Callers, Cancel(c) PROVE UNCHANGED BatchSpec!vars
    BY <2>2 DEF Cancel
  <2>3. ASSUME NEW c \in Callers, Start(c) PROVE UNCHANGED BatchSpec!vars
    <3>1. \A d \in Callers : caller'[d].pc = caller[d].pc
      BY <2>3 DEF Start, IInv, TypeOK
    <3> QED BY <2>3, <3>1 DEF Start
  <2>4. ASSUME NEW c \in Callers, Return(c) PROVE BatchSpec!Return(c)
    <3>1. \A i \in Positions(c) : results[c][i] # "none"
      BY <2>4, ReturnInv DEF IInv, ResultsWritten
    <3>2. /\ caller[c].pc = "looping" /\ results' = results
          /\ caller' = [caller EXCEPT ![c].pc = "returned"]
      BY <2>4 DEF Return
    <3> QED BY <3>1, <3>2 DEF BatchSpec!Return, Positions, BatchSpec!Positions, IInv, TypeOK
  <2>5. ASSUME NEW c \in Callers, NEW i \in Positions(c), CheckContext(c, i) \/ Answered(c, i)
        PROVE  BatchSpec!Answer(c, i) \/ UNCHANGED BatchSpec!vars
    BY <2>5, AskingStep, FinishAnswers DEF IInv
  <2>6. ASSUME NEW c \in Callers, NEW i \in Positions(c), Release(c, i) \/ Done(c, i)
        PROVE  UNCHANGED BatchSpec!vars
    BY <2>6 DEF Release, Done
  <2>7. CASE UNCHANGED vars
    BY <2>7 DEF vars
  <2>8. \A c \in Callers : Positions(c) = BatchSpec!Positions(c)
    BY DEF Positions, BatchSpec!Positions
  <2> QED BY <2>1, <2>2, <2>3, <2>4, <2>5, <2>6, <2>7, <2>8 DEF Next, Work
<1> QED BY <1>1, <1>2, Invariance, PTL DEF Spec, RefinesBatch, BatchSpec!Spec

\* The steps that a goroutine, and the loop of a call, can still take.
Left(w) ==
  IF w.pc = "none" THEN RPCCalls + 4
  ELSE IF w.pc = "started" THEN RPCCalls + 3
  ELSE IF w.pc = "asking" THEN (RPCCalls + 3) - w.rpc
  ELSE IF w.pc = "releasing" THEN 2
  ELSE IF w.pc = "leaving" THEN 1 ELSE 0
LoopLeft(c) ==
  IF caller[c].pc = "looping" THEN (Len(PoolAddrs[c]) + 2) - caller[c].next ELSE 0

\* They are natural numbers, and a goroutine that asks has more of them than one that is done asking.
LEMMA LeftType ==
  ASSUME NEW w \in WorkerState
  PROVE  Left(w) \in Nat /\ (w.pc = "asking" => Left(w) > 2)
<1>1. RPCCalls \in Nat /\ w.rpc \in Nat /\ w.rpc <= RPCCalls
  BY BatchAssumption DEF WorkerState
<1> QED BY <1>1 DEF Left

\* A step of a goroutine leaves it, and nobody else, fewer steps.
LEMMA WorkerAdvances ==
  ASSUME TypeOK, NEW c \in Callers, NEW i \in Positions(c), Work(c, i)
  PROVE  /\ caller' = caller
         /\ \A d \in Callers : \A j \in Positions(d) :
              IF d = c /\ j = i THEN Left(worker'[d][j]) < Left(worker[d][j])
                                ELSE worker'[d][j] = worker[d][j]
         /\ \A d \in Callers \ {c} : UNCHANGED <<worker[d], results[d], wg[d]>>
<1>1. /\ caller' = caller
      /\ \A d \in Callers \ {c} : UNCHANGED <<worker[d], results[d], wg[d]>>
  <2>1. CASE CheckContext(c, i)
    BY <2>1 DEF CheckContext, Finish, TypeOK
  <2>2. CASE Answered(c, i)
    BY <2>2 DEF Answered, Finish, TypeOK
  <2>3. CASE Release(c, i) \/ Done(c, i)
    BY <2>3 DEF Release, Done, TypeOK
  <2> QED BY <2>1, <2>2, <2>3 DEF Work
<1>2. worker[c][i] \in WorkerState /\ RPCCalls \in Nat
  BY BatchAssumption DEF TypeOK
<1>3. \E w : worker' = [worker EXCEPT ![c][i] = w] /\ Left(w) < Left(worker[c][i])
  <2> DEFINE v == worker[c][i]
  <2>1. v.rpc \in Nat /\ Left(v) \in Nat /\ (v.pc = "asking" => Left(v) > 2)
    BY <1>2, LeftType DEF WorkerState
  <2>2. ASSUME NEW result, Finish(c, i, result), v.pc \in {"started", "asking"}
        PROVE  \E w : worker' = [worker EXCEPT ![c][i] = w] /\ Left(w) < Left(v)
    <3> DEFINE w == [v EXCEPT !.pc = "releasing"]
    <3>1. worker' = [worker EXCEPT ![c][i] = w]
      BY <2>2 DEF Finish
    <3>2. w.pc = "releasing"
      BY <1>2 DEF WorkerState
    <3>3. Left(w) = 2
      BY <3>2 DEF Left
    <3>4. Left(v) > 2
      <4>1. CASE v.pc = "started"
        BY <1>2, <4>1 DEF Left
      <4>2. CASE v.pc = "asking"
        BY <2>1, <4>2
      <4> QED BY <2>2, <4>1, <4>2
    <3>5. Left(w) < Left(v)
      BY <2>1, <3>3, <3>4
    <3> QED BY <3>1, <3>5
  <2>3. CASE v.pc = "started" /\ worker' = [worker EXCEPT ![c][i] = [pc |-> "asking", rpc |-> 1]]
    <3> DEFINE w == [pc |-> "asking", rpc |-> 1]
    <3>1. Left(w) = (RPCCalls + 3) - 1
      BY DEF Left
    <3>2. Left(v) = RPCCalls + 3
      BY <2>3 DEF Left
    <3>3. Left(w) < Left(v)
      BY <1>2, <3>1, <3>2
    <3> QED BY <2>3, <3>3
  <2>4. CASE /\ v.pc = "asking" /\ v.rpc < RPCCalls
             /\ worker' = [worker EXCEPT ![c][i].rpc = @ + 1]
    <3> DEFINE w == [v EXCEPT !.rpc = @ + 1]
    <3>1. worker' = [worker EXCEPT ![c][i] = w]
      BY <2>4
    <3>2. w.pc = "asking" /\ w.rpc = v.rpc + 1
      BY <1>2, <2>4 DEF WorkerState
    <3>3. Left(w) < Left(v)
      BY <1>2, <2>1, <2>4, <3>2 DEF Left
    <3> QED BY <3>1, <3>3
  <2>5. CASE v.pc = "releasing" /\ worker' = [worker EXCEPT ![c][i].pc = "leaving"]
    <3> DEFINE w == [v EXCEPT !.pc = "leaving"]
    <3>1. worker' = [worker EXCEPT ![c][i] = w]
      BY <2>5
    <3>2. w.pc = "leaving"
      BY <1>2 DEF WorkerState
    <3>3. Left(w) < Left(v)
      BY <2>5, <3>2 DEF Left
    <3> QED BY <3>1, <3>3
  <2>6. CASE v.pc = "leaving" /\ worker' = [worker EXCEPT ![c][i].pc = "done"]
    <3> DEFINE w == [v EXCEPT !.pc = "done"]
    <3>1. worker' = [worker EXCEPT ![c][i] = w]
      BY <2>6
    <3>2. w.pc = "done"
      BY <1>2 DEF WorkerState
    <3>3. Left(w) < Left(v)
      BY <2>6, <3>2 DEF Left
    <3> QED BY <3>1, <3>3
  <2>7. CASE CheckContext(c, i)
    BY <2>2, <2>3, <2>7 DEF CheckContext
  <2>8. CASE Answered(c, i)
    BY <2>2, <2>4, <2>8 DEF Answered
  <2>9. CASE Release(c, i) \/ Done(c, i)
    BY <2>5, <2>6, <2>9 DEF Release, Done
  <2> QED BY <2>7, <2>8, <2>9 DEF Work
<1>4. PICK w : worker' = [worker EXCEPT ![c][i] = w] /\ Left(w) < Left(worker[c][i])
  BY <1>3
<1>5. \A d \in Callers : \A j \in Positions(d) :
        worker'[d][j] = IF d = c /\ j = i THEN w ELSE worker[d][j]
  BY <1>4 DEF TypeOK
<1> QED BY <1>1, <1>4, <1>5

\* Between its start and its return a call is left fewer steps by each step it takes: no number
\* of its ever rises, and one falls.
Advances(c) ==
  /\ LoopLeft(c)' <= LoopLeft(c)
  /\ \A i \in Positions(c) : Left(worker[c][i])' <= Left(worker[c][i])
  /\ \/ LoopLeft(c)' < LoopLeft(c)
     \/ \E i \in Positions(c) : Left(worker[c][i])' < Left(worker[c][i])

\* Whatever other calls do, whenever contexts are cancelled and however RPC calls end, a call
\* makes boundedly many steps.
CallsRunOut ==
  /\ [](\A c \in Callers :
          LoopLeft(c) \in Nat /\ \A i \in Positions(c) : Left(worker[c][i]) \in Nat)
  /\ [][\A c \in Callers :
          Call(c) \/ Advances(c) \/ UNCHANGED <<caller[c], worker[c], results[c], wg[c]>>]_vars

\* The loop has a natural number of turns left, and the return.
LEMMA LoopLeftType ==
  ASSUME IInv, NEW c \in Callers
  PROVE  /\ LoopLeft(c) \in Nat
         /\ caller[c].pc = "looping" => LoopLeft(c) > 0
         /\ caller[c].next \in Nat /\ Len(PoolAddrs[c]) \in Nat
<1>1. /\ Len(PoolAddrs[c]) \in Nat /\ caller[c].next \in Nat
      /\ caller[c].pc = "looping" => caller[c].next <= Len(PoolAddrs[c]) + 1
  BY PositionsLemma DEF IInv, TypeOK, LoopProgress
<1> QED BY <1>1 DEF LoopLeft

\* No call runs for ever; with NobodyWaitsForNobody, by which one that has not returned never
\* waits in vain, that is why every call of Initialize and of getReserves returns.
THEOREM CallsAreBounded == Spec => CallsRunOut
<1>1. IInv => \A c \in Callers :
                LoopLeft(c) \in Nat /\ \A i \in Positions(c) : Left(worker[c][i]) \in Nat
  BY LoopLeftType, LeftType DEF IInv, TypeOK
<1>2. IInv /\ [Next]_vars =>
        \A c \in Callers :
          Call(c) \/ Advances(c) \/ UNCHANGED <<caller[c], worker[c], results[c], wg[c]>>
  <2> SUFFICES ASSUME IInv, [Next]_vars, NEW d \in Callers
               PROVE  Call(d) \/ Advances(d) \/ UNCHANGED <<caller[d], worker[d], results[d], wg[d]>>
    OBVIOUS
  <2>1. /\ LoopLeft(d) \in Nat /\ LoopLeft(d)' = IF caller'[d].pc = "looping"
                                                   THEN (Len(PoolAddrs[d]) + 2) - caller'[d].next ELSE 0
        /\ \A i \in Positions(d) : Left(worker[d][i]) \in Nat
        /\ \A i \in Positions(d) : Left(worker[d][i])' = Left(worker'[d][i])
        /\ \A i \in Positions(d) : Left(worker'[d][i]) \in Nat
    <3>1. \A i \in Positions(d) : worker'[d][i] \in WorkerState
      BY NextInv DEF IInv, TypeOK, Positions, WorkerState
    <3> QED BY <1>1, <3>1, LoopLeftType, LeftType DEF LoopLeft, Left
  <2>2. ASSUME NEW c \in Callers, Call(c) \/ Cancel(c)
        PROVE  Call(d) \/ UNCHANGED <<caller[d], worker[d], results[d], wg[d]>>
    BY <2>2 DEF Call, Cancel, IInv, TypeOK
  <2>3. ASSUME NEW c \in Callers, Start(c)
        PROVE  Advances(d) \/ UNCHANGED <<caller[d], worker[d], results[d], wg[d]>>
    <3>1. CASE d = c
      <4> DEFINE n == caller[c].next
      <4>1. /\ caller[c].pc = "looping" /\ caller'[c].pc = "looping"
            /\ n \in Positions(c) /\ caller'[c].next = n + 1
        BY <2>3 DEF Start, IInv, TypeOK
      <4>2. LoopLeft(c)' < LoopLeft(c)
        BY <2>1, <3>1, <4>1, LoopLeftType DEF LoopLeft
      <4>3. worker[c][n].pc = "none" /\ worker[c][n] \in WorkerState
        BY <4>1, PositionsLemma DEF IInv, LoopProgress, TypeOK
      <4>4. /\ worker'[c][n].pc = "started"
            /\ \A i \in Positions(c) : i # n => worker'[c][i] = worker[c][i]
        BY <2>3, <4>1, <4>3 DEF Start, IInv, TypeOK, WorkerState
      <4>5. Left(worker'[c][n]) <= Left(worker[c][n])
        BY <4>3, <4>4, BatchAssumption DEF Left
      <4>6. \A i \in Positions(c) : Left(worker[c][i])' <= Left(worker[c][i])
        BY <2>1, <3>1, <4>4, <4>5
      <4>7. LoopLeft(c)' <= LoopLeft(c)
        BY <2>1, <3>1, <4>1, <4>2, LoopLeftType
      <4> QED BY <3>1, <4>2, <4>6, <4>7 DEF Advances
    <3>2. CASE d # c
      BY <2>3, <3>2 DEF Start, IInv, TypeOK
    <3> QED BY <3>1, <3>2
  <2>4. ASSUME NEW c \in Callers, Return(c)
        PROVE  Advances(d) \/ UNCHANGED <<caller[d], worker[d], results[d], wg[d]>>
    <3>1. CASE d = c
      <4>1. /\ caller[c].pc = "looping" /\ caller'[c].pc = "returned" /\ worker' = worker
        BY <2>4 DEF Return, IInv, TypeOK
      <4>2. LoopLeft(c)' < LoopLeft(c) /\ LoopLeft(c)' <= LoopLeft(c)
        <5>1. LoopLeft(c)' = 0
          BY <2>1, <3>1, <4>1
        <5>2. LoopLeft(c) > 0 /\ LoopLeft(c) \in Nat
          BY <4>1, LoopLeftType
        <5> QED BY <5>1, <5>2
      <4>3. \A i \in Positions(c) : Left(worker[c][i])' <= Left(worker[c][i])
        <5>1. \A i \in Positions(c) : Left(worker[c][i])' = Left(worker[c][i])
          BY <2>1, <3>1, <4>1
        <5> QED BY <1>1, <5>1
      <4> QED BY <3>1, <4>2, <4>3 DEF Advances
    <3>2. CASE d # c
      BY <2>4, <3>2 DEF Return, IInv, TypeOK
    <3> QED BY <3>1, <3>2
  <2>5. ASSUME NEW c \in Callers, NEW i \in Positions(c), Work(c, i)
        PROVE  Advances(d) \/ UNCHANGED <<caller[d], worker[d], results[d], wg[d]>>
    <3>1. /\ caller' = caller
          /\ \A j \in Positions(d) :
               IF d = c /\ j = i THEN Left(worker'[d][j]) < Left(worker[d][j])
                                 ELSE worker'[d][j] = worker[d][j]
          /\ d # c => UNCHANGED <<worker[d], results[d], wg[d]>>
      BY <2>5, WorkerAdvances DEF IInv
    <3>2. CASE d = c
      <4>1. LoopLeft(d)' = LoopLeft(d)
        BY <3>1 DEF LoopLeft
      <4>2. Left(worker[d][i])' < Left(worker[d][i])
        BY <2>1, <3>1, <3>2
      <4>3. \A j \in Positions(d) : Left(worker[d][j])' <= Left(worker[d][j])
        <5>1. \A j \in Positions(d) :
                Left(worker'[d][j]) = Left(worker[d][j]) \/ Left(worker'[d][j]) < Left(worker[d][j])
          BY <3>1
        <5> QED BY <2>1, <5>1
      <4> QED BY <2>1, <3>2, <4>1, <4>2, <4>3 DEF Advances
    <3> QED BY <3>1, <3>2
  <2>6. CASE UNCHANGED vars
    BY <2>6 DEF vars
  <2> QED BY <2>2, <2>3, <2>4, <2>5, <2>6 DEF Next
<1> QED BY <1>1, <1>2, Invariance, PTL DEF Spec, CallsRunOut
=============================================================================
