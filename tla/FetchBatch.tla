---------------------------- MODULE FetchBatch ----------------------------
(***************************************************************************)
(* The two functions that ask an RPC node about a batch of pools:          *)
(* Initialize of src/initializer/pool.go and the function NewGetReserves   *)
(* of src/reserves/reserves.go returns.  Both start one goroutine per      *)
(* pool, take a slot of a semaphore for each before they start it, let     *)
(* each write its results at its own index of shared slices, and wait for  *)
(* a WaitGroup.  They differ in four ways:                                 *)
(*                                                                         *)
(*                       Initialize            getReserves                 *)
(*   semaphore           one for all calls     one per call                *)
(*   WaitGroup.Add       1 per goroutine       all of them at the start    *)
(*   RPC calls per pool  factory, token0,      1                           *)
(*                       token1, reserves                                  *)
(*   refuses             unknown factories     nothing                     *)
(*                                                                         *)
(* A caller makes one call after another; callers are concurrent.          *)
(***************************************************************************)
EXTENDS Naturals, Sequences, FiniteSets

CONSTANTS
  Pools,
  Callers,
  PoolAddrs,           \* PoolAddrs[c]: the pools caller c asks about
  Known,               \* pools whose factory is known, for getReserves all pools
  RPCCalls,            \* the number of RPC calls per pool
  SharedSemaphore,     \* TRUE for Initialize, FALSE for getReserves
  MaxConcurrentCalls,  \* the capacity of a semaphore
  Responsive           \* callers whose RPC calls all end

ASSUME BatchAssumption ==
  /\ Callers # {} /\ IsFiniteSet(Callers)
  /\ PoolAddrs \in [Callers -> Seq(Pools)]
  /\ Known \subseteq Pools
  /\ "none" \notin Pools /\ "error" \notin Pools
  /\ RPCCalls \in Nat \ {0}
  /\ SharedSemaphore \in BOOLEAN
  /\ MaxConcurrentCalls \in Nat
  /\ SharedSemaphore => MaxConcurrentCalls > 0   \* only NewPoolInitializer refuses 0
  /\ Responsive \subseteq Callers

VARIABLES
  ctxDone,    \* callers whose context is done
  caller,     \* the calling goroutine: pc, and the position its loop is at
  worker,     \* worker[c][i]: the goroutine of the i-th pool of c's call
  semaphore,  \* semaphore[s]: slots taken in the semaphore that the callers of s share
  wg,         \* wg[c]: counter of the WaitGroup
  results     \* results[c][i]: the slices c returns: a pool stands for what was fetched of it

vars == <<ctxDone, caller, worker, semaphore, wg, results>>

Positions(c) == 1 .. Len(PoolAddrs[c])

\* The callers that use the same semaphore as c: all of an initializer, or c alone.
SharingNobody(c) == {c}
SharingAll(c) == Callers
Sharing(c) == IF SharedSemaphore THEN Callers ELSE {c}
Semaphores == {Sharing(c) : c \in Callers}

NoWorker == [pc |-> "none", rpc |-> 0]
WorkerState == [pc : {"none", "started", "asking", "releasing", "leaving", "done"}, rpc : 0 .. RPCCalls]

Init ==
  /\ ctxDone = {}
  /\ caller = [c \in Callers |-> [pc |-> "returned", next |-> 1]]
  /\ worker = [c \in Callers |-> [i \in Positions(c) |-> NoWorker]]
  /\ semaphore = [s \in Semaphores |-> 0]
  /\ wg = [c \in Callers |-> 0]
  /\ results = [c \in Callers |-> [i \in Positions(c) |-> "none"]]

\* External: a caller that is not in a call makes the next one.
\* The slices are made anew; getReserves also makes its semaphore and adds to its WaitGroup.
CallWithoutAdd(c) ==
  /\ caller[c].pc = "returned"
  /\ caller' = [caller EXCEPT ![c] = [pc |-> "looping", next |-> 1]]
  /\ worker' = [worker EXCEPT ![c] = [i \in Positions(c) |-> NoWorker]]
  /\ results' = [results EXCEPT ![c] = [i \in Positions(c) |-> "none"]]
  /\ wg' = [wg EXCEPT ![c] = 0]
  /\ semaphore' = [semaphore EXCEPT ![Sharing(c)] = IF Sharing(c) = {c} THEN 0 ELSE @]
  /\ UNCHANGED ctxDone
Call(c) ==
  /\ caller[c].pc = "returned"
  /\ caller' = [caller EXCEPT ![c] = [pc |-> "looping", next |-> 1]]
  /\ worker' = [worker EXCEPT ![c] = [i \in Positions(c) |-> NoWorker]]
  /\ results' = [results EXCEPT ![c] = [i \in Positions(c) |-> "none"]]
  /\ wg' = [wg EXCEPT ![c] = IF SharedSemaphore THEN 0 ELSE Len(PoolAddrs[c])]
  /\ semaphore' = [semaphore EXCEPT ![Sharing(c)] = IF Sharing(c) = {c} THEN 0 ELSE @]
  /\ UNCHANGED ctxDone

\* External: the owner of the context cancels it.
Cancel(c) ==
  /\ c \notin ctxDone
  /\ ctxDone' = ctxDone \cup {c}
  /\ UNCHANGED <<caller, worker, semaphore, wg, results>>

\* One turn of the loop: it waits for a slot, whether or not the context is done.
StartWithoutSlot(c) ==
  /\ caller[c].pc = "looping"
  /\ caller[c].next \in Positions(c)
  /\ semaphore' = [semaphore EXCEPT ![Sharing(c)] = @ + 1]
  /\ wg' = IF SharedSemaphore THEN [wg EXCEPT ![c] = @ + 1] ELSE wg
  /\ worker' = [worker EXCEPT ![c][caller[c].next].pc = "started"]
  /\ caller' = [caller EXCEPT ![c].next = @ + 1]
  /\ UNCHANGED <<ctxDone, results>>
Start(c) ==
  /\ caller[c].pc = "looping"
  /\ caller[c].next \in Positions(c)
  /\ semaphore[Sharing(c)] < MaxConcurrentCalls
  /\ semaphore' = [semaphore EXCEPT ![Sharing(c)] = @ + 1]
  /\ wg' = IF SharedSemaphore THEN [wg EXCEPT ![c] = @ + 1] ELSE wg
  /\ worker' = [worker EXCEPT ![c][caller[c].next].pc = "started"]
  /\ caller' = [caller EXCEPT ![c].next = @ + 1]
  /\ UNCHANGED <<ctxDone, results>>

\* wg.Wait and return.
ReturnWithoutWait(c) ==
  /\ caller[c].pc = "looping"
  /\ caller[c].next \notin Positions(c)
  /\ caller' = [caller EXCEPT ![c].pc = "returned"]
  /\ UNCHANGED <<ctxDone, worker, semaphore, wg, results>>
Return(c) ==
  /\ caller[c].pc = "looping"
  /\ caller[c].next \notin Positions(c)
  /\ wg[c] = 0
  /\ caller' = [caller EXCEPT ![c].pc = "returned"]
  /\ UNCHANGED <<ctxDone, worker, semaphore, wg, results>>

\* A goroutine has its result and leaves.
FinishAtLoopVariable(c, i, result) ==
  /\ results' = [results EXCEPT ![c][caller[c].next - 1] = result]
  /\ worker' = [worker EXCEPT ![c][i].pc = "releasing"]
Finish(c, i, result) ==
  /\ results' = [results EXCEPT ![c][i] = result]
  /\ worker' = [worker EXCEPT ![c][i].pc = "releasing"]

\* The context is looked at once, before the first RPC call.
CheckContext(c, i) ==
  /\ worker[c][i].pc = "started"
  /\ \/ c \in ctxDone /\ Finish(c, i, "error")
     \/ /\ c \notin ctxDone
        /\ worker' = [worker EXCEPT ![c][i] = [pc |-> "asking", rpc |-> 1]]
        /\ UNCHANGED results
  /\ UNCHANGED <<ctxDone, caller, semaphore, wg>>

\* An RPC call ends: with an error or a timeout; with an answer that refuses the pool (the
\* first call of Initialize asks for the factory); or with an answer that is used.
Answered(c, i) ==
  /\ worker[c][i].pc = "asking"
  /\ \/ Finish(c, i, "error")
     \/ /\ PoolAddrs[c][i] \in Known
        /\ worker[c][i].rpc = RPCCalls
        /\ Finish(c, i, PoolAddrs[c][i])
     \/ /\ PoolAddrs[c][i] \in Known
        /\ worker[c][i].rpc < RPCCalls
        /\ worker' = [worker EXCEPT ![c][i].rpc = @ + 1]
        /\ UNCHANGED results
  /\ UNCHANGED <<ctxDone, caller, semaphore, wg>>

\* The deferred calls: the slot is given back first, also after an error.
ReleaseOnSuccess(c, i) ==
  /\ worker[c][i].pc = "releasing"
  /\ semaphore' = [semaphore EXCEPT ![Sharing(c)] = IF results[c][i] = "error" THEN @ ELSE @ - 1]
  /\ worker' = [worker EXCEPT ![c][i].pc = "leaving"]
  /\ UNCHANGED <<ctxDone, caller, wg, results>>
Release(c, i) ==
  /\ worker[c][i].pc = "releasing"
  /\ semaphore' = [semaphore EXCEPT ![Sharing(c)] = @ - 1]
  /\ worker' = [worker EXCEPT ![c][i].pc = "leaving"]
  /\ UNCHANGED <<ctxDone, caller, wg, results>>

Done(c, i) ==
  /\ worker[c][i].pc = "leaving"
  /\ wg' = [wg EXCEPT ![c] = @ - 1]
  /\ worker' = [worker EXCEPT ![c][i].pc = "done"]
  /\ UNCHANGED <<ctxDone, caller, semaphore, results>>

Work(c, i) == CheckContext(c, i) \/ Answered(c, i) \/ Release(c, i) \/ Done(c, i)

Next ==
  \E c \in Callers :
    \/ Call(c) \/ Cancel(c) \/ Start(c) \/ Return(c)
    \/ \E i \in Positions(c) : Work(c, i)

Spec == Init /\ [][Next]_vars

\* Goroutines run; an RPC call ends because it has a timeout; goroutines blocked on a full
\* channel are served in the order they came.
Fairness ==
  \A c \in Responsive :
    /\ SF_vars(Start(c))
    /\ WF_vars(Return(c))
    /\ \A i \in Positions(c) : WF_vars(Work(c, i))

FairSpec == Spec /\ Fairness

-----------------------------------------------------------------------------
\* The state has the declared types; no counter is negative.
TypeOK ==
  /\ ctxDone \subseteq Callers
  /\ caller \in [Callers -> [pc : {"looping", "returned"}, next : Nat \ {0}]]
  /\ DOMAIN worker = Callers
  /\ \A c \in Callers : worker[c] \in [Positions(c) -> WorkerState]
  /\ semaphore \in [Semaphores -> 0 .. MaxConcurrentCalls]
  /\ wg \in [Callers -> Nat]
  /\ DOMAIN results = Callers
  /\ \A c \in Callers : results[c] \in [Positions(c) -> Pools \cup {"none", "error"}]

Goroutines == UNION {{c} \X Positions(c) : c \in Callers}
Asking(s) == {g \in Goroutines : g[1] \in s /\ worker[g[1]][g[2]].pc = "asking"}

\* "The number of concurrent RPC calls is limited by the initializer's shared semaphore":
\* over all its calls, however they overlap, fail or are cancelled; and the function of
\* NewGetReserves "will limit its own concurrent RPC calls" in each call.
ConcurrencyIsLimited ==
  IF SharedSemaphore
    THEN Cardinality(Asking(Callers)) <= MaxConcurrentCalls
    ELSE \A c \in Callers : Cardinality(Asking({c})) <= MaxConcurrentCalls

\* A call never waits for nobody: while its loop waits for a slot some goroutine holds one of
\* that semaphore, and while wg.Wait waits some goroutine of the call is still to be done.  A
\* slot or a Done lost on an error path, or a count too high, would leave it waiting for ever.
NoCallIsStuck ==
  \A c \in Callers : caller[c].pc = "looping" =>
    IF caller[c].next \in Positions(c)
      THEN \/ semaphore[Sharing(c)] < MaxConcurrentCalls
           \/ \E d \in Sharing(c) : \E i \in Positions(d) :
                worker[d][i].pc \in {"started", "asking", "releasing"}
      ELSE \/ wg[c] = 0
           \/ \E i \in Positions(c) : worker[c][i].pc \in {"started", "asking", "releasing", "leaving"}

\* A batch behaves as one call that answers its pools in any order: when it returns every
\* pool has its own answer or an error at its own position, and nothing is written later.
BatchSpec == INSTANCE Batch WITH
  running <- {c \in Callers : caller[c].pc = "looping"},
  answers <- results

RefinesBatch == BatchSpec!Spec

\* "Ensuring that separate calls do not block each other": a call whose RPC calls end
\* returns, also when its context is cancelled and whatever calls before it left behind;
\* with a semaphore per call, even if the RPC calls of another batch never end.
CallsReturn == \A c \in Responsive : caller[c].pc = "looping" ~> caller[c].pc = "returned"
=============================================================================
