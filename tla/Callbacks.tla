------------------------------ MODULE Callbacks ------------------------------
(***************************************************************************)
(* The functions that UniswapV2System is given and calls back, and the     *)
(* locks it holds meanwhile: the lookups and registrations of the pool     *)
(* manager, which take the manager's own lock, and the error handler,      *)
(* which is called by the goroutine that met the error and may call        *)
(* DeletePool.  The errors are those of errors.go: chains of kinds, the    *)
(* outermost first, that errorHandler counts by type.  What a round does   *)
(* to the pools is the matter of UniswapV2System; here a pool is tracked   *)
(* or not, and View() returns the tracked ones.                            *)
(***************************************************************************)
EXTENDS Integers, Sequences, FiniteSets

CONSTANTS
  Pools,
  Periodic,           \* the periodic goroutines that run
  DeletesOn,          \* the types of error on which the caller's handler deletes a pool
  ManagerKeepsLock    \* whether the manager may call DeletePools before it gives up its own lock

Goroutines == {"listener", "initializer", "reconciler", "pruner"}
Actors == Goroutines \cup {"manager"}

Kinds == <<"RegistrationError", "DataConsistencyError", "InitializationError", "UpdateError",
           "PrunerError">>
Types == <<"critical_registration", "critical_consistency", "pool_initialization", "pool_update",
           "pruner">>
ErrorTypes == {Types[i] : i \in DOMAIN Types} \cup {"unknown"}

ASSUME CallbacksAssumption ==
  /\ IsFiniteSet(Pools)
  /\ Periodic \subseteq Goroutines \ {"listener"}
  /\ DeletesOn \subseteq ErrorTypes
  /\ ManagerKeepsLock \in BOOLEAN

\* The errors, each at the place where it is made.
Wrapped == <<"wrapError", "external">>
Unparsed == <<"SystemError", "wrapError", "external">>
NotInitialized == <<"InitializationError", "wrapError", "external">>
NotRegistered == <<"RegistrationError", "external">>
NoPoolID == <<"InitializationError", "DependencyError", "poolAddressToID">>
NoTokenID == <<"InitializationError", "DependencyError", "tokenAddressToID">>
PoolExists == <<"InitializationError", "ErrPoolExists">>
NotUpdated == <<"UpdateError", "ErrPoolNotFound">>
NoAddress == <<"PrunerError", "wrapError", "external">>
NotDeleted == <<"PrunerError", "wrapError", "ErrPoolNotFound">>

Errors == {Wrapped, Unparsed, NotInitialized, NotRegistered, NoPoolID, NoTokenID, PoolExists,
           NotUpdated, NoAddress, NotDeleted}

\* errors.As: a struct that embeds another is not of its type.
As(err, kind) == \E i \in DOMAIN err : err[i] = kind

\* Mutant: an error of no known type is counted by its kind.
DetermineErrorTypeByKind(err) ==
  LET matching == {i \in DOMAIN Kinds : As(err, Kinds[i])}
  IN  IF matching = {}
        THEN err[1]
        ELSE Types[CHOOSE i \in matching : \A j \in matching : i <= j]

\* Mutant: the results for two types are exchanged.
DetermineErrorTypeExchanged(err) ==
  LET matching == {i \in DOMAIN Kinds : As(err, Kinds[i])}
      type == IF matching = {}
                THEN "unknown"
                ELSE Types[CHOOSE i \in matching : \A j \in matching : i <= j]
  IN  CASE type = "pool_update" -> "pool_initialization"
        [] type = "pool_initialization" -> "pool_update"
        [] OTHER -> type

determineErrorType(err) ==
  LET matching == {i \in DOMAIN Kinds : As(err, Kinds[i])}
  IN  IF matching = {}
        THEN "unknown"
        ELSE Types[CHOOSE i \in matching : \A j \in matching : i <= j]

Repeated(err, S) == [i \in 1 .. Cardinality(S) |-> err]

VARIABLES
  mu,            \* the system's lock: its holder, or "free"
  managerLock,
  registry,      \* the tracked pools, and the view of them
  at,            \* where each actor is in its round
  todo,          \* the pools that its loop still has to go through
  found,         \* and those it has collected
  reports,       \* the errors that a goroutine is to report, in order
  handling       \* the type under which the first was counted and whose handler runs, or "none"

locks == <<mu, managerLock>>
loop == <<at, todo, found>>
reporting == <<reports, handling>>
vars == <<locks, registry, loop, reporting>>

Init ==
  /\ mu = "free" /\ managerLock = "free"
  /\ registry \in SUBSET Pools
  /\ at = [a \in Actors |-> "idle"]
  /\ todo = [a \in Actors |-> {}]
  /\ found = [a \in Actors |-> {}]
  /\ reports = [g \in Goroutines |-> << >>]
  /\ handling = [g \in Goroutines |-> "none"]

-----------------------------------------------------------------------------
\* Steps of a round.

Continue(a, label, pools, collected) ==
  /\ at' = [at EXCEPT ![a] = label]
  /\ todo' = [todo EXCEPT ![a] = pools]
  /\ found' = [found EXCEPT ![a] = collected]

Meet(g, errs) ==
  /\ reports' = [reports EXCEPT ![g] = @ \o errs]
  /\ UNCHANGED handling

Lock(g) == mu = "free" /\ mu' = g /\ UNCHANGED managerLock
Unlock == mu' = "free" /\ UNCHANGED managerLock

\* One call of the manager: it takes its lock and releases it again.
ManagerAnswers == managerLock = "free"

\* Mutant: the initializer reports its errors where they are made, under the lock.
ReportsAtOnce(g) == TRUE

\* Errors are reported where they are made, the reconciler's under its lock; but those made in
\* applyInitializations are collected, and reported after the lock is released.
Reports(g) == at[g] \in {"waiting", "resolving", "returning"} \/ g = "reconciler"

Reported(g) == reports[g] = << >>

-----------------------------------------------------------------------------
\* errorHandler: it counts the error, then calls the handler it was given.

ErrorHandler(g) ==
  /\ Reports(g)
  /\ ~Reported(g)
  /\ handling[g] = "none"
  /\ handling' = [handling EXCEPT ![g] = determineErrorType(Head(reports[g]))]
  /\ UNCHANGED <<locks, registry, loop, reports>>

HandlerReturned(g) ==
  /\ reports' = [reports EXCEPT ![g] = Tail(@)]
  /\ handling' = [handling EXCEPT ![g] = "none"]
  /\ UNCHANGED <<locks, loop>>

\* External: the handler returns, or has DeletePool take the lock and release it again.
HandlerReturns(g) ==
  /\ handling[g] \notin DeletesOn \cup {"none"}
  /\ HandlerReturned(g)
  /\ UNCHANGED registry

HandlerDeletes(g) ==
  /\ handling[g] \in DeletesOn
  /\ mu = "free"
  /\ \E p \in Pools : registry' = registry \ {p}
  /\ HandlerReturned(g)

Return(g) ==
  /\ at[g] = "returning"
  /\ Reported(g)
  /\ Continue(g, "idle", {}, {})
  /\ UNCHANGED <<locks, registry, reporting>>

\* The view is empty, or the client cannot be had.
NoClient(g) ==
  /\ at[g] = "idle"
  /\ Continue(g, "returning", {}, {})
  /\ Meet(g, <<Wrapped>>)
  /\ UNCHANGED registry

-----------------------------------------------------------------------------
\* handleNewBlock: the client, the logs, the two parsers, then the pools under the lock.

\* No client, or no logs.
HandleNewBlockFails == NoClient("listener") /\ UNCHANGED locks

HandleNewBlock ==
  /\ at["listener"] = "idle"
  /\ \E pools \in SUBSET Pools : Continue("listener", "waiting", pools, {})
  /\ \E errs \in {<< >>, <<Unparsed>>, <<Unparsed, Unparsed>>} : Meet("listener", errs)
  /\ UNCHANGED <<locks, registry>>

LockForBlock ==
  /\ at["listener"] = "waiting"
  /\ Reported("listener")
  /\ Lock("listener")
  /\ Continue("listener", "locked", todo["listener"], {})
  /\ UNCHANGED <<registry, reporting>>

\* poolAddressToID for an update, inBlockedList and poolAddressToID for a discovery; a lookup
\* that fails is no error here, and a pool that is there can be updated.
LookUp ==
  /\ at["listener"] = "locked"
  /\ ManagerAnswers
  /\ \E p \in todo["listener"] : Continue("listener", "locked", todo["listener"] \ {p}, {})
  /\ UNCHANGED <<locks, registry, reporting>>

UnlockBlock ==
  /\ at["listener"] = "locked"
  /\ todo["listener"] = {}
  /\ Unlock
  /\ Continue("listener", "returning", {}, {})
  /\ UNCHANGED <<registry, reporting>>

ListenerNext == HandleNewBlockFails \/ HandleNewBlock \/ LockForBlock \/ LookUp \/ UnlockBlock

-----------------------------------------------------------------------------
\* runPendingInitializations and applyInitializations.

\* The queue is drained under the lock, before the client is asked for.
InitializerFails == mu = "free" /\ NoClient("initializer") /\ UNCHANGED locks

DrainPending ==
  /\ mu = "free"
  /\ at["initializer"] = "idle"
  /\ \E batch \in (SUBSET Pools) \ {{}} : Continue("initializer", "waiting", batch, {})
  /\ UNCHANGED <<locks, registry, reporting>>

LockForBatch ==
  /\ at["initializer"] = "waiting"
  /\ Lock("initializer")
  /\ \E failed \in SUBSET todo["initializer"] :
       /\ Meet("initializer", Repeated(NotInitialized, failed))
       /\ IF failed = todo["initializer"]
            THEN Continue("initializer", "added", {}, {})
            ELSE Continue("initializer", "registering", todo["initializer"] \ failed, {})
  /\ UNCHANGED <<registry>>

RegisterPools ==
  /\ at["initializer"] = "registering"
  /\ ManagerAnswers
  /\ \E refused \in SUBSET todo["initializer"] :
       /\ Continue("initializer", "adding", todo["initializer"] \ refused, {})
       /\ Meet("initializer", Repeated(NotRegistered, refused))
  /\ UNCHANGED <<locks, registry>>

\* addPool looks up the pool and its tokens.
AddPool ==
  /\ at["initializer"] = "adding"
  /\ ManagerAnswers
  /\ \E p \in todo["initializer"] :
       \/ /\ p \notin registry
          /\ Continue("initializer", "adding", todo["initializer"] \ {p},
                      found["initializer"] \cup {p})
          /\ UNCHANGED reporting
       \/ /\ Continue("initializer", "adding", todo["initializer"] \ {p}, found["initializer"])
          /\ \E err \in {NoPoolID} \cup IF p \in registry THEN {PoolExists} ELSE {NoTokenID} :
               Meet("initializer", <<err>>)
  /\ UNCHANGED <<locks, registry>>

PoolsAdded ==
  \/ at["initializer"] = "added"
  \/ at["initializer"] = "adding" /\ todo["initializer"] = {}

\* Mutant: nothing is unlocked when no pool was added.
UnlockBatchOnSuccess ==
  /\ PoolsAdded
  /\ IF found["initializer"] = {} THEN UNCHANGED locks ELSE Unlock
  /\ registry' = registry \cup found["initializer"]
  /\ Continue("initializer", "returning", {}, {})
  /\ UNCHANGED reporting

\* Nobody sees the new rows before the view of them is stored, with the lock still held.
UnlockBatch ==
  /\ PoolsAdded
  /\ Unlock
  /\ registry' = registry \cup found["initializer"]
  /\ Continue("initializer", "returning", {}, {})
  /\ UNCHANGED reporting

InitializerNext ==
  InitializerFails \/ DrainPending \/ LockForBatch \/ RegisterPools \/ AddPool \/ UnlockBatch

-----------------------------------------------------------------------------
\* runStateReconciliation and pruneBlockedPools: both go through the view first.

ReadView(g) ==
  /\ registry # {}
  /\ at[g] = "idle"
  /\ Continue(g, "resolving", registry, {})
  /\ UNCHANGED <<locks, registry, reporting>>

\* poolIDToAddress, an error of which is reported before the next pool; the pruner collects
\* the pools that are blocked.
Resolve(g) ==
  /\ at[g] = "resolving"
  /\ Reported(g)
  /\ ManagerAnswers
  /\ \E p \in todo[g] :
       \/ Continue(g, "resolving", todo[g] \ {p}, found[g] \cup {p}) /\ UNCHANGED reporting
       \/ Continue(g, "resolving", todo[g] \ {p}, found[g]) /\ Meet(g, <<NoAddress>>)
       \/ /\ g = "pruner"
          /\ Continue(g, "resolving", todo[g] \ {p}, found[g])
          /\ UNCHANGED reporting
  /\ UNCHANGED <<locks, registry>>

Resolved(g) == at[g] = "resolving" /\ Reported(g) /\ todo[g] = {}

ReconcilerFails == registry # {} /\ NoClient("reconciler") /\ UNCHANGED locks

\* Some of the calls fail; of the other pools, those still in the view may have drifted.
Compare ==
  /\ Resolved("reconciler")
  /\ \E failed \in SUBSET found["reconciler"] :
       /\ Meet("reconciler", Repeated(Wrapped, failed))
       /\ \E drifted \in SUBSET ((found["reconciler"] \ failed) \cap registry) :
            Continue("reconciler", IF drifted = {} THEN "returning" ELSE "waiting", drifted, {})
  /\ UNCHANGED <<locks, registry>>

LockForCorrections ==
  /\ at["reconciler"] = "waiting"
  /\ Reported("reconciler")
  /\ Lock("reconciler")
  /\ Continue("reconciler", "locked", todo["reconciler"], {})
  /\ UNCHANGED <<registry, reporting>>

\* A pool that was deleted meanwhile is an error, reported before the next pool: the lock is
\* held until the function returns.
Correct ==
  /\ at["reconciler"] = "locked"
  /\ Reported("reconciler")
  /\ \E p \in todo["reconciler"] :
       /\ Continue("reconciler", "locked", todo["reconciler"] \ {p}, {})
       /\ IF p \in registry THEN UNCHANGED reporting ELSE Meet("reconciler", <<NotUpdated>>)
  /\ UNCHANGED <<locks, registry>>

UnlockCorrections ==
  /\ at["reconciler"] = "locked"
  /\ Reported("reconciler")
  /\ todo["reconciler"] = {}
  /\ Unlock
  /\ Continue("reconciler", "returning", {}, {})
  /\ UNCHANGED <<registry, reporting>>

ReconcilerNext ==
  \/ ReconcilerFails \/ ReadView("reconciler") \/ Resolve("reconciler") \/ Compare
  \/ LockForCorrections \/ Correct \/ UnlockCorrections

NothingBlocked ==
  /\ Resolved("pruner")
  /\ found["pruner"] = {}
  /\ Continue("pruner", "returning", {}, {})
  /\ UNCHANGED <<locks, registry, reporting>>

\* DeletePools, which calls nobody, and then an error for each pool that was gone.
PruneBlocked ==
  /\ Resolved("pruner")
  /\ found["pruner"] # {}
  /\ mu = "free"
  /\ registry' = registry \ found["pruner"]
  /\ Continue("pruner", "returning", {}, {})
  /\ Meet("pruner", Repeated(NotDeleted, found["pruner"] \ registry))
  /\ UNCHANGED <<locks>>

PrunerNext == ReadView("pruner") \/ Resolve("pruner") \/ NothingBlocked \/ PruneBlocked

-----------------------------------------------------------------------------
\* External: the manager deletes pools of its own accord, and has the system follow.

ManagerDeletes ==
  /\ managerLock = "free"
  /\ at["manager"] = "idle"
  /\ managerLock' = "manager"
  /\ \E pools \in (SUBSET Pools) \ {{}} :
       \/ Continue("manager", "locked", pools, {})
       \/ ManagerKeepsLock /\ Continue("manager", "waiting", pools, {})
  /\ UNCHANGED <<mu, registry, reporting>>

ManagerUnlocks ==
  /\ at["manager"] = "locked"
  /\ managerLock' = "free"
  /\ Continue("manager", "waiting", todo["manager"], {})
  /\ UNCHANGED <<mu, registry, reporting>>

\* DeletePools; a lock the manager has kept is released after it.
DeletePools ==
  /\ at["manager"] = "waiting"
  /\ mu = "free"
  /\ registry' = registry \ todo["manager"]
  /\ managerLock' = "free"
  /\ Continue("manager", "idle", {}, {})
  /\ UNCHANGED <<mu, reporting>>

ManagerNext == ManagerDeletes \/ ManagerUnlocks \/ DeletePools

HandlerNext(g) == ErrorHandler(g) \/ HandlerReturns(g) \/ HandlerDeletes(g) \/ Return(g)

GoroutineNext(g) ==
  \/ g = "listener" /\ ListenerNext
  \/ g = "initializer" /\ InitializerNext
  \/ g = "reconciler" /\ ReconcilerNext
  \/ g = "pruner" /\ PrunerNext
  \/ HandlerNext(g)

Next == ManagerNext \/ \E g \in {"listener"} \cup Periodic : GoroutineNext(g)

Spec == Init /\ [][Next]_vars

\* Nobody stops within a round, and the locks go to whoever waits for them: a mutex of Go hands
\* over to a goroutine that has waited for a millisecond.  No round has to begin.
Fairness ==
  /\ \A g \in {"listener"} \cup Periodic : SF_vars(at[g] # "idle" /\ GoroutineNext(g))
  /\ SF_vars(at["manager"] # "idle" /\ ManagerNext)

FairSpec == Spec /\ Fairness

-----------------------------------------------------------------------------
Labels == {"idle", "waiting", "locked", "registering", "adding", "added", "resolving", "returning"}

TypeOK ==
  /\ mu \in Goroutines \cup {"free"}
  /\ managerLock \in {"manager", "free"}
  /\ registry \in SUBSET Pools
  /\ at \in [Actors -> Labels]
  /\ todo \in [Actors -> SUBSET Pools] /\ found \in [Actors -> SUBSET Pools]
  /\ reports \in [Goroutines -> Seq(Errors)]
  /\ handling \in [Goroutines -> ErrorTypes \cup {"none"}]

\* Who holds what an actor waits for, or "free".
WaitsForMu(a) ==
  \/ a \in Goroutines /\ handling[a] \in DeletesOn
  \/ a \in Goroutines /\ at[a] = "waiting" /\ Reported(a)
  \/ a = "pruner" /\ Resolved(a) /\ found[a] # {}
  \/ a = "manager" /\ at[a] = "waiting"

WaitsForManager(a) ==
  \/ a = "listener" /\ at[a] = "locked" /\ todo[a] # {}
  \/ a = "initializer" /\ (at[a] = "registering" \/ (at[a] = "adding" /\ todo[a] # {}))
  \/ a \in {"reconciler", "pruner"} /\ at[a] = "resolving" /\ Reported(a) /\ todo[a] # {}

WaitsFor(a) ==
  IF WaitsForMu(a) THEN mu ELSE IF WaitsForManager(a) THEN managerLock ELSE "free"

Deadlock == \E S \in (SUBSET Actors) \ {{}} : \A a \in S : WaitsFor(a) \in S

\* Everyone waits on everyone in two ways only.  The reconciler reports a pool that it cannot
\* update under the lock, and its handler deletes a pool; or the manager asks for the lock of the
\* system while it holds its own, and the holder asks the manager.
HandlerOfReconciler ==
  mu = "reconciler" /\ handling["reconciler"] = "pool_update" /\ "pool_update" \in DeletesOn
ManagerAndHolder ==
  /\ ManagerKeepsLock /\ managerLock = "manager"
  /\ mu \in {"listener", "initializer"} /\ WaitsForManager(mu)

DeadlockOnlyByCallback == Deadlock => HandlerOfReconciler \/ ManagerAndHolder

\* A handler that keeps to other types of error than "pool_update", and a manager that gives up
\* its lock first, block nobody.
NoDeadlock == Deadlock => "pool_update" \in DeletesOn \/ ManagerKeepsLock

\* No error path, no call of the manager and no handler keeps the lock taken for ever, unless
\* everyone waits on everyone in one of the two ways.
LockIsReleased == mu # "free" ~> (mu = "free" \/ Deadlock)
==============================================================================
