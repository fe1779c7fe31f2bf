--------------------------- MODULE CallbacksProofs ---------------------------
(***************************************************************************)
(* Proofs about Callbacks, for every set of pools, whichever goroutines    *)
(* run and whatever the handler and the manager do: who can wait for whom, *)
(* and that the lock is given back after boundedly many steps.             *)
(***************************************************************************)
EXTENDS Callbacks, FiniteSetTheorems, SequenceTheorems, TLAPS

USE CallbacksAssumption

\* Where each actor can be, and who holds the locks there.
Places ==
  /\ at["listener"] \in {"idle", "waiting", "locked", "returning"}
  /\ at["initializer"] \in {"idle", "waiting", "registering", "adding", "added", "returning"}
  /\ at["reconciler"] \in {"idle", "resolving", "waiting", "locked", "returning"}
  /\ at["pruner"] \in {"idle", "resolving", "returning"}
  /\ at["manager"] \in {"idle", "locked", "waiting"}

Held ==
  /\ mu = "listener" <=> at["listener"] = "locked"
  /\ mu = "initializer" <=> at["initializer"] \in {"registering", "adding", "added"}
  /\ mu = "reconciler" <=> at["reconciler"] = "locked"
  /\ mu # "pruner"
  /\ managerLock = "manager" =>
       at["manager"] = "locked" \/ (at["manager"] = "waiting" /\ ManagerKeepsLock)

\* Under the lock, only the reconciler reports, and only its updates.
Handled == \A g \in Goroutines : handling[g] # "none" => ~Reported(g)

Silent ==
  /\ at["listener"] = "locked" => Reported("listener")
  /\ at["initializer"] \in {"idle", "waiting"} => Reported("initializer")
  /\ mu = "initializer" => handling["initializer"] = "none"

OnlyUpdates ==
  mu = "reconciler" =>
    /\ \A i \in DOMAIN reports["reconciler"] : reports["reconciler"][i] = NotUpdated
    /\ handling["reconciler"] \in {"none", "pool_update"}

Rules == Places /\ Held /\ Handled /\ Silent /\ OnlyUpdates

IInv == TypeOK /\ Rules

-----------------------------------------------------------------------------
\* errors.go.

\* The types under which errors are counted, listed.
LEMMA ErrorTypesAre ==
  ErrorTypes = {"critical_registration", "critical_consistency", "pool_initialization",
                "pool_update", "pruner", "unknown"}
<1>1. DOMAIN Types = 1 .. 5
  BY DEF Types
<1>2. {Types[i] : i \in 1 .. 5} = {Types[1], Types[2], Types[3], Types[4], Types[5]}
  OBVIOUS
<1> QED BY <1>1, <1>2 DEF ErrorTypes, Types

\* Some check is the first that applies.
LEMMA FirstOf ==
  ASSUME NEW S \in SUBSET (1 .. 5), S # {}
  PROVE  \E i \in S : \A j \in S : i <= j
<1>1. \A j \in S : j \in Int /\ 1 <= j /\ j <= 5
  OBVIOUS
<1> QED
  <2>1. CASE 1 \in S
    BY <1>1, <2>1
  <2>2. CASE 1 \notin S /\ 2 \in S
    BY <2>2
  <2>3. CASE 1 \notin S /\ 2 \notin S /\ 3 \in S
    BY <2>3
  <2>4. CASE 1 \notin S /\ 2 \notin S /\ 3 \notin S /\ 4 \in S
    BY <2>4
  <2>5. CASE 1 \notin S /\ 2 \notin S /\ 3 \notin S /\ 4 \notin S
    <3>1. \A j \in S : j = 5
      BY <1>1, <2>5
    <3>2. 5 \in S
      BY <3>1
    <3> QED BY <3>1, <3>2
  <2> QED BY <2>1, <2>2, <2>3, <2>4, <2>5

\* Any error at all is counted under one of the types.
LEMMA ErrorTypeType ==
  ASSUME NEW err
  PROVE  determineErrorType(err) \in ErrorTypes
<1> DEFINE matching == {i \in DOMAIN Kinds : As(err, Kinds[i])}
<1>1. matching \in SUBSET (1 .. 5) /\ DOMAIN Types = 1 .. 5
  BY DEF Kinds, Types
<1>2. CASE matching = {}
  BY <1>2 DEF determineErrorType, ErrorTypes
<1>3. CASE matching # {}
  <2> DEFINE first == CHOOSE i \in matching : \A j \in matching : i <= j
  <2>1. first \in matching
    BY <1>1, <1>3, FirstOf
  <2>2. first \in DOMAIN Types
    BY <1>1, <2>1
  <2>3. determineErrorType(err) = Types[first]
    BY <1>3 DEF determineErrorType
  <2> QED BY <2>2, <2>3 DEF ErrorTypes
<1> QED BY <1>2, <1>3

\* A correction of a pool that is gone is counted as "pool_update".
LEMMA UpdateErrorType == determineErrorType(NotUpdated) = "pool_update"
<1> DEFINE matching == {i \in DOMAIN Kinds : As(NotUpdated, Kinds[i])}
<1>1. \A kind : As(NotUpdated, kind) <=> kind \in {"UpdateError", "ErrPoolNotFound"}
  <2>1. DOMAIN NotUpdated = {1, 2} /\ NotUpdated[1] = "UpdateError"
        /\ NotUpdated[2] = "ErrPoolNotFound"
    BY DEF NotUpdated
  <2> QED BY <2>1 DEF As
<1>2. DOMAIN Kinds = 1 .. 5
  BY DEF Kinds
<1>3. matching = {4}
  BY <1>1, <1>2 DEF Kinds
<1>4. (CHOOSE i \in matching : \A j \in matching : i <= j) = 4
  BY <1>3
<1>5. determineErrorType(NotUpdated) = Types[4]
  BY <1>3, <1>4 DEF determineErrorType
<1> QED BY <1>5 DEF Types

\* One error for each pool of a set is a list of errors.
LEMMA RepeatedType ==
  ASSUME NEW err \in Errors, NEW S \in SUBSET Pools
  PROVE  Repeated(err, S) \in Seq(Errors)
<1>1. Cardinality(S) \in Nat
  BY FS_Subset, FS_CardinalityType
<1> QED BY <1>1 DEF Repeated

-----------------------------------------------------------------------------
\* The invariant.

\* At the start nobody holds a lock or has anything to report.
LEMMA InitInv == Init => IInv
<1> SUFFICES ASSUME Init PROVE IInv
  OBVIOUS
<1>1. TypeOK
  BY DEF Init, TypeOK, Labels
<1>2. Places /\ Held /\ Handled /\ Silent /\ OnlyUpdates
  BY DEF Init, Places, Held, Handled, Silent, OnlyUpdates, Actors, Goroutines, Reported
<1> QED BY <1>1, <1>2 DEF IInv, Rules

\* An actor that goes on stays at one of the labels, with pools in its loop.
LEMMA ContinueType ==
  ASSUME TypeOK, NEW a \in Actors, NEW label \in Labels, NEW pools \in SUBSET Pools,
         NEW collected \in SUBSET Pools, Continue(a, label, pools, collected)
  PROVE  /\ at' \in [Actors -> Labels]
         /\ todo' \in [Actors -> SUBSET Pools] /\ found' \in [Actors -> SUBSET Pools]
         /\ at'[a] = label /\ \A b \in Actors \ {a} : at'[b] = at[b]
  BY DEF TypeOK, Continue

\* Errors met are added to a list of errors.
LEMMA MeetType ==
  ASSUME TypeOK, NEW g \in Goroutines, NEW errs \in Seq(Errors), Meet(g, errs)
  PROVE  /\ reports' \in [Goroutines -> Seq(Errors)]
         /\ handling' = handling
         /\ reports'[g] = reports[g] \o errs
         /\ \A h \in Goroutines \ {g} : reports'[h] = reports[h]
  BY DEF TypeOK, Meet

\* A step that goes on with a round and meets no error, or some.
LEMMA ErrorTypesOf ==
  /\ <<Wrapped>> \in Seq(Errors) /\ <<NoAddress>> \in Seq(Errors) /\ <<NotUpdated>> \in Seq(Errors)
  /\ << >> \in Seq(Errors) /\ <<Unparsed>> \in Seq(Errors) /\ <<Unparsed, Unparsed>> \in Seq(Errors)
  /\ \A err \in {NoPoolID, PoolExists, NoTokenID} : <<err>> \in Seq(Errors)
  BY DEF Errors

\* The labels, listed.
LEMMA LabelType ==
  {"idle", "waiting", "locked", "registering", "adding", "added", "resolving", "returning"} = Labels
  BY DEF Labels

\* Every step keeps the types.
LEMMA TypeStep ==
  ASSUME TypeOK, Handled, Next
  PROVE  TypeOK'
<1> USE DEF TypeOK, locks, loop, reporting, Actors, Goroutines, Labels
<1> DEFINE ReportsType == reports' \in [Goroutines -> Seq(Errors)] /\ handling' = handling
<1>1. CASE HandleNewBlockFails
  BY <1>1, ErrorTypesOf, RepeatedType DEF HandleNewBlockFails, Continue, Meet, NoClient
<1>2. CASE HandleNewBlock
  <2>1. ReportsType
    BY <1>2, MeetType, ErrorTypesOf DEF HandleNewBlock
  <2> QED BY <1>2, <2>1 DEF HandleNewBlock, Continue
<1>3. CASE LockForBlock
  BY <1>3, ErrorTypesOf, RepeatedType DEF LockForBlock, Continue, Meet, Lock
<1>4. CASE LookUp
  BY <1>4, ErrorTypesOf, RepeatedType DEF LookUp, Continue, Meet
<1>5. CASE UnlockBlock
  BY <1>5, ErrorTypesOf, RepeatedType DEF UnlockBlock, Continue, Meet, Unlock
<1>6. CASE InitializerFails
  BY <1>6, ErrorTypesOf, RepeatedType DEF InitializerFails, Continue, Meet, NoClient
<1>7. CASE DrainPending
  BY <1>7, ErrorTypesOf, RepeatedType DEF DrainPending, Continue, Meet
<1>8. CASE LockForBatch
  <2>1. ReportsType
    <3>1. PICK failed \in SUBSET todo["initializer"] :
            Meet("initializer", Repeated(NotInitialized, failed))
      BY <1>8 DEF LockForBatch
    <3>2. Repeated(NotInitialized, failed) \in Seq(Errors)
      BY RepeatedType DEF Errors
    <3> QED BY <3>1, <3>2, MeetType
  <2> QED BY <1>8, <2>1 DEF LockForBatch, Continue, Lock
<1>9. CASE RegisterPools
  <2>1. ReportsType
    <3>1. PICK refused \in SUBSET todo["initializer"] :
            Meet("initializer", Repeated(NotRegistered, refused))
      BY <1>9 DEF RegisterPools
    <3>2. Repeated(NotRegistered, refused) \in Seq(Errors)
      BY RepeatedType DEF Errors
    <3> QED BY <3>1, <3>2, MeetType
  <2> QED BY <1>9, <2>1 DEF RegisterPools, Continue
<1>10. CASE AddPool
  <2>1. ReportsType
    <3>1. CASE UNCHANGED reporting
      BY <3>1
    <3>2. CASE \E err \in {NoPoolID, PoolExists, NoTokenID} : Meet("initializer", <<err>>)
      BY <3>2, MeetType, ErrorTypesOf
    <3> QED BY <1>10, <3>1, <3>2 DEF AddPool
  <2> QED BY <1>10, <2>1 DEF AddPool, Continue
<1>11. CASE UnlockBatch
  BY <1>11, ErrorTypesOf, RepeatedType DEF UnlockBatch, Continue, Meet, Unlock, PoolsAdded
<1>12. CASE ReconcilerFails
  BY <1>12, ErrorTypesOf, RepeatedType DEF ReconcilerFails, Continue, Meet, NoClient
<1>13. CASE Compare
  BY <1>13, ErrorTypesOf, RepeatedType DEF Compare, Continue, Meet, Resolved
<1>14. CASE LockForCorrections
  BY <1>14, ErrorTypesOf, RepeatedType DEF LockForCorrections, Continue, Meet, Lock
<1>15. CASE Correct
  <2>1. ReportsType
    <3>1. CASE UNCHANGED reporting
      BY <3>1
    <3>2. CASE Meet("reconciler", <<NotUpdated>>)
      BY <3>2, MeetType, ErrorTypesOf
    <3> QED BY <1>15, <3>1, <3>2 DEF Correct
  <2> QED BY <1>15, <2>1 DEF Correct, Continue
<1>16. CASE UnlockCorrections
  BY <1>16, ErrorTypesOf, RepeatedType DEF UnlockCorrections, Continue, Meet, Unlock
<1>17. CASE NothingBlocked
  BY <1>17, ErrorTypesOf, RepeatedType DEF NothingBlocked, Continue, Meet, Resolved
<1>18. CASE PruneBlocked
  <2>1. ReportsType
    <3>1. Repeated(NotDeleted, found["pruner"] \ registry) \in Seq(Errors)
      BY RepeatedType DEF Errors
    <3> QED BY <1>18, <3>1, MeetType DEF PruneBlocked
  <2> QED BY <1>18, <2>1 DEF PruneBlocked, Continue, Resolved
<1>19. CASE ManagerDeletes
  BY <1>19, ErrorTypesOf, RepeatedType DEF ManagerDeletes, Continue, Meet
<1>20. CASE ManagerUnlocks
  BY <1>20, ErrorTypesOf, RepeatedType DEF ManagerUnlocks, Continue, Meet
<1>21. CASE DeletePools
  BY <1>21, ErrorTypesOf, RepeatedType DEF DeletePools, Continue, Meet
<1>22. ASSUME NEW g \in {"reconciler", "pruner"}, ReadView(g) PROVE TypeOK'
  BY <1>22 DEF ReadView, Continue
<1>23. ASSUME NEW g \in {"reconciler", "pruner"}, Resolve(g) PROVE TypeOK'
  <2>1. ReportsType
    <3>1. CASE UNCHANGED reporting
      BY <3>1
    <3>2. CASE Meet(g, <<NoAddress>>)
      BY <3>2, MeetType, ErrorTypesOf
    <3> QED BY <1>23, <3>1, <3>2 DEF Resolve
  <2> QED BY <1>23, <2>1 DEF Resolve, Continue
<1>24. ASSUME NEW g \in Goroutines, ErrorHandler(g) PROVE TypeOK'
  BY <1>24, ErrorTypeType DEF ErrorHandler
<1>25. ASSUME NEW g \in Goroutines, HandlerReturns(g) PROVE TypeOK'
  <2>1. reports[g] \in Seq(Errors) /\ reports[g] # << >>
    BY <1>25 DEF HandlerReturns, Handled, Reported
  <2>2. Tail(reports[g]) \in Seq(Errors)
    BY <2>1, HeadTailProperties
  <2> QED BY <1>25, <2>2 DEF HandlerReturns, HandlerReturned
<1>26. ASSUME NEW g \in Goroutines, HandlerDeletes(g) PROVE TypeOK'
  <2>1. reports[g] \in Seq(Errors) /\ reports[g] # << >>
    BY <1>26, ErrorTypesAre DEF HandlerDeletes, Handled, Reported
  <2>2. Tail(reports[g]) \in Seq(Errors)
    BY <2>1, HeadTailProperties
  <2> QED BY <1>26, <2>2 DEF HandlerDeletes, HandlerReturned
<1>27. ASSUME NEW g \in Goroutines, Return(g) PROVE TypeOK'
  BY <1>27 DEF Return, Continue
<1> QED BY <1>1, <1>2, <1>3, <1>4, <1>5, <1>6, <1>7, <1>8, <1>9, <1>10, <1>11, <1>12, <1>13, <1>14, <1>15, <1>16, <1>17, <1>18, <1>19, <1>20, <1>21, <1>22, <1>23, <1>24, <1>25, <1>26, <1>27
  DEF Next, ManagerNext, GoroutineNext, HandlerNext, ListenerNext, InitializerNext, ReconcilerNext, PrunerNext

\* Errors met by one goroutine leave the others' alone, and add to its own.
LEMMA MeetKeeps ==
  ASSUME TypeOK, NEW g \in Goroutines, NEW errs \in Seq(Errors), Meet(g, errs)
  PROVE  /\ handling' = handling
         /\ \A h \in Goroutines \ {g} : reports'[h] = reports[h]
         /\ \A h \in Goroutines : reports'[h] = << >> => reports[h] = << >>
<1>1. /\ reports[g] \in Seq(Errors) /\ reports'[g] = reports[g] \o errs /\ handling' = handling
      /\ \A h \in Goroutines \ {g} : reports'[h] = reports[h]
  BY MeetType DEF TypeOK
<1>2. reports'[g] = << >> => reports[g] = << >>
  <2>1. errs \in Seq(Errors) /\ Len(reports[g] \o errs) = Len(reports[g]) + Len(errs)
    BY <1>1, ConcatProperties
  <2>2. Len(reports[g]) \in Nat /\ Len(errs) \in Nat
    BY <1>1, LenProperties
  <2>3. reports'[g] = << >> => Len(reports[g]) = 0
    BY <1>1, <2>1, <2>2
  <2> QED BY <1>1, <2>3, EmptySeq
<1> QED BY <1>1, <1>2

\* Steps that meet no error keep the rules.
LEMMA QuietSteps ==
  ASSUME IInv, \/ LockForBlock
               \/ LookUp
               \/ UnlockBlock
               \/ DrainPending
               \/ UnlockBatch
               \/ LockForCorrections
               \/ UnlockCorrections
               \/ NothingBlocked
               \/ ManagerDeletes
               \/ ManagerUnlocks
               \/ DeletePools
  PROVE  Rules'
<1> USE DEF IInv, Rules, Places, Held, Handled, Silent, OnlyUpdates, TypeOK, Actors, Goroutines, Labels, Reported, locks, loop, reporting, Continue
<1>1. CASE LockForBlock
  BY <1>1 DEF LockForBlock, Lock
<1>2. CASE LookUp
  BY <1>2 DEF LookUp
<1>3. CASE UnlockBlock
  BY <1>3 DEF UnlockBlock, Unlock
<1>4. CASE DrainPending
  BY <1>4 DEF DrainPending
<1>5. CASE UnlockBatch
  BY <1>5 DEF UnlockBatch, Unlock, PoolsAdded
<1>6. CASE LockForCorrections
  BY <1>6 DEF LockForCorrections, Lock
<1>7. CASE UnlockCorrections
  BY <1>7 DEF UnlockCorrections, Unlock
<1>8. CASE NothingBlocked
  BY <1>8 DEF NothingBlocked, Resolved
<1>9. CASE ManagerDeletes
  BY <1>9 DEF ManagerDeletes
<1>10. CASE ManagerUnlocks
  BY <1>10 DEF ManagerUnlocks
<1>11. CASE DeletePools
  BY <1>11 DEF DeletePools
<1> QED BY <1>1, <1>2, <1>3, <1>4, <1>5, <1>6, <1>7, <1>8, <1>9, <1>10, <1>11

\* Steps that meet errors on the way keep the rules.
LEMMA MeetSteps ==
  ASSUME IInv, \/ HandleNewBlockFails
               \/ HandleNewBlock
               \/ InitializerFails
               \/ LockForBatch
               \/ RegisterPools
               \/ ReconcilerFails
               \/ Compare
               \/ PruneBlocked
  PROVE  Rules'
<1> DEFINE Kept(g) ==
      /\ handling' = handling
      /\ \A h \in Goroutines \ {g} : reports'[h] = reports[h]
      /\ \A h \in Goroutines : reports'[h] = << >> => reports[h] = << >>
<1>0. /\ at \in [Actors -> Labels] /\ \A a \in Actors : at[a] \in Labels
  BY DEF IInv, TypeOK
<1> USE DEF IInv, Rules, Places, Held, Handled, Silent, OnlyUpdates, Actors, Goroutines, Labels,
            Reported, locks, loop, reporting, Continue
<1>1. CASE HandleNewBlockFails
  <2>1. Kept("listener")
    BY <1>1, MeetKeeps, ErrorTypesOf DEF HandleNewBlockFails, NoClient
  <2> QED BY <1>0, <1>1, <2>1 DEF HandleNewBlockFails, NoClient
<1>2. CASE HandleNewBlock
  <2>1. Kept("listener")
    BY <1>2, MeetKeeps, ErrorTypesOf DEF HandleNewBlock
  <2> QED BY <1>0, <1>2, <2>1 DEF HandleNewBlock
<1>3. CASE InitializerFails
  <2>1. Kept("initializer")
    BY <1>3, MeetKeeps, ErrorTypesOf DEF InitializerFails, NoClient
  <2> QED BY <1>0, <1>3, <2>1 DEF InitializerFails, NoClient
<1>4. CASE LockForBatch
  <2>1. PICK S \in SUBSET todo["initializer"] : Meet("initializer", Repeated(NotInitialized, S))
    BY <1>4 DEF LockForBatch
  <2>2. Repeated(NotInitialized, S) \in Seq(Errors)
    BY RepeatedType DEF Errors, TypeOK
  <2>3. Kept("initializer")
    BY <2>1, <2>2, MeetKeeps
  <2> QED BY <1>0, <1>4, <2>3 DEF LockForBatch, Lock
<1>5. CASE RegisterPools
  <2>1. PICK S \in SUBSET todo["initializer"] : Meet("initializer", Repeated(NotRegistered, S))
    BY <1>5 DEF RegisterPools
  <2>2. Repeated(NotRegistered, S) \in Seq(Errors)
    BY RepeatedType DEF Errors, TypeOK
  <2>3. Kept("initializer")
    BY <2>1, <2>2, MeetKeeps
  <2> QED BY <1>0, <1>5, <2>3 DEF RegisterPools
<1>6. CASE ReconcilerFails
  <2>1. Kept("reconciler")
    BY <1>6, MeetKeeps, ErrorTypesOf DEF ReconcilerFails, NoClient
  <2> QED BY <1>0, <1>6, <2>1 DEF ReconcilerFails, NoClient
<1>7. CASE Compare
  <2>1. PICK S \in SUBSET found["reconciler"] : Meet("reconciler", Repeated(Wrapped, S))
    BY <1>7 DEF Compare
  <2>2. Repeated(Wrapped, S) \in Seq(Errors)
    BY RepeatedType DEF Errors, TypeOK
  <2>3. Kept("reconciler")
    BY <2>1, <2>2, MeetKeeps
  <2> QED BY <1>0, <1>7, <2>3 DEF Compare, Resolved
<1>8. CASE PruneBlocked
  <2>1. Repeated(NotDeleted, found["pruner"] \ registry) \in Seq(Errors)
    BY RepeatedType DEF Errors, TypeOK
  <2>2. Kept("pruner")
    BY <1>8, <2>1, MeetKeeps DEF PruneBlocked
  <2> QED BY <1>0, <1>8, <2>2 DEF PruneBlocked, Resolved
<1> QED BY <1>1, <1>2, <1>3, <1>4, <1>5, <1>6, <1>7, <1>8

\* A step of a loop, that meets an error or does not.
LEMMA LoopSteps ==
  ASSUME IInv, NEW g \in {"reconciler", "pruner"}, AddPool \/ Correct \/ ReadView(g) \/ Resolve(g)
  PROVE  Rules'
<1> DEFINE Kept(h) ==
      /\ handling' = handling
      /\ \A k \in Goroutines \ {h} : reports'[k] = reports[k]
      /\ \A k \in Goroutines : reports'[k] = << >> => reports[k] = << >>
<1>0. /\ TypeOK /\ at \in [Actors -> Labels] /\ \A a \in Actors : at[a] \in Labels
  BY DEF IInv, TypeOK
<1> USE DEF IInv, Rules, Places, Held, Handled, Silent, OnlyUpdates, Actors, Goroutines, Labels,
            Reported, locks, loop, reporting, Continue
<1>1. CASE AddPool
  <2>1. Kept("initializer")
    BY <1>0, <1>1, MeetKeeps, ErrorTypesOf DEF AddPool
  <2> QED BY <1>0, <1>1, <2>1 DEF AddPool
<1>2. CASE Correct
  <2>1. Kept("reconciler")
    BY <1>0, <1>2, MeetKeeps, ErrorTypesOf DEF Correct
  <2>2. \A i \in DOMAIN reports'["reconciler"] : reports'["reconciler"][i] = NotUpdated
    <3>1. CASE UNCHANGED reporting
      BY <1>0, <1>2, <3>1 DEF Correct
    <3>2. CASE Meet("reconciler", <<NotUpdated>>)
      <4>1. reports'["reconciler"] = << >> \o <<NotUpdated>>
        BY <1>0, <1>2, <3>2 DEF Correct, Meet, TypeOK
      <4>2. reports'["reconciler"] = <<NotUpdated>>
        BY <4>1, ErrorTypesOf, ConcatEmptySeq
      <4> QED BY <4>2
    <3> QED BY <1>2, <3>1, <3>2 DEF Correct
  <2> QED BY <1>0, <1>2, <2>1, <2>2 DEF Correct
<1>3. CASE ReadView(g)
  BY <1>0, <1>3 DEF ReadView
<1>4. CASE Resolve(g)
  <2>1. Kept(g)
    <3>1. CASE UNCHANGED reporting
      BY <3>1
    <3>2. CASE Meet(g, <<NoAddress>>)
      BY <1>0, <3>2, MeetKeeps, ErrorTypesOf
    <3> QED BY <1>4, <3>1, <3>2 DEF Resolve
  <2> QED BY <1>0, <1>4, <2>1 DEF Resolve
<1> QED BY <1>1, <1>2, <1>3, <1>4

\* Counting an error, handling it and returning keep the rules.
LEMMA HandlerSteps ==
  ASSUME IInv, NEW g \in Goroutines, HandlerNext(g)
  PROVE  Rules'
<1>0. /\ TypeOK /\ at \in [Actors -> Labels] /\ \A h \in Goroutines : reports[h] \in Seq(Errors)
      /\ handling \in [Goroutines -> ErrorTypes \cup {"none"}]
      /\ reports \in [Goroutines -> Seq(Errors)]
  BY DEF IInv, TypeOK
<1> USE DEF IInv, Rules, Places, Held, Handled, Silent, OnlyUpdates, Actors, Goroutines,
            Reported, locks, loop, reporting
<1>1. CASE ErrorHandler(g)
  <2>1. /\ handling' = [handling EXCEPT ![g] = determineErrorType(Head(reports[g]))]
        /\ reports[g] # << >> /\ Reports(g) /\ UNCHANGED <<mu, managerLock, at, todo, found, reports>>
    BY <1>1 DEF ErrorHandler
  <2>2. g = "reconciler" /\ mu = "reconciler" => Head(reports[g]) = NotUpdated
    <3>1. Head(reports[g]) = reports[g][1] /\ 1 \in DOMAIN reports[g]
      BY <1>0, <2>1, HeadTailProperties, EmptySeq, LenProperties
    <3> QED BY <3>1
  <2>3. g = "reconciler" /\ mu = "reconciler" => handling'[g] = "pool_update"
    BY <1>0, <2>1, <2>2, UpdateErrorType
  <2>4. g = "initializer" => mu # "initializer"
    BY <2>1 DEF Reports
  <2> QED BY <1>0, <2>1, <2>3, <2>4
<1>2. CASE HandlerReturns(g) \/ HandlerDeletes(g)
  <2>1. /\ handling[g] # "none" /\ reports' = [reports EXCEPT ![g] = Tail(@)]
        /\ handling' = [handling EXCEPT ![g] = "none"]
        /\ UNCHANGED <<mu, managerLock, at, todo, found>>
    BY <1>2, ErrorTypesAre DEF HandlerReturns, HandlerDeletes, HandlerReturned
  <2>2. reports[g] # << >>
    BY <2>1
  <2>3. \A i \in DOMAIN Tail(reports[g]) : Tail(reports[g])[i] = reports[g][i + 1]
                                          /\ i + 1 \in DOMAIN reports[g]
    BY <1>0, <2>2, HeadTailProperties, LenProperties, EmptySeq
  <2>4. /\ reports'[g] = Tail(reports[g])
        /\ \A h \in Goroutines \ {g} : reports'[h] = reports[h] /\ handling'[h] = handling[h]
        /\ handling'[g] = "none"
    BY <1>0, <2>1
  <2>5. OnlyUpdates'
    BY <2>1, <2>3, <2>4
  <2>6. Silent'
    BY <2>1, <2>2, <2>4
  <2> QED BY <2>1, <2>4, <2>5, <2>6
<1>3. CASE Return(g)
  BY <1>0, <1>3 DEF Return, Continue
<1> QED BY <1>1, <1>2, <1>3 DEF HandlerNext

\* Every step keeps the inductive invariant.
LEMMA NextInv ==
  ASSUME IInv, [Next]_vars
  PROVE  IInv'
<1>1. CASE UNCHANGED vars
  BY <1>1 DEF vars, locks, loop, reporting, IInv, Rules, TypeOK, Places, Held, Handled, Silent,
              OnlyUpdates, Reported
<1>2. CASE Next
  <2>1. TypeOK'
    BY <1>2, TypeStep DEF IInv, Rules
  <2>2. Rules'
    <3>1. CASE ManagerNext
      BY <3>1, QuietSteps DEF ManagerNext
    <3>2. ASSUME NEW g \in Goroutines, HandlerNext(g) PROVE Rules'
      BY <3>2, HandlerSteps
    <3>3. CASE ListenerNext
      BY <3>3, QuietSteps, MeetSteps DEF ListenerNext
    <3>4. CASE InitializerNext
      <4>1. CASE AddPool
        BY <4>1, LoopSteps
      <4>2. CASE DrainPending \/ UnlockBatch
        BY <4>2, QuietSteps
      <4>3. CASE InitializerFails \/ LockForBatch \/ RegisterPools
        BY <4>3, MeetSteps
      <4> QED BY <3>4, <4>1, <4>2, <4>3 DEF InitializerNext
    <3>5. CASE ReconcilerNext
      <4>1. CASE Correct \/ ReadView("reconciler") \/ Resolve("reconciler")
        BY <4>1, LoopSteps
      <4>2. CASE LockForCorrections \/ UnlockCorrections
        BY <4>2, QuietSteps
      <4>3. CASE ReconcilerFails \/ Compare
        BY <4>3, MeetSteps
      <4> QED BY <3>5, <4>1, <4>2, <4>3 DEF ReconcilerNext
    <3>6. CASE PrunerNext
      <4>1. CASE ReadView("pruner") \/ Resolve("pruner")
        BY <4>1, LoopSteps
      <4> QED BY <3>6, <4>1, QuietSteps, MeetSteps DEF PrunerNext
    <3> QED BY <1>2, <3>1, <3>2, <3>3, <3>4, <3>5, <3>6 DEF Next, GoroutineNext, Goroutines
  <2> QED BY <2>1, <2>2 DEF IInv
<1> QED BY <1>1, <1>2

\* The inductive invariant always holds.
LEMMA Invariance == Spec => []IInv
  BY InitInv, NextInv, PTL DEF Spec

\* The state stays well typed.
THEOREM TypeCorrect == Spec => []TypeOK
<1>1. IInv => TypeOK
  BY DEF IInv
<1> QED BY <1>1, Invariance, PTL

-----------------------------------------------------------------------------
\* Who waits for whom.

\* Who waits for the manager's lock waits for the manager.
LEMMA HolderOfManagerLock ==
  ASSUME IInv, NEW a \in Actors, WaitsForManager(a), ~WaitsForMu(a), managerLock \in Actors
  PROVE  WaitsFor(a) = "manager" /\ (at["manager"] = "waiting" => ManagerKeepsLock)
  BY DEF IInv, Rules, TypeOK, Held, WaitsFor, Actors, Goroutines

\* Who holds the lock of the system and waits is the reconciler, for its handler, or the
\* listener or the initializer, for the manager.
LEMMA HolderOfMu ==
  ASSUME IInv, NEW a \in Actors, mu = a
  PROVE  /\ WaitsForMu(a) => HandlerOfReconciler
         /\ WaitsForManager(a) => mu \in {"listener", "initializer"}
         /\ a # "manager"
<1>1. a \in {"listener", "initializer", "reconciler"}
  BY DEF IInv, Rules, TypeOK, Held, Actors, Goroutines
<1>2. WaitsForManager(a) => mu \in {"listener", "initializer"}
  BY <1>1 DEF IInv, Rules, Held, WaitsForManager
<1>3. ASSUME WaitsForMu(a)
      PROVE  HandlerOfReconciler
  <2>1. handling[a] \in DeletesOn
    BY <1>1, <1>3 DEF IInv, Rules, Held, WaitsForMu
  <2>2. handling[a] # "none"
    BY <2>1, ErrorTypesAre
  <2>3. a = "reconciler"
    BY <1>1, <2>2 DEF IInv, Rules, Held, Handled, Silent, Goroutines
  <2> QED BY <2>1, <2>2, <2>3 DEF IInv, Rules, OnlyUpdates, HandlerOfReconciler
<1> QED BY <1>1, <1>2, <1>3

\* A cycle of waiting contains the holder of mu, which waits for itself or for the manager.
LEMMA Cycles ==
  ASSUME IInv, Deadlock
  PROVE  HandlerOfReconciler \/ ManagerAndHolder
<1>1. PICK S \in (SUBSET Actors) \ {{}} : \A a \in S : WaitsFor(a) \in S
  BY DEF Deadlock
<1>2. PICK a \in Actors : a \in S
  <2>1. S # {} /\ S \subseteq Actors
    BY <1>1
  <2> QED BY <2>1
<1>3. \A b \in S : b \in Actors /\ WaitsFor(b) # "free" /\ (WaitsForMu(b) \/ WaitsForManager(b))
  BY <1>1 DEF Actors, Goroutines, WaitsFor
<1>4. ASSUME mu \in S, WaitsForMu(mu) PROVE HandlerOfReconciler
  BY <1>3, <1>4, HolderOfMu
<1>5. ASSUME mu \in S, ~WaitsForMu(mu) PROVE ManagerAndHolder
  <2>1. mu \in Actors /\ WaitsForManager(mu)
    BY <1>3, <1>5
  <2>2. WaitsFor(mu) = managerLock /\ managerLock \in S
    BY <1>1, <1>5, <2>1 DEF WaitsFor
  <2>3. managerLock = "manager" /\ (at["manager"] = "waiting" => ManagerKeepsLock)
    BY <1>1, <1>5, <2>1, <2>2, HolderOfManagerLock DEF WaitsFor
  <2>4. WaitsForMu("manager")
    BY <1>3, <2>2, <2>3 DEF WaitsForManager
  <2>5. ManagerKeepsLock
    BY <2>3, <2>4 DEF WaitsForMu, Goroutines
  <2> QED BY <2>1, <2>3, <2>5, HolderOfMu DEF ManagerAndHolder
<1>6. mu \in S
  <2>1. CASE WaitsForMu(a)
    BY <1>1, <1>2, <2>1 DEF WaitsFor
  <2>2. CASE ~WaitsForMu(a)
    <3>1. managerLock \in S
      BY <1>1, <1>2, <1>3, <2>2 DEF WaitsFor
    <3>2. managerLock = "manager"
      BY <1>1, <1>2, <1>3, <2>2, <3>1, HolderOfManagerLock DEF WaitsFor
    <3>3. WaitsForMu("manager") /\ WaitsFor("manager") \in S
      BY <1>1, <1>3, <3>1, <3>2 DEF WaitsForManager
    <3> QED BY <3>3 DEF WaitsFor
  <2> QED BY <2>1, <2>2
<1> QED BY <1>4, <1>5, <1>6

\* With any handler and any manager, everyone waits on everyone in the two ways only.
THEOREM OnlyTwoCycles == Spec => []DeadlockOnlyByCallback
<1>1. IInv => DeadlockOnlyByCallback
  BY Cycles DEF DeadlockOnlyByCallback
<1> QED BY <1>1, Invariance, PTL

\* A handler that deletes on no "pool_update" and a manager that gives up its lock block nobody.
THEOREM ContractBlocksNobody == Spec => []NoDeadlock
<1>1. IInv => NoDeadlock
  BY Cycles DEF NoDeadlock, HandlerOfReconciler, ManagerAndHolder
<1> QED BY <1>1, Invariance, PTL

-----------------------------------------------------------------------------
\* How long the lock is held.

\* What a goroutine still has to do to report the errors it met: two steps for each.
ToReport(g) == 2 * Len(reports[g]) + IF handling[g] = "none" THEN 1 ELSE 0

StandsStill(g) == UNCHANGED <<at[g], todo[g], found[g], reports[g], handling[g]>>

\* A step that brings a goroutine nearer to the end of its critical section: the next part of it,
\* one pool less in its loop, or one step less of reporting.
Nearer(g) ==
  \/ at[g] = "registering" /\ at'[g] = "adding"
  \/ at'[g] = at[g] /\ todo'[g] \subseteq todo[g] /\ todo'[g] # todo[g]
  \/ at'[g] = at[g] /\ todo'[g] = todo[g] /\ ToReport(g)' < ToReport(g)

\* Nobody takes the lock from its holder, and each step the holder makes with it is one of
\* finitely many: no error path and no handler leads it round in circles.
HolderAdvances == mu # "free" => mu' = "free" \/ (mu' = mu /\ (StandsStill(mu) \/ Nearer(mu)))

\* The holder waits for nobody, or for the manager who himself waits for nobody, unless everyone
\* waits on everyone.
HolderGoesOn ==
  mu # "free" /\ ~Deadlock =>
    WaitsFor(mu) = "free" \/ (WaitsFor(mu) = "manager" /\ WaitsFor("manager") = "free")

\* A round that goes on leaves the other actors where they are; so do errors met.
LEMMA OthersStand ==
  ASSUME TypeOK, NEW a \in Actors, NEW g \in Goroutines \ {a}
  PROVE  /\ \A label, pools, collected :
              Continue(a, label, pools, collected) =>
                at'[g] = at[g] /\ todo'[g] = todo[g] /\ found'[g] = found[g]
         /\ \A errs : Meet(a, errs) => reports'[g] = reports[g] /\ handling'[g] = handling[g]
         /\ HandlerReturned(a) => StandsStill(g) /\ mu' = mu
         /\ UNCHANGED reporting => reports'[g] = reports[g] /\ handling'[g] = handling[g]
         /\ UNCHANGED loop => at'[g] = at[g] /\ todo'[g] = todo[g] /\ found'[g] = found[g]
  BY DEF TypeOK, Continue, Meet, HandlerReturned, StandsStill, locks, loop, reporting, Actors

\* Counting, handling and returning leave other goroutines alone.
LEMMA OthersHandle ==
  ASSUME TypeOK, NEW a \in Goroutines, NEW g \in Goroutines \ {a}, HandlerNext(a)
  PROVE  StandsStill(g) /\ mu' = mu
<1>0. a \in Actors
  BY DEF Actors
<1>1. CASE ErrorHandler(a)
  BY <1>1 DEF ErrorHandler, TypeOK, StandsStill, locks, loop
<1>2. CASE HandlerReturns(a) \/ HandlerDeletes(a)
  BY <1>0, <1>2, OthersStand DEF HandlerReturns, HandlerDeletes
<1>3. CASE Return(a)
  BY <1>0, <1>3, OthersStand DEF Return, StandsStill, locks
<1> QED BY <1>1, <1>2, <1>3 DEF HandlerNext

\* While one goroutine holds the lock, a step of another leaves it and the lock alone.
LEMMA HolderIsLeftAlone ==
  ASSUME IInv, NEW g \in Goroutines, mu = g,
         \/ ManagerNext
         \/ \E a \in Goroutines \ {g} : GoroutineNext(a)
  PROVE  StandsStill(g) /\ mu' = mu
<1>0. /\ TypeOK /\ g \in Actors /\ Goroutines \subseteq Actors
      /\ g # "pruner" /\ g # "free"
      /\ at["listener"] = "locked" => g = "listener"
      /\ at["initializer"] \in {"registering", "adding", "added"} => g = "initializer"
      /\ at["reconciler"] = "locked" => g = "reconciler"
  BY DEF IInv, Rules, Held, Actors, Goroutines
<1>1. CASE ManagerNext
  <2>1. "manager" \in Actors /\ g # "manager"
    BY DEF Actors, Goroutines
  <2> QED BY <1>0, <1>1, <2>1, OthersStand
           DEF ManagerNext, ManagerDeletes, ManagerUnlocks, DeletePools, StandsStill
<1>2. ASSUME NEW a \in Goroutines \ {g}, HandlerNext(a) PROVE StandsStill(g) /\ mu' = mu
  BY <1>0, <1>2, OthersHandle
<1>3. CASE g # "listener" /\ ListenerNext
  <2>1. "listener" \in Actors /\ g \in Goroutines \ {"listener"}
    BY <1>3 DEF Actors, Goroutines
  <2> QED BY <1>0, <1>3, <2>1, OthersStand
           DEF ListenerNext, HandleNewBlockFails, NoClient, HandleNewBlock, LockForBlock, Lock, LookUp,
               UnlockBlock, StandsStill, locks
<1>4. CASE g # "initializer" /\ InitializerNext
  <2>1. "initializer" \in Actors /\ g \in Goroutines \ {"initializer"}
    BY <1>4 DEF Actors, Goroutines
  <2>2. CASE InitializerFails \/ DrainPending \/ LockForBatch
    BY <1>0, <2>2 DEF InitializerFails, DrainPending, LockForBatch, Lock
  <2>3. at["initializer"] \notin {"registering", "adding", "added"}
    BY <1>0, <1>4
  <2>4. CASE RegisterPools \/ AddPool \/ UnlockBatch
    BY <2>3, <2>4 DEF RegisterPools, AddPool, UnlockBatch, PoolsAdded
  <2> QED BY <1>4, <2>2, <2>4 DEF InitializerNext
<1>5. CASE g # "reconciler" /\ ReconcilerNext
  <2>1. "reconciler" \in Actors /\ g \in Goroutines \ {"reconciler"}
    BY <1>5 DEF Actors, Goroutines
  <2>2. at["reconciler"] # "locked"
    BY <1>0, <1>5
  <2>3. CASE ReconcilerFails \/ ReadView("reconciler")
    BY <1>0, <2>1, <2>3, OthersStand DEF ReconcilerFails, NoClient, ReadView, StandsStill, locks
  <2>4. CASE Resolve("reconciler")
    BY <1>0, <2>1, <2>4, OthersStand DEF Resolve, StandsStill, locks
  <2>5. CASE Compare
    BY <1>0, <2>1, <2>5, OthersStand DEF Compare, StandsStill, locks
  <2>6. CASE LockForCorrections
    BY <1>0, <2>6 DEF LockForCorrections, Lock
  <2>7. CASE Correct \/ UnlockCorrections
    BY <2>2, <2>7 DEF Correct, UnlockCorrections
  <2> QED BY <1>5, <2>3, <2>4, <2>5, <2>6, <2>7 DEF ReconcilerNext
<1>6. CASE PrunerNext
  <2>1. "pruner" \in Actors /\ g \in Goroutines \ {"pruner"}
    BY <1>0 DEF Actors, Goroutines
  <2>2. CASE ReadView("pruner") \/ Resolve("pruner")
    BY <1>0, <2>1, <2>2, OthersStand DEF ReadView, Resolve, StandsStill, locks
  <2>3. CASE NothingBlocked
    BY <1>0, <2>1, <2>3, OthersStand DEF NothingBlocked, StandsStill, locks
  <2>4. CASE PruneBlocked
    BY <1>0, <2>4 DEF PruneBlocked
  <2> QED BY <1>6, <2>2, <2>3, <2>4 DEF PrunerNext
<1> QED BY <1>1, <1>2, <1>3, <1>4, <1>5, <1>6 DEF GoroutineNext

\* The listener under the lock looks up one pool after another and reports nothing.
LEMMA ListenerNearer ==
  ASSUME IInv, mu = "listener", ListenerNext \/ HandlerNext("listener")
  PROVE  mu' = "free" \/ (mu' = mu /\ Nearer("listener"))
<1>1. /\ TypeOK /\ at["listener"] = "locked" /\ reports["listener"] = << >>
      /\ handling["listener"] = "none"
  BY DEF IInv, Rules, Held, Silent, Handled, Reported, Goroutines
<1>2. CASE LookUp
  BY <1>1, <1>2 DEF LookUp, Continue, Nearer, locks, TypeOK, Actors, Goroutines
<1>3. CASE UnlockBlock
  BY <1>3 DEF UnlockBlock, Unlock
<1>4. ~HandlerNext("listener")
  BY <1>1, ErrorTypesAre DEF HandlerNext, ErrorHandler, HandlerReturns, HandlerDeletes, Return, Reported
<1>5. ~(HandleNewBlockFails \/ HandleNewBlock \/ LockForBlock)
  BY <1>1 DEF HandleNewBlockFails, NoClient, HandleNewBlock, LockForBlock
<1> QED BY <1>2, <1>3, <1>4, <1>5 DEF ListenerNext

\* The initializer under the lock registers its pools, adds one after another and reports nothing.
LEMMA InitializerNearer ==
  ASSUME IInv, mu = "initializer", InitializerNext \/ HandlerNext("initializer")
  PROVE  mu' = "free" \/ (mu' = mu /\ Nearer("initializer"))
<1>1. /\ TypeOK /\ at["initializer"] \in {"registering", "adding", "added"}
      /\ handling["initializer"] = "none"
  BY DEF IInv, Rules, Held, Silent
<1>2. CASE RegisterPools
  BY <1>1, <1>2 DEF RegisterPools, Continue, Nearer, locks, TypeOK, Actors, Goroutines
<1>3. CASE AddPool
  BY <1>1, <1>3 DEF AddPool, Continue, Nearer, locks, TypeOK, Actors, Goroutines
<1>4. CASE UnlockBatch
  BY <1>4 DEF UnlockBatch, Unlock
<1>5. ~HandlerNext("initializer")
  BY <1>1, ErrorTypesAre DEF HandlerNext, ErrorHandler, Reports, HandlerReturns, HandlerDeletes, Return
<1>6. ~(InitializerFails \/ DrainPending \/ LockForBatch)
  BY DEF InitializerFails, DrainPending, LockForBatch, Lock
<1> QED BY <1>2, <1>3, <1>4, <1>5, <1>6 DEF InitializerNext

\* The reconciler under the lock corrects one pool after another, and reports in between.
LEMMA ReconcilerNearer ==
  ASSUME IInv, mu = "reconciler", ReconcilerNext \/ HandlerNext("reconciler")
  PROVE  mu' = "free" \/ (mu' = mu /\ Nearer("reconciler"))
<1> DEFINE g == "reconciler"
<1>1. TypeOK /\ at[g] = "locked" /\ g \in Goroutines /\ (handling[g] # "none" => reports[g] # << >>)
  BY DEF IInv, Rules, Held, Handled, Reported, Goroutines
<1>2. CASE Correct
  BY <1>1, <1>2 DEF Correct, Continue, Nearer, locks, TypeOK, Actors, Goroutines
<1>3. CASE UnlockCorrections
  BY <1>3 DEF UnlockCorrections, Unlock
<1>4. ~(ReconcilerFails \/ ReadView(g) \/ Resolve(g) \/ Compare \/ LockForCorrections \/ Return(g))
  BY <1>1 DEF ReconcilerFails, NoClient, ReadView, Resolve, Compare, Resolved, LockForCorrections, Return
<1>5. reports[g] \in Seq(Errors) /\ Len(reports[g]) \in Nat
  BY <1>1, LenProperties DEF TypeOK
<1>6. CASE ErrorHandler(g)
  <2>1. /\ handling[g] = "none" /\ reports' = reports
        /\ handling' = [handling EXCEPT ![g] = determineErrorType(Head(reports[g]))]
        /\ mu' = mu /\ at' = at /\ todo' = todo
    BY <1>6 DEF ErrorHandler, locks, loop
  <2>2. handling'[g] # "none"
    BY <1>1, <2>1, ErrorTypeType, ErrorTypesAre DEF TypeOK
  <2>3. ToReport(g) = 2 * Len(reports[g]) + 1 /\ ToReport(g)' = 2 * Len(reports[g]) + 0
    BY <2>1, <2>2 DEF ToReport
  <2>4. ToReport(g)' < ToReport(g)
    BY <1>5, <2>3
  <2> QED BY <2>1, <2>4 DEF Nearer
<1>7. CASE HandlerReturns(g)
  <2>1. /\ handling[g] # "none" /\ reports' = [reports EXCEPT ![g] = Tail(@)]
        /\ handling' = [handling EXCEPT ![g] = "none"]
        /\ mu' = mu /\ at' = at /\ todo' = todo
    BY <1>7 DEF HandlerReturns, HandlerReturned, locks, loop
  <2>2. reports'[g] = Tail(reports[g]) /\ handling'[g] = "none"
    BY <1>1, <2>1 DEF TypeOK
  <2>3. Len(Tail(reports[g])) = Len(reports[g]) - 1
    BY <1>1, <1>5, <2>1, HeadTailProperties
  <2>4. ToReport(g) = 2 * Len(reports[g]) + 0 /\ ToReport(g)' = 2 * (Len(reports[g]) - 1) + 1
    BY <2>1, <2>2, <2>3 DEF ToReport
  <2>5. ToReport(g)' < ToReport(g)
    BY <1>5, <2>4
  <2> QED BY <2>1, <2>5 DEF Nearer
<1>8. ~HandlerDeletes(g)
  BY DEF HandlerDeletes
<1> QED BY <1>2, <1>3, <1>4, <1>6, <1>7, <1>8 DEF ReconcilerNext, HandlerNext

\* The lock is held for boundedly many steps of its holder, which is not kept waiting but in the
\* two ways: what is left of LockIsReleased is that the goroutines and the manager run on.
THEOREM LockIsGivenBack == Spec => []HolderGoesOn /\ [][HolderAdvances]_vars
<1>1. IInv => HolderGoesOn
  <2> SUFFICES ASSUME IInv, mu # "free", ~Deadlock
               PROVE  WaitsFor(mu) = "free" \/ (WaitsFor(mu) = "manager" /\ WaitsFor("manager") = "free")
    BY DEF HolderGoesOn
  <2>1. mu \in Actors /\ "manager" \in Actors /\ managerLock \in {"manager", "free"}
    BY DEF IInv, TypeOK, Actors, Goroutines
  <2>2. WaitsFor(mu) # mu
    <3>1. CASE WaitsFor(mu) = mu
      <4>1. {mu} \in (SUBSET Actors) \ {{}} /\ \A a \in {mu} : WaitsFor(a) \in {mu}
        BY <2>1, <3>1
      <4> QED BY <4>1 DEF Deadlock
    <3> QED BY <3>1
  <2>3. WaitsFor(mu) \in {"free", "manager"}
    BY <2>1, <2>2 DEF WaitsFor
  <2>4. WaitsFor("manager") \in {mu, "free"}
    BY DEF WaitsFor, WaitsForManager
  <2>5. ~(WaitsFor(mu) = "manager" /\ WaitsFor("manager") = mu)
    <3>1. CASE WaitsFor(mu) = "manager" /\ WaitsFor("manager") = mu
      <4>1. /\ {mu, "manager"} \in (SUBSET Actors) \ {{}}
            /\ \A a \in {mu, "manager"} : WaitsFor(a) \in {mu, "manager"}
        BY <2>1, <3>1
      <4> QED BY <4>1 DEF Deadlock
    <3> QED BY <3>1
  <2> QED BY <2>3, <2>4, <2>5
<1>2. IInv /\ [Next]_vars => HolderAdvances
  <2> SUFFICES ASSUME IInv, [Next]_vars, mu # "free"
               PROVE  mu' = "free" \/ (mu' = mu /\ (StandsStill(mu) \/ Nearer(mu)))
    BY DEF HolderAdvances
  <2>1. mu \in {"listener", "initializer", "reconciler"} /\ mu \in Goroutines
    BY DEF IInv, Rules, TypeOK, Held, Goroutines
  <2>2. CASE ManagerNext \/ \E a \in Goroutines \ {mu} : GoroutineNext(a)
    BY <2>1, <2>2, HolderIsLeftAlone
  <2>3. CASE GoroutineNext(mu)
    BY <2>1, <2>3, ListenerNearer, InitializerNearer, ReconcilerNearer DEF GoroutineNext
  <2>4. CASE UNCHANGED vars
    BY <2>4 DEF vars, locks, loop, reporting, StandsStill
  <2> QED BY <2>2, <2>3, <2>4 DEF Next, Goroutines
<1> QED BY <1>1, <1>2, Invariance, PTL DEF Spec
==============================================================================
