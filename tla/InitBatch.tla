------------------------------ MODULE InitBatch ------------------------------
(***************************************************************************)
(* applyInitializations of src/system.go on its slices, and the decision   *)
(* of runPendingInitializations to publish.  The results of a batch come   *)
(* in seven parallel slices and an error slice; those without an error are *)
(* copied to seven shorter slices, which registerPools answers with two    *)
(* more, and what was registered is added row by row.  Every loop has an   *)
(* index of its own into slices of other lengths.                          *)
(*                                                                         *)
(* All of this happens under mu, within which nobody else writes.  The     *)
(* errors are reported after the unlock, while other goroutines may update *)
(* and delete pools and publish the view, as they may between two rounds.  *)
(***************************************************************************)
EXTENDS Integers, Sequences, Functions

CONSTANTS
  Pools,    \* a pool stands for its address, its ID and for what was fetched for it
  Zero,     \* new(big.Int), the zero address, the ID 0: the value of no pool
  Synced,   \* reserves of a later Sync event
  Batches   \* the lists of pools a queue may yield

ASSUME InitBatchAssumption ==
  /\ Zero \notin Pools /\ Synced \notin Pools /\ Synced # Zero
  /\ Batches \subseteq Seq(Pools)
  /\ \A b \in Batches : b # << >> /\ IsInjective(b)   \* they are the keys of pendingInit

Columns == {"token0", "token1", "type", "fee", "reserve0", "reserve1"}

VARIABLES
  registry,       \* a row for each tracked pool
  view,           \* the published view
  registered,     \* pools with an ID upstream
  pc,             \* the loop that is running, or "idle" between rounds
  next,           \* the index of that loop
  unknownPools,   \* the batch
  failed,         \* positions with an entry in initErrs
  valid,          \* validPools and the slices of columns beside it
  newPoolIDs, regErrs,  \* what registerPools returned; a Boolean stands for an error
  failedRegistration,   \* the set of positions that is TRUE in the map
  capturedErrors, \* the pools the errors are about, in the order of the errors
  handled,        \* history: those about which errorHandler was called in this round
  entered         \* history: the pools that this round published

round == <<unknownPools, failed, valid, newPoolIDs, regErrs, failedRegistration>>
history == <<handled, entered>>
vars == <<registry, view, registered, pc, next, round, capturedErrors, history>>

Column == Columns \cup {"pool"}
NoValid == [c \in Column |-> << >>]

\* The i-th entry of a result slice; the goroutine of a failed pool wrote nothing.
Result(i) == IF i \in failed THEN Zero ELSE unknownPools[i]

Init ==
  /\ registry = [p \in {} |-> [c \in Columns |-> p]]
  /\ view = registry
  /\ registered \in SUBSET Pools
  /\ pc = "idle"
  /\ next = 1
  /\ unknownPools = << >> /\ failed = {} /\ valid = NoValid
  /\ newPoolIDs = << >> /\ regErrs = << >> /\ failedRegistration = {}
  /\ capturedErrors = << >>
  /\ handled = << >> /\ entered = {}

-----------------------------------------------------------------------------
\* A round begins with the queue that was drained and the results of PoolInitializer.
StartRound ==
  /\ pc = "idle"
  /\ \E b \in Batches :
       /\ unknownPools' = b
       /\ failed' \in SUBSET DOMAIN b
  /\ pc' = "filtering"
  /\ UNCHANGED <<registry, view, registered, next, valid, newPoolIDs, regErrs,
                 failedRegistration, capturedErrors, history>>

\* Mutant: a pool whose initialization failed is copied too.
FilterPoolKeepingFailed ==
  /\ pc = "filtering"
  /\ next \in DOMAIN unknownPools
  /\ capturedErrors' = IF next \in failed THEN Append(capturedErrors, unknownPools[next])
                                          ELSE capturedErrors
  /\ valid' = [c \in Column |-> Append(valid[c], IF c = "pool" THEN unknownPools[next] ELSE Result(next))]
  /\ next' = next + 1
  /\ UNCHANGED <<registry, view, registered, pc, unknownPools, failed, newPoolIDs, regErrs,
                 failedRegistration, history>>

\* One turn of the first loop: an error is reported, or the results are copied.
FilterPool ==
  /\ pc = "filtering"
  /\ next \in DOMAIN unknownPools
  /\ IF next \in failed
       THEN /\ capturedErrors' = Append(capturedErrors, unknownPools[next])
            /\ UNCHANGED valid
       ELSE /\ valid' = [c \in Column |->
                           Append(valid[c], IF c = "pool" THEN unknownPools[next] ELSE Result(next))]
            /\ UNCHANGED capturedErrors
  /\ next' = next + 1
  /\ UNCHANGED <<registry, view, registered, pc, unknownPools, failed, newPoolIDs, regErrs,
                 failedRegistration, history>>

\* Without a valid pool the function returns; otherwise registerPools is called.  It answers
\* position by position, and with no error slice if nothing failed.  Registering a pool
\* again returns its ID.
RegisterPools ==
  /\ pc = "filtering"
  /\ next \notin DOMAIN unknownPools
  /\ next' = 1
  /\ IF valid["pool"] = << >>
       THEN /\ pc' = "publishing"
            /\ UNCHANGED <<registered, newPoolIDs, regErrs>>
       ELSE /\ pc' = "recording"
            /\ \E bad \in SUBSET DOMAIN valid["pool"] :
                 /\ newPoolIDs' = [i \in DOMAIN valid["pool"] |->
                                     IF i \in bad THEN Zero ELSE valid["pool"][i]]
                 /\ \/ regErrs' = [i \in DOMAIN valid["pool"] |-> i \in bad]
                    \/ bad = {} /\ regErrs' = << >>
                 /\ registered' = registered \cup
                                    {valid["pool"][i] : i \in DOMAIN valid["pool"] \ bad}
  /\ UNCHANGED <<registry, view, unknownPools, failed, valid, failedRegistration, capturedErrors,
                 history>>

\* Mutant: the position is not marked.
RecordRegistrationUnmarked ==
  /\ pc = "recording"
  /\ next \in DOMAIN regErrs
  /\ capturedErrors' = IF regErrs[next] THEN Append(capturedErrors, valid["pool"][next])
                                        ELSE capturedErrors
  /\ next' = next + 1
  /\ UNCHANGED <<registry, view, registered, pc, round, history>>

\* One turn of the loop over the registration errors.
RecordRegistration ==
  /\ pc = "recording"
  /\ next \in DOMAIN regErrs
  /\ IF regErrs[next]
       THEN /\ capturedErrors' = Append(capturedErrors, valid["pool"][next])
            /\ failedRegistration' = failedRegistration \cup {next}
       ELSE UNCHANGED <<capturedErrors, failedRegistration>>
  /\ next' = next + 1
  /\ UNCHANGED <<registry, view, registered, pc, unknownPools, failed, valid, newPoolIDs, regErrs,
                 history>>

RegistrationsRecorded ==
  /\ pc = "recording"
  /\ next \notin DOMAIN regErrs
  /\ pc' = "adding"
  /\ next' = 1
  /\ UNCHANGED <<registry, view, registered, round, capturedErrors, history>>

\* The row that addPool makes of the i-th valid pool.
NewRow(i) == [c \in Columns |-> IF c \in {"reserve0", "reserve1"} THEN Zero ELSE valid[c][i]]

WithRow(p, row) == [q \in DOMAIN registry \cup {p} |-> IF q = p THEN row ELSE registry[q]]

\* Mutant: the reserves are taken from the slices of the whole batch.
InitialReservesOfBatch(i) == [reserve0 |-> Result(i), reserve1 |-> Result(i)]

\* The reserves that updatePool sets for the i-th valid pool.
InitialReserves(i) == [reserve0 |-> valid["reserve0"][i], reserve1 |-> valid["reserve1"][i]]

\* addPool and updatePool.  A pool that exists, an address without an ID or a failing lookup
\* is reported.  The row is made under the ID of the address and its reserves are set under
\* the ID that registerPools returned.
AddValidPool(i) ==
  LET p == valid["pool"][i]
      added == WithRow(p, NewRow(i))
      id == newPoolIDs[i]
  IN  \/ /\ capturedErrors' = Append(capturedErrors, p)
         /\ UNCHANGED registry
      \/ /\ p \in registered \ DOMAIN registry
         /\ IF id \in DOMAIN added
              THEN /\ registry' = [added EXCEPT ![id] = [c \in Columns |->
                        IF c \in {"reserve0", "reserve1"} THEN InitialReserves(i)[c] ELSE @[c]]]
                   /\ UNCHANGED capturedErrors
              ELSE /\ registry' = added
                   /\ capturedErrors' = Append(capturedErrors, p)

\* One turn of the last loop.
AddPool ==
  /\ pc = "adding"
  /\ next \in DOMAIN valid["pool"]
  /\ IF next \in failedRegistration
       THEN UNCHANGED <<registry, capturedErrors>>
       ELSE AddValidPool(next)
  /\ next' = next + 1
  /\ UNCHANGED <<view, registered, pc, round, history>>

PoolsAdded ==
  /\ pc = "adding"
  /\ next \notin DOMAIN valid["pool"]
  /\ pc' = "publishing"
  /\ UNCHANGED <<registry, view, registered, next, round, capturedErrors, history>>

\* Mutant: the errors are counted against the valid pools.
SuccessfulInitsOfValid == Len(valid["pool"]) - Len(capturedErrors)

successfulInits == Len(unknownPools) - Len(capturedErrors)

\* Back in runPendingInitializations, still under the lock, which is released then; the local
\* variables of applyInitializations are gone.
Publish ==
  /\ pc = "publishing"
  /\ view' = IF successfulInits > 0 THEN registry ELSE view
  /\ pc' = "reporting"
  /\ next' = 1
  /\ failed' = {} /\ valid' = NoValid
  /\ newPoolIDs' = << >> /\ regErrs' = << >> /\ failedRegistration' = {}
  /\ entered' = DOMAIN view' \ DOMAIN view
  /\ UNCHANGED <<registry, registered, unknownPools, capturedErrors, handled>>

\* Mutant: the loop ends with the first error.
ReportFirstError ==
  /\ pc = "reporting"
  /\ next \in DOMAIN capturedErrors
  /\ handled' = Append(handled, capturedErrors[next])
  /\ next' = Len(capturedErrors) + 1
  /\ UNCHANGED <<registry, view, registered, pc, round, capturedErrors, entered>>

\* One turn of the loop over the errors: errorHandler is called.
ReportError ==
  /\ pc = "reporting"
  /\ next \in DOMAIN capturedErrors
  /\ handled' = Append(handled, capturedErrors[next])
  /\ next' = next + 1
  /\ UNCHANGED <<registry, view, registered, pc, round, capturedErrors, entered>>

\* runPendingInitializations returns.
EndRound ==
  /\ pc = "reporting"
  /\ next \notin DOMAIN capturedErrors
  /\ pc' = "idle"
  /\ next' = 1
  /\ unknownPools' = << >> /\ capturedErrors' = << >>
  /\ handled' = << >> /\ entered' = {}
  /\ UNCHANGED <<registry, view, registered, failed, valid, newPoolIDs, regErrs, failedRegistration>>

-----------------------------------------------------------------------------
\* The lock is free for the other writers, each of which publishes what it did.
Unlocked == pc \in {"idle", "reporting"}

Sync(p) ==
  /\ Unlocked
  /\ p \in DOMAIN registry
  /\ registry' = [registry EXCEPT ![p] = [@ EXCEPT !["reserve0"] = Synced, !["reserve1"] = Synced]]
  /\ view' = registry'
  /\ UNCHANGED <<registered, pc, next, round, capturedErrors, history>>

Delete(p) ==
  /\ Unlocked
  /\ p \in DOMAIN registry
  /\ registry' = Restrict(registry, DOMAIN registry \ {p})
  /\ view' = registry'
  /\ UNCHANGED <<registered, pc, next, round, capturedErrors, history>>

Next ==
  \/ StartRound
  \/ FilterPool
  \/ RegisterPools
  \/ RecordRegistration \/ RegistrationsRecorded
  \/ AddPool \/ PoolsAdded
  \/ Publish
  \/ ReportError \/ EndRound
  \/ \E p \in Pools : Sync(p) \/ Delete(p)

Spec == Init /\ [][Next]_vars

-----------------------------------------------------------------------------
Row == [Columns -> Pools \cup {Zero, Synced}]

TypeOK ==
  /\ DOMAIN registry \subseteq Pools /\ registry \in [DOMAIN registry -> Row]
  /\ DOMAIN view \subseteq Pools /\ view \in [DOMAIN view -> Row]
  /\ registered \subseteq Pools
  /\ pc \in {"idle", "filtering", "recording", "adding", "publishing", "reporting"}
  /\ next \in Nat \ {0}
  /\ unknownPools \in Seq(Pools)
  /\ failed \subseteq DOMAIN unknownPools
  /\ valid \in [Column -> Seq(Pools)]
  /\ newPoolIDs \in Seq(Pools \cup {Zero})
  /\ regErrs \in Seq(BOOLEAN)
  /\ failedRegistration \subseteq DOMAIN valid["pool"]
  /\ capturedErrors \in Seq(Pools) /\ handled \in Seq(Pools)
  /\ entered \subseteq Pools

\* When a round has reported its errors, errorHandler was called once for every pool of the
\* batch that did not enter the view, and for no other, whichever of the four ways out the
\* pool took.  Only therefore is the number of pools less the number of errors the number of
\* pools added: the test before the publication, and the metric.
AddedOrReported ==
  pc = "reporting" /\ next \notin DOMAIN capturedErrors =>
    /\ IsInjective(handled)
    /\ Range(handled) = Range(unknownPools) \ entered

\* Whenever the lock is free the view is the registry: a round in which some pools failed and
\* some did not publishes those that did not, and one that publishes nothing has added nothing.
RoundsArePublished == Unlocked => view = registry

Abstract == INSTANCE Initializations

\* The three re-indexings, from the batch to the valid pools, to the registered ones and to
\* rows, keep every pool with its own tokens, type, fee and reserves, and leave the rows of
\* pools that were tracked before alone.
RefinesInitializations == Abstract!Spec
=============================================================================
