--------------------------- MODULE InitBatchProofs ---------------------------
(***************************************************************************)
(* Proofs about InitBatch, for batches of any length: every pool of a      *)
(* batch is added or reported, what was added is published, and every row  *)
(* that enters is made of one pool's values (Initializations).             *)
(***************************************************************************)
EXTENDS InitBatch, FiniteSetTheorems, TLAPS

\* Pools of the batch that were added and are not published yet.
Added == DOMAIN registry \ DOMAIN view

OwnRow(p) == [c \in Columns |-> p]

\* Of the batch only the errors are left once the lock is released, and nothing of the round
\* between rounds.
NothingLeft ==
  /\ Unlocked => view = registry /\ valid = NoValid /\ failed = {} /\ failedRegistration = {}
  /\ pc = "idle" => next = 1 /\ capturedErrors = << >>

\* The slices of valid pools run in parallel and list pools of the batch once.
ValidPools ==
  /\ IsInjective(unknownPools)
  /\ \A c \in Column : valid[c] = valid["pool"]
  /\ IsInjective(valid["pool"])
  /\ Range(valid["pool"]) \subseteq Range(unknownPools)
  /\ pc = "filtering" => \A k \in DOMAIN valid["pool"], i \in DOMAIN unknownPools :
                           valid["pool"][k] = unknownPools[i] => i < next

\* The registry is the view and the rows added since.
Rows ==
  /\ \A p \in DOMAIN view : p \in DOMAIN registry /\ registry[p] = view[p]
  /\ \A p \in Added : registry[p] = OwnRow(p)

\* A valid pool has its ID, unless its registration failed, which is or will be marked.
Registrations ==
  /\ pc = "filtering" => failedRegistration = {}
  /\ pc = "recording" =>
       /\ DOMAIN regErrs \subseteq DOMAIN valid["pool"]
       /\ Len(newPoolIDs) = Len(valid["pool"])
       /\ failedRegistration = {i \in DOMAIN regErrs : i < next /\ regErrs[i]}
       /\ \A i \in DOMAIN valid["pool"] :
            newPoolIDs[i] = valid["pool"][i] \/ (i \in DOMAIN regErrs /\ regErrs[i])
  /\ pc = "adding" =>
       \A i \in DOMAIN valid["pool"] \ failedRegistration : newPoolIDs[i] = valid["pool"][i]

\* The valid pools at the positions of S.
ValidAt(S) == {valid["pool"][i] : i \in S}

\* The pools of the batch that are neither added nor reported yet.
Undecided ==
  CASE pc = "filtering" -> Range(valid["pool"]) \cup
                           {unknownPools[i] : i \in {j \in DOMAIN unknownPools : j >= next}}
    [] pc = "recording" -> ValidAt(DOMAIN valid["pool"] \ failedRegistration)
    [] pc = "adding" -> ValidAt({i \in DOMAIN valid["pool"] : i >= next} \ failedRegistration)
    [] OTHER -> {}

\* Added, reported and undecided pools partition the batch; a report is made once.
Partition ==
  /\ IsInjective(capturedErrors)
  /\ Added \cap Range(capturedErrors) = {}
  /\ Undecided \cap Range(capturedErrors) = {}
  /\ Added \cap Undecided = {}
  /\ ~Unlocked => Added \cup Range(capturedErrors) \cup Undecided = Range(unknownPools)

\* The loop over the errors has handled those before its index.
Reports ==
  /\ pc # "reporting" => handled = << >> /\ entered = {}
  /\ pc = "reporting" =>
       /\ Range(capturedErrors) = Range(unknownPools) \ entered
       /\ Len(handled) = next - 1
       /\ Len(handled) <= Len(capturedErrors)
       /\ \A i \in DOMAIN handled : handled[i] = capturedErrors[i]

\* The inductive invariant.
IInv ==
  /\ TypeOK
  /\ NothingLeft
  /\ ValidPools
  /\ Rows
  /\ Registrations
  /\ Partition
  /\ Reports

-----------------------------------------------------------------------------
\* Appending an element that is not in an injective sequence.
LEMMA AppendNew ==
  ASSUME NEW S, NEW s \in Seq(S), NEW e \in S, IsInjective(s), e \notin Range(s)
  PROVE  /\ Append(s, e) \in Seq(S)
         /\ IsInjective(Append(s, e))
         /\ Range(Append(s, e)) = Range(s) \cup {e}
         /\ DOMAIN Append(s, e) = DOMAIN s \cup {Len(s) + 1}
<1>1. /\ Append(s, e) \in Seq(S)
      /\ DOMAIN Append(s, e) = 1 .. Len(s) + 1
      /\ DOMAIN s = 1 .. Len(s)
      /\ Len(s) \in Nat
      /\ \A i \in 1 .. Len(s) : Append(s, e)[i] = s[i]
      /\ Append(s, e)[Len(s) + 1] = e
  OBVIOUS
<1>2. DOMAIN Append(s, e) = DOMAIN s \cup {Len(s) + 1}
  BY <1>1
<1>3. IsInjective(Append(s, e))
  BY <1>1 DEF IsInjective, Range
<1>4. Range(Append(s, e)) = Range(s) \cup {e}
  BY <1>1, <1>2 DEF Range
<1> QED BY <1>1, <1>2, <1>3, <1>4

\* An injective sequence has as many positions as elements.
LEMMA InjectiveLength ==
  ASSUME NEW S, NEW s \in Seq(S), IsInjective(s)
  PROVE  IsFiniteSet(Range(s)) /\ Cardinality(Range(s)) = Len(s)
<1>1. DOMAIN s = 1 .. Len(s) /\ Len(s) \in Nat
  OBVIOUS
<1>2. IsFiniteSet(1 .. Len(s)) /\ Cardinality(1 .. Len(s)) = Len(s)
  <2>1. 1 \in Int /\ Len(s) \in Int
    BY <1>1
  <2>2. /\ IsFiniteSet(1 .. Len(s))
        /\ Cardinality(1 .. Len(s)) = IF 1 > Len(s) THEN 0 ELSE Len(s) - 1 + 1
    BY <2>1, FS_Interval
  <2> QED BY <1>1, <2>2
<1>3. s \in Surjection(1 .. Len(s), Range(s))
  BY <1>1 DEF Surjection, Range
<1>4. s \in Injection(1 .. Len(s), Range(s))
  BY <1>1 DEF Injection, IsInjective, Range
<1> QED BY <1>2, <1>3, <1>4, FS_Surjection

\* A set of reports as large as the batch covers the batch.
LEMMA AllReported ==
  ASSUME NEW S, NEW s \in Seq(S), NEW t \in Seq(S), IsInjective(s), IsInjective(t),
         Range(s) \subseteq Range(t), ~(Len(t) - Len(s) > 0)
  PROVE  Range(s) = Range(t)
<1>1. /\ IsFiniteSet(Range(s)) /\ Cardinality(Range(s)) = Len(s)
      /\ IsFiniteSet(Range(t)) /\ Cardinality(Range(t)) = Len(t)
      /\ Len(s) \in Nat /\ Len(t) \in Nat
  BY InjectiveLength
<1>2. Range(s) # Range(t) => Cardinality(Range(s)) < Cardinality(Range(t))
  BY <1>1, FS_Subset
<1> QED BY <1>1, <1>2

-----------------------------------------------------------------------------
\* An empty system between rounds satisfies the invariant.
LEMMA InitIInv == Init => IInv
<1> SUFFICES ASSUME Init PROVE IInv
  OBVIOUS
<1>1. /\ registry = [p \in {} |-> [c \in Columns |-> p]] /\ view = registry
      /\ registered \subseteq Pools /\ pc = "idle" /\ next = 1
      /\ unknownPools = << >> /\ failed = {} /\ valid = NoValid
      /\ newPoolIDs = << >> /\ regErrs = << >> /\ failedRegistration = {}
      /\ capturedErrors = << >> /\ handled = << >> /\ entered = {}
  BY DEF Init
<1>2. DOMAIN registry = {} /\ registry \in [{} -> Row]
  BY <1>1
<1>3. valid \in [Column -> Seq(Pools)] /\ \A c \in Column : valid[c] = << >>
  BY <1>1 DEF NoValid
<1>4. "pool" \in Column
  BY DEF Column
<1>5. TypeOK
  BY <1>1, <1>2, <1>3, <1>4 DEF TypeOK
<1>6. NothingLeft /\ ValidPools /\ Rows /\ Registrations /\ Partition /\ Reports
  BY <1>1, <1>2, <1>3, <1>4 DEF NothingLeft, ValidPools, Rows, Registrations, Partition, Reports,
     Unlocked, Undecided, Added, IsInjective, Range
<1> QED BY <1>5, <1>6 DEF IInv

\* When a round begins its whole batch is undecided.
LEMMA StartRoundStep == IInv /\ StartRound => IInv'
<1> SUFFICES ASSUME IInv, StartRound PROVE IInv'
  OBVIOUS
<1> USE DEF IInv
<1>1. /\ pc = "idle" /\ pc' = "filtering" /\ unknownPools' \in Batches
      /\ failed' \subseteq DOMAIN unknownPools'
      /\ UNCHANGED <<registry, view, registered, next, valid, newPoolIDs, regErrs,
                     failedRegistration, capturedErrors, handled, entered>>
  BY DEF StartRound, history
<1>2. unknownPools' \in Seq(Pools) /\ IsInjective(unknownPools')
  BY <1>1, InitBatchAssumption
<1>3. /\ view = registry /\ next = 1 /\ failedRegistration = {} /\ capturedErrors = << >>
      /\ \A c \in Column : valid[c] = << >>
      /\ "pool" \in Column
  BY <1>1 DEF NothingLeft, Unlocked, NoValid, Column
<1>4. TypeOK'
  BY <1>1, <1>2 DEF TypeOK
<1>5. NothingLeft' /\ Rows' /\ Registrations' /\ Reports'
  BY <1>1, <1>3 DEF NothingLeft, Unlocked, Rows, Registrations, Reports, Added
<1>6. ValidPools'
  BY <1>1, <1>2, <1>3 DEF ValidPools, IsInjective, Range
<1>7. \A i \in DOMAIN unknownPools' : i >= 1
  BY <1>2
<1>8. Partition'
  BY <1>1, <1>3, <1>7 DEF Partition, Unlocked, Undecided, Added, IsInjective, Range
<1> QED BY <1>4, <1>5, <1>6, <1>8

\* A turn of the first loop reports a pool, or copies it to the end of every slice.
LEMMA FilterPoolStep == IInv /\ FilterPool => IInv'
<1> SUFFICES ASSUME IInv, FilterPool PROVE IInv'
  OBVIOUS
<1> USE DEF IInv
<1> DEFINE p == unknownPools[next]
           v == valid["pool"]
<1>1. /\ pc = "filtering" /\ next \in DOMAIN unknownPools /\ next' = next + 1
      /\ UNCHANGED <<registry, view, registered, pc, unknownPools, failed, newPoolIDs, regErrs,
                     failedRegistration, handled, entered>>
  BY DEF FilterPool, history
<1>2. /\ "pool" \in Column /\ p \in Pools /\ v \in Seq(Pools) /\ next \in Nat \ {0}
      /\ \A c \in Column : valid[c] = v
      /\ capturedErrors \in Seq(Pools) /\ IsInjective(capturedErrors)
      /\ failedRegistration = {} /\ DOMAIN unknownPools \subseteq Nat
  BY <1>1 DEF Column, TypeOK, ValidPools, Partition, Registrations
<1>3. p \in Undecided /\ p \notin Range(capturedErrors) /\ p \notin Added
  BY <1>1, <1>2 DEF Undecided, Partition
<1>4. p \notin Range(v)
  BY <1>1, <1>2 DEF ValidPools, Range
<1>5. NothingLeft' /\ Rows' /\ Reports'
  BY <1>1 DEF NothingLeft, Unlocked, Rows, Reports, Added
<1>6. Undecided = Range(v) \cup {unknownPools[i] : i \in {j \in DOMAIN unknownPools : j >= next}}
  BY <1>1 DEF Undecided
<1>7. {unknownPools[i] : i \in {j \in DOMAIN unknownPools : j >= next + 1}} =
        {unknownPools[i] : i \in {j \in DOMAIN unknownPools : j >= next}} \ {p}
  BY <1>1, <1>2 DEF ValidPools, IsInjective
<1>8. CASE next \in failed
  <2>1. capturedErrors' = Append(capturedErrors, p) /\ valid' = valid
    BY <1>8 DEF FilterPool
  <2>2. /\ capturedErrors' \in Seq(Pools) /\ IsInjective(capturedErrors')
        /\ Range(capturedErrors') = Range(capturedErrors) \cup {p}
    BY <2>1, <1>2, <1>3, AppendNew
  <2>3. TypeOK'
    BY <1>1, <1>2, <2>1, <2>2 DEF TypeOK
  <2>4. ValidPools' /\ Registrations'
    BY <1>1, <1>2, <2>1 DEF ValidPools, Registrations
  <2>5. Undecided' = Undecided \ {p}
    <3>1. Undecided' = Range(v) \cup {unknownPools[i] : i \in {j \in DOMAIN unknownPools : j >= next + 1}}
      BY <1>1, <2>1 DEF Undecided
    <3> QED BY <1>4, <1>6, <1>7, <3>1
  <2>6. Partition'
    BY <1>1, <1>3, <2>2, <2>5 DEF Partition, Unlocked, Added
  <2> QED BY <1>5, <2>3, <2>4, <2>6
<1>9. CASE next \notin failed
  <2>1. /\ capturedErrors' = capturedErrors
        /\ valid' = [c \in Column |->
                       Append(valid[c], IF c = "pool" THEN unknownPools[next] ELSE Result(next))]
    BY <1>9 DEF FilterPool
  <2>2. \A c \in Column : valid'[c] = Append(v, p)
    BY <1>2, <1>9, <2>1 DEF Result
  <2>3. /\ Append(v, p) \in Seq(Pools) /\ IsInjective(Append(v, p))
        /\ Range(Append(v, p)) = Range(v) \cup {p}
        /\ DOMAIN v \subseteq DOMAIN Append(v, p)
    <3> HIDE DEF p, v
    <3> QED BY <1>2, <1>4, AppendNew DEF ValidPools, v
  <2>4. valid'["pool"] = Append(v, p)
    BY <1>2, <2>2
  <2>5. TypeOK'
    <3>1. valid' \in [Column -> Seq(Pools)]
      BY <2>1, <2>2, <2>3
    <3> QED BY <1>1, <1>2, <2>1, <2>3, <3>1 DEF TypeOK
  <2>6. ValidPools'
    <3>1. \A c \in Column : valid'[c] = valid'["pool"]
      BY <2>2, <2>4
    <3>2. Range(valid'["pool"]) \subseteq Range(unknownPools)
      BY <1>1, <2>3, <2>4 DEF ValidPools, Range
    <3>3. \A q \in Range(Append(v, p)), i \in DOMAIN unknownPools :
            q = unknownPools[i] => i < next + 1
      <4>1. \A q \in Range(v), i \in DOMAIN unknownPools : q = unknownPools[i] => i < next
        BY <1>1 DEF ValidPools, Range
      <4>2. \A i \in DOMAIN unknownPools : p = unknownPools[i] => i = next
        BY <1>1 DEF ValidPools, IsInjective
      <4> QED BY <1>2, <2>3, <4>1, <4>2
    <3>4. \A k \in DOMAIN valid'["pool"] : valid'["pool"][k] \in Range(Append(v, p))
      BY <2>4 DEF Range
    <3> QED BY <1>1, <2>3, <2>4, <3>1, <3>2, <3>3, <3>4 DEF ValidPools
  <2>7. Registrations'
    BY <1>1, <1>2 DEF Registrations
  <2>8. Undecided' = Undecided
    <3>1. Undecided' = Range(Append(v, p)) \cup
                       {unknownPools[i] : i \in {j \in DOMAIN unknownPools : j >= next + 1}}
      BY <1>1, <2>4 DEF Undecided
    <3> QED BY <1>3, <1>6, <1>7, <2>3, <3>1
  <2>9. Partition'
    BY <1>1, <2>1, <2>8 DEF Partition, Unlocked, Added
  <2> QED BY <1>5, <2>5, <2>6, <2>7, <2>9
<1> QED BY <1>8, <1>9

\* registerPools answers at the positions of the valid pools.
LEMMA RegisterPoolsStep == IInv /\ RegisterPools => IInv'
<1> SUFFICES ASSUME IInv, RegisterPools PROVE IInv'
  OBVIOUS
<1> USE DEF IInv
<1> DEFINE v == valid["pool"]
<1>1. /\ pc = "filtering" /\ next \notin DOMAIN unknownPools /\ next' = 1
      /\ UNCHANGED <<registry, view, unknownPools, failed, valid, failedRegistration,
                     capturedErrors, handled, entered>>
  BY DEF RegisterPools, history
<1>2. /\ v \in Seq(Pools) /\ next \in Nat \ {0} /\ failedRegistration = {} /\ "pool" \in Column
      /\ unknownPools \in Seq(Pools)
  BY <1>1 DEF TypeOK, Registrations, Column
<1>3. \A k \in DOMAIN v, i \in DOMAIN unknownPools : v[k] = unknownPools[i] => i < next
  BY <1>1 DEF ValidPools
<1>4. Undecided = Range(v)
  <2>1. \A i \in DOMAIN unknownPools : i >= next => FALSE
    BY <1>1, <1>2
  <2>2. Undecided = Range(v) \cup {unknownPools[i] : i \in {j \in DOMAIN unknownPools : j >= next}}
    BY <1>1 DEF Undecided
  <2> QED BY <2>1, <2>2
<1>5. pc' \in {"publishing", "recording"}
  BY DEF RegisterPools
<1>6. NothingLeft' /\ Rows' /\ Reports'
  BY <1>1, <1>5 DEF NothingLeft, Unlocked, Rows, Reports, Added
<1>7. ValidPools'
  BY <1>1, <1>5 DEF ValidPools
<1>8. CASE v = << >>
  <2>1. pc' = "publishing" /\ UNCHANGED <<registered, newPoolIDs, regErrs>>
    BY <1>8 DEF RegisterPools
  <2>2. Undecided' = {} /\ Undecided = {}
    BY <1>4, <1>8, <2>1 DEF Undecided, Range
  <2>3. TypeOK'
    BY <1>1, <2>1 DEF TypeOK
  <2>4. Registrations' /\ Partition'
    BY <1>1, <2>1, <2>2 DEF Registrations, Partition, Unlocked, Added
  <2> QED BY <1>6, <1>7, <2>3, <2>4
<1>9. CASE v # << >>
  <2>1. PICK bad \in SUBSET DOMAIN v :
          /\ newPoolIDs' = [i \in DOMAIN v |-> IF i \in bad THEN Zero ELSE v[i]]
          /\ \/ regErrs' = [i \in DOMAIN v |-> i \in bad]
             \/ bad = {} /\ regErrs' = << >>
          /\ registered' = registered \cup {v[i] : i \in DOMAIN v \ bad}
    BY <1>9 DEF RegisterPools
  <2>2. pc' = "recording"
    BY <1>9 DEF RegisterPools
  <2>3. DOMAIN v = 1 .. Len(v) /\ Len(v) \in Nat /\ \A i \in DOMAIN v : v[i] \in Pools
    BY <1>2
  <2>4. newPoolIDs' \in Seq(Pools \cup {Zero}) /\ Len(newPoolIDs') = Len(v)
    BY <2>1, <2>3
  <2>5. regErrs' \in Seq(BOOLEAN) /\ DOMAIN regErrs' \subseteq DOMAIN v
    <3>1. CASE regErrs' = [i \in DOMAIN v |-> i \in bad]
      BY <2>3, <3>1
    <3>2. CASE regErrs' = << >>
      <4>1. DOMAIN regErrs' = {}
        BY <3>2
      <4> QED BY <3>2, <4>1
    <3> QED BY <2>1, <3>1, <3>2
  <2>6. registered' \subseteq Pools
    BY <2>1, <2>3 DEF TypeOK
  <2>7. TypeOK'
    BY <1>1, <2>2, <2>4, <2>5, <2>6 DEF TypeOK
  <2>8. \A i \in DOMAIN v : newPoolIDs'[i] = v[i] \/ (i \in DOMAIN regErrs' /\ regErrs'[i])
    BY <2>1
  <2>9. {i \in DOMAIN regErrs' : i < 1 /\ regErrs'[i]} = {}
    BY <2>3, <2>5
  <2>10. Registrations'
    BY <1>1, <1>2, <2>2, <2>4, <2>5, <2>8, <2>9 DEF Registrations
  <2>11. Undecided' = Undecided
    BY <1>1, <1>2, <1>4, <2>2 DEF Undecided, ValidAt, Range
  <2>12. Partition'
    BY <1>1, <2>2, <2>11 DEF Partition, Unlocked, Added
  <2> QED BY <1>6, <1>7, <2>7, <2>10, <2>12
<1> QED BY <1>8, <1>9

\* A turn over the registration errors reports a pool and marks its position.
LEMMA RecordRegistrationStep == IInv /\ RecordRegistration => IInv'
<1> SUFFICES ASSUME IInv, RecordRegistration PROVE IInv'
  OBVIOUS
<1> USE DEF IInv
<1> DEFINE v == valid["pool"]
<1>1. /\ pc = "recording" /\ next \in DOMAIN regErrs /\ next' = next + 1
      /\ UNCHANGED <<registry, view, registered, pc, unknownPools, failed, valid, newPoolIDs, regErrs,
                     handled, entered>>
  BY DEF RecordRegistration, history
<1>2. /\ v \in Seq(Pools) /\ next \in Nat \ {0} /\ "pool" \in Column
      /\ capturedErrors \in Seq(Pools) /\ IsInjective(capturedErrors) /\ IsInjective(v)
      /\ regErrs \in Seq(BOOLEAN) /\ DOMAIN regErrs \subseteq DOMAIN v
      /\ failedRegistration = {i \in DOMAIN regErrs : i < next /\ regErrs[i]}
  BY <1>1 DEF TypeOK, Registrations, ValidPools, Partition, Column
<1>3. next \in DOMAIN v /\ v[next] \in Pools /\ next \notin failedRegistration
  BY <1>1, <1>2
<1>4. Undecided = ValidAt(DOMAIN v \ failedRegistration)
  BY <1>1 DEF Undecided
<1>5. Undecided' = ValidAt(DOMAIN v \ failedRegistration')
  BY <1>1 DEF Undecided, ValidAt
<1>6. v[next] \in Undecided
  BY <1>3, <1>4 DEF ValidAt
<1>7. NothingLeft' /\ Rows' /\ ValidPools' /\ Reports'
  BY <1>1 DEF NothingLeft, Unlocked, Rows, Added, ValidPools, Reports
<1>8. DOMAIN regErrs \subseteq Nat
  BY <1>2
<1>9. CASE regErrs[next]
  <2>1. /\ capturedErrors' = Append(capturedErrors, v[next])
        /\ failedRegistration' = failedRegistration \cup {next}
    BY <1>9 DEF RecordRegistration
  <2>2. v[next] \notin Range(capturedErrors) /\ v[next] \notin Added
    BY <1>6 DEF Partition
  <2>3. /\ capturedErrors' \in Seq(Pools) /\ IsInjective(capturedErrors')
        /\ Range(capturedErrors') = Range(capturedErrors) \cup {v[next]}
    BY <1>2, <1>3, <2>1, <2>2, AppendNew
  <2>4. TypeOK'
    BY <1>1, <1>2, <1>3, <2>1, <2>3 DEF TypeOK
  <2>5. failedRegistration' = {i \in DOMAIN regErrs : i < next + 1 /\ regErrs[i]}
    BY <1>1, <1>2, <1>8, <1>9, <2>1
  <2>6. Registrations'
    BY <1>1, <2>5 DEF Registrations
  <2>7. Undecided' = Undecided \ {v[next]}
    BY <1>2, <1>3, <1>4, <1>5, <2>1 DEF ValidAt, IsInjective
  <2>8. Partition'
    BY <1>1, <1>6, <2>2, <2>3, <2>7 DEF Partition, Unlocked, Added
  <2> QED BY <1>7, <2>4, <2>6, <2>8
<1>10. CASE ~regErrs[next]
  <2>1. UNCHANGED <<capturedErrors, failedRegistration>>
    BY <1>10 DEF RecordRegistration
  <2>2. TypeOK'
    BY <1>1, <1>2, <2>1 DEF TypeOK
  <2>3. failedRegistration' = {i \in DOMAIN regErrs : i < next + 1 /\ regErrs[i]}
    BY <1>1, <1>2, <1>8, <1>10, <2>1
  <2>4. Registrations'
    BY <1>1, <2>3 DEF Registrations
  <2>5. Partition'
    BY <1>1, <1>4, <1>5, <2>1 DEF Partition, Unlocked, Added
  <2> QED BY <1>7, <2>2, <2>4, <2>5
<1> QED BY <1>9, <1>10

\* Once all errors are recorded, an unmarked position has its pool's ID.
LEMMA RegistrationsRecordedStep == IInv /\ RegistrationsRecorded => IInv'
<1> SUFFICES ASSUME IInv, RegistrationsRecorded PROVE IInv'
  OBVIOUS
<1> USE DEF IInv
<1> DEFINE v == valid["pool"]
<1>1. /\ pc = "recording" /\ next \notin DOMAIN regErrs /\ pc' = "adding" /\ next' = 1
      /\ UNCHANGED <<registry, view, registered, unknownPools, failed, valid, newPoolIDs, regErrs,
                     failedRegistration, capturedErrors, handled, entered>>
  BY DEF RegistrationsRecorded, round, history
<1>2. /\ v \in Seq(Pools) /\ next \in Nat \ {0} /\ regErrs \in Seq(BOOLEAN)
      /\ failedRegistration = {i \in DOMAIN regErrs : i < next /\ regErrs[i]}
      /\ \A i \in DOMAIN v : newPoolIDs[i] = v[i] \/ (i \in DOMAIN regErrs /\ regErrs[i])
  BY <1>1 DEF TypeOK, Registrations, Column
<1>3. \A i \in DOMAIN regErrs : i < next
  BY <1>1, <1>2
<1>4. \A i \in DOMAIN v \ failedRegistration : newPoolIDs[i] = v[i]
  BY <1>2, <1>3
<1>5. TypeOK' /\ NothingLeft' /\ ValidPools' /\ Rows' /\ Reports'
  BY <1>1 DEF TypeOK, NothingLeft, Unlocked, ValidPools, Rows, Reports, Added
<1>6. Registrations'
  BY <1>1, <1>4 DEF Registrations
<1>7. {i \in DOMAIN v : i >= 1} = DOMAIN v
  BY <1>2
<1>8. Undecided' = Undecided
  BY <1>1, <1>7 DEF Undecided, ValidAt
<1>9. Partition'
  BY <1>1, <1>8 DEF Partition, Unlocked, Added
<1> QED BY <1>5, <1>6, <1>9

\* addPool and updatePool report the pool, or make the row of the pool's own values.
LEMMA RowOfPool ==
  ASSUME IInv, pc = "adding", NEW i \in DOMAIN valid["pool"], i \notin failedRegistration,
         AddValidPool(i)
  PROVE  \/ /\ capturedErrors' = Append(capturedErrors, valid["pool"][i])
            /\ UNCHANGED registry
         \/ /\ UNCHANGED capturedErrors
            /\ valid["pool"][i] \notin DOMAIN registry
            /\ registry' = WithRow(valid["pool"][i], OwnRow(valid["pool"][i]))
<1> DEFINE p == valid["pool"][i]
           added == WithRow(p, NewRow(i))
<1>1. newPoolIDs[i] = p /\ \A c \in Column : valid[c][i] = p
  BY DEF IInv, Registrations, ValidPools
<1>2. CASE capturedErrors' = Append(capturedErrors, p) /\ UNCHANGED registry
  BY <1>2
<1>3. CASE ~(capturedErrors' = Append(capturedErrors, p) /\ UNCHANGED registry)
  <2>1. p \in DOMAIN added /\ DOMAIN added = DOMAIN registry \cup {p}
    BY DEF WithRow
  <2>2. /\ p \in registered \ DOMAIN registry
        /\ registry' = [added EXCEPT ![p] = [c \in Columns |->
                          IF c \in {"reserve0", "reserve1"} THEN InitialReserves(i)[c] ELSE @[c]]]
        /\ UNCHANGED capturedErrors
    BY <1>1, <1>3, <2>1 DEF AddValidPool
  <2>3. added[p] = NewRow(i)
    BY DEF WithRow
  <2>4. [c \in Columns |-> IF c \in {"reserve0", "reserve1"} THEN InitialReserves(i)[c]
                                                             ELSE added[p][c]] = OwnRow(p)
    <3>1. InitialReserves(i)["reserve0"] = p /\ InitialReserves(i)["reserve1"] = p
      BY <1>1 DEF InitialReserves, Column, Columns
    <3>2. \A c \in Columns \ {"reserve0", "reserve1"} : NewRow(i)[c] = p
      BY <1>1 DEF NewRow, Column
    <3> QED BY <2>3, <3>1, <3>2 DEF OwnRow
  <2>5. registry' = [added EXCEPT ![p] = OwnRow(p)]
    BY <2>2, <2>4
  <2>6. registry' = WithRow(p, OwnRow(p))
    BY <2>5 DEF WithRow
  <2> QED BY <2>2, <2>6
<1> QED BY <1>2, <1>3

\* A turn of the last loop adds a pool with a row of its own, or reports it.
LEMMA AddPoolStep == IInv /\ AddPool => IInv'
<1> SUFFICES ASSUME IInv, AddPool PROVE IInv'
  OBVIOUS
<1> USE DEF IInv
<1> DEFINE v == valid["pool"]
           p == v[next]
<1>1. /\ pc = "adding" /\ next \in DOMAIN v /\ next' = next + 1
      /\ UNCHANGED <<view, registered, pc, unknownPools, failed, valid, newPoolIDs, regErrs,
                     failedRegistration, handled, entered>>
  BY DEF AddPool, round, history
<1>2. /\ v \in Seq(Pools) /\ next \in Nat \ {0} /\ p \in Pools /\ DOMAIN v \subseteq Nat
      /\ capturedErrors \in Seq(Pools) /\ IsInjective(capturedErrors) /\ IsInjective(v)
  BY <1>1 DEF TypeOK, ValidPools, Partition, Column
<1>3. Undecided = ValidAt({i \in DOMAIN v : i >= next} \ failedRegistration)
  BY <1>1 DEF Undecided
<1>4. Undecided' = ValidAt({i \in DOMAIN v : i >= next + 1} \ failedRegistration)
  BY <1>1 DEF Undecided, ValidAt
<1>5. {i \in DOMAIN v : i >= next} = {i \in DOMAIN v : i >= next + 1} \cup {next}
  BY <1>1, <1>2
<1>6. next \notin {i \in DOMAIN v : i >= next + 1}
  BY <1>2
<1>7. NothingLeft' /\ ValidPools' /\ Registrations' /\ Reports'
  BY <1>1 DEF NothingLeft, Unlocked, ValidPools, Registrations, Reports
<1>8. CASE next \in failedRegistration
  <2>1. UNCHANGED <<registry, capturedErrors>>
    BY <1>8 DEF AddPool
  <2>2. Undecided' = Undecided
    BY <1>3, <1>4, <1>5, <1>8
  <2>3. TypeOK' /\ Rows'
    BY <1>1, <1>2, <2>1 DEF TypeOK, Rows, Added
  <2>4. Partition'
    BY <1>1, <2>1, <2>2 DEF Partition, Unlocked, Added
  <2> QED BY <1>7, <2>3, <2>4
<1>9. CASE next \notin failedRegistration
  <2>1. AddValidPool(next)
    BY <1>9 DEF AddPool
  <2>2. p \in Undecided /\ Undecided' = Undecided \ {p}
    <3>1. Undecided = ValidAt({i \in DOMAIN v : i >= next + 1} \ failedRegistration) \cup {p}
      BY <1>3, <1>5, <1>9 DEF ValidAt
    <3>2. p \notin ValidAt({i \in DOMAIN v : i >= next + 1} \ failedRegistration)
      BY <1>1, <1>2, <1>6 DEF ValidAt, IsInjective
    <3> QED BY <1>4, <3>1, <3>2
  <2>3. p \notin Range(capturedErrors) /\ p \notin Added
    BY <2>2 DEF Partition
  <2>4. CASE capturedErrors' = Append(capturedErrors, p) /\ UNCHANGED registry
    <3>1. /\ capturedErrors' \in Seq(Pools) /\ IsInjective(capturedErrors')
          /\ Range(capturedErrors') = Range(capturedErrors) \cup {p}
      BY <1>2, <2>3, <2>4, AppendNew
    <3>2. TypeOK' /\ Rows'
      BY <1>1, <1>2, <2>4, <3>1 DEF TypeOK, Rows, Added
    <3>3. Partition'
      BY <1>1, <2>2, <2>3, <2>4, <3>1 DEF Partition, Unlocked, Added
    <3> QED BY <1>7, <3>2, <3>3
  <2>5. CASE /\ UNCHANGED capturedErrors
             /\ p \notin DOMAIN registry
             /\ registry' = WithRow(p, OwnRow(p))
    <3>1. /\ DOMAIN registry' = DOMAIN registry \cup {p}
          /\ registry'[p] = OwnRow(p)
          /\ \A q \in DOMAIN registry : registry'[q] = registry[q]
      BY <2>5 DEF WithRow
    <3>2. Added' = Added \cup {p}
      BY <1>1, <2>5, <3>1 DEF Added, Rows
    <3>3. OwnRow(p) \in Row
      BY <1>2 DEF OwnRow, Row
    <3>4. DOMAIN registry' \subseteq Pools /\ registry' \in [DOMAIN registry' -> Row]
      BY <1>2, <2>5, <3>1, <3>3 DEF TypeOK, WithRow
    <3>5. TypeOK'
      BY <1>1, <1>2, <2>5, <3>4 DEF TypeOK
    <3>6. Rows'
      <4>1. \A q \in DOMAIN view : q \in DOMAIN registry' /\ registry'[q] = view[q]
        BY <3>1 DEF Rows
      <4>2. \A q \in Added' : registry'[q] = OwnRow(q)
        BY <3>1, <3>2 DEF Rows, Added
      <4> QED BY <1>1, <4>1, <4>2 DEF Rows, OwnRow
    <3>7. Partition'
      BY <1>1, <2>2, <2>3, <2>5, <3>2 DEF Partition, Unlocked
    <3> QED BY <1>7, <3>5, <3>6, <3>7
  <2> QED BY <1>1, <1>9, <2>1, <2>4, <2>5, RowOfPool
<1> QED BY <1>8, <1>9

\* After the last turn no pool is undecided.
LEMMA PoolsAddedStep == IInv /\ PoolsAdded => IInv'
<1> SUFFICES ASSUME IInv, PoolsAdded PROVE IInv'
  OBVIOUS
<1> USE DEF IInv
<1>1. /\ pc = "adding" /\ next \notin DOMAIN valid["pool"] /\ pc' = "publishing"
      /\ UNCHANGED <<registry, view, registered, next, unknownPools, failed, valid, newPoolIDs,
                     regErrs, failedRegistration, capturedErrors, handled, entered>>
  BY DEF PoolsAdded, round, history
<1>2. valid["pool"] \in Seq(Pools) /\ next \in Nat \ {0}
  BY DEF TypeOK, Column
<1>3. \A i \in DOMAIN valid["pool"] : i >= next => FALSE
  BY <1>1, <1>2
<1>4. Undecided = {} /\ Undecided' = {}
  BY <1>1, <1>3 DEF Undecided, ValidAt
<1>5. TypeOK' /\ NothingLeft' /\ ValidPools' /\ Rows' /\ Registrations' /\ Reports'
  BY <1>1 DEF TypeOK, NothingLeft, Unlocked, ValidPools, Rows, Added, Registrations, Reports
<1>6. Partition'
  BY <1>1, <1>4 DEF Partition, Unlocked, Added
<1> QED BY <1>5, <1>6

\* At the end of a round the registry is the view with the rows added since, and the round
\* publishes if there are any.
LEMMA EndOfRound ==
  ASSUME IInv, pc = "publishing"
  PROVE  /\ IsInjective(capturedErrors)
         /\ Range(capturedErrors) = Range(unknownPools) \ Added
         /\ ~(successfulInits > 0) => registry = view
<1>1. Undecided = {}
  BY DEF Undecided
<1>2. IsInjective(capturedErrors) /\ Range(capturedErrors) = Range(unknownPools) \ Added
  BY <1>1 DEF IInv, Partition, Unlocked
<1>3. ASSUME ~(successfulInits > 0) PROVE registry = view
  <2>1. Range(capturedErrors) = Range(unknownPools)
    <3>1. /\ capturedErrors \in Seq(Pools) /\ unknownPools \in Seq(Pools)
          /\ IsInjective(unknownPools)
      BY DEF IInv, TypeOK, ValidPools
    <3>2. Range(capturedErrors) \subseteq Range(unknownPools)
      BY <1>2
    <3>3. ~(Len(unknownPools) - Len(capturedErrors) > 0)
      BY <1>3 DEF successfulInits
    <3> QED BY <1>2, <3>1, <3>2, <3>3, AllReported
  <2>2. Added = {}
    BY <1>1, <2>1 DEF IInv, Partition, Unlocked
  <2>3. DOMAIN registry = DOMAIN view /\ \A p \in DOMAIN view : registry[p] = view[p]
    BY <2>2 DEF IInv, Rows, Added
  <2> QED BY <2>3 DEF IInv, TypeOK
<1> QED BY <1>2, <1>3

\* The count of errors tells whether a pool was added, so nothing added stays unpublished.
LEMMA PublishStep == IInv /\ Publish => IInv'
<1> SUFFICES ASSUME IInv, Publish PROVE IInv'
  OBVIOUS
<1> USE DEF IInv
<1>1. /\ pc = "publishing" /\ pc' = "reporting" /\ next' = 1
      /\ failed' = {} /\ valid' = NoValid
      /\ newPoolIDs' = << >> /\ regErrs' = << >> /\ failedRegistration' = {}
      /\ view' = IF successfulInits > 0 THEN registry ELSE view
      /\ entered' = DOMAIN view' \ DOMAIN view
      /\ UNCHANGED <<registry, registered, unknownPools, capturedErrors, handled>>
  BY DEF Publish
<1>2. view' = registry /\ entered' = Added
  BY <1>1, EndOfRound DEF Added
<1>3. valid' \in [Column -> Seq(Pools)] /\ \A c \in Column : valid'[c] = << >>
  BY <1>1 DEF NoValid
<1>4. "pool" \in Column
  BY DEF Column
<1>5. TypeOK'
  BY <1>1, <1>2, <1>3, <1>4 DEF TypeOK, Added
<1>6. Added' = {} /\ Undecided' = {}
  BY <1>1, <1>2 DEF Added, Undecided
<1>7. NothingLeft' /\ ValidPools' /\ Rows' /\ Registrations' /\ Partition'
  BY <1>1, <1>2, <1>3, <1>4, <1>6 DEF NothingLeft, Unlocked, ValidPools, Rows, Registrations,
     Partition, IsInjective, Range
<1>8. handled = << >> /\ capturedErrors \in Seq(Pools)
  BY <1>1 DEF Reports, TypeOK
<1>9. Reports'
  BY <1>1, <1>2, <1>8, EndOfRound DEF Reports
<1> QED BY <1>5, <1>7, <1>9

\* A turn of the loop over the errors handles the next one.
LEMMA ReportErrorStep == IInv /\ ReportError => IInv'
<1> SUFFICES ASSUME IInv, ReportError PROVE IInv'
  OBVIOUS
<1> USE DEF IInv
<1>1. /\ pc = "reporting" /\ next \in DOMAIN capturedErrors /\ next' = next + 1
      /\ handled' = Append(handled, capturedErrors[next])
      /\ UNCHANGED <<registry, view, registered, pc, unknownPools, failed, valid, newPoolIDs,
                     regErrs, failedRegistration, capturedErrors, entered>>
  BY DEF ReportError, round
<1>2. /\ capturedErrors \in Seq(Pools) /\ handled \in Seq(Pools) /\ next \in Nat \ {0}
      /\ Len(handled) = next - 1
      /\ \A i \in DOMAIN handled : handled[i] = capturedErrors[i]
  BY <1>1 DEF TypeOK, Reports
<1>3. /\ handled' \in Seq(Pools) /\ Len(handled') = next /\ next <= Len(capturedErrors)
      /\ \A i \in DOMAIN handled' : handled'[i] = capturedErrors[i]
  BY <1>1, <1>2
<1>4. TypeOK' /\ NothingLeft' /\ ValidPools' /\ Rows' /\ Registrations'
  BY <1>1, <1>2, <1>3 DEF TypeOK, NothingLeft, Unlocked, ValidPools, Rows, Added, Registrations
<1>5. Partition'
  BY <1>1 DEF Partition, Unlocked, Undecided, Added
<1>6. Reports'
  BY <1>1, <1>2, <1>3 DEF Reports
<1> QED BY <1>4, <1>5, <1>6

\* When the loop is done every error was handled, in its place.
LEMMA AllHandled ==
  ASSUME IInv, pc = "reporting", next \notin DOMAIN capturedErrors
  PROVE  handled = capturedErrors
<1>1. /\ capturedErrors \in Seq(Pools) /\ handled \in Seq(Pools) /\ next \in Nat \ {0}
      /\ Len(handled) = next - 1 /\ Len(handled) <= Len(capturedErrors)
      /\ \A i \in DOMAIN handled : handled[i] = capturedErrors[i]
  BY DEF IInv, TypeOK, Reports
<1>2. Len(handled) = Len(capturedErrors)
  BY <1>1
<1> QED BY <1>1, <1>2

\* The local variables are gone when the function returns.
LEMMA EndRoundStep == IInv /\ EndRound => IInv'
<1> SUFFICES ASSUME IInv, EndRound PROVE IInv'
  OBVIOUS
<1> USE DEF IInv
<1>1. /\ pc = "reporting" /\ pc' = "idle" /\ next' = 1
      /\ unknownPools' = << >> /\ capturedErrors' = << >> /\ handled' = << >> /\ entered' = {}
      /\ UNCHANGED <<registry, view, registered, failed, valid, newPoolIDs, regErrs,
                     failedRegistration>>
  BY DEF EndRound
<1>2. view = registry /\ valid = NoValid /\ failedRegistration = {}
  BY <1>1 DEF NothingLeft, Unlocked
<1>3. "pool" \in Column /\ \A c \in Column : valid[c] = << >>
  BY <1>2 DEF Column, NoValid
<1>4. Added' = {} /\ Undecided' = {}
  BY <1>1, <1>2 DEF Added, Undecided
<1>5. failed = {}
  BY <1>1 DEF NothingLeft, Unlocked
<1>6. TypeOK'
  BY <1>1, <1>5 DEF TypeOK
<1>7. NothingLeft' /\ ValidPools' /\ Rows' /\ Registrations' /\ Partition' /\ Reports'
  BY <1>1, <1>2, <1>3, <1>4 DEF NothingLeft, Unlocked, ValidPools, Rows, Registrations,
     Partition, Reports, IsInjective, Range
<1> QED BY <1>6, <1>7

\* While the lock is free the other writers change the registry and the view alike.
LEMMA OtherWriterStep ==
  ASSUME NEW p \in Pools, IInv, Sync(p) \/ Delete(p)
  PROVE  IInv'
<1> USE DEF IInv
<1>1. /\ Unlocked /\ Unlocked' /\ p \in DOMAIN registry /\ view' = registry'
      /\ UNCHANGED <<registered, pc, next, unknownPools, failed, valid, newPoolIDs, regErrs,
                     failedRegistration, capturedErrors, handled, entered>>
  BY DEF Sync, Delete, round, history, Unlocked
<1>2. registry \in [DOMAIN registry -> Row] /\ DOMAIN registry \subseteq Pools
  BY DEF TypeOK
<1>3. DOMAIN registry' \subseteq Pools /\ registry' \in [DOMAIN registry' -> Row]
  <2>1. CASE Sync(p)
    <3>1. registry[p] \in [Columns -> Pools \cup {Zero, Synced}]
      BY <1>1, <1>2 DEF Row
    <3>2. [registry[p] EXCEPT !["reserve0"] = Synced, !["reserve1"] = Synced] \in Row
      BY <3>1 DEF Row
    <3> QED BY <1>1, <1>2, <2>1, <3>2 DEF Sync
  <2>2. CASE Delete(p)
    BY <1>1, <1>2, <2>2 DEF Delete, Restrict
  <2> QED BY <2>1, <2>2
<1>4. TypeOK'
  BY <1>1, <1>3 DEF TypeOK
<1>5. Added' = {} /\ Undecided' = {} /\ Undecided = {}
  BY <1>1 DEF Added, Undecided, Unlocked
<1>6. NothingLeft' /\ ValidPools' /\ Rows' /\ Registrations' /\ Reports'
  BY <1>1, <1>5 DEF NothingLeft, ValidPools, Rows, Registrations, Reports, Unlocked
<1>7. Partition'
  BY <1>1, <1>5 DEF Partition
<1> QED BY <1>4, <1>6, <1>7

\* Nothing changes, and the invariant with it.
LEMMA StutterStep == IInv /\ UNCHANGED vars => IInv'
<1> SUFFICES ASSUME IInv, UNCHANGED vars PROVE IInv'
  OBVIOUS
<1>1. UNCHANGED <<registry, view, registered, pc, next, unknownPools, failed, valid, newPoolIDs,
                  regErrs, failedRegistration, capturedErrors, handled, entered>>
  BY DEF vars, round, history
<1> QED BY <1>1 DEF IInv, TypeOK, NothingLeft, Unlocked, ValidPools, Rows, Registrations,
        Partition, Reports, Added, Undecided, ValidAt

\* The inductive invariant always holds.
LEMMA Invariance == Spec => []IInv
<1>1. IInv /\ [Next]_vars => IInv'
  BY StartRoundStep, FilterPoolStep, RegisterPoolsStep, RecordRegistrationStep,
     RegistrationsRecordedStep, AddPoolStep, PoolsAddedStep, PublishStep, ReportErrorStep,
     EndRoundStep, OtherWriterStep, StutterStep DEF Next
<1> QED BY InitIInv, <1>1, PTL DEF Spec

-----------------------------------------------------------------------------
\* The registry, the view and the slices of a round always have their types: no slice of
\* valid pools ever takes the zero value that a failed goroutine left behind.
THEOREM TypeCorrect == Spec => []TypeOK
<1>1. IInv => TypeOK
  BY DEF IInv
<1> QED BY <1>1, Invariance, PTL

\* Whatever fails, every pool of a batch enters the view or is reported once, and not both.
THEOREM EachAddedOrReported == Spec => []AddedOrReported
<1>1. IInv => AddedOrReported
  <2> SUFFICES ASSUME IInv, pc = "reporting", next \notin DOMAIN capturedErrors
               PROVE  IsInjective(handled) /\ Range(handled) = Range(unknownPools) \ entered
    BY DEF AddedOrReported
  <2> QED BY AllHandled DEF IInv, Partition, Reports
<1> QED BY <1>1, Invariance, PTL

\* The count that decides on publication is positive whenever something was added, so that
\* the view is the registry whenever the lock is free.
THEOREM EachRoundPublished == Spec => []RoundsArePublished
<1>1. IInv => RoundsArePublished
  BY DEF IInv, NothingLeft, RoundsArePublished
<1> QED BY <1>1, Invariance, PTL

\* The view changes as Initializations says: in a round some pools enter, each in a row of
\* its own values, and no other row changes.
THEOREM Refinement == Spec => RefinesInitializations
<1> USE DEF Abstract!OwnRow, Abstract!Columns, Columns
<1>1. Init => Abstract!Init
  BY DEF Init, Abstract!Init
<1>2. IInv /\ [Next]_vars => [Abstract!Next]_view
  <2> SUFFICES ASSUME IInv, [Next]_vars PROVE Abstract!Next \/ view' = view
    OBVIOUS
  <2>1. CASE Publish
    <3>1. /\ pc = "publishing" /\ view' = IF successfulInits > 0 THEN registry ELSE view
      BY <2>1 DEF Publish
    <3>2. CASE successfulInits > 0
      <4>1. /\ DOMAIN registry = DOMAIN view \cup Added /\ Added \cap DOMAIN view = {}
            /\ registry = [p \in DOMAIN registry |-> registry[p]]
            /\ Added \subseteq Pools
        BY DEF IInv, TypeOK, Rows, Added
      <4>2. \A p \in DOMAIN registry :
              registry[p] = IF p \in Added THEN Abstract!OwnRow(p) ELSE view[p]
        BY <4>1 DEF IInv, Rows, OwnRow
      <4>3. Abstract!Enter(Added)
        BY <3>1, <3>2, <4>1, <4>2 DEF Abstract!Enter
      <4> QED BY <4>1, <4>3 DEF Abstract!Next
    <3> QED BY <3>1, <3>2
  <2>2. ASSUME NEW p \in Pools, Sync(p) \/ Delete(p) PROVE Abstract!Next
    <3>1. view = registry /\ view' = registry' /\ p \in DOMAIN registry
      BY <2>2 DEF IInv, NothingLeft, Sync, Delete, Unlocked
    <3>2. Abstract!Sync(p) \/ Abstract!Delete(p)
      BY <2>2, <3>1 DEF Sync, Delete, Restrict, Abstract!Sync, Abstract!Delete
    <3> QED BY <3>2 DEF Abstract!Next
  <2>3. CASE \/ StartRound \/ FilterPool \/ RegisterPools \/ RecordRegistration
             \/ RegistrationsRecorded \/ AddPool \/ PoolsAdded \/ ReportError \/ EndRound
             \/ UNCHANGED vars
    BY <2>3 DEF StartRound, FilterPool, RegisterPools, RecordRegistration,
       RegistrationsRecorded, AddPool, PoolsAdded, ReportError, EndRound, vars
  <2> QED BY <2>1, <2>2, <2>3 DEF Next
<1> QED BY <1>1, <1>2, Invariance, PTL DEF Spec, RefinesInitializations, Abstract!Spec
=============================================================================
