---------------------------- MODULE LogRetryProofs ----------------------------
(***************************************************************************)
(* Proofs about LogRetry, for every number of retries, every lag and every *)
(* width of the int: what a call tells, and how many steps it makes.       *)
(***************************************************************************)
EXTENDS LogRetry, TLAPS

\* The attempts made are the turns of the loop, and the result is set on return.
Attempts ==
  /\ i = 0 \/ i <= maxAttempts
  /\ asked = 0 \/ asked <= maxAttempts
  /\ pc = "loop" => asked = i /\ timer = 0
  /\ pc = "asking" => asked = i + 1 /\ asked <= maxAttempts /\ timer = 0
  /\ pc = "waiting" => asked = i + 1 /\ asked < maxAttempts
  /\ pc # "returned" => result = "none"
  /\ result = "empty" => asked = i /\ i >= maxAttempts

\* As many delays have passed as there were retries, one more once the timer has fired.
Elapsed ==
  canonical = "block" =>
    /\ InLoop \/ pc = "asking" => readyIn = 0 \/ readyIn + i <= lag
    /\ pc = "waiting" => readyIn = 0 \/ readyIn + i + 1 - timer <= lag

\* What the last attempt tells about the node.
LastAttempt ==
  /\ Valid /\ canonical = "block" /\ "block" \in withLogs
  /\ result = "empty" \/ (pc = "loop" /\ i = maxAttempts)
  => lag > logMaxRetries

\* The inductive invariant.
IInv == TypeOK /\ Attempts /\ Elapsed /\ LastAttempt

-----------------------------------------------------------------------------
\* The number of attempts is an int, and one more than the retries unless that overflows.
LEMMA MaxAttempts ==
  ASSUME logMaxRetries \in LogMaxRetries
  PROVE  /\ MaxInt \in Nat /\ logMaxRetries \in Int
         /\ maxAttempts \in Int /\ maxAttempts <= MaxInt
         /\ Valid => maxAttempts = 1 + logMaxRetries /\ maxAttempts > 0
  BY LogRetryAssumption DEF maxAttempts, Valid

\* The invariant holds when the call begins.
LEMMA InitIInv == Init => IInv
<1> SUFFICES ASSUME Init PROVE IInv
  OBVIOUS
<1>1. MaxInt \in Nat /\ MaxLag \in Nat /\ maxAttempts \in Int /\ (Valid => maxAttempts > 0)
  BY MaxAttempts, LogRetryAssumption DEF Init
<1>2. TypeOK
  <2>1. /\ logMaxRetries \in LogMaxRetries /\ withLogs \subseteq Block /\ canonical = "block"
        /\ lag \in 0 .. MaxLag /\ readyIn = lag /\ ctxDone = FALSE
        /\ pc = "loop" /\ i = 0 /\ timer = 0 /\ asked = 0 /\ result = "none"
    BY DEF Init
  <2>2. 0 \in 0 .. MaxInt
    BY <1>1
  <2> QED BY <2>1, <2>2 DEF TypeOK, Block
<1>3. Attempts /\ Elapsed /\ LastAttempt
  BY <1>1 DEF Init, Attempts, Elapsed, LastAttempt
<1> QED BY <1>2, <1>3 DEF IInv

\* An attempt is a turn of the loop.
LEMMA AskStep == IInv /\ Ask => IInv'
<1> SUFFICES ASSUME IInv, Ask PROVE IInv'
  OBVIOUS
<1> USE DEF IInv
<1>1. /\ InLoop /\ pc = "loop" /\ i < maxAttempts /\ pc' = "asking" /\ asked' = asked + 1
      /\ UNCHANGED <<logMaxRetries, withLogs, canonical, lag, readyIn, ctxDone, i, timer, result>>
  BY DEF Ask, InLoop, node
<1>2. /\ maxAttempts \in Int /\ maxAttempts <= MaxInt /\ MaxInt \in Nat
      /\ maxAttempts' = maxAttempts
  BY <1>1, MaxAttempts DEF TypeOK, maxAttempts
<1>3. i \in Nat /\ asked = i /\ timer = 0 /\ result = "none"
  BY <1>1 DEF TypeOK, Attempts
<1> QED BY <1>1, <1>2, <1>3 DEF TypeOK, Attempts, Elapsed, LastAttempt, InLoop

\* The answer to the last attempt tells that the node needed longer.
LEMMA AnswerStep == IInv /\ Answer => IInv'
<1> SUFFICES ASSUME IInv, Answer PROVE IInv'
  OBVIOUS
<1> USE DEF IInv
<1>1. /\ pc = "asking"
      /\ UNCHANGED <<logMaxRetries, withLogs, canonical, lag, readyIn, ctxDone, asked>>
  BY DEF Answer, node
<1>2. /\ maxAttempts \in Int /\ maxAttempts <= MaxInt /\ MaxInt \in Nat /\ logMaxRetries \in Int
      /\ Valid => maxAttempts = 1 + logMaxRetries
  BY MaxAttempts DEF TypeOK
<1>3. maxAttempts' = maxAttempts /\ (Valid' <=> Valid)
  BY <1>1 DEF maxAttempts, Valid
<1>4. /\ i \in Nat /\ asked = i + 1 /\ asked <= maxAttempts /\ timer = 0 /\ result = "none"
      /\ lag \in Int /\ readyIn \in Nat
  BY <1>1, LogRetryAssumption DEF TypeOK, Attempts
<1>5. CASE pc' = "returned" /\ result' # "empty" /\ UNCHANGED <<i, timer>> /\
           (result' = "error" \/ result' = canonical)
  BY <1>1, <1>2, <1>3, <1>4, <1>5 DEF TypeOK, Attempts, Elapsed, LastAttempt, InLoop, Block
<1>6. CASE pc' = "waiting" /\ i + 1 < maxAttempts /\ timer' = 1 /\ UNCHANGED <<i, result>>
  BY <1>1, <1>2, <1>3, <1>4, <1>6 DEF TypeOK, Attempts, Elapsed, LastAttempt, InLoop
<1>7. CASE /\ ~(i + 1 < maxAttempts) /\ pc' = "loop" /\ i' = i + 1 /\ UNCHANGED <<timer, result>>
           /\ readyIn > 0 \/ canonical \notin withLogs
  <2>1. i + 1 = maxAttempts
    BY <1>1, <1>2, <1>4, <1>7
  <2>2. TypeOK'
    BY <1>1, <1>2, <1>4, <1>7 DEF TypeOK
  <2>3. Attempts' /\ Elapsed'
    BY <1>1, <1>2, <1>3, <1>4, <1>7, <2>1 DEF Attempts, Elapsed, InLoop
  <2>4. canonical = "block" /\ "block" \in withLogs => lag > i
    BY <1>1, <1>4, <1>7 DEF Elapsed, InLoop
  <2>5. LastAttempt'
    BY <1>1, <1>2, <1>3, <1>4, <2>1, <2>4 DEF LastAttempt
  <2> QED BY <2>2, <2>3, <2>5
<1>8. canonical # "empty"
  BY DEF TypeOK, Block
<1> QED BY <1>1, <1>5, <1>6, <1>7, <1>8 DEF Answer, Return

\* A retry is made a whole delay after the attempt before it.
LEMMA RetryStep == IInv /\ Retry => IInv'
<1> SUFFICES ASSUME IInv, Retry PROVE IInv'
  OBVIOUS
<1> USE DEF IInv
<1>1. /\ pc = "waiting" /\ timer = 0 /\ pc' = "loop" /\ i' = i + 1
      /\ UNCHANGED <<logMaxRetries, withLogs, canonical, lag, readyIn, ctxDone, timer, asked, result>>
  BY DEF Retry, node
<1>2. /\ maxAttempts \in Int /\ maxAttempts <= MaxInt /\ MaxInt \in Nat
      /\ maxAttempts' = maxAttempts /\ (Valid' <=> Valid)
  BY <1>1, MaxAttempts DEF TypeOK, maxAttempts, Valid
<1>3. /\ i \in Nat /\ asked = i + 1 /\ asked < maxAttempts /\ result = "none"
      /\ lag \in Int /\ readyIn \in Int
  BY <1>1, LogRetryAssumption DEF TypeOK, Attempts
<1> QED BY <1>1, <1>2, <1>3 DEF TypeOK, Attempts, Elapsed, LastAttempt, InLoop

\* A cancelled wait or call returns without a claim about the block.
LEMMA CancelledStep == IInv /\ Cancelled => IInv'
<1> SUFFICES ASSUME IInv, Cancelled PROVE IInv'
  OBVIOUS
<1> USE DEF IInv
<1>1. /\ pc \in {"asking", "waiting"} /\ pc' = "returned" /\ result' = "cancelled"
      /\ UNCHANGED <<logMaxRetries, withLogs, canonical, lag, readyIn, ctxDone, i, timer, asked>>
  BY DEF Cancelled, Return, node
<1>2. maxAttempts' = maxAttempts
  BY <1>1 DEF maxAttempts
<1> QED BY <1>1, <1>2 DEF TypeOK, Attempts, Elapsed, LastAttempt, InLoop

\* The loop ends after as many turns as there are attempts.
LEMMA ExhaustedStep == IInv /\ Exhausted => IInv'
<1> SUFFICES ASSUME IInv, Exhausted PROVE IInv'
  OBVIOUS
<1> USE DEF IInv
<1>1. /\ pc = "loop" /\ ~(i < maxAttempts) /\ pc' = "returned" /\ result' = "empty"
      /\ UNCHANGED <<logMaxRetries, withLogs, canonical, lag, readyIn, ctxDone, i, timer, asked>>
  BY DEF Exhausted, Return, InLoop, node
<1>2. /\ maxAttempts \in Int /\ i \in Nat /\ asked = i /\ (Valid => maxAttempts > 0)
      /\ maxAttempts' = maxAttempts /\ (Valid' <=> Valid)
  BY <1>1, MaxAttempts DEF TypeOK, Attempts, maxAttempts, Valid
<1>3. Valid => i = maxAttempts
  BY <1>1, <1>2 DEF Attempts
<1> QED BY <1>1, <1>2, <1>3 DEF TypeOK, Attempts, Elapsed, LastAttempt, InLoop

\* Time brings the node and the timer forward together.
LEMMA TickStep == IInv /\ Tick => IInv'
<1> SUFFICES ASSUME IInv, Tick PROVE IInv'
  OBVIOUS
<1> USE DEF IInv
<1>1. /\ readyIn' = IF readyIn > 0 THEN readyIn - 1 ELSE 0
      /\ timer' = IF timer > 0 THEN timer - 1 ELSE 0
      /\ UNCHANGED <<logMaxRetries, withLogs, canonical, lag, ctxDone, pc, i, asked, result>>
  BY DEF Tick
<1>2. maxAttempts' = maxAttempts /\ (Valid' <=> Valid) /\ (InLoop' <=> InLoop)
  BY <1>1 DEF maxAttempts, Valid, InLoop
<1>3. /\ readyIn \in 0 .. MaxLag /\ MaxLag \in Nat /\ lag \in Int /\ i \in Nat /\ timer \in {0, 1}
  BY LogRetryAssumption DEF TypeOK
<1>4. TypeOK'
  BY <1>1, <1>3 DEF TypeOK
<1>5. Attempts' /\ LastAttempt'
  BY <1>1, <1>2, <1>3 DEF Attempts, LastAttempt
<1>6. Elapsed'
  BY <1>1, <1>2, <1>3 DEF Elapsed
<1> QED BY <1>4, <1>5, <1>6

\* Cancellation and reorganization do not touch the call.
LEMMA EnvironmentStep == IInv /\ (Cancel \/ Reorganize \/ UNCHANGED vars) => IInv'
<1> SUFFICES ASSUME IInv, Cancel \/ Reorganize \/ UNCHANGED vars PROVE IInv'
  OBVIOUS
<1> USE DEF IInv
<1>1. UNCHANGED <<logMaxRetries, withLogs, lag, pc, i, timer, asked, result>>
  BY DEF Cancel, Reorganize, vars, node, call
<1>2. maxAttempts' = maxAttempts /\ (Valid' <=> Valid) /\ (InLoop' <=> InLoop)
  BY <1>1 DEF maxAttempts, Valid, InLoop
<1>3. CASE Reorganize
  <2>1. canonical' = "sibling" /\ readyIn' \in 0 .. MaxLag /\ ctxDone' = ctxDone
    BY <1>3 DEF Reorganize
  <2> QED BY <1>1, <1>2, <2>1 DEF TypeOK, Attempts, Elapsed, LastAttempt, Block
<1>4. CASE Cancel \/ UNCHANGED vars
  <2>1. UNCHANGED <<canonical, readyIn>> /\ ctxDone' \in BOOLEAN
    BY <1>4 DEF Cancel, vars, node, TypeOK
  <2> QED BY <1>1, <1>2, <2>1 DEF TypeOK, Attempts, Elapsed, LastAttempt
<1> QED BY <1>3, <1>4

\* The inductive invariant always holds.
LEMMA Invariance == Spec => []IInv
<1>1. IInv /\ [Next]_vars => IInv'
  BY AskStep, AnswerStep, RetryStep, CancelledStep, ExhaustedStep, TickStep, EnvironmentStep DEF Next
<1> QED BY InitIInv, <1>1, PTL DEF Spec

-----------------------------------------------------------------------------
\* The loop variable and the number of attempts stay in the range of an int.
THEOREM TypeCorrect == Spec => []TypeOK
<1>1. IInv => TypeOK
  BY DEF IInv
<1> QED BY <1>1, Invariance, PTL

\* For every number of retries, a block is given up only after all of them.
THEOREM EveryRetryIsMade == Spec => []RetriesExhausted
<1>1. IInv => RetriesExhausted
  <2> SUFFICES ASSUME IInv, Valid
               PROVE  /\ asked <= 1 + logMaxRetries
                      /\ result = "empty" => asked = 1 + logMaxRetries
    BY DEF RetriesExhausted
  <2>1. /\ maxAttempts = 1 + logMaxRetries /\ maxAttempts > 0 /\ logMaxRetries \in Int
        /\ asked \in Int
    BY MaxAttempts, LogRetryAssumption DEF IInv, TypeOK
  <2> QED BY <2>1 DEF IInv, Attempts, TypeOK
<1> QED BY <1>1, Invariance, PTL

\* For every number of retries and every lag, no block with relevant logs is given up while
\* the node is within logMaxRetries delays.
THEOREM LagIsTolerated == Spec => []LagTolerated
<1>1. IInv => LagTolerated
  BY DEF IInv, LastAttempt, LagTolerated
<1> QED BY <1>1, Invariance, PTL

\* The steps that the call can still take: three for each turn of the loop, and the one that
\* returns after the last.
TurnsLeft == IF i < maxAttempts THEN maxAttempts - i ELSE 0
StepsLeft ==
  CASE pc = "returned" -> 0
    [] pc = "loop"     -> 3 * TurnsLeft + 1
    [] pc = "asking"   -> 3 * TurnsLeft
    [] pc = "waiting"  -> 3 * TurnsLeft - 1

\* A call that asks or waits still has its turn to end.
LEMMA TurnsLeftType ==
  ASSUME IInv
  PROVE  /\ TurnsLeft \in Nat /\ i \in Nat /\ maxAttempts \in Int
         /\ i < maxAttempts => TurnsLeft = maxAttempts - i
         /\ pc \in {"asking", "waiting"} => i < maxAttempts /\ TurnsLeft > 0
<1>1. maxAttempts \in Int /\ i \in Nat
  BY MaxAttempts, LogRetryAssumption DEF IInv, TypeOK
<1>2. pc \in {"asking", "waiting"} => i < maxAttempts
  <2>1. pc \in {"asking", "waiting"} => asked = i + 1 /\ (asked < maxAttempts \/ asked <= maxAttempts)
    BY DEF IInv, Attempts
  <2> QED BY <1>1, <2>1
<1> QED BY <1>1, <1>2 DEF TurnsLeft

\* Every attempt, every answer, every retry and each way out of the call is one of those steps.
LEMMA CallSteps ==
  ASSUME IInv, Ask \/ Answer \/ Retry \/ Cancelled \/ Exhausted
  PROVE  StepsLeft' < StepsLeft
<1>1. /\ TurnsLeft \in Nat /\ i \in Nat /\ maxAttempts \in Int
      /\ i < maxAttempts => TurnsLeft = maxAttempts - i
      /\ pc \in {"asking", "waiting"} => i < maxAttempts /\ TurnsLeft > 0
  BY TurnsLeftType
<1>2. maxAttempts' = maxAttempts
  BY DEF Ask, Answer, Retry, Cancelled, Exhausted, maxAttempts
<1>3. i' = i => TurnsLeft' = TurnsLeft
  BY <1>2 DEF TurnsLeft
<1>4. i < maxAttempts /\ i' = i + 1 => TurnsLeft' = TurnsLeft - 1
  <2>1. i < maxAttempts /\ i' = i + 1 => TurnsLeft' = maxAttempts - (i + 1)
    BY <1>1, <1>2 DEF TurnsLeft
  <2> QED BY <1>1, <2>1
<1>5. CASE Ask
  <2>1. pc = "loop" /\ pc' = "asking" /\ i' = i
    BY <1>5 DEF Ask, InLoop
  <2> QED BY <1>1, <1>3, <2>1 DEF StepsLeft
<1>6. CASE Answer
  <2>1. /\ pc = "asking"
        /\ \/ pc' = "returned"
           \/ pc' = "waiting" /\ i' = i
           \/ pc' = "loop" /\ i' = i + 1
    BY <1>6 DEF Answer, Return
  <2> QED BY <1>1, <1>3, <1>4, <2>1 DEF StepsLeft
<1>7. CASE Retry
  <2>1. pc = "waiting" /\ pc' = "loop" /\ i' = i + 1
    BY <1>7 DEF Retry
  <2> QED BY <1>1, <1>4, <2>1 DEF StepsLeft
<1>8. CASE Cancelled \/ Exhausted
  <2>1. pc' = "returned" /\ pc \in {"loop", "asking", "waiting"}
    BY <1>8 DEF Cancelled, Exhausted, Return
  <2> QED BY <1>1, <2>1 DEF StepsLeft
<1> QED BY <1>5, <1>6, <1>7, <1>8

\* The call runs out of steps: the node, however late, and reorganizations, however often,
\* cannot make it take more than three for each attempt and one to return.
CallRunsOut ==
  /\ [](StepsLeft \in Nat /\ (Valid => StepsLeft <= 3 * logMaxRetries + 4))
  /\ [][StepsLeft' < StepsLeft \/ UNCHANGED <<pc, i, asked, result, StepsLeft>>]_vars

\* Whatever the number of retries, getLogsWithRetry makes boundedly many steps, and none after
\* it has returned.
THEOREM CallIsBounded == Spec => CallRunsOut
<1>1. IInv => StepsLeft \in Nat /\ (Valid => StepsLeft <= 3 * logMaxRetries + 4)
  <2> SUFFICES ASSUME IInv
               PROVE  StepsLeft \in Nat /\ (Valid => StepsLeft <= 3 * logMaxRetries + 4)
    OBVIOUS
  <2>1. /\ TurnsLeft \in Nat /\ i \in Nat /\ maxAttempts \in Int
        /\ pc = "waiting" => TurnsLeft > 0
        /\ pc \in {"loop", "asking", "waiting", "returned"}
    BY TurnsLeftType DEF IInv, TypeOK
  <2>2. Valid => TurnsLeft <= 1 + logMaxRetries /\ logMaxRetries \in Int
    BY <2>1, MaxAttempts DEF IInv, TypeOK, TurnsLeft
  <2>3. StepsLeft \in Nat /\ StepsLeft <= 3 * TurnsLeft + 1
    BY <2>1 DEF StepsLeft
  <2> QED BY <2>1, <2>2, <2>3
<1>2. IInv /\ [Next]_vars => StepsLeft' < StepsLeft \/ UNCHANGED <<pc, i, asked, result, StepsLeft>>
  <2> SUFFICES ASSUME IInv, [Next]_vars
               PROVE  StepsLeft' < StepsLeft \/ UNCHANGED <<pc, i, asked, result, StepsLeft>>
    OBVIOUS
  <2>1. CASE Ask \/ Answer \/ Retry \/ Cancelled \/ Exhausted
    BY <2>1, CallSteps
  <2>2. CASE Tick \/ Cancel \/ Reorganize \/ UNCHANGED vars
    <3>1. UNCHANGED <<pc, i, asked, result, logMaxRetries>>
      BY <2>2 DEF Tick, Cancel, Reorganize, vars, call
    <3> QED BY <3>1 DEF StepsLeft, TurnsLeft, maxAttempts
  <2> QED BY <2>1, <2>2 DEF Next
<1> QED BY <1>1, <1>2, Invariance, PTL DEF Spec, CallRunsOut
===============================================================================
