------------------------------- MODULE LogRetry -------------------------------
(***************************************************************************)
(* A call of getLogsWithRetry of src/system.go for one block, beside the   *)
(* node that indexes the block some time after announcing it, or replaces  *)
(* it by a sibling at the same height.  Time passes in units of            *)
(* logRetryDelay; the code's int goes from -(MaxInt + 1) to MaxInt.        *)
(***************************************************************************)
EXTENDS Integers

CONSTANTS
  MaxInt,         \* the largest int
  LogMaxRetries,  \* the values that a configuration may give
  MaxLag          \* bound: the delays a node needs at most to index a block

ASSUME LogRetryAssumption ==
  /\ MaxInt \in Nat /\ MaxLag \in Nat
  /\ LogMaxRetries \subseteq -(MaxInt + 1) .. MaxInt

VARIABLES
  logMaxRetries,  \* s.logMaxRetries
  withLogs,       \* which of the block and its sibling have relevant logs
  canonical,      \* the one that the node has at that height
  lag, readyIn,   \* delays from the call until the node can answer; those that are left
  ctxDone,
  pc,             \* "loop", "asking" in FilterLogs, "waiting" in the select, or "returned"
  i,              \* the loop variable
  timer,          \* delays until the timer of the select fires
  asked,          \* number of FilterLogs calls
  result          \* "logs of" a block, "empty", "error" or "cancelled"

node == <<withLogs, canonical, lag, readyIn>>
call == <<pc, i, timer, asked, result>>
vars == <<logMaxRetries, node, ctxDone, call>>

Block == {"block", "sibling"}

\* Mutant: the retries include the first attempt.
MaxAttemptsWithoutFirst == logMaxRetries

maxAttempts == IF logMaxRetries = MaxInt THEN -(MaxInt + 1) ELSE 1 + logMaxRetries

\* Mutant: one turn too many.
InLoopOnceMore == pc = "loop" /\ i <= maxAttempts

InLoop == pc = "loop" /\ i < maxAttempts

Init ==
  /\ logMaxRetries \in LogMaxRetries
  /\ withLogs \in SUBSET Block /\ canonical = "block"
  /\ lag \in 0 .. MaxLag /\ readyIn = lag
  /\ ctxDone = FALSE
  /\ pc = "loop" /\ i = 0 /\ timer = 0 /\ asked = 0 /\ result = "none"

Return(r) == pc' = "returned" /\ result' = r

\* FilterLogs is called with the system's context, which has no deadline.
Ask ==
  /\ InLoop
  /\ pc' = "asking" /\ asked' = asked + 1
  /\ UNCHANGED <<logMaxRetries, node, ctxDone, i, timer, result>>

\* The node answers some time later, if it does: with an error, the logs of the canonical
\* block once that is indexed, or none; then the call waits, unless this was the last attempt.
Answer ==
  /\ pc = "asking"
  /\ \/ Return("error") /\ UNCHANGED <<i, timer>>
     \/ /\ readyIn = 0 /\ canonical \in withLogs
        /\ Return(canonical)
        /\ UNCHANGED <<i, timer>>
     \/ /\ readyIn > 0 \/ canonical \notin withLogs
        /\ IF i + 1 < maxAttempts
             THEN pc' = "waiting" /\ timer' = 1 /\ UNCHANGED i
             ELSE pc' = "loop" /\ i' = i + 1 /\ UNCHANGED timer
        /\ UNCHANGED result
  /\ UNCHANGED <<logMaxRetries, node, ctxDone, asked>>

\* Mutant: the next attempt does not wait for the timer.
RetryAtOnce ==
  /\ pc = "waiting"
  /\ pc' = "loop" /\ i' = i + 1
  /\ UNCHANGED <<logMaxRetries, node, ctxDone, timer, asked, result>>

\* Mutant: continue goes on with a loop around the select.
RetryWaitingAgain ==
  /\ pc = "waiting" /\ timer = 0
  /\ timer' = 1
  /\ UNCHANGED <<logMaxRetries, node, ctxDone, pc, i, asked, result>>

\* The select takes either case when both are ready.
Retry ==
  /\ pc = "waiting" /\ timer = 0
  /\ pc' = "loop" /\ i' = i + 1
  /\ UNCHANGED <<logMaxRetries, node, ctxDone, timer, asked, result>>

\* The select sees that the context is done, or FilterLogs returns because it is (external).
Cancelled ==
  /\ pc \in {"asking", "waiting"} /\ ctxDone
  /\ Return("cancelled")
  /\ UNCHANGED <<logMaxRetries, node, ctxDone, i, timer, asked>>

\* After the loop the block is taken to have no relevant logs.
Exhausted ==
  /\ pc = "loop" /\ ~InLoop
  /\ Return("empty")
  /\ UNCHANGED <<logMaxRetries, node, ctxDone, i, timer, asked>>

\* The environment: time, the owner of the context, and a reorganization, which the query
\* does not notice: it names the height and not the hash.
Tick ==
  /\ readyIn > 0 \/ timer > 0
  /\ readyIn' = IF readyIn > 0 THEN readyIn - 1 ELSE 0
  /\ timer' = IF timer > 0 THEN timer - 1 ELSE 0
  /\ UNCHANGED <<logMaxRetries, withLogs, canonical, lag, ctxDone, pc, i, asked, result>>

Cancel ==
  /\ ~ctxDone
  /\ ctxDone' = TRUE
  /\ UNCHANGED <<logMaxRetries, node, call>>

Reorganize ==
  /\ canonical = "block"
  /\ canonical' = "sibling"
  /\ readyIn' \in 0 .. MaxLag
  /\ UNCHANGED <<logMaxRetries, withLogs, lag, ctxDone, call>>

Next == Ask \/ Answer \/ Retry \/ Cancelled \/ Exhausted \/ Tick \/ Cancel \/ Reorganize

\* The call runs on and time passes.  Nothing says that a node ever answers.
Fairness == WF_vars(Ask \/ Retry \/ Cancelled \/ Exhausted) /\ WF_vars(Tick)

Spec == Init /\ [][Next]_vars /\ Fairness

-----------------------------------------------------------------------------
\* A configuration whose number of attempts is an int and positive.
Valid == logMaxRetries \in 0 .. MaxInt - 1

TypeOK ==
  /\ logMaxRetries \in LogMaxRetries
  /\ withLogs \subseteq Block /\ canonical \in Block
  /\ lag \in 0 .. MaxLag /\ readyIn \in 0 .. MaxLag
  /\ ctxDone \in BOOLEAN
  /\ pc \in {"loop", "asking", "waiting", "returned"}
  /\ i \in 0 .. MaxInt /\ asked \in 0 .. MaxInt
  /\ timer \in {0, 1}
  /\ result \in Block \cup {"none", "empty", "error", "cancelled"}

\* A block is taken to have no relevant logs only after logMaxRetries retries, and no call
\* asks more often.
RetriesExhausted ==
  Valid => /\ asked <= 1 + logMaxRetries
           /\ result = "empty" => asked = 1 + logMaxRetries

\* The purpose of the retries: a block with relevant logs is taken to have none only if the
\* node needed longer than logMaxRetries delays to index it.
LagTolerated ==
  Valid /\ result = "empty" /\ canonical = "block" /\ "block" \in withLogs => lag > logMaxRetries

\* Every call returns, unless the node leaves it without an answer for ever and nobody
\* cancels it: neither the retries nor the timer nor cancellation can hold it up.
CallReturns == <>(pc = "returned") \/ <>[](pc = "asking" /\ ~ctxDone)
===============================================================================
