------------------------------- MODULE Batch -------------------------------
(***************************************************************************)
(* What the two batch functions of the repository promise to the system:   *)
(* Initialize of src/initializer/pool.go and the function NewGetReserves   *)
(* of src/reserves/reserves.go returns.  A call answers the pools it was   *)
(* given one by one, in any order, each at its own position and once, and  *)
(* returns when all are answered.  There are no goroutines, semaphores or  *)
(* wait groups here: this is how the system module uses the two functions. *)
(***************************************************************************)
EXTENDS Naturals, Sequences

CONSTANTS
  Callers,     \* who calls; a caller makes one call after another
  PoolAddrs,   \* PoolAddrs[c]: the list of pools caller c asks about
  Known        \* pools a successful answer is possible for

VARIABLES
  running,  \* the callers whose call has not returned
  answers   \* answers[c][i]: the answer for the i-th pool of c's current or last call

vars == <<running, answers>>

Positions(c) == 1 .. Len(PoolAddrs[c])

Init ==
  /\ running = {}
  /\ answers = [c \in Callers |-> [i \in Positions(c) |-> "none"]]

Call(c) ==
  /\ c \notin running
  /\ running' = running \cup {c}
  /\ answers' = [answers EXCEPT ![c] = [i \in Positions(c) |-> "none"]]

\* The pool itself stands for what is fetched about it.
Answer(c, i) ==
  /\ c \in running
  /\ answers[c][i] = "none"
  /\ \/ PoolAddrs[c][i] \in Known /\ answers' = [answers EXCEPT ![c][i] = PoolAddrs[c][i]]
     \/ answers' = [answers EXCEPT ![c][i] = "error"]
  /\ UNCHANGED running

Return(c) ==
  /\ c \in running
  /\ \A i \in Positions(c) : answers[c][i] # "none"
  /\ running' = running \ {c}
  /\ UNCHANGED answers

Next == \E c \in Callers : Call(c) \/ Return(c) \/ \E i \in Positions(c) : Answer(c, i)

Spec == Init /\ [][Next]_vars
=============================================================================
