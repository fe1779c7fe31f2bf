------------------------------ MODULE Consumer ------------------------------
(***************************************************************************)
(* What the system promises those who call View() and LastUpdatedAtBlock():*)
(* whatever fails, is deleted, corrected or handled twice, and however     *)
(* often the process ends, a view lists pools of known factories with      *)
(* reserves they once had on chain.  A publication tracks pools, untracks  *)
(* pools or refreshes reserves, never two of these, and leaves the other   *)
(* pools alone.  The number only grows, up to the chain's last block,      *)
(* until the process ends; then the last view saved is the first one.      *)
(* There are no goroutines, locks, queues, calls or events here.           *)
(***************************************************************************)
EXTENDS Naturals, Sequences

CONSTANTS
  Pools,
  Trusted,   \* pools of a known factory
  Reserves

VARIABLES
  was,     \* the chain's history: was[n + 1] is the reserves of each pool after block n
  view,    \* tracked pools: reserves, and the block they are of
  number,
  saved    \* a view that was kept for the next process

vars == <<was, view, number, saved>>

\* The pool had these reserves after the block they are attributed to.
Happened(p, entry) == entry.block \in 0 .. Len(was) - 1 /\ entry.reserve = was[entry.block + 1][p]

Init ==
  /\ \E now \in [Pools -> Reserves] : was = <<now>>
  /\ DOMAIN view \subseteq Trusted
  /\ \A p \in DOMAIN view : Happened(p, view[p])
  /\ number = 0
  /\ saved = view

Mine ==
  /\ \E now \in [Pools -> Reserves] : was' = Append(was, now)
  /\ UNCHANGED <<view, number, saved>>

Advance ==
  /\ number' \in number + 1 .. Len(was) - 1
  /\ UNCHANGED <<was, view, saved>>

Track ==
  /\ DOMAIN view \subseteq DOMAIN view'
  /\ DOMAIN view' \subseteq Trusted
  /\ \A p \in DOMAIN view' : IF p \in DOMAIN view THEN view'[p] = view[p] ELSE Happened(p, view'[p])
  /\ UNCHANGED <<was, number, saved>>

Untrack ==
  /\ \E S \in SUBSET DOMAIN view : view' = [p \in S |-> view[p]]
  /\ UNCHANGED <<was, number, saved>>

Refresh ==
  /\ DOMAIN view' = DOMAIN view
  /\ \A p \in DOMAIN view : view'[p] = view[p] \/ Happened(p, view'[p])
  /\ UNCHANGED <<was, number, saved>>

Save ==
  /\ saved' = view
  /\ UNCHANGED <<was, view, number>>

Restart ==
  /\ view' = saved
  /\ number' = 0
  /\ UNCHANGED <<was, saved>>

Next == Mine \/ Advance \/ Track \/ Untrack \/ Refresh \/ Save \/ Restart

Spec == Init /\ [][Next]_vars
=============================================================================
