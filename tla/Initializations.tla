--------------------------- MODULE Initializations ---------------------------
(***************************************************************************)
(* What a round of the initializer promises to consumers of the view.      *)
(* Some pools of the batch enter, each with the tokens, type, fee and      *)
(* reserves that were fetched for it; a pool that is tracked already is    *)
(* left alone.  Between rounds pools are updated and deleted.  This is how *)
(* the system module uses applyInitializations of src/system.go.           *)
(***************************************************************************)
CONSTANTS
  Pools,   \* a pool stands for everything that was fetched for it
  Synced   \* reserves of a later Sync event

VARIABLE view  \* the published view: a row for each tracked pool

Columns == {"token0", "token1", "type", "fee", "reserve0", "reserve1"}

\* The row of a pool all of whose columns are its own.
OwnRow(p) == [c \in Columns |-> p]

Init == view = [p \in {} |-> OwnRow(p)]

Enter(S) ==
  /\ S \cap DOMAIN view = {}
  /\ view' = [p \in DOMAIN view \cup S |-> IF p \in S THEN OwnRow(p) ELSE view[p]]

Sync(p) ==
  /\ p \in DOMAIN view
  /\ view' = [view EXCEPT ![p] = [@ EXCEPT !["reserve0"] = Synced, !["reserve1"] = Synced]]

Delete(p) ==
  /\ p \in DOMAIN view
  /\ view' = [q \in DOMAIN view \ {p} |-> view[q]]

Next ==
  \/ \E S \in SUBSET Pools : Enter(S)
  \/ \E p \in Pools : Sync(p) \/ Delete(p)

Spec == Init /\ [][Next]_view
=============================================================================
