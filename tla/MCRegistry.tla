----------------------------- MODULE MCRegistry -----------------------------
(***************************************************************************)
(* Values for the constants of Registry, and the view under which TLC      *)
(* explores it.  The name of a cell carries no meaning and depends on the  *)
(* history of allocations; MCView forgets it and keeps who shares a cell   *)
(* with whom, what each cell holds, and everything else.                   *)
(***************************************************************************)
EXTENDS Registry

\* The attributes of a pool are named by the pool they belong to.
MCAttrOf == [p \in PoolIDs |-> [c \in Columns |-> p]]

\* Every cell held, in the order of the slices and then of the exported view.
Held == reserve \o [i \in DOMAIN view |-> view[i].cell]

\* A held cell is named by its first position in Held.
FirstHolder(i) == CHOOSE j \in DOMAIN Held :
                    Held[j] = Held[i] /\ \A k \in 1 .. (j - 1) : Held[k] # Held[i]

MCView ==
  <<id, attr, idToIndex, result, Len(reserve),
    [i \in DOMAIN view |-> <<view[i].id, view[i].attr>>],
    [i \in DOMAIN Held |-> <<FirstHolder(i), heap[Held[i]]>>]>>
=============================================================================
