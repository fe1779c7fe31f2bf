------------------------------ MODULE Registry ------------------------------
(***************************************************************************)
(* The data-oriented pool registry of src/registry.go: parallel slices, a  *)
(* map from permanent pool IDs to positions in them, and deletion by       *)
(* swapping with the last row.  Reserves are *big.Int values that          *)
(* updatePool overwrites in place, so the slices and the exported views    *)
(* hold cells of an explicit heap: who shares a cell sees the writes.      *)
(*                                                                         *)
(* The slices token0, token1, pooltype and fee are the columns of attr.    *)
(* reserve0 and reserve1 are one slice here: a cell holds the pair.        *)
(* Positions count from 1 here and from 0 in the code.                     *)
(***************************************************************************)
EXTENDS Naturals, Sequences, Functions

CONSTANTS
  PoolIDs,         \* permanent pool IDs
  AttrOf,          \* AttrOf[p]: token IDs, type and fee of pool p, fixed at its creation
  Reserves,        \* the values a pair of reserves can take
  Zero,            \* the pair of big.NewInt(0) addPool starts with
  Cells,           \* memory cells for reserves; their number is the model's bound on memory
  ConsumersWrite   \* whether the holder of an exported view modifies its reserves

\* The slices that are written when a row is added, and never again.
Columns == {"token0", "token1", "type", "fee"}

Values == {AttrOf[p][c] : p \in PoolIDs, c \in Columns}

ASSUME ConstantsAssumption ==
  /\ AttrOf \in [PoolIDs -> [Columns -> Values]]
  /\ Zero \in Reserves
  /\ ConsumersWrite \in BOOLEAN

VARIABLES
  id,          \* the slice of pool IDs
  attr,        \* attr[c]: the slice of column c
  reserve,     \* the slices reserve0, reserve1: cells
  idToIndex,   \* position of each tracked pool in the slices
  heap,        \* the value in each cell; a cell nobody holds is cleared
  view,        \* the slice viewRegistry last returned, as cachedView holds it
  result       \* the error the last operation returned

slices == <<id, attr, reserve, idToIndex>>
vars == <<id, attr, reserve, idToIndex, heap, view, result>>

Row == [id : PoolIDs, attr : [Columns -> Values], cell : Cells]
Errors == {"nil", "ErrPoolExists", "ErrPoolNotFound", "DependencyError"}

Init ==
  /\ id = << >>
  /\ attr = [c \in Columns |-> << >>]
  /\ reserve = << >>
  /\ idToIndex = [p \in {} |-> 1]
  /\ heap = [c \in Cells |-> Zero]
  /\ view = << >>
  /\ result = "nil"

\* The entries of the columns at position i.
Attr(i) == [c \in Columns |-> attr[c][i]]

hasPool(p) == p \in DOMAIN idToIndex

ViewCells == {view[i].cell : i \in DOMAIN view}
Free == Cells \ (Range(reserve) \cup ViewCells)

\* new(big.Int), n times: n distinct cells that nobody holds.
CanAllocate(n) == \E f \in [1 .. n -> Free] : IsInjective(f)
Allocate(n) == CHOOSE f \in [1 .. n -> Free] : IsInjective(f)

Fails(error) == result' = error /\ UNCHANGED <<slices, heap, view>>

-----------------------------------------------------------------------------
\* addPool: the lookups of the pool's and the tokens' IDs may fail.
AddPool(p) ==
  \/ /\ ~hasPool(p)
     /\ CanAllocate(1)
     /\ LET c == Allocate(1)[1] IN
          /\ reserve' = Append(reserve, c)
          /\ heap' = [heap EXCEPT ![c] = Zero]
     /\ id' = Append(id, p)
     /\ attr' = [c \in Columns |-> Append(attr[c], AttrOf[p][c])]
     /\ idToIndex' = [q \in DOMAIN idToIndex \cup {p} |->
                        IF q = p THEN Len(id) + 1 ELSE idToIndex[q]]
     /\ result' = "nil"
     /\ UNCHANGED view
  \/ hasPool(p) /\ Fails("ErrPoolExists")
  \/ Fails("DependencyError")

\* updatePool: big.Int.Set copies the values into the row's own cell.
UpdatePool(p, r) ==
  \/ /\ hasPool(p)
     /\ heap' = [heap EXCEPT ![reserve[idToIndex[p]]] = r]
     /\ result' = "nil"
     /\ UNCHANGED <<slices, view>>
  \/ ~hasPool(p) /\ Fails("ErrPoolNotFound")

\* One slice of deletePool: the last element moves to position i, the slice loses its end.
SwapAndPop(s, i) == [k \in 1 .. (Len(s) - 1) |-> IF k = i THEN s[Len(s)] ELSE s[k]]

\* Mutants of the map: the moved pool keeps its old position; the deleted one its entry.
ReindexWithoutMove(p, i) == Restrict(idToIndex, DOMAIN idToIndex \ {p})
ReindexWithoutDelete(p, i) == IF i = Len(id) THEN idToIndex ELSE [idToIndex EXCEPT ![id[Len(id)]] = i]

\* The map of deletePool: the moved pool is given position i, then p is deleted.
Reindex(p, i) ==
  LET moved == IF i = Len(id) THEN idToIndex ELSE [idToIndex EXCEPT ![id[Len(id)]] = i]
  IN  Restrict(moved, DOMAIN moved \ {p})

\* Mutant: the slice of fees is truncated, but its last entry is not moved.
DeletePoolTruncatesFee(p) ==
  /\ hasPool(p)
  /\ LET i == idToIndex[p] IN
       /\ id' = SwapAndPop(id, i)
       /\ attr' = [c \in Columns |-> IF c = "fee" THEN SubSeq(attr[c], 1, Len(attr[c]) - 1)
                                                 ELSE SwapAndPop(attr[c], i)]
       /\ reserve' = SwapAndPop(reserve, i)
       /\ idToIndex' = Reindex(p, i)
       /\ heap' = [heap EXCEPT ![reserve[i]] = Zero]
  /\ result' = "nil"
  /\ UNCHANGED view

DeletePool(p) ==
  \/ /\ hasPool(p)
     /\ LET i == idToIndex[p] IN
          /\ id' = SwapAndPop(id, i)
          /\ attr' = [c \in Columns |-> SwapAndPop(attr[c], i)]
          /\ reserve' = SwapAndPop(reserve, i)
          /\ idToIndex' = Reindex(p, i)
          /\ heap' = [heap EXCEPT ![reserve[i]] = Zero]
     /\ result' = "nil"
     /\ UNCHANGED view
  \/ ~hasPool(p) /\ Fails("ErrPoolNotFound")

-----------------------------------------------------------------------------
\* Mutant: new(big.Int) without Set.
CopiedWithoutSet(from, to, kept) == [c \in Cells |-> IF c \in kept \ Range(to) THEN heap[c] ELSE Zero]

\* The heap after from[i] has been copied into the new cell to[i] for every i,
\* when only the cells of kept and the new ones are still held.
Copied(from, to, kept) ==
  [c \in Cells |->
     IF c \in Range(to) THEN heap[from[CHOOSE i \in DOMAIN to : to[i] = c]]
     ELSE IF c \in kept THEN heap[c]
     ELSE Zero]

\* Mutant: the rows of a view point to the registry's own reserves.
ViewRegistryShared ==
  /\ view' = [i \in 1 .. Len(id) |-> [id |-> id[i], attr |-> Attr(i), cell |-> reserve[i]]]
  /\ UNCHANGED <<slices, heap, result>>

\* viewRegistry: every row is copied, its reserves into cells of the view's own.
ViewRegistry ==
  /\ CanAllocate(Len(id))
  /\ LET cells == Allocate(Len(id)) IN
       /\ view' = [i \in 1 .. Len(id) |-> [id |-> id[i], attr |-> Attr(i), cell |-> cells[i]]]
       /\ heap' = Copied(reserve, cells, Range(reserve))
  /\ UNCHANGED <<slices, result>>

\* NewUniswapV2RegistryFromViews: a registry rebuilt from the last exported view.
NewRegistryFromViews ==
  /\ CanAllocate(Len(view))
  /\ LET cells == Allocate(Len(view)) IN
       /\ reserve' = cells
       /\ heap' = Copied([i \in DOMAIN view |-> view[i].cell], cells, ViewCells)
  /\ id' = [i \in 1 .. Len(view) |-> view[i].id]
  /\ attr' = [c \in Columns |-> [i \in 1 .. Len(view) |-> view[i].attr[c]]]
  /\ idToIndex' = [p \in {view[i].id : i \in DOMAIN view} |->
                     CHOOSE i \in DOMAIN view : view[i].id = p]
  /\ UNCHANGED <<view, result>>

\* External: the holder of a view writes into one of its big.Int reserves.
WriteView ==
  /\ ConsumersWrite
  /\ \E i \in DOMAIN view, r \in Reserves : heap' = [heap EXCEPT ![view[i].cell] = r]
  /\ UNCHANGED <<slices, view, result>>

Next ==
  \/ \E p \in PoolIDs : AddPool(p) \/ DeletePool(p) \/ \E r \in Reserves : UpdatePool(p, r)
  \/ ViewRegistry
  \/ NewRegistryFromViews
  \/ WriteView

Spec == Init /\ [][Next]_vars

-----------------------------------------------------------------------------
\* getPoolById: the row a caller reads through the index.
getPoolById(p) == [attr |-> Attr(idToIndex[p]), reserve |-> heap[reserve[idToIndex[p]]]]

StoredPools == [p \in DOMAIN idToIndex |-> getPoolById(p)]

\* The contents of the exported view: what its holder reads, pool by pool.
ViewContents ==
  [p \in {view[i].id : i \in DOMAIN view} |->
     LET i == CHOOSE i \in DOMAIN view : view[i].id = p
     IN  [attr |-> view[i].attr, reserve |-> heap[view[i].cell]]]

\* The state has the declared types; every position in the map is one of the slices.
TypeOK ==
  /\ id \in Seq(PoolIDs)
  /\ attr \in [Columns -> Seq(Values)]
  /\ reserve \in Seq(Cells)
  /\ DOMAIN idToIndex \subseteq PoolIDs
  /\ idToIndex \in [DOMAIN idToIndex -> DOMAIN id]
  /\ heap \in [Cells -> Reserves]
  /\ view \in Seq(Row)
  /\ result \in Errors

\* The map is the exact inverse of the id slice, so a swap-and-pop leaves no pool that
\* is reached through another pool's position and no row that is not reached at all.
IndexInverse ==
  /\ DOMAIN idToIndex = Range(id)
  /\ \A i \in DOMAIN id : idToIndex[id[i]] = i

\* However rows were moved, the columns of one row belong to one pool: no pool is
\* ever shown with the tokens or the fee of another, in the registry or in a view.
RowsStayWhole ==
  /\ \A c \in Columns : Len(attr[c]) = Len(id)
  /\ Len(reserve) = Len(id)
  /\ \A i \in DOMAIN id : Attr(i) = AttrOf[id[i]]
  /\ \A i, j \in DOMAIN view : view[i].id = view[j].id => i = j
  /\ \A i \in DOMAIN view : view[i].attr = AttrOf[view[i].id]

\* No big.Int is shared: not by two rows, not by two rows of a view, and not by the
\* registry and an exported view, whatever moved, was deleted or was rebuilt before.
NoAliasing ==
  /\ IsInjective(reserve)
  /\ \A i, j \in DOMAIN view : view[i].cell = view[j].cell => i = j
  /\ Range(reserve) \cap ViewCells = {}

\* The slices, the map and the heap together behave as the map from IDs to records
\* that the rest of the system takes the registry for.
Store == INSTANCE PoolStore WITH
           pools <- StoredPools,
           exported <- ViewContents

RefinesPoolStore == Store!Spec
=============================================================================
