--------------------------- MODULE RegistryProofs ---------------------------
(***************************************************************************)
(* Proofs about Registry: its type and safety invariants are inductive     *)
(* together, and with them every operation on slices, map and heap is an   *)
(* operation of PoolStore on a plain map.                                  *)
(***************************************************************************)
EXTENDS Registry, SequenceTheorems, TLAPS

\* The inductive invariant.  The parts need each other: a swap repairs the map only if the
\* map was the exact inverse of the ids, and a write through a pointer changes one pool
\* only if no cell is shared.
IInv == TypeOK /\ IndexInverse /\ RowsStayWhole /\ NoAliasing

\* A function on 1 .. n is a sequence of length n: the slices the code fills by index.
LEMMA ArrayIsSeq ==
  ASSUME NEW S, NEW n \in Nat, NEW f \in [1 .. n -> S]
  PROVE  f \in Seq(S) /\ Len(f) = n /\ DOMAIN f = 1 .. n
  OBVIOUS

\* Swap-and-pop shortens a slice by one and changes at most position i, which gets the last
\* element.
LEMMA SwapAndPopLemma ==
  ASSUME NEW S, NEW s \in Seq(S), NEW i \in DOMAIN s
  PROVE  /\ SwapAndPop(s, i) \in Seq(S)
         /\ Len(SwapAndPop(s, i)) = Len(s) - 1
         /\ DOMAIN SwapAndPop(s, i) = 1 .. (Len(s) - 1)
         /\ \A k \in 1 .. (Len(s) - 1) : SwapAndPop(s, i)[k] = IF k = i THEN s[Len(s)] ELSE s[k]
  BY DEF SwapAndPop

\* Allocation returns distinct cells that neither the registry nor the view holds.
LEMMA AllocateLemma ==
  ASSUME NEW n \in Nat, CanAllocate(n)
  PROVE  Allocate(n) \in [1 .. n -> Free] /\ IsInjective(Allocate(n))
  BY DEF CanAllocate, Allocate

\* The empty registry satisfies the invariant.
LEMMA InitInv == Init => IInv
  BY ConstantsAssumption
  DEF Init, IInv, TypeOK, IndexInverse, RowsStayWhole, NoAliasing, IsInjective, Range, ViewCells, Errors

\* The attributes of a pool are a row of the columns.
LEMMA OwnAttr ==
  ASSUME NEW p \in PoolIDs
  PROVE  AttrOf[p] = [c \in Columns |-> AttrOf[p][c]]
  BY ConstantsAssumption

\* Appending keeps every earlier element where it is.
LEMMA AppendLemma ==
  ASSUME NEW S, NEW s \in Seq(S), NEW x \in S
  PROVE  /\ Append(s, x) \in Seq(S)
         /\ Len(Append(s, x)) = Len(s) + 1
         /\ DOMAIN Append(s, x) = 1 .. (Len(s) + 1)
         /\ \A k \in 1 .. Len(s) : Append(s, x)[k] = s[k]
         /\ Append(s, x)[Len(s) + 1] = x
  OBVIOUS

\* A step that moves no row and allocates nothing preserves the invariant: failed calls,
\* updatePool and the writes of a view's holder.
LEMMA SameRows ==
  ASSUME IInv, UNCHANGED <<slices, view>>, heap' \in [Cells -> Reserves], result' \in Errors
  PROVE  IInv'
<1> USE DEF IInv, slices
<1>1. TypeOK'
  BY DEF TypeOK
<1>2. IndexInverse'
  BY DEF IndexInverse
<1>3. RowsStayWhole'
  BY DEF RowsStayWhole, Attr
<1>4. NoAliasing'
  BY DEF NoAliasing, ViewCells
<1> QED BY <1>1, <1>2, <1>3, <1>4

\* addPool gives the new pool the position after the last one and a cell of its own.
LEMMA AddPoolInv ==
  ASSUME IInv, NEW p \in PoolIDs, AddPool(p)
  PROVE  IInv'
<1> USE DEF IInv
<1>1. CASE UNCHANGED <<slices, heap, view>> /\ result' \in Errors
  BY <1>1, SameRows DEF TypeOK
<1>2. CASE ~hasPool(p) /\ CanAllocate(1) /\ id' = Append(id, p)
  <2> DEFINE c == Allocate(1)[1]
             n == Len(id) + 1
  <2>1. c \in Cells /\ c \notin Range(reserve) /\ c \notin ViewCells
    BY <1>2, AllocateLemma DEF Free
  <2>2. /\ reserve' = Append(reserve, c)
        /\ heap' = [heap EXCEPT ![c] = Zero]
        /\ id' = Append(id, p)
        /\ attr' = [k \in Columns |-> Append(attr[k], AttrOf[p][k])]
        /\ idToIndex' = [q \in DOMAIN idToIndex \cup {p} |-> IF q = p THEN n ELSE idToIndex[q]]
        /\ result' = "nil"
        /\ view' = view
        /\ p \notin DOMAIN idToIndex
    BY <1>2 DEF AddPool, hasPool, Fails, slices
  <2> HIDE DEF c
  <2>3. /\ Len(id) \in Nat
        /\ DOMAIN id = 1 .. Len(id)
        /\ DOMAIN id' = 1 .. n
        /\ id'[n] = p
        /\ \A k \in DOMAIN id : id'[k] = id[k]
    BY <2>2, AppendLemma DEF TypeOK
  <2>4. TypeOK'
    <3>1. attr' \in [Columns -> Seq(Values)]
      <4>1. \A k \in Columns : attr[k] \in Seq(Values)
        BY DEF TypeOK
      <4>2. \A k \in Columns : AttrOf[p][k] \in Values
        BY DEF Values
      <4>3. \A k \in Columns : Append(attr[k], AttrOf[p][k]) \in Seq(Values)
        BY <4>1, <4>2, AppendLemma
      <4> QED BY <2>2, <4>3
    <3>2. id' \in Seq(PoolIDs) /\ reserve' \in Seq(Cells)
      BY <2>1, <2>2 DEF TypeOK
    <3>3. DOMAIN idToIndex' \subseteq PoolIDs /\ idToIndex' \in [DOMAIN idToIndex' -> DOMAIN id']
      BY <2>2, <2>3 DEF TypeOK
    <3>4. heap' \in [Cells -> Reserves]
      BY <2>2, ConstantsAssumption DEF TypeOK
    <3> QED BY <2>2, <3>1, <3>2, <3>3, <3>4 DEF TypeOK, Errors
  <2>5. IndexInverse'
    <3>1. DOMAIN idToIndex' = Range(id')
      <4>1. DOMAIN id' = DOMAIN id \cup {n}
        BY <2>3
      <4>2. Range(id') = Range(id) \cup {p}
        BY <2>3, <4>1 DEF Range
      <4> QED BY <2>2, <4>2 DEF IndexInverse
    <3>2. \A i \in DOMAIN id' : idToIndex'[id'[i]] = i
      BY <2>2, <2>3 DEF IndexInverse, Range
    <3> QED BY <3>1, <3>2 DEF IndexInverse
  <2>6. RowsStayWhole'
    <3>1. \A k \in Columns : attr[k] \in Seq(Values) /\ Len(attr[k]) = n - 1 /\ AttrOf[p][k] \in Values
      BY <2>3 DEF TypeOK, RowsStayWhole, Values
    <3>2. \A k \in Columns : /\ Len(attr'[k]) = n /\ attr'[k][n] = AttrOf[p][k]
                             /\ \A i \in DOMAIN id : attr'[k][i] = attr[k][i]
      BY <2>2, <2>3, <3>1
    <3>3. ASSUME NEW i \in DOMAIN id' PROVE Attr(i)' = AttrOf[id'[i]]
      <4>1. CASE i = n
        <5>1. \A k \in Columns : attr'[k][i] = AttrOf[p][k]
          BY <3>2, <4>1
        <5> QED BY <2>3, <4>1, <5>1, OwnAttr DEF Attr
      <4>2. CASE i # n
        <5>1. i \in DOMAIN id
          BY <2>3, <4>2
        <5>2. Attr(i)' = Attr(i)
          BY <3>2, <5>1 DEF Attr
        <5> QED BY <2>3, <5>1, <5>2 DEF RowsStayWhole
      <4> QED BY <4>1, <4>2
    <3>4. Len(id') = n /\ Len(reserve') = n
      BY <2>2 DEF RowsStayWhole, TypeOK
    <3> QED BY <2>2, <3>2, <3>3, <3>4 DEF RowsStayWhole
  <2>7. NoAliasing'
    <3>1. /\ DOMAIN reserve = 1 .. Len(reserve)
          /\ DOMAIN reserve' = 1 .. (Len(reserve) + 1)
          /\ Len(reserve) \in Nat
          /\ \A k \in DOMAIN reserve : reserve'[k] = reserve[k]
          /\ reserve'[Len(reserve) + 1] = c
      BY <2>1, <2>2, AppendLemma DEF TypeOK
    <3>2. IsInjective(reserve')
      BY <2>1, <3>1 DEF NoAliasing, Range, IsInjective
    <3>3. Range(reserve') = Range(reserve) \cup {c}
      BY <3>1 DEF Range
    <3> QED BY <2>1, <2>2, <3>2, <3>3 DEF NoAliasing, ViewCells
  <2> QED BY <2>4, <2>5, <2>6, <2>7
<1> QED BY <1>1, <1>2 DEF AddPool, Fails, Errors

\* updatePool writes into a cell and moves nothing.
LEMMA UpdatePoolInv ==
  ASSUME IInv, NEW p \in PoolIDs, NEW r \in Reserves, UpdatePool(p, r)
  PROVE  IInv'
<1>1. /\ UNCHANGED <<slices, view>>
      /\ heap' \in [Cells -> Reserves]
      /\ result' \in Errors
  BY DEF UpdatePool, Fails, IInv, TypeOK, Errors
<1> QED BY <1>1, SameRows

\* A tracked pool's position holds that pool: the map and the id slice undo each other.
LEMMA RoundTrip ==
  ASSUME IInv, NEW p \in DOMAIN idToIndex
  PROVE  idToIndex[p] \in DOMAIN id /\ id[idToIndex[p]] = p
  BY DEF IInv, TypeOK, IndexInverse, Range

\* deletePool repairs the map for the moved pool only, and that is enough: every other pool
\* keeps its position, and the freed cell is held by nobody.
LEMMA DeletePoolInv ==
  ASSUME IInv, NEW p \in PoolIDs, DeletePool(p)
  PROVE  IInv'
<1> USE DEF IInv
<1>1. CASE UNCHANGED <<slices, heap, view>> /\ result' \in Errors
  BY <1>1, SameRows DEF TypeOK
<1>2. CASE hasPool(p) /\ id' = SwapAndPop(id, idToIndex[p])
  <2> DEFINE i == idToIndex[p]
             n == Len(id)
  <2>1. /\ attr' = [c \in Columns |-> SwapAndPop(attr[c], i)]
        /\ reserve' = SwapAndPop(reserve, i)
        /\ idToIndex' = Reindex(p, i)
        /\ heap' = [heap EXCEPT ![reserve[i]] = Zero]
        /\ result' = "nil"
        /\ view' = view
    BY <1>2 DEF DeletePool, Fails, hasPool, slices
  <2>2. /\ n \in Nat
        /\ DOMAIN id = 1 .. n /\ DOMAIN reserve = 1 .. n
        /\ \A c \in Columns : attr[c] \in Seq(Values) /\ Len(attr[c]) = n
        /\ i \in 1 .. n /\ id[i] = p
    BY <1>2, RoundTrip DEF hasPool, TypeOK, RowsStayWhole
  <2>3. /\ DOMAIN id' = 1 .. (n - 1)
        /\ DOMAIN reserve' = 1 .. (n - 1)
        /\ Len(id') = n - 1 /\ Len(reserve') = n - 1
        /\ \A k \in 1 .. (n - 1) : /\ id'[k] = IF k = i THEN id[n] ELSE id[k]
                                   /\ reserve'[k] = IF k = i THEN reserve[n] ELSE reserve[k]
    BY <1>2, <2>1, <2>2 DEF SwapAndPop, TypeOK, RowsStayWhole
  <2>4. id' \in Seq(PoolIDs) /\ attr' \in [Columns -> Seq(Values)] /\ reserve' \in Seq(Cells)
    <3>1. \A c \in Columns : SwapAndPop(attr[c], i) \in Seq(Values)
      BY <2>2, SwapAndPopLemma
    <3>2. SwapAndPop(id, i) \in Seq(PoolIDs) /\ SwapAndPop(reserve, i) \in Seq(Cells)
      BY <2>2, SwapAndPopLemma DEF TypeOK
    <3> QED BY <1>2, <2>1, <3>1, <3>2
  <2>5. idToIndex' = [q \in DOMAIN idToIndex \ {p} |-> IF q = id[n] THEN i ELSE idToIndex[q]]
    BY <2>1, <2>2 DEF Reindex, Restrict, TypeOK
  <2>6. \A q \in DOMAIN idToIndex \ {p} : q # id[n] => idToIndex[q] \in 1 .. (n - 1) /\ idToIndex[q] # i
    BY <2>2, RoundTrip
  <2>7. TypeOK'
    <3>1. n - 1 \in Nat /\ (n \notin {i} => i \in 1 .. (n - 1))
      BY <2>2
    <3>2. \A q \in DOMAIN idToIndex' : idToIndex'[q] \in DOMAIN id'
      BY <2>2, <2>3, <2>5, <2>6, <3>1
    <3>3. heap' \in [Cells -> Reserves]
      BY <2>1, ConstantsAssumption DEF TypeOK
    <3>4. idToIndex' \in [DOMAIN idToIndex' -> DOMAIN id'] /\ DOMAIN idToIndex' \subseteq PoolIDs
      BY <2>5, <3>2 DEF TypeOK
    <3> QED BY <2>1, <2>4, <3>3, <3>4 DEF TypeOK, Errors
  <2>8. IndexInverse'
    <3>1. ASSUME NEW k \in DOMAIN id'
          PROVE  id'[k] \in DOMAIN idToIndex \ {p} /\ idToIndex'[id'[k]] = k
      <4>1. k \in 1 .. n /\ n \in 1 .. n /\ k # n
        BY <2>2, <2>3, <3>1
      <4>2. \A m \in 1 .. n : id[m] \in DOMAIN idToIndex /\ idToIndex[id[m]] = m
        BY <2>2 DEF IndexInverse, Range
      <4>3. id'[k] = IF k = i THEN id[n] ELSE id[k]
        BY <2>3, <3>1
      <4>4. id'[k] \in DOMAIN idToIndex \ {p}
        BY <2>2, <4>1, <4>2, <4>3
      <4> QED BY <2>5, <4>1, <4>2, <4>3, <4>4
    <3>2. \A q \in DOMAIN idToIndex' : q \in Range(id')
      <4> TAKE q \in DOMAIN idToIndex'
      <4>1. CASE q = id[n]
        <5>1. i # n
          BY <2>2, <2>5, <4>1
        <5>2. i \in DOMAIN id' /\ id'[i] = q
          BY <2>2, <2>3, <4>1, <5>1
        <5> QED BY <5>2 DEF Range
      <4>2. CASE q # id[n]
        <5>1. idToIndex[q] \in DOMAIN id' /\ id'[idToIndex[q]] = q
          BY <2>2, <2>3, <2>5, <2>6, <4>2, RoundTrip
        <5> QED BY <5>1 DEF Range
      <4> QED BY <4>1, <4>2
    <3>3. Range(id') \subseteq DOMAIN idToIndex'
      <4>1. DOMAIN idToIndex' = DOMAIN idToIndex \ {p}
        BY <2>5
      <4> QED BY <3>1, <4>1 DEF Range
    <3> QED BY <3>1, <3>2, <3>3 DEF IndexInverse
  <2>9. RowsStayWhole'
    <3>1. \A c \in Columns : /\ Len(attr'[c]) = n - 1
                             /\ \A k \in 1 .. (n - 1) :
                                  attr'[c][k] = IF k = i THEN attr[c][n] ELSE attr[c][k]
      BY <2>1, <2>2 DEF SwapAndPop
    <3>2. ASSUME NEW k \in DOMAIN id' PROVE Attr(k)' = AttrOf[id'[k]]
      <4>1. \A m \in 1 .. n : Attr(m) = AttrOf[id[m]]
        BY <2>2 DEF RowsStayWhole
      <4>2. k \in 1 .. (n - 1) /\ k \in 1 .. n /\ n \in 1 .. n
        BY <2>2, <2>3
      <4>3. Attr(k)' = IF k = i THEN Attr(n) ELSE Attr(k)
        BY <3>1, <4>2 DEF Attr
      <4> QED BY <2>3, <4>1, <4>2, <4>3
    <3> QED BY <2>1, <2>3, <3>1, <3>2 DEF RowsStayWhole
  <2>10. NoAliasing'
    <3>1. IsInjective(reserve')
      BY <2>2, <2>3 DEF NoAliasing, IsInjective
    <3>2. Range(reserve') \subseteq Range(reserve)
      BY <2>2, <2>3 DEF Range
    <3> QED BY <2>1, <3>1, <3>2 DEF NoAliasing, ViewCells
  <2> QED BY <2>7, <2>8, <2>9, <2>10
<1> QED BY <1>1, <1>2 DEF DeletePool, Fails, Errors

\* Copying cells leaves a heap of reserves.
LEMMA CopiedType ==
  ASSUME TypeOK, NEW n \in Nat, NEW from \in [1 .. n -> Cells], NEW to \in [1 .. n -> Cells], NEW kept
  PROVE  Copied(from, to, kept) \in [Cells -> Reserves]
  BY ConstantsAssumption DEF Copied, Range, TypeOK

\* viewRegistry copies every row, its reserves into cells that the registry does not hold.
LEMMA ViewRegistryInv ==
  ASSUME IInv, ViewRegistry
  PROVE  IInv'
<1> USE DEF IInv
<1> DEFINE n == Len(id)
           cells == Allocate(n)
<1>1. /\ n \in Nat
      /\ DOMAIN id = 1 .. n /\ reserve \in [1 .. n -> Cells]
  BY DEF TypeOK, RowsStayWhole
<1>2. cells \in [1 .. n -> Free] /\ IsInjective(cells)
  BY <1>1, AllocateLemma DEF ViewRegistry
<1>3. /\ UNCHANGED <<id, attr, reserve, idToIndex, result>>
      /\ view' = [i \in 1 .. n |-> [id |-> id[i], attr |-> Attr(i), cell |-> cells[i]]]
      /\ heap' = Copied(reserve, cells, Range(reserve))
  BY DEF ViewRegistry, slices
<1> HIDE DEF cells
<1>4. \A i \in 1 .. n : cells[i] \in Cells /\ cells[i] \notin Range(reserve)
  BY <1>2 DEF Free
<1>5. TypeOK'
  <2>1. heap' \in [Cells -> Reserves]
    BY <1>1, <1>2, <1>3, <1>4, CopiedType
  <2>2. view' \in [1 .. n -> Row]
    <3>1. \A i \in 1 .. n : Attr(i) \in [Columns -> Values]
      BY <1>1 DEF Attr, RowsStayWhole, TypeOK
    <3> QED BY <1>1, <1>3, <1>4, <3>1 DEF Row, TypeOK
  <2>3. view' \in Seq(Row)
    BY <1>1, <2>2, ArrayIsSeq
  <2> QED BY <1>3, <2>1, <2>3 DEF TypeOK
<1>6. IndexInverse'
  BY <1>3 DEF IndexInverse
<1>7. RowsStayWhole'
  BY <1>1, <1>3 DEF RowsStayWhole, IndexInverse, Attr
<1>8. NoAliasing'
  BY <1>1, <1>2, <1>3, <1>4 DEF NoAliasing, IsInjective, ViewCells, Range
<1> QED BY <1>5, <1>6, <1>7, <1>8

\* A registry rebuilt from a view has the positions of the view's rows and its own cells.
LEMMA NewRegistryFromViewsInv ==
  ASSUME IInv, NewRegistryFromViews
  PROVE  IInv'
<1> USE DEF IInv
<1> DEFINE n == Len(view)
           cells == Allocate(n)
           from == [i \in DOMAIN view |-> view[i].cell]
<1>1. n \in Nat /\ DOMAIN view = 1 .. n /\ \A i \in 1 .. n : view[i] \in Row
  BY DEF TypeOK
<1>2. cells \in [1 .. n -> Free] /\ IsInjective(cells)
  BY <1>1, AllocateLemma DEF NewRegistryFromViews
<1>3. /\ UNCHANGED <<view, result>>
      /\ reserve' = cells
      /\ heap' = Copied(from, cells, ViewCells)
      /\ id' = [i \in 1 .. n |-> view[i].id]
      /\ attr' = [c \in Columns |-> [i \in 1 .. n |-> view[i].attr[c]]]
      /\ idToIndex' = [p \in {view[i].id : i \in DOMAIN view} |->
                         CHOOSE i \in DOMAIN view : view[i].id = p]
  BY DEF NewRegistryFromViews
<1> HIDE DEF cells
<1>4. \A i \in 1 .. n : cells[i] \in Cells /\ cells[i] \notin ViewCells
  BY <1>2 DEF Free
<1>5. /\ id' \in [1 .. n -> PoolIDs]
      /\ attr' \in [Columns -> [1 .. n -> Values]]
      /\ reserve' \in [1 .. n -> Cells]
  BY <1>1, <1>2, <1>3, <1>4 DEF Row
<1>6. \A i \in 1 .. n : idToIndex'[view[i].id] = i
  BY <1>1, <1>3 DEF RowsStayWhole
<1>7. TypeOK'
  <2>1. heap' \in [Cells -> Reserves]
    <3>1. from \in [1 .. n -> Cells]
      BY <1>1 DEF Row
    <3> QED BY <1>1, <1>3, <1>5, <3>1, CopiedType
  <2>2. idToIndex' \in [DOMAIN idToIndex' -> DOMAIN id'] /\ DOMAIN idToIndex' \subseteq PoolIDs
    BY <1>1, <1>3, <1>5, <1>6 DEF Row
  <2>3. id' \in Seq(PoolIDs) /\ attr' \in [Columns -> Seq(Values)] /\ reserve' \in Seq(Cells)
    BY <1>1, <1>5, ArrayIsSeq
  <2> QED BY <1>3, <2>1, <2>2, <2>3 DEF TypeOK
<1>8. IndexInverse'
  BY <1>1, <1>3, <1>6 DEF IndexInverse, Range
<1>9. RowsStayWhole'
  <2>1. Len(id') = n /\ Len(reserve') = n /\ \A c \in Columns : Len(attr'[c]) = n
    BY <1>1, <1>5, ArrayIsSeq
  <2>2. ASSUME NEW i \in 1 .. n PROVE Attr(i)' = AttrOf[id'[i]]
    <3>1. view[i].attr \in [Columns -> Values] /\ view[i].attr = AttrOf[view[i].id]
      BY <1>1 DEF Row, RowsStayWhole
    <3>2. Attr(i)' = [c \in Columns |-> view[i].attr[c]]
      BY <1>3 DEF Attr
    <3> QED BY <1>3, <3>1, <3>2
  <2> QED BY <1>1, <1>3, <1>5, <2>1, <2>2 DEF RowsStayWhole
<1>10. NoAliasing'
  <2>1. ViewCells' = ViewCells
    BY <1>3 DEF ViewCells
  <2>2. IsInjective(reserve') /\ Range(reserve') \cap ViewCells = {}
    BY <1>1, <1>2, <1>3, <1>4 DEF IsInjective, Range
  <2> QED BY <1>3, <2>1, <2>2 DEF NoAliasing
<1> QED BY <1>7, <1>8, <1>9, <1>10

\* A holder that writes into its view reaches no row of the registry.
LEMMA WriteViewInv ==
  ASSUME IInv, WriteView
  PROVE  IInv'
<1>1. /\ UNCHANGED <<slices, view>>
      /\ heap' \in [Cells -> Reserves]
      /\ result' \in Errors
  BY DEF WriteView, IInv, TypeOK
<1> QED BY <1>1, SameRows

\* Every operation preserves the invariant.
LEMMA NextInv == IInv /\ [Next]_vars => IInv'
<1> SUFFICES ASSUME IInv, [Next]_vars PROVE IInv'
  OBVIOUS
<1>1. ASSUME NEW p \in PoolIDs, AddPool(p) PROVE IInv'
  BY <1>1, AddPoolInv
<1>2. ASSUME NEW p \in PoolIDs, DeletePool(p) PROVE IInv'
  BY <1>2, DeletePoolInv
<1>3. ASSUME NEW p \in PoolIDs, NEW r \in Reserves, UpdatePool(p, r) PROVE IInv'
  BY <1>3, UpdatePoolInv
<1>4. CASE ViewRegistry
  BY <1>4, ViewRegistryInv
<1>5. CASE NewRegistryFromViews
  BY <1>5, NewRegistryFromViewsInv
<1>6. CASE WriteView
  BY <1>6, WriteViewInv
<1>7. CASE UNCHANGED vars
  <2>1. /\ UNCHANGED <<slices, view>>
        /\ heap' \in [Cells -> Reserves]
        /\ result' \in Errors
    BY <1>7 DEF vars, slices, IInv, TypeOK
  <2> QED BY <2>1, SameRows
<1> QED BY <1>1, <1>2, <1>3, <1>4, <1>5, <1>6, <1>7 DEF Next

\* IInv is an invariant of the registry for any pools, reserves and number of cells.
THEOREM Invariance == Spec => []IInv
  BY InitInv, NextInv, PTL DEF Spec

\* The slices, the map and the heap always have their types; every indexed position exists.
THEOREM TypeCorrect == Spec => []TypeOK
  BY Invariance, PTL DEF IInv

\* The map is always the exact inverse of the id slice, after any sequence of additions,
\* swap-and-pop deletions and rebuilds.
THEOREM IndexIsInverse == Spec => []IndexInverse
<1>1. IInv => IndexInverse
  BY DEF IInv
<1> QED BY <1>1, Invariance, PTL

\* A pool is never shown with the tokens, type or fee of another one.
THEOREM RowsAreWhole == Spec => []RowsStayWhole
<1>1. IInv => RowsStayWhole
  BY DEF IInv
<1> QED BY <1>1, Invariance, PTL

\* No cell of reserves is held twice, by rows, by views, or by a row and a view.
THEOREM CellsAreUnshared == Spec => []NoAliasing
<1>1. IInv => NoAliasing
  BY DEF IInv
<1> QED BY <1>1, Invariance, PTL

-----------------------------------------------------------------------------
\* The record of a tracked pool is read from the row its position names.
LEMMA StoredRow ==
  ASSUME IInv, NEW p \in DOMAIN idToIndex
  PROVE  /\ StoredPools[p] = [attr |-> AttrOf[p], reserve |-> heap[reserve[idToIndex[p]]]]
         /\ idToIndex[p] \in DOMAIN reserve
         /\ reserve[idToIndex[p]] \in Cells
<1>1. idToIndex[p] \in DOMAIN id /\ id[idToIndex[p]] = p
  BY RoundTrip
<1>2. DOMAIN id = DOMAIN reserve
  BY DEF IInv, TypeOK, RowsStayWhole
<1>3. Attr(idToIndex[p]) = AttrOf[p]
  BY <1>1 DEF IInv, RowsStayWhole
<1> QED BY <1>1, <1>2, <1>3 DEF StoredPools, getPoolById, IInv, TypeOK

\* The same of the next state.
LEMMA StoredRowNext ==
  ASSUME IInv', NEW p \in DOMAIN idToIndex'
  PROVE  StoredPools'[p] = [attr |-> AttrOf[p], reserve |-> heap'[reserve'[idToIndex'[p]]]]
<1>1. idToIndex'[p] \in DOMAIN id' /\ id'[idToIndex'[p]] = p
  <2>1. DOMAIN idToIndex' = Range(id') /\ \A i \in DOMAIN id' : idToIndex'[id'[i]] = i
    BY DEF IInv, IndexInverse
  <2>2. PICK i \in DOMAIN id' : id'[i] = p
    BY <2>1 DEF Range
  <2> QED BY <2>1, <2>2
<1>2. Attr(idToIndex[p])' = AttrOf[p]
  <2>1. \A i \in DOMAIN id' : Attr(i)' = AttrOf[id'[i]]
    BY DEF IInv, RowsStayWhole
  <2> QED BY <1>1, <2>1
<1>3. StoredPools'[p] = [attr |-> Attr(idToIndex[p])', reserve |-> heap'[reserve'[idToIndex'[p]]]]
  BY DEF StoredPools, getPoolById
<1> QED BY <1>2, <1>3

\* The record a view's holder reads for a pool is that of the one row with the pool's ID.
LEMMA ViewRow ==
  ASSUME IInv, NEW i \in DOMAIN view
  PROVE  /\ ViewContents[view[i].id] = [attr |-> view[i].attr, reserve |-> heap[view[i].cell]]
         /\ view[i].cell \in ViewCells
  BY DEF ViewContents, ViewCells, IInv, RowsStayWhole

\* The same of the next state.
LEMMA ViewRowNext ==
  ASSUME IInv', NEW i \in DOMAIN view'
  PROVE  ViewContents'[view'[i].id] = [attr |-> view'[i].attr, reserve |-> heap'[view'[i].cell]]
<1>1. RowsStayWhole'
  BY DEF IInv
<1>2. \A j \in DOMAIN view' : view'[i].id = view'[j].id => i = j
  BY <1>1 DEF RowsStayWhole
<1> QED BY <1>2 DEF ViewContents

\* The cells of a view's rows are exactly the cells the view holds.
LEMMA ViewCellsAreFreshCells ==
  ASSUME IInv
  PROVE  ViewCells \subseteq Cells /\ \A c \in Range(reserve) : c \notin ViewCells
<1>1. \A i \in DOMAIN view : view[i] \in Row
  BY DEF IInv, TypeOK
<1>2. ViewCells \subseteq Cells
  BY <1>1 DEF ViewCells, Row
<1> QED BY <1>2 DEF IInv, NoAliasing

\* A view whose slice and cells are left alone shows the same contents.
LEMMA ViewKept ==
  ASSUME IInv, view' = view, \A c \in ViewCells : heap'[c] = heap[c]
  PROVE  ViewContents' = ViewContents
<1>1. \A p \in {view[i].id : i \in DOMAIN view} :
        (CHOOSE i \in DOMAIN view : view[i].id = p) \in DOMAIN view
  OBVIOUS
<1> QED BY <1>1 DEF ViewContents, ViewCells

\* A call that fails changes neither the stored pools nor the exported ones.
LEMMA FailsRefines ==
  ASSUME NEW e, Fails(e)
  PROVE  Store!Fails(e)
  BY DEF Fails, Store!Fails, slices, StoredPools, getPoolById, Attr, ViewContents

\* addPool adds one record to the map, or fails as PoolStore says.
LEMMA AddPoolRefines ==
  ASSUME IInv, IInv', NEW p \in PoolIDs, AddPool(p)
  PROVE  Store!AddPool(p)
<1>1. CASE hasPool(p) /\ Fails("ErrPoolExists")
  BY <1>1, FailsRefines DEF Store!AddPool, hasPool, StoredPools
<1>2. CASE Fails("DependencyError")
  BY <1>2, FailsRefines DEF Store!AddPool
<1>3. CASE ~hasPool(p) /\ CanAllocate(1) /\ id' = Append(id, p)
  <2> DEFINE c == Allocate(1)[1]
  <2>1. c \in Cells /\ c \notin Range(reserve) /\ c \notin ViewCells
    BY <1>3, AllocateLemma DEF Free
  <2>2. /\ reserve' = Append(reserve, c)
        /\ heap' = [heap EXCEPT ![c] = Zero]
        /\ idToIndex' = [q \in DOMAIN idToIndex \cup {p} |->
                           IF q = p THEN Len(id) + 1 ELSE idToIndex[q]]
        /\ result' = "nil"
        /\ view' = view
        /\ p \notin DOMAIN idToIndex
    BY <1>3 DEF AddPool, hasPool, Fails, slices
  <2> HIDE DEF c
  <2>3. /\ Len(id) = Len(reserve)
        /\ Len(reserve) \in Nat
        /\ reserve'[Len(reserve) + 1] = c
        /\ \A k \in DOMAIN reserve : reserve'[k] = reserve[k]
    BY <2>1, <2>2, AppendLemma DEF IInv, TypeOK, RowsStayWhole
  <2>4. ViewContents' = ViewContents
    BY <2>1, <2>2, ViewKept DEF IInv, TypeOK, ViewCells
  <2>5. \A q \in DOMAIN idToIndex' :
          StoredPools'[q] = [attr |-> AttrOf[q], reserve |-> heap'[reserve'[idToIndex'[q]]]]
    BY StoredRowNext
  <2>6. \A q \in DOMAIN idToIndex' :
          StoredPools'[q] = IF q = p THEN [attr |-> AttrOf[p], reserve |-> Zero] ELSE StoredPools[q]
    <3> TAKE q \in DOMAIN idToIndex'
    <3>1. CASE q = p
      <4>1. idToIndex'[p] = Len(reserve) + 1
        BY <2>2, <2>3
      <4>2. heap'[c] = Zero
        BY <2>1, <2>2 DEF IInv, TypeOK
      <4>3. StoredPools'[p] = [attr |-> AttrOf[p], reserve |-> heap'[reserve'[idToIndex'[p]]]]
        BY <2>5, <3>1
      <4>4. StoredPools'[p] = [attr |-> AttrOf[p], reserve |-> Zero]
        BY <2>3, <4>1, <4>2, <4>3
      <4> QED BY <3>1, <4>4
    <3>2. CASE q # p
      <4>1. q \in DOMAIN idToIndex /\ idToIndex'[q] = idToIndex[q]
        BY <2>2, <3>2
      <4>2. reserve'[idToIndex[q]] = reserve[idToIndex[q]] /\ reserve[idToIndex[q]] # c
        BY <2>1, <2>3, <4>1, StoredRow DEF Range
      <4>3. heap'[reserve[idToIndex[q]]] = heap[reserve[idToIndex[q]]]
        BY <2>2, <4>1, <4>2, StoredRow DEF IInv, TypeOK
      <4>4. StoredPools'[q] = [attr |-> AttrOf[q], reserve |-> heap[reserve[idToIndex[q]]]]
        BY <2>5, <4>1, <4>2, <4>3
      <4> QED BY <3>2, <4>1, <4>4, StoredRow
    <3> QED BY <3>1, <3>2
  <2>7. DOMAIN StoredPools = DOMAIN idToIndex /\ DOMAIN StoredPools' = DOMAIN idToIndex \cup {p}
    BY <2>2 DEF StoredPools
  <2>8. StoredPools' = [q \in DOMAIN StoredPools \cup {p} |->
                          IF q = p THEN [attr |-> AttrOf[p], reserve |-> Zero] ELSE StoredPools[q]]
    BY <2>2, <2>6, <2>7 DEF StoredPools
  <2> QED BY <2>2, <2>4, <2>7, <2>8 DEF Store!AddPool
<1> QED BY <1>1, <1>2, <1>3 DEF AddPool

\* updatePool replaces the reserves of one record and touches no other, although it writes
\* through a pointer: by NoAliasing nobody else holds the cell.
LEMMA UpdatePoolRefines ==
  ASSUME IInv, IInv', NEW p \in PoolIDs, NEW r \in Reserves, UpdatePool(p, r)
  PROVE  Store!UpdatePool(p, r)
<1>1. CASE ~hasPool(p) /\ Fails("ErrPoolNotFound")
  BY <1>1, FailsRefines DEF Store!UpdatePool, hasPool, StoredPools
<1>2. CASE hasPool(p) /\ result' = "nil" /\ UNCHANGED <<slices, view>>
           /\ heap' = [heap EXCEPT ![reserve[idToIndex[p]]] = r]
  <2> DEFINE c == reserve[idToIndex[p]]
  <2>1. p \in DOMAIN idToIndex /\ c \in Cells /\ c \in Range(reserve)
    BY <1>2, StoredRow DEF hasPool, Range
  <2>2. /\ idToIndex' = idToIndex /\ reserve' = reserve /\ view' = view
        /\ \A d \in Cells : heap'[d] = IF d = c THEN r ELSE heap[d]
    BY <1>2, <2>1 DEF slices, IInv, TypeOK
  <2>3. ViewContents' = ViewContents
    <3>1. \A d \in ViewCells : d \in Cells /\ d # c
      BY <2>1, ViewCellsAreFreshCells
    <3> QED BY <2>2, <3>1, ViewKept
  <2>4. \A q \in DOMAIN idToIndex :
          StoredPools'[q] = IF q = p THEN [attr |-> AttrOf[p], reserve |-> r] ELSE StoredPools[q]
    <3> TAKE q \in DOMAIN idToIndex
    <3>1. StoredPools'[q] = [attr |-> AttrOf[q], reserve |-> heap'[reserve[idToIndex[q]]]]
      BY <2>2, StoredRowNext
    <3>2. CASE q = p
      BY <2>1, <2>2, <3>1, <3>2
    <3>3. CASE q # p
      <4>1. idToIndex[q] # idToIndex[p]
        BY <2>1, <3>3, RoundTrip
      <4>2. reserve[idToIndex[q]] \in Cells /\ reserve[idToIndex[q]] # c
        BY <2>1, <4>1, StoredRow DEF IInv, NoAliasing, IsInjective
      <4> QED BY <2>2, <3>1, <3>3, <4>2, StoredRow
    <3> QED BY <3>2, <3>3
  <2>5. DOMAIN StoredPools = DOMAIN idToIndex /\ DOMAIN StoredPools' = DOMAIN idToIndex
    BY <2>2 DEF StoredPools
  <2>6. StoredPools' = [StoredPools EXCEPT ![p].reserve = r]
    <3>1. StoredPools[p] = [attr |-> AttrOf[p], reserve |-> heap[c]]
      BY <2>1, StoredRow
    <3>2. \A q \in DOMAIN idToIndex : StoredPools'[q] = [StoredPools EXCEPT ![p].reserve = r][q]
      BY <2>1, <2>4, <2>5, <3>1
    <3> QED BY <2>2, <2>5, <3>2 DEF StoredPools
  <2> QED BY <1>2, <2>1, <2>3, <2>5, <2>6 DEF Store!UpdatePool
<1> QED BY <1>1, <1>2 DEF UpdatePool

\* deletePool removes one record from the map, although it moves the row of another.
LEMMA DeletePoolRefines ==
  ASSUME IInv, IInv', NEW p \in PoolIDs, DeletePool(p)
  PROVE  Store!DeletePool(p)
<1>1. CASE ~hasPool(p) /\ Fails("ErrPoolNotFound")
  BY <1>1, FailsRefines DEF Store!DeletePool, hasPool, StoredPools
<1>2. CASE hasPool(p) /\ id' = SwapAndPop(id, idToIndex[p])
  <2> DEFINE i == idToIndex[p]
             n == Len(id)
  <2>1. /\ reserve' = SwapAndPop(reserve, i)
        /\ idToIndex' = Reindex(p, i)
        /\ heap' = [heap EXCEPT ![reserve[i]] = Zero]
        /\ result' = "nil"
        /\ view' = view
        /\ p \in DOMAIN idToIndex
    BY <1>2 DEF DeletePool, Fails, hasPool, slices
  <2>2. n \in Nat /\ DOMAIN id = 1 .. n /\ DOMAIN reserve = 1 .. n /\ i \in 1 .. n /\ id[i] = p
    BY <2>1, RoundTrip DEF IInv, TypeOK, RowsStayWhole
  <2>3. /\ DOMAIN reserve' = 1 .. (n - 1)
        /\ \A k \in 1 .. (n - 1) : reserve'[k] = IF k = i THEN reserve[n] ELSE reserve[k]
    <3>1. reserve \in Seq(Cells) /\ Len(reserve) = n /\ i \in DOMAIN reserve
      BY <2>2 DEF IInv, TypeOK
    <3> HIDE DEF i, n
    <3>2. /\ DOMAIN SwapAndPop(reserve, i) = 1 .. (Len(reserve) - 1)
          /\ \A k \in 1 .. (Len(reserve) - 1) :
               SwapAndPop(reserve, i)[k] = IF k = i THEN reserve[Len(reserve)] ELSE reserve[k]
      BY <3>1, SwapAndPopLemma
    <3> QED BY <2>1, <3>1, <3>2
  <2>4. idToIndex' = [q \in DOMAIN idToIndex \ {p} |-> IF q = id[n] THEN i ELSE idToIndex[q]]
    BY <2>1, <2>2 DEF Reindex, Restrict, IInv, TypeOK
  <2>5. \A q \in DOMAIN idToIndex \ {p} : reserve'[idToIndex'[q]] = reserve[idToIndex[q]]
    <3> TAKE q \in DOMAIN idToIndex \ {p}
    <3>1. idToIndex[q] \in 1 .. n /\ id[idToIndex[q]] = q
      BY <2>2, RoundTrip
    <3>2. CASE q = id[n]
      <4>1. idToIndex[q] = n /\ idToIndex'[q] = i /\ i \in 1 .. (n - 1)
        BY <2>2, <2>4, <3>2 DEF IInv, IndexInverse
      <4> QED BY <2>3, <4>1
    <3>3. CASE q # id[n]
      <4>1. idToIndex'[q] = idToIndex[q] /\ idToIndex[q] \in 1 .. (n - 1) /\ idToIndex[q] # i
        BY <2>2, <2>4, <3>1, <3>3
      <4> QED BY <2>3, <4>1
    <3> QED BY <3>2, <3>3
  <2>6. /\ reserve[i] \in Cells /\ reserve[i] \in Range(reserve)
        /\ \A d \in Cells : d # reserve[i] => heap'[d] = heap[d]
    BY <2>1, <2>2, StoredRow DEF IInv, TypeOK, Range
  <2>7. ViewContents' = ViewContents
    <3>1. \A d \in ViewCells : d \in Cells /\ d # reserve[i]
      BY <2>6, ViewCellsAreFreshCells
    <3> QED BY <2>1, <2>6, <3>1, ViewKept
  <2>8. \A q \in DOMAIN idToIndex \ {p} : StoredPools'[q] = StoredPools[q]
    <3> TAKE q \in DOMAIN idToIndex \ {p}
    <3>1. q \in DOMAIN idToIndex'
      BY <2>4
    <3>2. StoredPools'[q] = [attr |-> AttrOf[q], reserve |-> heap'[reserve[idToIndex[q]]]]
      BY <2>5, <3>1, StoredRowNext
    <3>3. idToIndex[q] # i
      BY <2>2, RoundTrip
    <3>4. reserve[idToIndex[q]] # reserve[i] /\ reserve[idToIndex[q]] \in Cells
      BY <2>2, <3>3, StoredRow DEF IInv, NoAliasing, IsInjective
    <3> QED BY <2>6, <3>2, <3>4, StoredRow
  <2>9. DOMAIN StoredPools = DOMAIN idToIndex /\ DOMAIN StoredPools' = DOMAIN idToIndex \ {p}
    BY <2>4 DEF StoredPools
  <2>10. StoredPools' = [q \in DOMAIN StoredPools \ {p} |-> StoredPools[q]]
    BY <2>8, <2>9 DEF StoredPools
  <2> QED BY <2>1, <2>7, <2>9, <2>10 DEF Store!DeletePool
<1> QED BY <1>1, <1>2 DEF DeletePool

\* The i-th new cell holds the value of the i-th copied one.
LEMMA CopiedLemma ==
  ASSUME NEW from, NEW to, IsInjective(to), NEW kept, NEW i \in DOMAIN to, to[i] \in Cells
  PROVE  Copied(from, to, kept)[to[i]] = heap[from[i]]
<1>1. \A j \in DOMAIN to : to[j] = to[i] => j = i
  BY DEF IsInjective
<1>2. to[i] \in Range(to) /\ (CHOOSE j \in DOMAIN to : to[j] = to[i]) = i
  BY <1>1 DEF Range
<1> QED BY <1>2 DEF Copied

\* The cells that are kept keep their value.
LEMMA KeptLemma ==
  ASSUME NEW from, NEW to, NEW kept, NEW c \in kept \cap Cells, c \notin Range(to)
  PROVE  Copied(from, to, kept)[c] = heap[c]
  BY DEF Copied

\* viewRegistry exports exactly the stored pools.
LEMMA ViewRegistryRefines ==
  ASSUME IInv, IInv', ViewRegistry
  PROVE  Store!Export
<1> DEFINE n == Len(id)
           cells == Allocate(n)
<1>1. /\ n \in Nat
      /\ DOMAIN id = 1 .. n /\ reserve \in [1 .. n -> Cells]
  BY DEF IInv, TypeOK, RowsStayWhole
<1>2. cells \in [1 .. n -> Free] /\ IsInjective(cells)
  BY <1>1, AllocateLemma DEF ViewRegistry
<1>3. /\ UNCHANGED <<id, attr, reserve, idToIndex, result>>
      /\ view' = [i \in 1 .. n |-> [id |-> id[i], attr |-> Attr(i), cell |-> cells[i]]]
      /\ heap' = Copied(reserve, cells, Range(reserve))
  BY DEF ViewRegistry, slices
<1> HIDE DEF cells
<1>4. cells \in [1 .. n -> Cells] /\ \A c \in Range(reserve) : c \in Cells /\ c \notin Range(cells)
  BY <1>1, <1>2 DEF Free, Range
<1>5. /\ \A i \in 1 .. n : heap'[cells[i]] = heap[reserve[i]]
      /\ \A i \in 1 .. n : heap'[reserve[i]] = heap[reserve[i]]
  <2>1. ASSUME NEW i \in 1 .. n
        PROVE  Copied(reserve, cells, Range(reserve))[cells[i]] = heap[reserve[i]]
    <3>1. i \in DOMAIN cells /\ cells[i] \in Cells
      BY <1>4
    <3> QED BY <1>2, <3>1, CopiedLemma
  <2>2. \A c \in Range(reserve) \cap Cells :
          c \notin Range(cells) => Copied(reserve, cells, Range(reserve))[c] = heap[c]
    BY KeptLemma
  <2>3. \A i \in 1 .. n : reserve[i] \in Range(reserve)
    BY <1>1 DEF Range
  <2> QED BY <1>3, <1>4, <2>1, <2>2, <2>3
<1>6. StoredPools' = StoredPools
  <2>1. \A p \in DOMAIN idToIndex : idToIndex[p] \in 1 .. n
    BY <1>1, RoundTrip
  <2> QED BY <1>3, <1>5, <2>1 DEF StoredPools, getPoolById, Attr
<1>7. \A p \in DOMAIN idToIndex : ViewContents'[p] = StoredPools[p]
  <2> TAKE p \in DOMAIN idToIndex
  <2> DEFINE i == idToIndex[p]
  <2>1. i \in 1 .. n /\ id[i] = p
    BY <1>1, RoundTrip
  <2>2. view'[i].id = p /\ view'[i].attr = Attr(i) /\ view'[i].cell = cells[i] /\ i \in DOMAIN view'
    BY <1>3, <2>1
  <2>3. ViewContents'[p] = [attr |-> view'[i].attr, reserve |-> heap'[view'[i].cell]]
    BY <2>2 DEF ViewContents, IInv, RowsStayWhole
  <2> QED BY <1>5, <2>1, <2>2, <2>3 DEF StoredPools, getPoolById
<1>8. DOMAIN ViewContents' = DOMAIN idToIndex
  <2>1. DOMAIN view' = DOMAIN id /\ \A i \in DOMAIN id : view'[i].id = id[i]
    BY <1>1, <1>3
  <2> QED BY <2>1 DEF ViewContents, IInv, IndexInverse, Range
<1>9. ViewContents' = StoredPools
  BY <1>7, <1>8 DEF ViewContents, StoredPools
<1> QED BY <1>3, <1>6, <1>9 DEF Store!Export

\* Rebuilding from a view stores exactly the exported pools.
LEMMA NewRegistryFromViewsRefines ==
  ASSUME IInv, IInv', NewRegistryFromViews
  PROVE  Store!Restore
<1> DEFINE n == Len(view)
           cells == Allocate(n)
           from == [i \in DOMAIN view |-> view[i].cell]
<1>1. /\ n \in Nat /\ DOMAIN view = 1 .. n
      /\ from \in [1 .. n -> Cells]
      /\ \A i \in 1 .. n : from[i] = view[i].cell /\ from[i] \in ViewCells
  BY ViewCellsAreFreshCells DEF IInv, TypeOK, ViewCells
<1>2. cells \in [1 .. n -> Free] /\ IsInjective(cells)
  BY <1>1, AllocateLemma DEF NewRegistryFromViews
<1>3. /\ UNCHANGED <<view, result>>
      /\ reserve' = cells
      /\ heap' = Copied(from, cells, ViewCells)
      /\ idToIndex' = [p \in {view[i].id : i \in DOMAIN view} |->
                         CHOOSE i \in DOMAIN view : view[i].id = p]
  BY DEF NewRegistryFromViews
<1> HIDE DEF cells, from
<1>4. cells \in [1 .. n -> Cells] /\ \A c \in ViewCells : c \in Cells /\ c \notin Range(cells)
  BY <1>2, ViewCellsAreFreshCells DEF Free, Range
<1>5. /\ \A i \in 1 .. n : heap'[cells[i]] = heap[view[i].cell]
      /\ \A c \in ViewCells : heap'[c] = heap[c]
  <2>1. ASSUME NEW i \in 1 .. n PROVE Copied(from, cells, ViewCells)[cells[i]] = heap[from[i]]
    <3>1. i \in DOMAIN cells /\ cells[i] \in Cells
      BY <1>4
    <3> QED BY <1>2, <3>1, CopiedLemma
  <2>2. \A c \in ViewCells \cap Cells :
          c \notin Range(cells) => Copied(from, cells, ViewCells)[c] = heap[c]
    BY KeptLemma
  <2> QED BY <1>1, <1>3, <1>4, <2>1, <2>2
<1>6. ViewContents' = ViewContents
  BY <1>3, <1>5, ViewKept
<1>7. \A p \in DOMAIN idToIndex' : StoredPools'[p] = ViewContents[p]
  <2> TAKE p \in DOMAIN idToIndex'
  <2> DEFINE i == idToIndex'[p]
  <2>1. i \in DOMAIN view /\ view[i].id = p
    BY <1>3
  <2>2. StoredPools'[p] = [attr |-> AttrOf[p], reserve |-> heap'[cells[i]]]
    BY <1>3, StoredRowNext
  <2>3. view[i].attr = AttrOf[p]
    BY <2>1 DEF IInv, RowsStayWhole
  <2>4. ViewContents[p] = [attr |-> view[i].attr, reserve |-> heap[view[i].cell]]
    BY <2>1, ViewRow
  <2>5. heap'[cells[i]] = heap[view[i].cell]
    BY <1>1, <1>5, <2>1
  <2> HIDE DEF i
  <2> QED BY <2>2, <2>3, <2>4, <2>5
<1>8. DOMAIN idToIndex' = DOMAIN ViewContents
  BY <1>3 DEF ViewContents
<1>9. StoredPools' = ViewContents
  <2>1. StoredPools' = [p \in DOMAIN idToIndex' |-> StoredPools'[p]]
    BY DEF StoredPools
  <2>2. ViewContents = [p \in DOMAIN ViewContents |-> ViewContents[p]]
    BY DEF ViewContents
  <2> QED BY <1>7, <1>8, <2>1, <2>2
<1> QED BY <1>3, <1>6, <1>9 DEF Store!Restore

\* An assignment to a field of one record of a function.
LEMMA Overwritten ==
  ASSUME NEW D, NEW f, f = [q \in D |-> f[q]], NEW p \in D, NEW r
  PROVE  /\ [f EXCEPT ![p].reserve = r] = [q \in D |-> [f EXCEPT ![p].reserve = r][q]]
         /\ [f EXCEPT ![p].reserve = r][p] = [f[p] EXCEPT !.reserve = r]
         /\ \A q \in D : q # p => [f EXCEPT ![p].reserve = r][q] = f[q]
  OBVIOUS

\* A holder that writes into its view changes the exported records and not the stored ones.
LEMMA WriteViewRefines ==
  ASSUME IInv, IInv', WriteView
  PROVE  Store!WriteView
<1>0. \E i \in DOMAIN view, r \in Reserves : heap' = [heap EXCEPT ![view[i].cell] = r]
  BY Zenon DEF WriteView
<1>1. PICK i \in DOMAIN view, r \in Reserves : heap' = [heap EXCEPT ![view[i].cell] = r]
  BY <1>0, Zenon
<1>2. ConsumersWrite /\ UNCHANGED <<id, attr, reserve, idToIndex, view, result>>
  BY DEF WriteView, slices
<1> DEFINE c == view[i].cell
           p == view[i].id
<1>3. c \in ViewCells /\ c \in Cells /\ \A d \in Cells : heap'[d] = IF d = c THEN r ELSE heap[d]
  <2>1. c \in ViewCells
    BY DEF ViewCells
  <2>2. c \in Cells
    BY <2>1, ViewCellsAreFreshCells
  <2>3. heap \in [Cells -> Reserves]
    BY DEF IInv, TypeOK
  <2> HIDE DEF c
  <2>4. heap' = [heap EXCEPT ![c] = r]
    BY <1>1 DEF c
  <2> QED BY <2>1, <2>2, <2>3, <2>4
<1>4. StoredPools' = StoredPools
  <2>1. \A q \in DOMAIN idToIndex : heap'[reserve[idToIndex[q]]] = heap[reserve[idToIndex[q]]]
    <3> TAKE q \in DOMAIN idToIndex
    <3>1. reserve[idToIndex[q]] \in Range(reserve) /\ reserve[idToIndex[q]] \in Cells
      BY StoredRow DEF Range
    <3> QED BY <1>3, <3>1, ViewCellsAreFreshCells
  <2> QED BY <1>2, <2>1 DEF StoredPools, getPoolById, Attr
<1> DEFINE ids == {view[j].id : j \in DOMAIN view}
           written == [ViewContents EXCEPT ![p].reserve = r]
<1>4a. ViewContents = [q \in ids |-> ViewContents[q]]
  BY Zenon DEF ViewContents
<1>4b. p \in ids
  BY Zenon
<1> HIDE DEF ids, p
<1>5. p \in DOMAIN ViewContents
  BY <1>4a, <1>4b
<1>6. /\ written = [q \in ids |-> written[q]]
      /\ written[p] = [ViewContents[p] EXCEPT !.reserve = r]
      /\ \A q \in ids : q # p => written[q] = ViewContents[q]
  BY <1>4a, <1>4b, Overwritten, Zenon
<1> HIDE DEF written
<1> USE DEF ids, p
<1>7. ASSUME NEW j \in DOMAIN view PROVE ViewContents'[view[j].id] = written[view[j].id]
  <2>1. ViewContents'[view[j].id] = [attr |-> view[j].attr, reserve |-> heap'[view[j].cell]]
    BY <1>2, ViewRowNext
  <2>2. ViewContents[view[j].id] = [attr |-> view[j].attr, reserve |-> heap[view[j].cell]]
    BY ViewRow
  <2>3. view[j].cell \in Cells
    BY ViewRow, ViewCellsAreFreshCells
  <2>4. CASE j = i
    BY <1>3, <1>6, <2>1, <2>2, <2>4
  <2>5. CASE j # i
    <3>1. view[j].cell # c /\ view[j].id # p
      BY <2>5 DEF IInv, NoAliasing, RowsStayWhole
    <3> QED BY <1>3, <1>6, <2>1, <2>2, <2>3, <3>1
  <2> QED BY <2>4, <2>5
<1>8. ViewContents' = written
  <2>1. ViewContents' = [q \in {view'[j].id : j \in DOMAIN view'} |-> ViewContents'[q]]
    BY DEF ViewContents
  <2>2. ViewContents' = [q \in ids |-> ViewContents'[q]]
    BY <1>2, <2>1
  <2>3. \A q \in ids : ViewContents'[q] = written[q]
    BY <1>7
  <2> HIDE DEF ids
  <2> QED BY <1>6, <2>2, <2>3
<1> QED BY <1>2, <1>4, <1>5, <1>8 DEF Store!WriteView, written

\* The empty registry is the empty map.
LEMMA InitRefines == Init => Store!Init
<1> SUFFICES ASSUME Init PROVE Store!Init
  OBVIOUS
<1>1. StoredPools = [p \in {} |-> Zero] /\ ViewContents = [p \in {} |-> Zero]
  BY DEF Init, StoredPools, ViewContents
<1> QED BY <1>1 DEF Init, Store!Init

\* Every operation of the registry is the operation of PoolStore of the same name, or a stutter.
LEMMA NextRefines == IInv /\ IInv' /\ [Next]_vars => [Store!Next]_Store!vars
<1> SUFFICES ASSUME IInv, IInv', [Next]_vars PROVE [Store!Next]_Store!vars
  OBVIOUS
<1>1. ASSUME NEW p \in PoolIDs, AddPool(p) PROVE Store!Next
  BY <1>1, AddPoolRefines DEF Store!Next
<1>2. ASSUME NEW p \in PoolIDs, DeletePool(p) PROVE Store!Next
  BY <1>2, DeletePoolRefines DEF Store!Next
<1>3. ASSUME NEW p \in PoolIDs, NEW r \in Reserves, UpdatePool(p, r) PROVE Store!Next
  BY <1>3, UpdatePoolRefines DEF Store!Next
<1>4. CASE ViewRegistry
  BY <1>4, ViewRegistryRefines DEF Store!Next
<1>5. CASE NewRegistryFromViews
  BY <1>5, NewRegistryFromViewsRefines DEF Store!Next
<1>6. CASE WriteView
  BY <1>6, WriteViewRefines DEF Store!Next
<1>7. CASE UNCHANGED vars
  BY <1>7 DEF vars, slices, Store!vars, StoredPools, getPoolById, Attr, ViewContents
<1> QED BY <1>1, <1>2, <1>3, <1>4, <1>5, <1>6, <1>7 DEF Next

\* The registry implements the map PoolStore: whatever the slices, swaps and pointers do, a
\* caller cannot tell it from a finite map from permanent IDs to pool records.
THEOREM Refinement == Spec => RefinesPoolStore
  BY Invariance, InitRefines, NextRefines, PTL DEF Spec, RefinesPoolStore, Store!Spec
=============================================================================
