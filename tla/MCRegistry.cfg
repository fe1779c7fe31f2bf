\* Three pools: the deleted row can be the first, the middle or the last one.
\* Nine cells: a full registry, a full view, and the copy being made.
CONSTANTS
  p1 = p1
  p2 = p2
  p3 = p3
  PoolIDs = {p1, p2, p3}
  AttrOf <- MCAttrOf
  Reserves = {0, 1}
  Zero = 0
  Cells = {1, 2, 3, 4, 5, 6, 7, 8, 9}
  ConsumersWrite = TRUE
SPECIFICATION Spec
VIEW MCView
INVARIANTS TypeOK IndexInverse RowsStayWhole NoAliasing
PROPERTY RefinesPoolStore
