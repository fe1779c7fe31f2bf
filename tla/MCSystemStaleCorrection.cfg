\* One pool from a snapshot and the reconciler, no failures: the shortest race between
\* its comparison and its update.
CONSTANTS
  p1 = p1
  Pools = {p1}
  Trusted = {p1}
  Reserves = {0, 1}
  Periodic = {"reconciler"}
  MayCancel = FALSE
  MaxBlock = 2
  MaxFaults = 0
SPECIFICATION Spec
PROPERTY ReconcilerNeverRegresses
