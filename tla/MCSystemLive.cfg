\* Every goroutine, one pool, one failing call.
CONSTANTS
  p1 = p1
  Pools = {p1}
  Trusted = {p1}
  Reserves = {0, 1}
  Periodic = {"initializer", "pruner", "reconciler"}
  MayCancel = FALSE
  MaxBlock = 2
  MaxFaults = 1
SPECIFICATION FairSpec
PROPERTIES
  DeletedStaysDeleted EventsNotAheadOfBlock
  QueuedPoolsAreTracked BlocksAreHandled BlockedPoolsLeave ViewConverges
