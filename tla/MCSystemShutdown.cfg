\* Cancellation at any moment.
CONSTANTS
  p1 = p1
  Pools = {p1}
  Trusted = {p1}
  Reserves = {0, 1}
  Periodic = {"initializer", "pruner", "reconciler"}
  MayCancel = TRUE
  MaxBlock = 1
  MaxFaults = 1
SPECIFICATION FairSpec
PROPERTY ShutsDown
