\* Listener, initializer and manager, one pool of a known factory and one of an unknown
\* one.  Three blocks: a pool is queued, queued again while in flight, and updated.
CONSTANTS
  p1 = p1
  q1 = q1
  Pools = {p1, q1}
  Trusted = {p1}
  Reserves = {0}
  Periodic = {"initializer"}
  MayCancel = FALSE
  MaxBlock = 3
  MaxFaults = 1
SPECIFICATION Spec
INVARIANTS TypeOK OnlyTrustedTracked ViewMatchesRegistry
PROPERTY InitializationKeepsReserves
