\* Every goroutine, a handler that also deletes on the type reported under the lock, and a
\* manager that may keep its lock.
CONSTANTS
  Pools = {p1}
  Periodic = {"initializer", "reconciler", "pruner"}
  DeletesOn = {"pool_initialization", "pool_update"}
  ManagerKeepsLock = TRUE
SPECIFICATION FairSpec
INVARIANTS TypeOK DeadlockOnlyByCallback
PROPERTY LockIsReleased
CHECK_DEADLOCK FALSE
