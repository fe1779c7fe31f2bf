\* Two contracts and two pairs of reserves: events of one pool around those of another.
CONSTANTS
  a1 = a1
  a2 = a2
  Addresses = {a1, a2}
  Reserves = {0, 1}
  Malformed = Malformed
  LogLists <- MCLogLists
CHECK_DEADLOCK FALSE
SPECIFICATION Spec
INVARIANTS TypeOK LastSyncWins SwappedOnce
