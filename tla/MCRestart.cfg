\* The listener alone, three blocks, two restarts.
CONSTANTS
  p1 = p1
  Pools = {p1}
  Trusted = {p1}
  Reserves = {0, 1}
  Periodic = {}
  MayCancel = FALSE
  MaxBlock = 3
  MaxFaults = 0
  MaxRestarts = 2
SPECIFICATION RestartSpec
INVARIANTS RestartTypeOK StreamBringsUpToDate
PROPERTY RefinesConsumer
