\* Three pools, so that a failure can be before, between and after the pools that succeed.
CONSTANTS
  p1 = p1
  p2 = p2
  p3 = p3
  Pools = {p1, p2, p3}
  Zero = Zero
  Synced = Synced
  Batches <- MCBatches
SPECIFICATION Spec
INVARIANTS TypeOK AddedOrReported RoundsArePublished
PROPERTY RefinesInitializations
