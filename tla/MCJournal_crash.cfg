SPECIFICATION FairSpec
CONSTANTS
  BlockSize = 2
  Ranges = {1, 2, 3}
  MaxTxs = 3
  MaxSyncs = 1
  MaxCrashes = 2
CHECK_DEADLOCK FALSE
INVARIANTS TypeOK Intact
PROPERTIES Implements SyncEnds
