SPECIFICATION FairSyncSpec
CONSTANTS
  MaxSlot = 5
  EpochLen = 3
  StableOffset = 1
  Slot <- MCSlot
  Fork = {f1}
  Genesis = Genesis
  Final = Final
  NoNonce = NoNonce
  NoBlock = NoBlock
  MaxEpoch = 1
  EpochOf <- MCEpochOf
  Stable <- MCStable
  Overlap = 3
  Lookback = 5
  FinalEpochs = {1}
  MaxCount = 6
  Faults = {"freeze", "crash"}
  SmallBatch = 2
  BatchCap = 3
  ChanCap = 1
  Window = 1
  MaxErrors = 1
  SyncFaults = {"batch", "rollback"}
CHECK_DEADLOCK FALSE
INVARIANT SyncFollowsStore
INVARIANT NoStoredGap
INVARIANT NothingLeftBehind
PROPERTY SyncCompletes
