SPECIFICATION Spec
CONSTANTS
  MaxSlot = 5
  Slot <- MCSlot
  Fork = {f1, f2}
  Genesis = Genesis
  Final = Final
  NoNonce = NoNonce
  NoBlock = NoBlock
  First = 0
  EpochLen = 3
  StableOffset = 1
  MaxEpoch = 2
  EpochOf <- MCEpochOf
  Stable <- MCStable
  Overlap = 2
  Lookback = 3
  FinalEpochs = {1, 2}
  MaxCount = 6
  Faults = {"freeze", "crash"}
SYMMETRY Symmetry
CHECK_DEADLOCK FALSE
INVARIANT MemoryFollowsStore
INVARIANT RowsFollowStore
INVARIANT NoBlockTwice
INVARIANT NoForkedContribution
PROPERTY CheckedOnStart
