SPECIFICATION Spec
CONSTANTS
  MaxSlot = 6
  Slot <- MCSlot
  Fork = {f1, f2}
  Genesis = Genesis
  Final = Final
  NoNonce = NoNonce
  NoBlock = NoBlock
  First = 0
  EpochLen = 3
  StableOffset = 1
  MaxEpoch = 2
  EpochOf <- MCEpochOf
  Stable <- MCStable
  Overlap = 2
  Lookback = 3
  FinalEpochs = {2}
  MaxCount = 7
  Faults = {"insert"}
SYMMETRY Symmetry
CHECK_DEADLOCK FALSE
INVARIANT IInv
INVARIANT MemoryFollowsStore
INVARIANT RowsFollowStore
INVARIANT CandidatesFollowStore
PROPERTY AbstractSpec
