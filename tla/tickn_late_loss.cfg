SPECIFICATION NonceSpec
CONSTANTS
  MaxSlot = 11
  Slot <- MCSlot
  Fork = {f1}
  Genesis = Genesis
  Final = Final
  NoNonce = NoNonce
  NoBlock = NoBlock
  MaxLost = 1
  MaxEpoch = 3
  EpochLen = 3
  StableOffset = 1
  EpochOf <- MCEpochOf
  Stable <- MCStable
CHECK_DEADLOCK FALSE
PROPERTY EveryLossNoticed
