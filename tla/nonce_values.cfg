SPECIFICATION NonceSpec
CONSTANTS
  MaxSlot = 10
  Slot <- MCSlot
  Fork = {f1}
  Genesis = Genesis
  Final = Final
  NoNonce = NoNonce
  NoBlock = NoBlock
  MaxLost = 2
  MaxEpoch = 3
  EpochLen = 3
  StableOffset = 1
  EpochOf <- MCEpochOf
  Stable <- MCStable
CHECK_DEADLOCK FALSE
INVARIANT GaplessNonceTrue
INVARIANT NoFalseAlarm
PROPERTY LossNoticed
