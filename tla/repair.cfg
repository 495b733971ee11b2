SPECIFICATION RepairSpec
CONSTANTS
  MaxSlot = 4
  Slot <- MCSlot
  Fork = {f1}
  Genesis = Genesis
  Final = Final
  NoNonce = NoNonce
  NoBlock = NoBlock
  EpochLen = 3
  MaxEpoch = 1
  EpochOf <- MCEpochOf
  Stable = {2, 3, 4}
  Overlap = 2
  Lookback = 3
  FinalEpochs = {}
  MaxCount = 5
  Faults = {"insert", "crash", "delete", "rewind", "upsert", "node"}
  OneConnection = FALSE
  MaxFailures = 2
  JobFaults = {"koios", "store", "cancel"}
VIEW MCView
CHECK_DEADLOCK FALSE
INVARIANT TypeOK
PROPERTY GapRepairHeals
PROPERTY BackfillHeals
