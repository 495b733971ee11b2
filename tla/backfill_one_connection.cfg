SPECIFICATION FairRepairSpec
CONSTANTS
  MaxSlot = 4
  Slot <- MCSlot
  Fork = {f1}
  Genesis = Genesis
  Final = Final
  NoNonce = NoNonce
  NoBlock = NoBlock
  EpochLen = 3
  MaxEpoch = 1
  EpochOf <- MCEpochOf
  Stable = {2, 3, 4}
  Overlap = 2
  Lookback = 3
  FinalEpochs = {}
  MaxCount = 5
  Faults = {}
  OneConnection = TRUE
  MaxFailures = 0
  JobFaults = {}
CHECK_DEADLOCK FALSE
PROPERTY BackfillStreamsAll
