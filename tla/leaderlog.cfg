SPECIFICATION MCSpec
CONSTANTS
  Epochs <- MCEpochs
  Offsets <- MCOffsets
  MaxEpoch = 2
  StartEpoch = 1
  Offset = {1}
  Assigned <- MCAssigned
  MaxAttempts = 2
  MaxStarts = 2
  NoSchedule = NoSchedule
CHECK_DEADLOCK FALSE
INVARIANT AssignedInEpoch
INVARIANT NumberedInOrder
INVARIANT EpochsPartitionSlots
INVARIANT ClassifiedRight
PROPERTY JobEnds
