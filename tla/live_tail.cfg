SPECIFICATION FairSpec
CONSTANTS
  MaxSlot = 4
  ContestedSlots = {}
  OwnSlots = {3}
  EpochLen = 2
  Block <- MCBlock
  Root <- MCRoot
  Own <- MCOwn
  EpochOf <- MCEpochOf
  Overlap = 2
  Window = 1
  MaxFailures = 1
  MaxSwitches = 1
CHECK_DEADLOCK FALSE
INVARIANT AnnouncedOnce
INVARIANT CountFollowsChain
INVARIANT NoTailGap
PROPERTY TailStoresAll
