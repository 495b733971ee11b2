SPECIFICATION FairSpec
CONSTANTS
  MaxEpoch = 2
  KoiosNonce = KoiosNonce
  WrongNonce = WrongNonce
  NoNonce = NoNonce
  LocalNonces = {WrongNonce}
  Command = Command
  Faults = {"cached", "posted", "tickn", "koios", "stake", "mark", "insert", "read"}
  MaxFaults = 1
CHECK_DEADLOCK FALSE
PROPERTY NextPosted
PROPERTY CurrentCorrected
