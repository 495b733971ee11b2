SPECIFICATION Spec
CONSTANTS
  MaxEpoch = 2
  KoiosNonce = KoiosNonce
  WrongNonce = WrongNonce
  NoNonce = NoNonce
  LocalNonces = {WrongNonce}
  Command = Command
  Faults = {"cached", "read", "koios", "setFinal", "stake", "telegram", "backfill", "command"}
  MaxFaults = 1
CHECK_DEADLOCK FALSE
INVARIANT TypeOK
PROPERTY CorrectionAnnounced
