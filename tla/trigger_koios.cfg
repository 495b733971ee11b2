SPECIFICATION Spec
CONSTANTS
  MaxEpoch = 2
  KoiosNonce = KoiosNonce
  WrongNonce = WrongNonce
  NoNonce = NoNonce
  LocalNonces = {WrongNonce}
  Command = Command
  Faults = {"posted", "tickn", "koios", "setFinal", "stake", "telegram", "mark", "restart", "rollback"}
  MaxFaults = 2
CHECK_DEADLOCK FALSE
INVARIANT OneAtATime
INVARIANT KoiosWins
PROPERTY NoDuplicatePost
