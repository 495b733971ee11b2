--------------------------- MODULE MCNonceTracker ---------------------------
(* Instances of NonceTracker for TLC: epoch 0 begins at First, an epoch has *)
(* EpochLen slots, those from StableOffset on are at or past the stability  *)
(* window of their epoch.                                                   *)
EXTENDS NonceTracker, TLC

CONSTANTS MaxSlot, First, EpochLen, StableOffset

MCSlot    == 1..MaxSlot
MCEpochOf == [s \in Slot |-> (s - First) \div EpochLen]
MCStable  == {s \in Slot : (s - First) % EpochLen >= StableOffset}

Symmetry == Permutations(Fork)
=============================================================================
