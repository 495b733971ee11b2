---------------------------- MODULE MCNonceValues ----------------------------
(* EpochNonce over epochs of EpochLen slots, those from StableOffset on    *)
(* are past the stability window.                                          *)
EXTENDS EpochNonce

CONSTANTS MaxSlot, EpochLen, StableOffset

MCSlot    == 1..MaxSlot
MCEpochOf == [x \in Slot |-> (x - 1) \div EpochLen]
MCStable  == {x \in Slot : (x - 1) % EpochLen >= StableOffset}
=============================================================================
