--------------------------- MODULE MCSyncPipeline ---------------------------
(* Instances of SyncPipeline for TLC: an epoch has EpochLen slots, those    *)
(* from StableOffset on are at or past its stability window.                *)
EXTENDS SyncPipeline

CONSTANTS MaxSlot, EpochLen, StableOffset

MCSlot    == 1..MaxSlot
MCEpochOf == [s \in Slot |-> (s - 1) \div EpochLen]
MCStable  == {s \in Slot : (s - 1) % EpochLen >= StableOffset}
=============================================================================
