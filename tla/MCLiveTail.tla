----------------------------- MODULE MCLiveTail -----------------------------
(* Instances of LiveTail for TLC: one block in each slot and another one in *)
(* the slots of ContestedSlots; an epoch has EpochLen slots.                     *)
EXTENDS LiveTail

CONSTANTS MaxSlot, ContestedSlots, OwnSlots, EpochLen

MCBlock   == [slot : 1..MaxSlot, fork : {1}] \cup [slot : ContestedSlots, fork : {2}]
MCRoot    == [slot |-> 1, fork |-> 1]
MCOwn     == [slot : OwnSlots, fork : {1}]
MCEpochOf == [s \in Slot |-> (s - 1) \div EpochLen]
=============================================================================
