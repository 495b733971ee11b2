------------------------------ MODULE MCRepair ------------------------------
(* Instances of Repair for TLC: epoch 0 begins at slot 1, an epoch has      *)
(* EpochLen slots.                                                          *)
EXTENDS Repair

CONSTANTS MaxSlot, EpochLen

MCSlot    == 1..MaxSlot
MCEpochOf == [s \in Slot |-> (s - 1) \div EpochLen]

(* No action of Repair and no property but the type of unrewound reads it: *)
(* states that differ in it only are one state.                            *)
MCView == <<db, tracker, pc, work, phase, chain, cursor, clock, job, failures>>
=============================================================================
