----------------------------- MODULE EpochSlots -----------------------------
(***************************************************************************)
(* Slots, epochs and times of the networks the program knows (leaderlog.go,*)
(* main.go), with the constants of the code.  Times are seconds after the  *)
(* date the code parses for the network: the start of Shelley on mainnet   *)
(* and on any other network, the genesis on preprod and preview.           *)
(***************************************************************************)
EXTENDS Integers

Network == {"mainnet", "preprod", "preview", "other"}

ByronEpochLength == 21600

ByronSlotSeconds == 20

ShelleyStart ==
  [mainnet |-> 208, preprod |-> 4, preview |-> 0, other |-> 0]

ConwayStart ==
  [mainnet |-> 507, preprod |-> 163, preview |-> 507, other |-> 507]

GetEpochLength(n) == IF n = "preview" THEN 86400 ELSE 432000

ByronSlots(n) == ShelleyStart[n] * ByronEpochLength

AllShelley(e, n) == e * GetEpochLength(n)   \* forgets the Byron epochs

GetEpochStartSlot(e, n) ==
  IF e < ShelleyStart[n]
  THEN e * ByronEpochLength
  ELSE ByronSlots(n) + (e - ShelleyStart[n]) * GetEpochLength(n)

SlotToEpoch(s, n) ==
  IF s < ByronSlots(n)
  THEN s \div ByronEpochLength
  ELSE ShelleyStart[n] + (s - ByronSlots(n)) \div GetEpochLength(n)

(* The slots of an epoch before its candidate nonce is frozen.             *)
StabilityWindowSlotsForEpoch(e, n) ==
  LET conway == e >= ConwayStart[n]
      margin == IF conway THEN 172800 ELSE 129600
      length == GetEpochLength(n)
  IN IF length <= margin
     THEN (length * (IF conway THEN 60 ELSE 70)) \div 100
     ELSE length - margin

(* The window the leaderlog trigger waits for, whatever the epoch.         *)
StabilityWindowSlots(n) == StabilityWindowSlotsForEpoch(507, n)

FlatTime(s, n) ==   \* a second for a Byron slot too
  IF n = "mainnet" THEN s - ByronSlots(n) ELSE s

SlotTime(s, n) ==
  CASE n = "mainnet" /\ s < ByronSlots(n) -> - (ByronSlots(n) - s) * ByronSlotSeconds
    [] n = "mainnet" /\ s >= ByronSlots(n) -> s - ByronSlots(n)
    [] n = "preprod" /\ s < ByronSlots(n) -> s * ByronSlotSeconds
    [] n = "preprod" /\ s >= ByronSlots(n) ->
         ByronSlots(n) * ByronSlotSeconds + (s - ByronSlots(n))
    [] n \in {"preview", "other"} -> s

(* calcCurrentEpoch at time t; the division truncates, so t is not before  *)
(* the date of the network.                                                *)
EpochAtTime(t, n) ==
  LET byron == ShelleyStart["preprod"] * ByronEpochLength * ByronSlotSeconds
  IN CASE n = "preprod" /\ t < byron -> t \div (ByronEpochLength * ByronSlotSeconds)
       [] n = "preprod" /\ t >= byron -> ShelleyStart[n] + (t - byron) \div 432000
       [] n = "preview" -> t \div 86400
       [] n \in {"mainnet", "other"} -> ShelleyStart["mainnet"] + t \div 432000
=============================================================================
