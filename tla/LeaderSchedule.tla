--------------------------- MODULE LeaderSchedule ---------------------------
(***************************************************************************)
(* CalculateLeaderSchedule (leaderlog.go): one pass over the slots of an   *)
(* epoch that collects the slots the pool leads.  What the VRF says of a   *)
(* slot is nondeterministic.  A step of the loop is an iteration that      *)
(* finds a leader slot, together with the ones before it that find none;   *)
(* only the slots of Offsets may be led, so that an epoch of the real      *)
(* length, with every boundary in it, is a handful of steps.               *)
(***************************************************************************)
EXTENDS EpochSlots, Sequences

CONSTANTS
  Epochs,    \* the epochs a schedule is asked for
  Offsets    \* offsets in an epoch of the slots that may be led

ASSUME ScheduleAssumption == Epochs \subseteq Nat /\ Offsets \subseteq Nat

VARIABLES
  network, epoch,   \* the arguments
  slot, endSlot,    \* the loop
  assigned,         \* AssignedSlots of the schedule
  outcome           \* "idle", "running", "schedule" or "error"

schedule_vars == <<network, epoch, slot, endSlot, assigned, outcome>>

LeaderSlot == [No : Nat, Slot : Nat, SlotInEpoch : Nat, At : Int]

ScheduleInit ==
  /\ network = "mainnet"
  /\ epoch = ShelleyStart["mainnet"]
  /\ slot = 0
  /\ endSlot = 0
  /\ assigned = <<>>
  /\ outcome = "idle"

(* Every caller passes the start slot and the length of the epoch.  An     *)
(* epoch before Shelley, which /leaderlog may ask for (commands.go:424),   *)
(* has no nonce and gets no further than that.                             *)
CallSchedule(n, e) ==
  /\ outcome = "idle"
  /\ e >= ShelleyStart[n]
  /\ network' = n
  /\ epoch' = e
  /\ slot' = GetEpochStartSlot(e, n)
  /\ endSlot' = slot' + GetEpochLength(n)
  /\ outcome' = "running"
  /\ UNCHANGED assigned

AssignFromZero(s) ==   \* numbers the slots from 0
  [No |-> Len(assigned), Slot |-> s,
   SlotInEpoch |-> s - GetEpochStartSlot(epoch, network),
   At |-> SlotTime(s, network)]

Assign(s) ==
  [No |-> Len(assigned) + 1, Slot |-> s,
   SlotInEpoch |-> s - GetEpochStartSlot(epoch, network),
   At |-> SlotTime(s, network)]

FindLeaderSlot ==
  /\ outcome = "running"
  /\ \E o \in Offsets :
       LET s == GetEpochStartSlot(epoch, network) + o
       IN /\ s >= slot
          /\ s < endSlot
          /\ assigned' = Append(assigned, Assign(s))
          /\ slot' = s + 1
  /\ UNCHANGED <<network, epoch, endSlot, outcome>>

(* The VRF proof of some slot fails: no schedule is returned.              *)
ProofFails ==
  /\ outcome = "running"
  /\ slot < endSlot
  /\ outcome' = "error"
  /\ assigned' = <<>>
  /\ UNCHANGED <<network, epoch, slot, endSlot>>

(* No slot that is left is led.                                            *)
LastSlotChecked ==
  /\ outcome = "running"
  /\ outcome' = "schedule"
  /\ slot' = endSlot
  /\ UNCHANGED <<network, epoch, endSlot, assigned>>

ScheduleNext ==
  \/ \E n \in Network, e \in Epochs : CallSchedule(n, e)
  \/ FindLeaderSlot
  \/ ProofFails
  \/ LastSlotChecked

ScheduleSpec == ScheduleInit /\ [][ScheduleNext]_schedule_vars

----------------------------------------------------------------------------
(* Every assigned slot lies in the epoch by each of the program's ways to  *)
(* tell: GetEpochStartSlot and GetEpochLength, SlotToEpoch of a block in   *)
(* it, and calcCurrentEpoch at the time shown for it, on the networks the  *)
(* program names.                                                          *)
AssignedInEpoch ==
  \A i \in DOMAIN assigned :
    LET a == assigned[i]
    IN /\ SlotToEpoch(a.Slot, network) = epoch
       /\ a.SlotInEpoch \in 0..(GetEpochLength(network) - 1)
       /\ network # "other" => EpochAtTime(a.At, network) = epoch

(* Slots are numbered from 1 in the order of their times, each once.       *)
NumberedInOrder ==
  \A i \in DOMAIN assigned :
    /\ assigned[i].No = i
    /\ \A j \in DOMAIN assigned :
         i < j => /\ assigned[i].Slot < assigned[j].Slot
                  /\ assigned[j].At - assigned[i].At = assigned[j].Slot - assigned[i].Slot

(* SlotToEpoch inverts GetEpochStartSlot for every epoch from 0 on: the    *)
(* epochs partition the slots across the Byron/Shelley boundary of each    *)
(* network, time does not jump there, and the candidate is frozen inside   *)
(* of the epoch, never after the trigger of the current era looks at it.   *)
EpochsPartitionSlots ==
  \A e \in Epochs :
    LET first == GetEpochStartSlot(e, network)
        next  == GetEpochStartSlot(e + 1, network)
        freeze == StabilityWindowSlotsForEpoch(e, network)
    IN /\ SlotToEpoch(first, network) = e
       /\ SlotToEpoch(next - 1, network) = e
       /\ SlotTime(next, network) - SlotTime(next - 1, network) =
            IF e < ShelleyStart[network] THEN ByronSlotSeconds ELSE 1
       /\ freeze > 0 /\ first + freeze < first + GetEpochLength(network)
       /\ e >= ConwayStart[network] => freeze = StabilityWindowSlots(network)
=============================================================================
