-------------------------- MODULE LeaderlogProofs ---------------------------
(***************************************************************************)
(* Theorems about EpochSlots, LeaderSchedule and LeaderlogHistory.  The    *)
(* program's ways to relate slots, epochs and times agree for every epoch  *)
(* and every slot of every network, and what the schedule loop assigns     *)
(* lies in its epoch.  An epoch that the history marks as classified is    *)
(* classified right, wherever the job was stopped and started again,       *)
(* whichever write failed and whatever /leaderlog stored meanwhile.        *)
(***************************************************************************)
EXTENDS LeaderSchedule, LeaderlogHistory, TLAPS

----------------------------------------------------------------------------
(* Epochs and slots.                                                       *)

(* How a quotient is told from its bounds.                                 *)
LEMMA DivisionIs ==
  ASSUME NEW l \in Nat \ {0}, NEW a \in Int, NEW k \in Int,
         k * l <= a, a < k * l + l
  PROVE  a \div l = k
BY SMT

(* The constants of each network.                                          *)
LEMMA NetworkTable ==
  ASSUME NEW n \in Network
  PROVE  \/ /\ n = "mainnet" /\ ShelleyStart[n] = 208 /\ ConwayStart[n] = 507
            /\ GetEpochLength(n) = 432000 /\ ByronSlots(n) = 4492800
         \/ /\ n = "preprod" /\ ShelleyStart[n] = 4 /\ ConwayStart[n] = 163
            /\ GetEpochLength(n) = 432000 /\ ByronSlots(n) = 86400
         \/ /\ n = "preview" /\ ShelleyStart[n] = 0 /\ ConwayStart[n] = 507
            /\ GetEpochLength(n) = 86400 /\ ByronSlots(n) = 0
         \/ /\ n = "other" /\ ShelleyStart[n] = 0 /\ ConwayStart[n] = 507
            /\ GetEpochLength(n) = 432000 /\ ByronSlots(n) = 0
BY SMT DEF Network, ShelleyStart, ConwayStart, GetEpochLength, ByronSlots, ByronEpochLength

(* The slots of an epoch, Byron or later, end where the next one begins.   *)
LEMMA EpochStart ==
  ASSUME NEW n \in Network, NEW e \in Nat
  PROVE  /\ GetEpochStartSlot(e, n) \in Nat
         /\ GetEpochStartSlot(e + 1, n) =
              GetEpochStartSlot(e, n) + (IF e < ShelleyStart[n] THEN ByronEpochLength
                                         ELSE GetEpochLength(n))
BY NetworkTable, SMT DEF GetEpochStartSlot, ByronEpochLength

LEMMA EpochLength ==
  ASSUME NEW n \in Network
  PROVE  GetEpochLength(n) \in Nat \ {0} /\ ShelleyStart[n] \in Nat /\ ByronSlots(n) \in Nat
BY NetworkTable, SMT

(* SlotToEpoch inverts GetEpochStartSlot: every slot from the start of an  *)
(* epoch up to the start of the next one is of that epoch, for every       *)
(* network and every epoch, before and after the Byron/Shelley boundary.   *)
THEOREM SlotToEpochInverts ==
  ASSUME NEW n \in Network, NEW e \in Nat, NEW s \in Int,
         GetEpochStartSlot(e, n) <= s, s < GetEpochStartSlot(e + 1, n)
  PROVE  SlotToEpoch(s, n) = e
<1> DEFINE L == GetEpochLength(n)
          B == ByronSlots(n)
          S == ShelleyStart[n]
<1>1. L \in Nat \ {0} /\ S \in Nat /\ B = S * 21600
  BY NetworkTable, SMT
<1>2. CASE e < S
  <2>1. e * 21600 <= s /\ s < e * 21600 + 21600 /\ s < B
    BY <1>1, <1>2, EpochStart, NetworkTable, SMT DEF GetEpochStartSlot, ByronEpochLength
  <2>2. s \div 21600 = e
    BY <2>1, SMT
  <2> QED  BY <2>1, <2>2, SMT DEF SlotToEpoch, ByronEpochLength
<1>3. CASE ~ e < S
  <2>1. B + (e - S) * L <= s /\ s < B + (e - S) * L + L
    BY <1>3, <1>1, EpochStart, SMT DEF GetEpochStartSlot
  <2>2. (e - S) * L \in Nat
    BY <1>1, <1>3, NetworkTable, SMT
  <2>3. (s - B) \div L = e - S
    <3>1. s - B \in Int /\ e - S \in Int
      BY <1>1, SMT
    <3>2. (e - S) * L <= s - B /\ s - B < (e - S) * L + L
      BY <1>1, <2>1, <2>2, SMT
    <3> QED  BY <1>1, <3>1, <3>2, DivisionIs
  <2>4. ~ s < B
    BY <1>1, <2>1, <2>2, SMT
  <2>5. SlotToEpoch(s, n) = S + (s - B) \div L
    BY <2>4, SMT DEF SlotToEpoch
  <2> QED  BY <1>1, <2>3, <2>5, SMT
<1> QED  BY <1>1, <1>2, <1>3, SMT

(* No slot is without an epoch: each one lies between the start of the     *)
(* epoch that SlotToEpoch tells and the start of the next one.             *)
THEOREM EverySlotHasItsEpoch ==
  ASSUME NEW n \in Network, NEW s \in Nat
  PROVE  /\ SlotToEpoch(s, n) \in Nat
         /\ GetEpochStartSlot(SlotToEpoch(s, n), n) <= s
         /\ s < GetEpochStartSlot(SlotToEpoch(s, n) + 1, n)
BY NetworkTable, SMT DEF GetEpochStartSlot, SlotToEpoch, ByronEpochLength

(* SlotTime is an integer that grows with the slot, by a second from the   *)
(* start of Shelley on.                                                    *)
LEMMA TimeOfSlot ==
  ASSUME NEW n \in Network, NEW s \in Int, NEW t \in Int, s < t
  PROVE  /\ SlotTime(s, n) \in Int
         /\ SlotTime(s, n) < SlotTime(t, n)
         /\ ByronSlots(n) <= s => SlotTime(t, n) - SlotTime(s, n) = t - s
         /\ t = s + 1 => SlotTime(t, n) - SlotTime(s, n) =
              IF n \in {"mainnet", "preprod"} /\ s < ByronSlots(n) THEN ByronSlotSeconds ELSE 1
BY NetworkTable, SMT DEF SlotTime, ByronSlotSeconds

LEMMA TimeIsInt ==
  ASSUME NEW n \in Network, NEW s \in Int
  PROVE  SlotTime(s, n) \in Int
<1>1. s + 1 \in Int /\ s < s + 1
  BY SMT
<1> QED  BY <1>1, TimeOfSlot

(* calcCurrentEpoch, asked at the time that SlotTime gives a slot from the *)
(* start of Shelley on, answers the epoch that SlotToEpoch gives the slot. *)
THEOREM ClockAgreesWithSlots ==
  ASSUME NEW n \in Network \ {"other"}, NEW s \in Int, ByronSlots(n) <= s
  PROVE  EpochAtTime(SlotTime(s, n), n) = SlotToEpoch(s, n)
BY NetworkTable, SMT DEF EpochAtTime, SlotTime, SlotToEpoch, ByronSlotSeconds, ByronEpochLength

----------------------------------------------------------------------------
(* The schedule loop.                                                      *)

ScheduleType ==
  /\ network \in Network
  /\ epoch \in Nat
  /\ slot \in Nat
  /\ endSlot \in Nat
  /\ assigned \in Seq(LeaderSlot)
  /\ outcome \in {"idle", "running", "schedule", "error"}

(* What the loop knows between two iterations: the slots it has assigned   *)
(* are behind the one it looks at next, which is not past the epoch's end. *)
LoopInv ==
  /\ ShelleyStart[network] <= epoch
  /\ outcome = "idle" => assigned = <<>>
  /\ outcome # "idle" =>
       /\ endSlot = GetEpochStartSlot(epoch, network) + GetEpochLength(network)
       /\ GetEpochStartSlot(epoch, network) <= slot
       /\ slot <= endSlot
  /\ \A i \in DOMAIN assigned :
       /\ assigned[i].No = i
       /\ GetEpochStartSlot(epoch, network) <= assigned[i].Slot
       /\ assigned[i].Slot < slot
       /\ assigned[i].SlotInEpoch = assigned[i].Slot - GetEpochStartSlot(epoch, network)
       /\ assigned[i].At = SlotTime(assigned[i].Slot, network)
  /\ \A i, j \in DOMAIN assigned : i < j => assigned[i].Slot < assigned[j].Slot

ScheduleInv == ScheduleType /\ LoopInv

LEMMA InitLoop == ScheduleInit => ScheduleInv
<1> SUFFICES ASSUME ScheduleInit PROVE ScheduleInv
  OBVIOUS
<1>1. ShelleyStart["mainnet"] = 208 /\ "mainnet" \in Network
  BY SMT DEF ShelleyStart, Network
<1>2. ScheduleType
  BY <1>1 DEF ScheduleInit, ScheduleType
<1>3. LoopInv
  BY <1>1 DEF ScheduleInit, LoopInv
<1> QED  BY <1>2, <1>3 DEF ScheduleInv

LEMMA AssignFields ==
  ASSUME NEW s
  PROVE  /\ Assign(s).No = Len(assigned) + 1
         /\ Assign(s).Slot = s
         /\ Assign(s).SlotInEpoch = s - GetEpochStartSlot(epoch, network)
         /\ Assign(s).At = SlotTime(s, network)
BY DEF Assign

(* What Assign appends is a leader slot of the epoch.                      *)
LEMMA AssignedOne ==
  ASSUME ScheduleInv, outcome = "running", NEW o \in Nat,
         slot <= GetEpochStartSlot(epoch, network) + o
  PROVE  Assign(GetEpochStartSlot(epoch, network) + o) \in LeaderSlot
<1>1. network \in Network /\ epoch \in Nat /\ Len(assigned) \in Nat
  BY DEF ScheduleInv, ScheduleType
<1>2. GetEpochStartSlot(epoch, network) \in Nat
  BY <1>1, EpochStart
<1> DEFINE s == GetEpochStartSlot(epoch, network) + o
<1>3. s \in Nat /\ s - GetEpochStartSlot(epoch, network) \in Nat
  BY <1>2
<1>4. SlotTime(s, network) \in Int
  BY <1>1, <1>3, TimeIsInt
<1> HIDE DEF s
<1> QED  BY <1>1, <1>3, <1>4 DEF Assign, LeaderSlot, s

LEMMA NextLoop == ScheduleInv /\ [ScheduleNext]_schedule_vars => ScheduleInv'
<1> SUFFICES ASSUME ScheduleInv, [ScheduleNext]_schedule_vars PROVE ScheduleInv'
  OBVIOUS
<1> USE DEF ScheduleInv
<1>1. ASSUME NEW n \in Network, NEW e \in Epochs, CallSchedule(n, e)
      PROVE  ScheduleInv'
  <2>1. e \in Nat /\ GetEpochStartSlot(e, n) \in Nat /\ GetEpochLength(n) \in Nat
        /\ ShelleyStart[n] <= e
    BY <1>1, ScheduleAssumption, EpochStart, EpochLength DEF CallSchedule
  <2>2. assigned' = <<>>
    BY <1>1 DEF CallSchedule, LoopInv
  <2>3. ScheduleType'
    BY <1>1, <2>1, <2>2 DEF CallSchedule, ScheduleType
  <2>4. LoopInv'
    BY <1>1, <2>1, <2>2 DEF CallSchedule, LoopInv
  <2> QED  BY <2>3, <2>4
<1>2. CASE FindLeaderSlot
  <2> DEFINE first == GetEpochStartSlot(epoch, network)
  <2>1. PICK o \in Offsets :
          /\ slot <= first + o
          /\ first + o < endSlot
          /\ assigned' = Append(assigned, Assign(first + o))
          /\ slot' = first + o + 1
    BY <1>2, EpochStart DEF FindLeaderSlot, ScheduleType
  <2>2. /\ outcome = "running" /\ outcome' = "running"
        /\ network' = network /\ epoch' = epoch /\ endSlot' = endSlot
    BY <1>2 DEF FindLeaderSlot
  <2>3. o \in Nat /\ first \in Nat
    BY ScheduleAssumption, EpochStart DEF ScheduleType
  <2>4. Assign(first + o) \in LeaderSlot
    BY <2>1, <2>2, <2>3, AssignedOne
  <2>5. ScheduleType'
    BY <2>1, <2>2, <2>3, <2>4 DEF ScheduleType
  <2>6. /\ first' = first
        /\ endSlot = first + GetEpochLength(network)
    BY <2>2 DEF LoopInv
  <2>7. /\ DOMAIN assigned = 1..Len(assigned) /\ DOMAIN assigned' = 1..(Len(assigned) + 1)
        /\ \A i \in DOMAIN assigned : assigned'[i] = assigned[i] /\ assigned[i] \in LeaderSlot
        /\ assigned'[Len(assigned) + 1] = Assign(first + o)
        /\ Len(assigned) \in Nat
    BY <2>1, <2>4 DEF ScheduleType
  <2>8. /\ Assign(first + o).No = Len(assigned) + 1
        /\ Assign(first + o).Slot = first + o
        /\ Assign(first + o).SlotInEpoch = first + o - first
        /\ Assign(first + o).At = SlotTime(first + o, network)
    BY <2>3, AssignFields
  <2>9. ASSUME NEW i \in DOMAIN assigned'
        PROVE  /\ assigned'[i].No = i
               /\ first <= assigned'[i].Slot
               /\ assigned'[i].Slot < slot'
               /\ assigned'[i].SlotInEpoch = assigned'[i].Slot - first
               /\ assigned'[i].At = SlotTime(assigned'[i].Slot, network)
    <3>1. CASE i \in DOMAIN assigned
      <4>1. assigned'[i] = assigned[i] /\ assigned[i].Slot \in Nat
        BY <3>1, <2>7 DEF LeaderSlot
      <4> QED  BY <3>1, <4>1, <2>1, <2>3 DEF LoopInv, ScheduleType
    <3>2. CASE i = Len(assigned) + 1
      BY <3>2, <2>1, <2>3, <2>7, <2>8
    <3> QED  BY <3>1, <3>2, <2>7
  <2>10. ASSUME NEW i \in DOMAIN assigned', NEW j \in DOMAIN assigned', i < j
         PROVE  assigned'[i].Slot < assigned'[j].Slot
    <3>1. i \in DOMAIN assigned
      BY <2>7, <2>10
    <3>2. CASE j \in DOMAIN assigned
      BY <3>1, <3>2, <2>7, <2>10 DEF LoopInv
    <3>3. CASE j = Len(assigned) + 1
      <4>1. assigned[i].Slot < slot /\ assigned[i].Slot \in Nat
        BY <3>1, <2>7 DEF LoopInv, LeaderSlot
      <4> QED  BY <3>1, <3>3, <4>1, <2>1, <2>3, <2>7, <2>8 DEF ScheduleType
    <3> QED  BY <3>2, <3>3, <2>7
  <2> HIDE DEF first
  <2>11. LoopInv'
    BY <2>1, <2>2, <2>3, <2>6, <2>9, <2>10 DEF LoopInv, ScheduleType, first
  <2> QED  BY <2>5, <2>11
<1>3. CASE ProofFails
  BY <1>3 DEF ProofFails, ScheduleType, LoopInv
<1>4. CASE LastSlotChecked
  <2>1. /\ slot' = endSlot /\ outcome = "running" /\ outcome' = "schedule"
        /\ network' = network /\ epoch' = epoch /\ endSlot' = endSlot
        /\ assigned' = assigned
    BY <1>4 DEF LastSlotChecked
  <2>2. ScheduleType'
    BY <2>1 DEF ScheduleType
  <2>3. ASSUME NEW i \in DOMAIN assigned
        PROVE  assigned[i].Slot < endSlot
    <3>1. assigned[i].Slot \in Nat
      <4>1. assigned[i] \in LeaderSlot
        BY DEF ScheduleType
      <4> QED  BY <4>1 DEF LeaderSlot
    <3>2. assigned[i].Slot < slot /\ slot <= endSlot
      BY <2>1 DEF LoopInv
    <3> QED  BY <3>1, <3>2 DEF ScheduleType
  <2>4. GetEpochStartSlot(epoch, network) <= endSlot
    <3>1. GetEpochStartSlot(epoch, network) \in Nat
      BY EpochStart DEF ScheduleType
    <3>2. GetEpochStartSlot(epoch, network) <= slot /\ slot <= endSlot
      BY <2>1 DEF LoopInv
    <3> QED  BY <3>1, <3>2 DEF ScheduleType
  <2>5. LoopInv'
    BY <2>1, <2>3, <2>4 DEF LoopInv, ScheduleType
  <2> QED  BY <2>2, <2>5
<1>5. CASE UNCHANGED schedule_vars
  BY <1>5 DEF schedule_vars, ScheduleType, LoopInv
<1> QED  BY <1>1, <1>2, <1>3, <1>4, <1>5 DEF ScheduleNext

(* CalculateLeaderSchedule, for every network, every Shelley epoch and     *)
(* every set of leader slots: the loop only moves up, from the first slot  *)
(* of the epoch to its last; the slots in the schedule so far lie behind it*)
(* in ascending order, each with its number, its offset in the epoch and   *)
(* its time.                                                               *)
THEOREM LoopInvariant == ScheduleSpec => []ScheduleInv
<1>1. ScheduleInit => ScheduleInv
  BY InitLoop
<1>2. ScheduleInv /\ [ScheduleNext]_schedule_vars => ScheduleInv'
  BY NextLoop
<1> QED  BY <1>1, <1>2, PTL DEF ScheduleSpec

(* Whatever epoch of whatever network is asked for, and whichever slots    *)
(* the VRF picks, every slot CalculateLeaderSchedule assigns is of the     *)
(* epoch by each of the program's ways to tell.                            *)
THEOREM AssignedSlotsInEpoch == ScheduleSpec => []AssignedInEpoch
<1>1. ScheduleInv => AssignedInEpoch
  <2> SUFFICES ASSUME ScheduleInv, NEW i \in DOMAIN assigned
               PROVE  /\ SlotToEpoch(assigned[i].Slot, network) = epoch
                      /\ assigned[i].SlotInEpoch \in 0..(GetEpochLength(network) - 1)
                      /\ network # "other" => EpochAtTime(assigned[i].At, network) = epoch
    BY DEF AssignedInEpoch
  <2> DEFINE first == GetEpochStartSlot(epoch, network)
             s == assigned[i].Slot
  <2>1. /\ network \in Network /\ epoch \in Nat /\ slot \in Nat
        /\ assigned[i] \in LeaderSlot
    BY DEF ScheduleInv, ScheduleType
  <2>2. s \in Nat /\ first \in Nat /\ GetEpochLength(network) \in Nat
    BY <2>1, EpochStart, EpochLength DEF LeaderSlot
  <2>3. outcome # "idle"
    BY DEF ScheduleInv, LoopInv
  <2>4. /\ first <= s /\ s < slot
        /\ slot <= first + GetEpochLength(network)
        /\ assigned[i].SlotInEpoch = s - first
        /\ assigned[i].At = SlotTime(s, network)
        /\ ShelleyStart[network] <= epoch
    BY <2>3 DEF ScheduleInv, LoopInv
  <2>5. s < first + GetEpochLength(network)
    BY <2>1, <2>2, <2>4
  <2>6. GetEpochStartSlot(epoch + 1, network) = first + GetEpochLength(network)
    BY <2>1, <2>4, EpochStart, EpochLength
  <2>7. SlotToEpoch(s, network) = epoch
    BY <2>1, <2>2, <2>4, <2>5, <2>6, SlotToEpochInverts
  <2>8. s - first \in 0..(GetEpochLength(network) - 1)
    BY <2>2, <2>4, <2>5
  <2>9. ByronSlots(network) <= s
    <3>1. ByronSlots(network) <= first
      BY <2>1, <2>4, NetworkTable, SMT DEF GetEpochStartSlot
    <3> QED  BY <3>1, <2>1, <2>2, <2>4, EpochLength
  <2>10. ASSUME network # "other"
         PROVE  EpochAtTime(SlotTime(s, network), network) = epoch
    BY <2>1, <2>2, <2>7, <2>9, <2>10, ClockAgreesWithSlots
  <2> QED  BY <2>4, <2>7, <2>8, <2>10
<1> QED  BY <1>1, LoopInvariant, PTL

(* The schedule is numbered from 1 in the order of its times, and no slot  *)
(* is in it twice; the times shown are as far apart as the slots.          *)
THEOREM ScheduleIsNumbered == ScheduleSpec => []NumberedInOrder
<1>1. ScheduleInv => NumberedInOrder
  <2> SUFFICES ASSUME ScheduleInv, NEW i \in DOMAIN assigned
               PROVE  /\ assigned[i].No = i
                      /\ \A j \in DOMAIN assigned :
                           i < j => /\ assigned[i].Slot < assigned[j].Slot
                                    /\ assigned[j].At - assigned[i].At
                                         = assigned[j].Slot - assigned[i].Slot
    BY DEF NumberedInOrder
  <2>1. assigned[i].No = i
    BY DEF ScheduleInv, LoopInv
  <2>2. ASSUME NEW j \in DOMAIN assigned, i < j
        PROVE  /\ assigned[i].Slot < assigned[j].Slot
               /\ assigned[j].At - assigned[i].At = assigned[j].Slot - assigned[i].Slot
    <3> DEFINE s == assigned[i].Slot
               t == assigned[j].Slot
    <3>1. /\ network \in Network /\ epoch \in Nat
          /\ assigned[i] \in LeaderSlot /\ assigned[j] \in LeaderSlot
      BY DEF ScheduleInv, ScheduleType
    <3>2. s \in Nat /\ t \in Nat
      BY <3>1 DEF LeaderSlot
    <3>3. /\ s < t /\ GetEpochStartSlot(epoch, network) <= s
          /\ ShelleyStart[network] <= epoch
          /\ assigned[i].At = SlotTime(s, network)
          /\ assigned[j].At = SlotTime(t, network)
      BY <2>2 DEF ScheduleInv, LoopInv
    <3>4. ByronSlots(network) <= s
      <4>1. /\ ByronSlots(network) <= GetEpochStartSlot(epoch, network)
            /\ GetEpochStartSlot(epoch, network) \in Nat
        BY <3>1, <3>3, EpochStart, NetworkTable, SMT DEF GetEpochStartSlot
      <4> QED  BY <4>1, <3>1, <3>2, <3>3, EpochLength
    <3>5. SlotTime(t, network) - SlotTime(s, network) = t - s
      BY <3>1, <3>2, <3>3, <3>4, TimeOfSlot
    <3> QED  BY <3>3, <3>5
  <2> QED  BY <2>1, <2>2
<1> QED  BY <1>1, LoopInvariant, PTL

(* The epochs partition the slots, the time has no jump between two        *)
(* epochs, and each epoch's candidate is frozen strictly inside of it, for *)
(* every network and every epoch from 0 on.                                *)
LEMMA PartitionOf ==
  ASSUME NEW n \in Network, NEW e \in Nat
  PROVE  LET first == GetEpochStartSlot(e, n)
             next  == GetEpochStartSlot(e + 1, n)
             freeze == StabilityWindowSlotsForEpoch(e, n)
         IN /\ SlotToEpoch(first, n) = e
            /\ SlotToEpoch(next - 1, n) = e
            /\ SlotTime(next, n) - SlotTime(next - 1, n) =
                 IF e < ShelleyStart[n] THEN ByronSlotSeconds ELSE 1
            /\ freeze > 0 /\ first + freeze < first + GetEpochLength(n)
            /\ e >= ConwayStart[n] => freeze = StabilityWindowSlots(n)
<1> DEFINE first == GetEpochStartSlot(e, n)
           next  == GetEpochStartSlot(e + 1, n)
           freeze == StabilityWindowSlotsForEpoch(e, n)
<1>1. first \in Nat /\ next \in Nat /\ first < next
  BY EpochStart, EpochLength, SMT DEF ByronEpochLength
<1>2. SlotToEpoch(first, n) = e /\ SlotToEpoch(next - 1, n) = e
  BY <1>1, SlotToEpochInverts
<1>3. e < ShelleyStart[n] <=> next - 1 < ByronSlots(n)
  <2>1. CASE e < ShelleyStart[n]
    <3>1. next = e * 21600 + 21600 /\ ByronSlots(n) = ShelleyStart[n] * 21600
      BY <2>1, EpochStart, NetworkTable, SMT DEF GetEpochStartSlot, ByronEpochLength
    <3>2. ShelleyStart[n] \in Nat
      BY EpochLength
    <3> QED  BY <2>1, <3>1, <3>2, SMT
  <2>2. CASE ~ e < ShelleyStart[n]
    <3>1. ByronSlots(n) <= first
      BY <2>2, NetworkTable, SMT DEF GetEpochStartSlot
    <3> QED  BY <1>1, <2>2, <3>1, EpochLength
  <2> QED  BY <2>1, <2>2
<1>4. SlotTime(next, n) - SlotTime(next - 1, n) =
        IF e < ShelleyStart[n] THEN ByronSlotSeconds ELSE 1
  <2>1. e < ShelleyStart[n] => n \in {"mainnet", "preprod"}
    BY NetworkTable, SMT
  <2>2. next - 1 \in Int /\ next - 1 < next /\ next = (next - 1) + 1
    BY <1>1
  <2> HIDE DEF next
  <2>3. SlotTime(next, n) - SlotTime(next - 1, n) =
          IF n \in {"mainnet", "preprod"} /\ next - 1 < ByronSlots(n)
          THEN ByronSlotSeconds ELSE 1
    BY <1>1, <2>2, TimeOfSlot
  <2> QED  BY <1>3, <2>1, <2>3
<1>5. freeze \in Int /\ freeze > 0 /\ freeze < GetEpochLength(n)
  <2>1. CASE e >= ConwayStart[n]
    BY <2>1, NetworkTable, SMT DEF StabilityWindowSlotsForEpoch
  <2>2. CASE ~ e >= ConwayStart[n]
    BY <2>2, NetworkTable, SMT DEF StabilityWindowSlotsForEpoch
  <2> QED  BY <2>1, <2>2
<1>6. e >= ConwayStart[n] => freeze = StabilityWindowSlots(n)
  BY NetworkTable, SMT DEF StabilityWindowSlotsForEpoch, StabilityWindowSlots
<1>7. first + freeze < first + GetEpochLength(n)
  BY <1>1, <1>5, EpochLength
<1> QED  BY <1>2, <1>4, <1>5, <1>6, <1>7

THEOREM EpochsPartition == ScheduleSpec => []EpochsPartitionSlots
<1>1. ScheduleInv => EpochsPartitionSlots
  BY PartitionOf, ScheduleAssumption DEF EpochsPartitionSlots, ScheduleInv, ScheduleType
<1> QED  BY <1>1, LoopInvariant, PTL

-----------------------------------------------------------------------------
(* The classification of past epochs: its inductive invariant.             *)

Schedules == Variant \cup {NoSchedule}

Outcomes == {"none", "forged", "battle", "missed"}

Steps ==
  {"off", "schedules", "register", "clean", "unmark", "epoch", "stake", "total",
   "check", "forged", "outcomes", "mark", "ended"}

HistoryType ==
  /\ forged \in [Past -> SUBSET Offset] /\ held \in [Past -> SUBSET Offset]
  /\ schedule \in [Past -> Schedules]
  /\ classified \in [Past -> BOOLEAN]
  /\ outcomes \in [Past -> [Offset -> Outcomes]]
  /\ final \in [Past -> {"none", "right", "wrong"}]
  /\ step \in Steps
  /\ at \in 1..(MaxEpoch + 1)
  /\ found \in Schedules
  /\ forgedSet \subseteq Offset
  /\ attempt \in 1..MaxAttempts
  /\ starts \in 0..MaxStarts
  /\ replaced \subseteq Past /\ doubted \subseteq Past

(* The steps of one epoch, and those of them that know its schedule.       *)
Known == {"check", "forged", "outcomes", "mark"}

Visiting == {"stake", "total"} \cup Known

Right(e) ==
  schedule[e] # NoSchedule /\ \A o \in Offset : outcomes[e][o] = True(e, o)

(* An epoch that nothing has put in doubt: what is stored of it is right,  *)
(* in part or, once it is marked or about to be, as a whole; the job works *)
(* with the schedule that is stored and the slots that were forged.        *)
Honest(e) ==
  e \notin doubted \cup replaced =>
    /\ \A o \in Offset :
         outcomes[e][o] = "none" \/ (schedule[e] # NoSchedule /\ outcomes[e][o] = True(e, o))
    /\ classified[e] => Right(e)
    /\ at = e /\ step \in Known => found = schedule[e] /\ found # NoSchedule
    /\ at = e /\ step = "outcomes" => forgedSet = forged[e]
    /\ at = e /\ step = "mark" => Right(e)

(* The job visits the epochs from StartEpoch on, and is honest about each. *)
HonestJob ==
  /\ step \in Visiting \cup {"epoch"} => StartEpoch <= at
  /\ step \in Visiting => at <= MaxEpoch
  /\ \A e \in StartEpoch..MaxEpoch : Honest(e)

HistoryInv == HistoryType /\ HonestJob

LEMMA EpochsArePast ==
  /\ MaxEpoch \in Nat /\ StartEpoch \in Nat /\ 1 <= StartEpoch /\ StartEpoch <= MaxEpoch
  /\ StartEpoch..MaxEpoch \subseteq Past
  /\ NoSchedule \notin Variant
  /\ MaxAttempts \in Nat /\ 1 <= MaxAttempts /\ MaxStarts \in Nat
BY HistoryAssumption DEF Past

LEMMA InitHistory == HistoryInit => HistoryInv
<1> SUFFICES ASSUME HistoryInit PROVE HistoryInv
  OBVIOUS
<1> USE EpochsArePast
<1>1. /\ schedule \in [Past -> Schedules]
      /\ classified \in [Past -> BOOLEAN]
      /\ outcomes \in [Past -> [Offset -> Outcomes]]
      /\ found \in Schedules
  BY DEF HistoryInit, Schedules, Variant, Outcomes
<1>2. forged \in [Past -> SUBSET Offset] /\ held \in [Past -> SUBSET Offset]
  BY DEF HistoryInit
<1>3. HistoryType
  BY <1>1, <1>2 DEF HistoryInit, HistoryType, Steps
<1>4. ASSUME NEW e \in StartEpoch..MaxEpoch PROVE Honest(e)
  <2>1. e \in Past /\ ~(e < StartEpoch)
    OBVIOUS
  <2>2. ~classified[e] /\ \A o \in Offset : outcomes[e][o] = "none"
    BY <2>1 DEF HistoryInit
  <2> QED  BY <2>2 DEF HistoryInit, Honest, Known
<1> QED  BY <1>3, <1>4 DEF HistoryInv, HonestJob, HistoryInit, Visiting, Known

(* A step that writes nothing of an epoch and does not come to know its    *)
(* schedule is as honest about it as the job was.                          *)
LEMMA Untouched ==
  ASSUME NEW e, Honest(e), UNCHANGED truth, schedule'[e] = schedule[e],
         outcomes'[e] = outcomes[e], classified'[e] = classified[e],
         e \in doubted \cup replaced => e \in doubted' \cup replaced',
         at' = e /\ step' \in Known =>
           at = e /\ step' = step /\ found' = found /\ forgedSet' = forgedSet
  PROVE  Honest(e)'
BY DEF Honest, Right, True, truth, Known

(* A stored schedule is replaced by itself, or the epoch is put in doubt;  *)
(* the first one finds no outcome.                                         *)
LEMMA Inserted ==
  ASSUME HistoryType, NEW e \in Past, NEW v \in Variant, InsertLeaderSchedule(e, v),
         NEW d \in Past, Honest(d),
         UNCHANGED <<truth, outcomes, classified>>, doubted \subseteq doubted',
         at' = d /\ step' \in Known =>
           \/ at = d /\ step' = step /\ found' = found /\ forgedSet' = forgedSet
           \/ d = e /\ step' = "check" /\ found' = v
  PROVE  Honest(d)'
<1>1. schedule'[e] = v /\ \A i \in Past \ {e} : schedule'[i] = schedule[i]
  BY DEF InsertLeaderSchedule, HistoryType
<1>2. replaced \subseteq replaced'
  BY DEF InsertLeaderSchedule
<1>3. CASE d # e
  BY <1>1, <1>2, <1>3, Untouched
<1>4. CASE d = e /\ schedule[e] = v
  BY <1>1, <1>2, <1>4, EpochsArePast DEF Honest, Right, True, truth, Known
<1>5. CASE d = e /\ schedule[e] = NoSchedule
  <2>1. v # NoSchedule
    BY EpochsArePast
  <2> QED
    BY <1>1, <1>2, <1>5, <2>1 DEF Honest, Right, True, truth, Known
<1>6. CASE d = e /\ schedule[e] \notin {NoSchedule, v}
  BY <1>6 DEF InsertLeaderSchedule, Honest
<1> QED  BY <1>3, <1>4, <1>5, <1>6

LEMMA MarkType ==
  ASSUME HistoryType, MarkEpochClassified
  PROVE  classified' \in [Past -> BOOLEAN]
BY DEF HistoryType, MarkEpochClassified

LEMMA ComputedType == ASSUME NEW e PROVE Computed(e) \in Variant
BY DEF Computed, Variant

LEMMA InsertType ==
  ASSUME HistoryType, NEW e \in Past, NEW v \in Variant, InsertLeaderSchedule(e, v)
  PROVE  schedule' \in [Past -> Schedules] /\ replaced' \subseteq Past
BY DEF InsertLeaderSchedule, HistoryType, Schedules

LEMMA NextHistoryType ==
  ASSUME HistoryInv, [HistoryNext]_history_vars
  PROVE  HistoryType'
<1> USE EpochsArePast DEF truth, local, notes, Goto, NextEpoch, HistoryType, Steps
<1> HistoryType
  BY DEF HistoryInv
<1>0. /\ step \in Visiting => at \in Past /\ at + 1 \in 1..(MaxEpoch + 1)
      /\ at <= MaxEpoch => at \in Past /\ at + 1 \in 1..(MaxEpoch + 1)
  BY DEF HistoryInv, HonestJob, Past
<1>1. CASE StartJobs
  BY <1>0, <1>1, InsertType, ComputedType DEF StartJobs, Visiting, Known, Variant, Schedules
<1>2. CASE KoiosBusy
  BY <1>0, <1>2, InsertType, ComputedType DEF KoiosBusy, Requests, Visiting, Known, Variant,
    Schedules
<1>3. CASE BackfillSchedule
  BY <1>0, <1>3, InsertType, ComputedType DEF BackfillSchedule, InsertLeaderSchedule, Computed,
    Past, Visiting, Known, Variant, Schedules
<1>4. CASE SchedulesDone
  BY <1>0, <1>4, InsertType, ComputedType DEF SchedulesDone, Visiting, Known, Variant, Schedules
<1>5. CASE FetchRegistration
  BY <1>0, <1>5, InsertType, ComputedType DEF FetchRegistration, Visiting, Known, Variant,
    Schedules
<1>6. CASE DeleteOutcomes
  BY <1>0, <1>6, InsertType, ComputedType DEF DeleteOutcomes, Unclassified, Outcomes, Visiting,
    Known, Variant, Schedules
<1>7. CASE Unmark
  <2>1. classified' \in [Past -> BOOLEAN]
    BY <1>7 DEF Unmark
  <2> QED  BY <1>7, <2>1 DEF Unmark
<1>8. CASE EpochDone
  BY <1>0, <1>8, InsertType, ComputedType DEF EpochDone, Visiting, Known, Variant, Schedules
<1>9. CASE SkipClassified
  BY <1>0, <1>9, InsertType, ComputedType DEF SkipClassified, Visiting, Known, Variant, Schedules
<1>10. CASE GetSchedule
  BY <1>0, <1>10, InsertType, ComputedType DEF GetSchedule, Visiting, Known, Variant, Schedules
<1>11. CASE ComputeFails
  BY <1>0, <1>11, InsertType, ComputedType DEF ComputeFails, Visiting, Known, Variant, Schedules
<1>12. CASE FetchPoolStake
  BY <1>0, <1>12, InsertType, ComputedType DEF FetchPoolStake, Visiting, Known, Variant, Schedules
<1>13. CASE ComputeSchedule
  <2>1. at \in Past /\ Computed(at) \in Variant
    BY <1>0, <1>13, ComputedType DEF ComputeSchedule, Visiting
  <2>2. schedule' \in [Past -> Schedules] /\ replaced' \subseteq Past /\ doubted' \subseteq Past
    BY <1>13, <2>1, InsertType DEF ComputeSchedule
  <2> QED  BY <1>13, <2>1, <2>2 DEF ComputeSchedule, Schedules
<1>14. CASE NothingAssigned
  BY <1>0, <1>14, InsertType, ComputedType DEF NothingAssigned, MarkEpochClassified, Visiting,
    Known, Variant, Schedules
<1>15. CASE AskForged
  BY <1>0, <1>15, InsertType, ComputedType DEF AskForged, Visiting, Known, Variant, Schedules
<1>16. CASE FetchForged
  BY <1>0, <1>16, InsertType, ComputedType DEF FetchForged, Visiting, Known, Variant, Schedules
<1>17. CASE StoreOutcomes
  BY <1>0, <1>17, InsertType, ComputedType DEF StoreOutcomes, Outcome, Outcomes, Visiting,
    Known, Variant, Schedules
<1>18. CASE OutcomesFail
  BY <1>0, <1>18, InsertType, ComputedType DEF OutcomesFail, Visiting, Known, Variant, Schedules
<1>19. CASE MarkClassified
  <2>1. classified' \in [Past -> BOOLEAN]
    BY <1>0, <1>19, MarkType DEF MarkClassified
  <2> QED  BY <1>0, <1>19, <2>1 DEF MarkClassified, Visiting, Known
<1>20. ASSUME NEW e \in Past, Leaderlog(e) PROVE HistoryType'
  BY <1>20, InsertType, ComputedType DEF Leaderlog
<1>21. CASE StopProcess
  BY <1>21 DEF StopProcess, Schedules
<1>22. CASE UNCHANGED history_vars
  BY <1>22 DEF history_vars
<1> QED
  BY <1>1, <1>2, <1>3, <1>4, <1>5, <1>6, <1>7, <1>8, <1>9, <1>10, <1>11, <1>12, <1>13, <1>14,
    <1>15, <1>16, <1>17, <1>18, <1>19, <1>20, <1>21, <1>22
  DEF HistoryNext, JobStep

LEMMA NextHonest ==
  ASSUME HistoryInv, [HistoryNext]_history_vars, NEW e \in StartEpoch..MaxEpoch
  PROVE  Honest(e)'
<1> USE EpochsArePast DEF local, notes, Goto, NextEpoch
<1>1. HistoryType /\ Honest(e) /\ e \in Past /\ StartEpoch <= e
  BY DEF HistoryInv, HonestJob
<1>2. step \in Visiting => at \in Past /\ at + 1 # at
  BY DEF HistoryInv, HistoryType, HonestJob, Past
<1>3. ASSUME UNCHANGED <<truth, schedule, outcomes, classified>>,
             doubted \subseteq doubted', replaced \subseteq replaced',
             at' = e /\ step' \in Known =>
               at = e /\ step' = step /\ found' = found /\ forgedSet' = forgedSet
      PROVE  Honest(e)'
  BY <1>1, <1>3, Untouched
<1>4. CASE StartJobs
  BY <1>3, <1>4 DEF StartJobs, Known
<1>5. CASE KoiosBusy
  BY <1>3, <1>5 DEF KoiosBusy
<1>6. CASE BackfillSchedule
  <2>1. CASE UNCHANGED <<schedule, replaced>>
    BY <1>3, <1>6, <2>1 DEF BackfillSchedule, Known
  <2>2. CASE \E v \in {Computed(at), "otherStake"} : InsertLeaderSchedule(at, v)
    <3>1. PICK v \in Variant : InsertLeaderSchedule(at, v)
      BY <2>2, ComputedType DEF Variant
    <3>2. at \in Past /\ step' \notin Known
      BY <1>1, <1>6 DEF BackfillSchedule, HistoryType, Past, Known
    <3>3. UNCHANGED <<truth, outcomes, classified, doubted>>
      BY <1>6 DEF BackfillSchedule
    <3> QED  BY <1>1, <3>1, <3>2, <3>3, Inserted
  <2> QED  BY <1>6, <2>1, <2>2 DEF BackfillSchedule
<1>7. CASE SchedulesDone \/ FetchRegistration \/ EpochDone
  BY <1>3, <1>7 DEF SchedulesDone, FetchRegistration, EpochDone, Known
<1>8. CASE DeleteOutcomes
  <2>1. outcomes'[e] = outcomes[e]
    BY <1>1, <1>8 DEF DeleteOutcomes, Past
  <2> QED  BY <1>1, <1>8, <2>1, Untouched DEF DeleteOutcomes, Known
<1>9. CASE Unmark
  <2>1. classified'[e] = classified[e]
    BY <1>1, <1>9 DEF Unmark, HistoryType, Past
  <2> QED  BY <1>1, <1>9, <2>1, Untouched DEF Unmark, Known
<1>10. CASE SkipClassified \/ ComputeFails \/ OutcomesFail
  BY <1>3, <1>10 DEF SkipClassified, ComputeFails, OutcomesFail, Known
<1>11. CASE FetchPoolStake
  BY <1>3, <1>11 DEF FetchPoolStake, Known
<1>12. CASE GetSchedule
  <2>1. /\ UNCHANGED <<truth, schedule, outcomes, classified, replaced, at, forgedSet>>
        /\ step = "epoch" /\ doubted \subseteq doubted'
        /\ step' = IF found' = NoSchedule THEN "stake" ELSE "check"
        /\ \/ at \in doubted'
           \/ found' = schedule[at]
    BY <1>12 DEF GetSchedule
  <2>2. CASE at # e
    BY <1>3, <2>1, <2>2
  <2>3. CASE at = e /\ e \in doubted'
    BY <2>3 DEF Honest
  <2>4. CASE at = e /\ found' = schedule[e]
    BY <1>1, <2>1, <2>4 DEF Honest, Right, True, truth, Known
  <2> QED  BY <2>1, <2>2, <2>3, <2>4
<1>13. CASE ComputeSchedule
  <2>1. /\ UNCHANGED <<truth, outcomes, classified, at>> /\ at \in Past
        /\ Computed(at) \in Variant /\ found' = Computed(at) /\ step' = "check"
    BY <1>2, <1>13, ComputedType DEF ComputeSchedule, Visiting
  <2>2. CASE InsertLeaderSchedule(at, Computed(at)) /\ UNCHANGED doubted
    BY <1>1, <2>1, <2>2, Inserted
  <2>3. CASE doubted' = doubted \cup {at} /\ UNCHANGED <<schedule, replaced>>
    <3>1. CASE at = e
      BY <2>3, <3>1 DEF Honest
    <3> QED  BY <1>3, <2>1, <2>3, <3>1
  <2> QED  BY <1>13, <2>2, <2>3 DEF ComputeSchedule
<1>14. CASE NothingAssigned
  <2>1. /\ UNCHANGED <<truth, schedule, outcomes, doubted, replaced>>
        /\ step = "check" /\ Assigned[at][found] = {}
        /\ step' = "epoch" /\ at' = at + 1
        /\ MarkEpochClassified
    BY <1>14 DEF NothingAssigned
  <2>2. at # e => classified'[e] = classified[e]
    BY <1>1, <2>1 DEF MarkEpochClassified, HistoryType
  <2>3. CASE at # e
    BY <1>1, <2>1, <2>2, <2>3, Untouched DEF Known
  <2>4. CASE at = e
    <3>1. e \notin doubted \cup replaced => Right(e)
      BY <1>1, <2>1, <2>4 DEF Honest, Right, True, Known
    <3> QED  BY <1>1, <2>1, <3>1 DEF Honest, Right, True, truth, Known
  <2> QED  BY <2>3, <2>4
<1>15. CASE AskForged
  BY <1>1, <1>15 DEF AskForged, Honest, Right, True, truth, Known
<1>16. CASE FetchForged
  <2>1. /\ UNCHANGED <<truth, schedule, outcomes, classified, replaced, at, found>>
        /\ step = "forged" /\ step' = "outcomes" /\ doubted \subseteq doubted'
        /\ at \in doubted' \/ forgedSet' = forged[at]
    BY <1>16 DEF FetchForged
  <2> QED  BY <1>1, <2>1 DEF Honest, Right, True, truth, Known
<1>17. CASE StoreOutcomes
  <2>1. PICK seen \in SUBSET held[at] :
          /\ outcomes' = [outcomes EXCEPT ![at] =
                            [o \in Offset |-> IF o \in Assigned[at][found] THEN Outcome(o, seen)
                                              ELSE @[o]]]
          /\ doubted' = IF seen = held[at] THEN doubted ELSE doubted \cup {at}
    BY <1>17 DEF StoreOutcomes
  <2>2. /\ UNCHANGED <<truth, schedule, classified, replaced, at, found>>
        /\ step = "outcomes" /\ step' = "mark" /\ at \in Past
    BY <1>2, <1>17 DEF StoreOutcomes, Visiting, Known
  <2>3. CASE at # e
    <3>1. outcomes'[e] = outcomes[e]
      BY <1>1, <2>1, <2>3 DEF HistoryType
    <3> QED  BY <1>1, <2>1, <2>2, <2>3, <3>1, Untouched
  <2>4. CASE at = e /\ seen # held[e]
    BY <2>1, <2>4 DEF Honest
  <2>5. CASE at = e /\ seen = held[e]
    <3> SUFFICES ASSUME e \notin doubted \cup replaced
                 PROVE  Right(e)'
      BY <1>1, <2>1, <2>2, <2>5 DEF Honest, Right, Known
    <3>1. found = schedule[e] /\ schedule[e] # NoSchedule /\ forgedSet = forged[e]
      BY <1>1, <2>2, <2>5 DEF Honest, Known
    <3>2. ASSUME NEW o \in Offset PROVE outcomes'[e][o] = True(e, o)
      <4>1. outcomes'[e][o] = IF o \in Assigned[e][found] THEN Outcome(o, held[e])
                              ELSE outcomes[e][o]
        BY <1>1, <2>1, <2>5 DEF HistoryType
      <4>2. o \notin Assigned[e][schedule[e]] => outcomes[e][o] = "none"
        BY <1>1 DEF Honest, True
      <4> QED  BY <3>1, <4>1, <4>2 DEF Outcome, True
    <3> QED  BY <2>2, <3>1, <3>2 DEF Right, True, truth
  <2> QED  BY <2>3, <2>4, <2>5
<1>18. CASE MarkClassified
  <2>1. /\ UNCHANGED <<truth, schedule, outcomes, doubted, replaced>>
        /\ step = "mark" /\ step' = "epoch" /\ at' = at + 1
        /\ MarkEpochClassified \/ UNCHANGED classified
    BY <1>18 DEF MarkClassified
  <2>2. at # e => classified'[e] = classified[e]
    BY <1>1, <2>1 DEF MarkEpochClassified, HistoryType
  <2>3. CASE at # e
    BY <1>1, <2>1, <2>2, <2>3, Untouched DEF Known
  <2>4. CASE at = e
    <3>1. e \notin doubted \cup replaced => Right(e)
      BY <1>1, <2>1, <2>4 DEF Honest, Known
    <3> QED  BY <1>1, <2>1, <3>1 DEF Honest, Right, True, truth, Known
  <2> QED  BY <2>3, <2>4
<1>19. ASSUME NEW f \in Past, Leaderlog(f) PROVE Honest(e)'
  <2>1. /\ InsertLeaderSchedule(f, Computed(f)) /\ Computed(f) \in Variant
        /\ UNCHANGED <<truth, outcomes, classified, doubted, at, step, found, forgedSet>>
    BY <1>19, ComputedType DEF Leaderlog
  <2> QED  BY <1>1, <2>1, Inserted
<1>20. CASE StopProcess
  BY <1>3, <1>20 DEF StopProcess, Known
<1>21. CASE UNCHANGED history_vars
  BY <1>3, <1>21 DEF history_vars
<1> QED
  BY <1>4, <1>5, <1>6, <1>7, <1>8, <1>9, <1>10, <1>11, <1>12, <1>13, <1>14, <1>15, <1>16,
     <1>17, <1>18, <1>19, <1>20, <1>21
  DEF HistoryNext, JobStep

LEMMA NextHistory == HistoryInv /\ [HistoryNext]_history_vars => HistoryInv'
<1> SUFFICES ASSUME HistoryInv, [HistoryNext]_history_vars PROVE HistoryInv'
  OBVIOUS
<1> USE EpochsArePast DEF local, notes, Goto, NextEpoch
<1>1. \A e \in StartEpoch..MaxEpoch : Honest(e)'
  BY NextHonest
<1>2. HistoryType /\ HistoryType'
  BY NextHistoryType DEF HistoryInv
<1>3. /\ step \in Visiting \cup {"epoch"} => StartEpoch <= at
      /\ step \in Visiting => at <= MaxEpoch
  BY DEF HistoryInv, HonestJob
<1>4. /\ step' \in Visiting \cup {"epoch"} => StartEpoch <= at'
      /\ step' \in Visiting => at' <= MaxEpoch
  <2> USE <1>3 DEF Visiting, Known
  <2>1. CASE UNCHANGED <<step, at>>
    BY <2>1
  <2>2. CASE step' \notin Visiting \cup {"epoch"}
    BY <2>2
  <2>3. CASE step' = "epoch" /\ at' = StartEpoch
    BY <2>3
  <2>4. CASE step \in Visiting \cup {"epoch"} /\ step' = "epoch" /\ at' = at + 1
    BY <1>2, <2>4 DEF HistoryType
  <2>5. CASE step \in Visiting \cup {"epoch"} /\ at <= MaxEpoch /\ at' = at
    BY <2>5
  <2> HIDE DEF Visiting, Known
  <2>6. step \in Visiting \cup {"epoch"} <=>
          step \in {"epoch", "stake", "total", "check", "forged", "outcomes", "mark"}
    BY DEF Visiting, Known
  <2>7. step' \in Visiting \cup {"epoch"} <=>
          step' \in {"epoch", "stake", "total", "check", "forged", "outcomes", "mark"}
    BY DEF Visiting, Known
  <2>8. step \in Visiting => at <= MaxEpoch
    OBVIOUS
  <2>9. CASE StartJobs \/ SchedulesDone \/ FetchRegistration \/ EpochDone \/ StopProcess
    BY <2>2, <2>7, <2>9 DEF StartJobs, SchedulesDone, FetchRegistration, EpochDone, StopProcess
  <2>10. CASE DeleteOutcomes \/ Unmark
    BY <2>2, <2>3, <2>7, <2>10 DEF DeleteOutcomes, Unmark
  <2>11. CASE KoiosBusy \/ (\E e \in Past : Leaderlog(e)) \/ UNCHANGED history_vars
    BY <2>1, <2>11 DEF KoiosBusy, Leaderlog, history_vars
  <2>12. CASE BackfillSchedule
    BY <2>2, <2>7, <2>12 DEF BackfillSchedule
  <2>13. CASE SkipClassified \/ ComputeFails \/ NothingAssigned \/ OutcomesFail \/ MarkClassified
    BY <2>4, <2>6, <2>13 DEF SkipClassified, ComputeFails, NothingAssigned, OutcomesFail,
       MarkClassified
  <2>14. CASE GetSchedule
    BY <2>5, <2>6, <2>14 DEF GetSchedule
  <2>15. CASE FetchPoolStake \/ ComputeSchedule \/ AskForged \/ FetchForged \/ StoreOutcomes
    <3>1. at' = at /\ step \in Visiting
      BY <2>15 DEF FetchPoolStake, ComputeSchedule, AskForged, FetchForged, StoreOutcomes,
         Visiting, Known
    <3> QED  BY <2>5, <2>8, <3>1
  <2> QED
    BY <2>9, <2>10, <2>11, <2>12, <2>13, <2>14, <2>15 DEF HistoryNext, JobStep
<1> QED  BY <1>1, <1>2, <1>4 DEF HistoryInv, HonestJob

(* The inductive invariant of the history.                                 *)
THEOREM HistoryInvariant == HistorySpec => []HistoryInv
<1> QED  BY InitHistory, NextHistory, PTL DEF HistorySpec

(* Wherever the process stops, whichever request, write or mark fails and  *)
(* whatever /leaderlog stores meanwhile: an epoch marked as classified,    *)
(* which no later start looks at again, has the outcome of every slot of   *)
(* its schedule right, unless a failed read passed for an answer or its    *)
(* schedule was replaced.                                                  *)
THEOREM ClassifiedRightAlways == HistorySpec => []ClassifiedRight
<1>1. HistoryInv => ClassifiedRight
  BY DEF HistoryInv, HonestJob, Honest, Right, ClassifiedRight
<1> QED  BY <1>1, HistoryInvariant, PTL
=============================================================================
