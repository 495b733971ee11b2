-------------------------- MODULE LeaderlogHistory --------------------------
(***************************************************************************)
(* The history of the pool's leader slots (main.go): backfillSchedules     *)
(* stores the schedules of past epochs, buildLeaderlogHistory classifies   *)
(* every assigned slot as forged, battle or missed and marks the epoch, so *)
(* that a later start need not classify it again.  Both run once per       *)
(* start, store call by store call; the process may stop in between, Koios *)
(* may refuse any request, and /leaderlog replaces stored schedules        *)
(* meanwhile.                                                              *)
(*                                                                         *)
(* A schedule is known by what went into it: the right nonce and stake, a  *)
(* wrong nonce, or the stake of an adjacent epoch.                         *)
(***************************************************************************)
EXTENDS Integers, FiniteSets

CONSTANTS
  MaxEpoch,     \* i.epoch is MaxEpoch + 1: epochs 1..MaxEpoch are over
  StartEpoch,   \* the first epoch to classify
  Offset,       \* slots of an epoch
  Assigned,     \* the slots a schedule of an epoch assigns
  MaxAttempts,  \* of koiosGetWithRetry, 5 in the code
  MaxStarts,    \* bound on the starts of the process
  NoSchedule

Past == 1..MaxEpoch

Variant == {"right", "wrongNonce", "otherStake"}

ASSUME HistoryAssumption ==
  /\ MaxEpoch \in Nat /\ StartEpoch \in Past
  /\ Assigned \in [Past -> [Variant -> SUBSET Offset]]
  /\ MaxAttempts \in Nat \ {0} /\ MaxStarts \in Nat \ {0}
  /\ NoSchedule \notin Variant

VARIABLES
  \* the chain: slots in which the pool forged, slots that hold some block
  forged, held,
  \* the database
  schedule,     \* leader_schedules
  classified,   \* its column history_classified
  outcomes,     \* slot_outcomes
  final,        \* final_nonce of epoch_nonces
  \* the job
  step, at, found, forgedSet, attempt, starts,
  \* for the properties
  replaced,     \* epochs whose stored schedule was replaced by another
  doubted       \* epochs of which a read, a request or InsertLeaderSchedule failed

truth == <<forged, held>>
local == <<found, forgedSet, attempt>>
notes == <<replaced, doubted>>
history_vars == <<truth, schedule, classified, outcomes, final,
                  step, at, local, starts, notes>>

Unclassified == [o \in Offset |-> "none"]

HistoryInit ==
  /\ forged \in [Past -> SUBSET Offset]
  /\ \A e \in Past : forged[e] \subseteq Assigned[e]["right"]
  /\ held \in {h \in [Past -> SUBSET Offset] : \A e \in Past : forged[e] \subseteq h[e]}
  /\ final \in [Past -> {"none", "right", "wrong"}]
  /\ schedule = [e \in Past |-> IF e < StartEpoch THEN "right" ELSE NoSchedule]
  /\ classified = [e \in Past |-> e < StartEpoch]   \* by an earlier version
  /\ outcomes = [e \in Past |-> [o \in Offset |-> IF e < StartEpoch THEN "missed" ELSE "none"]]
  /\ step = "off"
  /\ at = 1
  /\ found = NoSchedule
  /\ forgedSet = {}
  /\ attempt = 1
  /\ starts = 0
  /\ replaced = {}
  /\ doubted = {}

----------------------------------------------------------------------------
(* koiosGetWithRetry: Koios is busy and the request is tried again, or it  *)
(* fails; otherwise it is answered.                                        *)

Requests == {"register", "stake", "total", "forged"}

KoiosBusy ==
  /\ step \in Requests
  /\ attempt < MaxAttempts
  /\ attempt' = attempt + 1
  /\ UNCHANGED <<truth, schedule, classified, outcomes, final, step, at, found,
                 forgedSet, starts, notes>>

Goto(s) == step' = s /\ attempt' = 1 /\ UNCHANGED at

NextEpoch == step' = "epoch" /\ at' = at + 1 /\ attempt' = 1

(* The schedule CalculateLeaderSchedule gives for the cached nonce, or for *)
(* the one Koios has, and the stake of the epoch.                          *)
Computed(e) == IF final[e] = "wrong" THEN "wrongNonce" ELSE "right"

(* InsertLeaderSchedule replaces a row but for posted and                  *)
(* history_classified.                                                     *)
InsertLeaderSchedule(e, v) ==
  /\ schedule' = [schedule EXCEPT ![e] = v]
  /\ replaced' = IF schedule[e] \in {NoSchedule, v} THEN replaced ELSE replaced \cup {e}

----------------------------------------------------------------------------
(* A start: BackfillNonces runs first and may correct nonces.              *)
StartJobs ==
  /\ step = "off"
  /\ starts < MaxStarts
  /\ starts' = starts + 1
  /\ final' \in {f \in [Past -> {"none", "right", "wrong"}] :
                   \A e \in Past : f[e] \in {final[e], "right"}}
  /\ step' \in {"schedules", "register"}   \* leaderlog.backfillSchedules
  /\ at' = 1
  /\ attempt' = 1
  /\ UNCHANGED <<truth, schedule, classified, outcomes, found, forgedSet, notes>>

(* backfillSchedules, one epoch: skipped, failed, or stored with the stake *)
(* of the epoch or, when Koios has none for it, of an adjacent one.  A     *)
(* schedule that is there is skipped, unless reading it fails.             *)
BackfillSchedule ==
  /\ step = "schedules"
  /\ at <= MaxEpoch
  /\ at' = at + 1
  /\ \/ UNCHANGED <<schedule, replaced>>
     \/ /\ final[at] # "none"
        /\ \E v \in {Computed(at), "otherStake"} : InsertLeaderSchedule(at, v)
  /\ UNCHANGED <<truth, classified, outcomes, final, step, local, starts, doubted>>

SchedulesDone ==
  /\ step = "schedules"
  /\ at > MaxEpoch
  /\ Goto("register")
  /\ UNCHANGED <<truth, schedule, classified, outcomes, final, found, forgedSet, starts, notes>>

----------------------------------------------------------------------------
(* buildLeaderlogHistory.                                                  *)
FetchRegistration ==
  /\ step = "register"
  /\ \/ Goto("clean")
     \/ Goto("ended")
  /\ UNCHANGED <<truth, schedule, classified, outcomes, final, found, forgedSet, starts, notes>>

(* DeleteSlotOutcomesBefore: two statements; if the first fails, the       *)
(* second is not tried.                                                    *)
DeleteOutcomes ==
  /\ step = "clean"
  /\ \/ /\ outcomes' = [e \in Past |-> IF e < StartEpoch THEN Unclassified ELSE outcomes[e]]
        /\ step' = "unmark"
        /\ UNCHANGED at
     \/ /\ step' = "epoch"
        /\ at' = StartEpoch
        /\ UNCHANGED outcomes
  /\ UNCHANGED <<truth, schedule, classified, final, local, starts, notes>>

Unmark ==
  /\ step = "unmark"
  /\ \/ classified' = [e \in Past |-> e >= StartEpoch /\ classified[e]]
     \/ UNCHANGED classified   \* the error is ignored
  /\ step' = "epoch"
  /\ at' = StartEpoch
  /\ UNCHANGED <<truth, schedule, outcomes, final, local, starts, notes>>

EpochDone ==
  /\ step = "epoch"
  /\ at > MaxEpoch
  /\ Goto("ended")
  /\ UNCHANGED <<truth, schedule, classified, outcomes, final, found, forgedSet, starts, notes>>

SkipClassified ==
  /\ step = "epoch"
  /\ at <= MaxEpoch
  /\ classified[at]
  /\ NextEpoch
  /\ UNCHANGED <<truth, schedule, classified, outcomes, final, found, forgedSet, starts, notes>>

(* A read that fails passes for an epoch that is not classified, or for a  *)
(* schedule that is not there.                                             *)
GetSchedule ==
  /\ step = "epoch"
  /\ at <= MaxEpoch
  /\ \E failed \in BOOLEAN :
       /\ failed \/ ~classified[at]
       /\ doubted' = IF failed THEN doubted \cup {at} ELSE doubted
       /\ found' \in IF failed THEN {schedule[at], NoSchedule} ELSE {schedule[at]}
       /\ Goto(IF found' = NoSchedule THEN "stake" ELSE "check")
  /\ UNCHANGED <<truth, schedule, classified, outcomes, final, forgedSet, starts, replaced>>

ComputeFailsEnds ==   \* gives up the job, not the epoch
  /\ step \in {"stake", "total"}
  /\ Goto("ended")
  /\ UNCHANGED <<truth, schedule, classified, outcomes, final, found, forgedSet, starts, notes>>

(* Nonce or stake unavailable: the epoch is left for the next start.       *)
ComputeFails ==
  /\ step \in {"stake", "total"}
  /\ NextEpoch
  /\ UNCHANGED <<truth, schedule, classified, outcomes, final, found, forgedSet, starts, notes>>

FetchPoolStake ==
  /\ step = "stake"
  /\ Goto("total")
  /\ UNCHANGED <<truth, schedule, classified, outcomes, final, found, forgedSet, starts, notes>>

(* The computed schedule is stored; a failure is only logged.              *)
ComputeSchedule ==
  /\ step = "total"
  /\ found' = Computed(at)
  /\ \/ InsertLeaderSchedule(at, Computed(at)) /\ UNCHANGED doubted
     \/ doubted' = doubted \cup {at} /\ UNCHANGED <<schedule, replaced>>
  /\ Goto("check")
  /\ UNCHANGED <<truth, classified, outcomes, final, forgedSet, starts>>

(* MarkEpochClassified: an UPDATE, which finds no row if none was stored.  *)
MarkEpochClassified ==
  classified' = [classified EXCEPT ![at] = @ \/ schedule[at] # NoSchedule]

NothingAssigned ==
  /\ step = "check"
  /\ Assigned[at][found] = {}
  /\ MarkEpochClassified
  /\ NextEpoch
  /\ UNCHANGED <<truth, schedule, outcomes, final, found, forgedSet, starts, notes>>

AskForged ==
  /\ step = "check"
  /\ Assigned[at][found] # {}
  /\ Goto("forged")
  /\ UNCHANGED <<truth, schedule, classified, outcomes, final, found, forgedSet, starts, notes>>

(* A failed request leaves the forged slots empty.                         *)
FetchForged ==
  /\ step = "forged"
  /\ \/ forgedSet' = forged[at] /\ UNCHANGED doubted
     \/ forgedSet' = {} /\ doubted' = doubted \cup {at}
  /\ Goto("outcomes")
  /\ UNCHANGED <<truth, schedule, classified, outcomes, final, found, starts, replaced>>

BattleFirst(o, seen) ==   \* looks at the blocks table first, which has own blocks too
  IF o \in seen THEN "battle" ELSE IF o \in forgedSet THEN "forged" ELSE "missed"

Outcome(o, seen) ==
  IF o \in forgedSet THEN "forged" ELSE IF o \in seen THEN "battle" ELSE "missed"

(* UpsertSlotOutcomes, one transaction.  HasBlockAtSlot sees the blocks,   *)
(* unless its query fails, which passes for an empty slot.                 *)
StoreOutcomes ==
  /\ step = "outcomes"
  /\ \E seen \in SUBSET held[at] :
       /\ outcomes' = [outcomes EXCEPT ![at] =
                         [o \in Offset |-> IF o \in Assigned[at][found] THEN Outcome(o, seen)
                                           ELSE @[o]]]
       /\ doubted' = IF seen = held[at] THEN doubted ELSE doubted \cup {at}
  /\ Goto("mark")
  /\ UNCHANGED <<truth, schedule, classified, final, found, forgedSet, starts, replaced>>

OutcomesFailMarked ==   \* goes on to mark the epoch
  /\ step = "outcomes"
  /\ Goto("mark")
  /\ UNCHANGED <<truth, schedule, classified, outcomes, final, found, forgedSet, starts, notes>>

OutcomesFail ==
  /\ step = "outcomes"
  /\ NextEpoch
  /\ UNCHANGED <<truth, schedule, classified, outcomes, final, found, forgedSet, starts, notes>>

MarkClassified ==
  /\ step = "mark"
  /\ \/ MarkEpochClassified
     \/ UNCHANGED classified   \* the error is ignored
  /\ NextEpoch
  /\ UNCHANGED <<truth, schedule, outcomes, final, found, forgedSet, starts, notes>>

----------------------------------------------------------------------------
(* /leaderlog e: a stored schedule whose nonce is the cached one and whose *)
(* stake is the epoch's is served as it is; otherwise a new one is         *)
(* computed and stored.                                                    *)
Leaderlog(e) ==
  /\ step # "off"
  /\ schedule[e] # Computed(e)
  /\ InsertLeaderSchedule(e, Computed(e))
  /\ UNCHANGED <<truth, classified, outcomes, final, step, at, local, starts, doubted>>

(* The process stops; its context ends the job in the same way.            *)
StopProcess ==
  /\ step # "off"
  /\ step' = "off"
  /\ found' = NoSchedule
  /\ forgedSet' = {}
  /\ attempt' = 1
  /\ UNCHANGED <<truth, schedule, classified, outcomes, final, at, starts, notes>>

JobStep ==
  \/ BackfillSchedule \/ SchedulesDone
  \/ FetchRegistration \/ DeleteOutcomes \/ Unmark
  \/ EpochDone \/ SkipClassified \/ GetSchedule
  \/ ComputeFails \/ FetchPoolStake \/ ComputeSchedule
  \/ NothingAssigned \/ AskForged \/ FetchForged
  \/ StoreOutcomes \/ OutcomesFail \/ MarkClassified

HistoryNext ==
  \/ StartJobs
  \/ KoiosBusy
  \/ JobStep
  \/ \E e \in Past : Leaderlog(e)
  \/ StopProcess

HistorySpec == HistoryInit /\ [][HistoryNext]_history_vars

(* The goroutine keeps running while the process does.                     *)
HistoryFairness == WF_history_vars(KoiosBusy \/ JobStep)

----------------------------------------------------------------------------
True(e, o) ==
  IF o \notin Assigned[e][schedule[e]] THEN "none"
  ELSE IF o \in forged[e] THEN "forged"
  ELSE IF o \in held[e] THEN "battle" ELSE "missed"

(* An epoch that is marked is skipped by every later start, so it must be  *)
(* right: "classifies every assigned leader slot as forged, battle, or     *)
(* missed" (main.go:2081), wherever the job was stopped and whichever      *)
(* write of the outcomes or the mark failed, unless the schedule was       *)
(* replaced by another or one of the reads passed for an answer.           *)
ClassifiedRight ==
  \A e \in StartEpoch..MaxEpoch :
    classified[e] /\ e \notin doubted \cup replaced =>
      /\ schedule[e] # NoSchedule
      /\ \A o \in Offset : outcomes[e][o] = True(e, o)

(* The job ends: a Koios that only ever asks to retry does not keep it in  *)
(* koiosGetWithRetry (main.go:2257).  And one epoch does not keep it from  *)
(* the others: once it is at an epoch it comes past this and every later   *)
(* one, whatever fails for an epoch on the way (main.go:2142-2172,         *)
(* main.go:2230), unless the process stops.                                *)
JobEnds ==
  /\ (step # "off") ~> (step \in {"ended", "off"})
  /\ \A e \in StartEpoch..MaxEpoch :
       (step = "epoch" /\ at <= e) ~> (at > e \/ step = "off")
=============================================================================
