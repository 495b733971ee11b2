----------------------------- MODULE MCLeaderlog -----------------------------
(* LeaderSchedule and LeaderlogHistory in one run, a behaviour of the one    *)
(* or of the other: the history knows a schedule by what went into it.  The  *)
(* epochs are those at the boundaries of the eras of each network, the       *)
(* offsets those at the boundaries of an epoch and of its windows.           *)
EXTENDS LeaderSchedule, LeaderlogHistory

MCEpochs  == {0, 3, 4, 5, 162, 163, 207, 208, 209, 506, 507, 508, 600}
MCOffsets == {0, 1, 51840, 86399, 86400, 259199, 259200, 302400, 431999}

(* The pool leads a slot of the last epoch, and none of the ones before but *)
(* by the stake of an adjacent epoch; by a wrong nonce it leads none.        *)
MCAssigned ==
  [e \in Past |-> [right      |-> IF e = MaxEpoch THEN {1} ELSE {},
                   otherStake |-> {1},
                   wrongNonce |-> {}]]

(* The last epoch varies; the ones before it are ordinary.                   *)
OneEpochVaries ==
  \A e \in 1..(MaxEpoch - 1) :
    forged[e] = Assigned[e]["right"] /\ held[e] = forged[e] /\ final[e] = "right"

HistoryIdle ==
  /\ step = "off" /\ starts = 0
  /\ forged[MaxEpoch] = {} /\ held[MaxEpoch] = {} /\ final[MaxEpoch] = "none"

MCInit == ScheduleInit /\ HistoryInit /\ OneEpochVaries

MCNext ==
  \/ HistoryIdle /\ ScheduleNext /\ UNCHANGED history_vars
  \/ outcome = "idle" /\ HistoryNext /\ UNCHANGED schedule_vars

MCSpec == MCInit /\ [][MCNext]_<<schedule_vars, history_vars>> /\ HistoryFairness
=============================================================================
