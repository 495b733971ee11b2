-------------------------- MODULE LeaderlogTrigger --------------------------
(***************************************************************************)
(* The leader schedule trigger (main.go): checkLeaderlogTrigger, called    *)
(* after every block, starts goroutines that compute, store and post the   *)
(* schedule of the next epoch or of a skipped current one, and goroutines  *)
(* that check the nonce of a stored schedule against Koios.  They share    *)
(* the maps guarded by leaderlogMu, and the database without any lock, with*)
(* each other, with the nonce backfill and with the /leaderlog command.    *)
(***************************************************************************)
EXTENDS Integers

CONSTANTS
  MaxEpoch,      \* epochs are 0..MaxEpoch; epoch 0 has no local candidate
  KoiosNonce,    \* the nonce of an epoch as Koios publishes it
  WrongNonce,    \* what a gap in the local block history computes instead
  NoNonce,       \* SQL NULL, or no row
  LocalNonces,   \* what the TICKN rule may give from local data
  Command,       \* the handler of the /leaderlog command
  Faults,        \* the faults and rare events that may happen, see FaultKinds
  MaxFaults      \* bound on their number

Epoch == 0..MaxEpoch
Job == Epoch \cup {Command}
Nonces == {KoiosNonce, WrongNonce}

FaultKinds ==
  { "read",       \* GetLeaderSchedule fails in the trigger
    "cached",     \* GetFinalNonce fails
    "posted",     \* IsSchedulePosted fails, and says "not posted"
    "tickn",      \* the local nonce is not trusted, Koios is asked instead
    "koios",      \* Koios does not answer verifyScheduleNonce
    "setFinal",   \* SetFinalNonce fails
    "stake",      \* no stake data
    "insert",     \* InsertLeaderSchedule fails
    "telegram",   \* a message cannot be sent
    "mark",       \* MarkSchedulePosted fails
    "restart",    \* the process stops and starts again
    "rollback",   \* the chain rolls back across an epoch boundary
    "backfill",   \* BackfillNonces corrects a nonce
    "command" }   \* a user asks for a schedule

ASSUME TriggerAssumption ==
  /\ MaxEpoch \in Nat \ {0}
  /\ LocalNonces \subseteq Nonces
  /\ NoNonce \notin Nonces
  /\ KoiosNonce # WrongNonce
  /\ Command \notin Epoch
  /\ Faults \subseteq FaultKinds
  /\ MaxFaults \in Nat

VARIABLES
  epoch, past,     \* i.epoch; the last block is past its stability window
  armed,           \* synced, and the grace period after the start is over
  at, seen,        \* where checkLeaderlogTrigger is, the schedule it has read
  exists, failed, verified,   \* scheduleExists, leaderlogFailed, nonceVerified
  recent,          \* epochs whose nonceVerifyAt is less than ten minutes ago
  job,             \* the workers of the trigger by epoch, and the command
  checker,         \* the verifyScheduleNonce goroutines by epoch
  backfill,        \* the goroutine that runs BackfillNonces
  schedule, posted,   \* leader_schedules: the nonce a schedule is based on
  final,           \* epoch_nonces.final_nonce
  channel,         \* the schedule last posted to Telegram
  published,       \* the epochs whose nonce Koios knows
  budget           \* the faults that may still happen

chainView == <<epoch, past, armed>>
handler   == <<at, seen>>
memory    == <<exists, failed, verified, recent>>
routines  == <<job, checker, backfill>>
db        == <<schedule, posted, final>>
outside   == <<channel, published>>
vars      == <<chainView, handler, memory, routines, db, outside, budget>>

NoJob == [pc |-> "idle", epoch |-> 0, nonce |-> NoNonce, reposting |-> FALSE]

(* leaderlogCalcing: set when a worker is started, deleted when it ends.   *)
Calcing(e) == job[e].pc # "idle"

(* The handler keeps leaderlogMu while it reads the database.              *)
MuFree == at \notin {"nextNonce", "curNonce"}

Fault(f) == f \in Faults /\ budget > 0 /\ budget' = budget - 1

NoFault == UNCHANGED budget

Init ==
  /\ epoch = 0 /\ past = FALSE /\ armed = FALSE
  /\ at = "idle" /\ seen = NoNonce
  /\ exists = {} /\ failed = {} /\ verified = {} /\ recent = {}
  /\ job = [j \in Job |-> NoJob]
  /\ checker = [e \in Epoch |-> "idle"]
  /\ backfill = IF "backfill" \in Faults THEN "run" ELSE "done"
  /\ schedule = [e \in Epoch |-> NoNonce]
  /\ posted = {}
  /\ final = [e \in Epoch |-> NoNonce]
  /\ channel = [e \in Epoch |-> NoNonce]
  /\ published = {}
  /\ budget = MaxFaults

----------------------------------------------------------------------------
(* Blocks, Koios and time.                                                 *)

(* handleEvent: a block of the epoch (before or past its stability window),*)
(* or the first one of the next epoch, then checkLeaderlogTrigger.         *)
BlockArrives(e, p) ==
  /\ at = "idle"
  /\ \/ e = epoch /\ (past => p)
     \/ e = epoch + 1 /\ ~p
  /\ epoch' = e
  /\ past' = p
  /\ at' = IF ~armed THEN "idle" ELSE IF p THEN "next" ELSE "cur"
  /\ NoFault
  /\ UNCHANGED <<armed, seen, memory, routines, db, outside>>

(* A rollback event into the previous epoch sets i.epoch back.             *)
RollbackArrives ==
  /\ at = "idle"
  /\ epoch > 0
  /\ Fault("rollback")
  /\ epoch' = epoch - 1
  /\ past' = TRUE
  /\ UNCHANGED <<armed, handler, memory, routines, db, outside>>

(* Koios publishes a nonce once its epoch has started.                     *)
Publish(e) ==
  /\ e <= epoch
  /\ e \notin published
  /\ published' = published \cup {e}
  /\ NoFault
  /\ UNCHANGED <<chainView, handler, memory, routines, db, channel>>

Arm ==
  /\ ~armed
  /\ armed' = TRUE
  /\ NoFault
  /\ UNCHANGED <<epoch, past, handler, memory, routines, db, outside>>

CooldownExpires(e) ==
  /\ e \in failed
  /\ failed' = failed \ {e}
  /\ NoFault
  /\ UNCHANGED <<chainView, handler, exists, verified, recent, routines, db, outside>>

(* A check takes at most 30 seconds: none outlives the ten minutes.        *)
VerifyIntervalExpires(e) ==
  /\ e \in recent
  /\ checker[e] = "idle"
  /\ recent' = recent \ {e}
  /\ NoFault
  /\ UNCHANGED <<chainView, handler, exists, failed, verified, routines, db, outside>>

----------------------------------------------------------------------------
(* checkLeaderlogTrigger.                                                  *)

Return == at' = "idle" /\ seen' = NoNonce

Spawn(e) == job' = [job EXCEPT ![e] = [NoJob EXCEPT !.pc = "nonce", !.epoch = e]]

MaybeVerifyScheduleNonce(e) ==
  IF e \in verified \cup recent
  THEN UNCHANGED <<recent, checker>>
  ELSE /\ recent' = recent \cup {e}
       /\ checker' = [checker EXCEPT ![e] = "fetch"]

(* After the database check of the next epoch: cooldown, or start a worker *)
(* and go on with the current epoch.                                       *)
AttemptNext ==
  LET e == epoch + 1
  IN IF e \in failed
     THEN Return /\ UNCHANGED job
     ELSE Spawn(e) /\ at' = "cur" /\ seen' = NoNonce

CheckNext ==
  LET e == epoch + 1
  IN /\ at = "next"
     /\ \/ Calcing(e) /\ Return /\ UNCHANGED <<recent, job, checker>> /\ NoFault
        \/ /\ ~Calcing(e) /\ e \in exists
           /\ MaybeVerifyScheduleNonce(e)
           /\ Return /\ UNCHANGED job /\ NoFault
        \/ /\ ~Calcing(e) /\ e \notin exists
           /\ \/ schedule[e] = NoNonce /\ NoFault /\ AttemptNext
              \/ Fault("read") /\ AttemptNext
              \/ /\ schedule[e] # NoNonce
                 /\ at' = "nextNonce" /\ seen' = schedule[e]
                 /\ UNCHANGED job /\ NoFault
           /\ UNCHANGED <<recent, checker>>
     /\ UNCHANGED <<chainView, exists, failed, verified, backfill, db, outside>>

CompareNextByPresence ==   \* any schedule with a nonce at hand is recomputed
  LET e == epoch + 1
  IN /\ at = "nextNonce"
     /\ \/ final[e] # NoNonce /\ AttemptNext /\ NoFault
        \/ final[e] = NoNonce /\ Return /\ UNCHANGED job /\ NoFault
     /\ UNCHANGED <<chainView, memory, checker, backfill, db, outside>>

(* The schedule that was read is current if it is based on final_nonce; if *)
(* that cannot be read, the next block tries again.                        *)
CompareNext ==
  LET e == epoch + 1
  IN /\ at = "nextNonce"
     /\ \/ final[e] = NoNonce /\ Return /\ UNCHANGED <<exists, job>> /\ NoFault
        \/ Return /\ UNCHANGED <<exists, job>> /\ Fault("cached")
        \/ final[e] = seen /\ Return /\ exists' = exists \cup {e} /\ UNCHANGED job /\ NoFault
        \/ final[e] \in Nonces \ {seen} /\ AttemptNext /\ UNCHANGED exists /\ NoFault
     /\ UNCHANGED <<chainView, failed, verified, recent, checker, backfill, db, outside>>

(* Catch-up: the same for the current epoch, the cooldown coming first.    *)
CheckCurrent ==
  /\ at = "cur"
  /\ \/ /\ epoch \in exists
        /\ MaybeVerifyScheduleNonce(epoch)
        /\ Return /\ UNCHANGED job /\ NoFault
     \/ /\ epoch \notin exists
        /\ \/ (Calcing(epoch) \/ epoch \in failed) /\ Return /\ UNCHANGED job /\ NoFault
           \/ /\ ~Calcing(epoch) /\ epoch \notin failed
              /\ \/ schedule[epoch] = NoNonce /\ Spawn(epoch) /\ Return /\ NoFault
                 \/ Fault("read") /\ Spawn(epoch) /\ Return
                 \/ /\ schedule[epoch] # NoNonce
                    /\ at' = "curNonce" /\ seen' = schedule[epoch]
                    /\ UNCHANGED job /\ NoFault
        /\ UNCHANGED <<recent, checker>>
  /\ UNCHANGED <<chainView, exists, failed, verified, backfill, db, outside>>

CompareCurrent ==
  /\ at = "curNonce"
  /\ Return
  /\ \/ final[epoch] = NoNonce /\ UNCHANGED <<exists, job>> /\ NoFault
     \/ UNCHANGED <<exists, job>> /\ Fault("cached")
     \/ final[epoch] = seen /\ exists' = exists \cup {epoch} /\ UNCHANGED job /\ NoFault
     \/ final[epoch] \in Nonces \ {seen} /\ Spawn(epoch) /\ UNCHANGED exists /\ NoFault
  /\ UNCHANGED <<chainView, failed, verified, recent, checker, backfill, db, outside>>

----------------------------------------------------------------------------
(* calculateAndPostLeaderlog in a worker, and computeAndReplyLeaderlog of  *)
(* the command, which does not post.                                       *)

Goto(j, pc) == job' = [job EXCEPT ![j].pc = pc]

GiveUp(j) == IF j = Command THEN job' = [job EXCEPT ![j] = NoJob] ELSE Goto(j, "failed")

(* The user asks for epoch e; a stored schedule whose nonce and stake are  *)
(* current is served from the database.                                    *)
CommandArrives(e) ==
  /\ job[Command].pc = "idle"
  /\ e \in {epoch, epoch + 1}
  /\ Fault("command")
  /\ job' = [job EXCEPT ![Command] = [NoJob EXCEPT !.pc = "nonce", !.epoch = e]]
  /\ UNCHANGED <<chainView, handler, memory, checker, backfill, db, outside>>

ReadNonceUnchecked(j) ==   \* takes whatever the cache returns
  /\ job[j].pc = "nonce"
  /\ job' = [job EXCEPT ![j].pc = "store", ![j].nonce = final[job[j].epoch]]
  /\ NoFault
  /\ UNCHANGED <<chainView, handler, memory, checker, backfill, db, outside>>

(* GetNonceForEpoch: the cached nonce first.  An error counts as none: the *)
(* nonce is computed anew and replaces the one that could not be read.     *)
ReadNonce(j) ==
  LET e == job[j].epoch
  IN /\ job[j].pc = "nonce"
     /\ \/ final[e] = NoNonce /\ Goto(j, "compute") /\ NoFault
        \/ final[e] # NoNonce /\ Goto(j, "compute") /\ Fault("cached")
        \/ /\ final[e] # NoNonce
           /\ job' = [job EXCEPT ![j].pc = "store", ![j].nonce = final[e]]
           /\ NoFault
     /\ UNCHANGED <<chainView, handler, memory, checker, backfill, db, outside>>

(* The TICKN rule needs the frozen candidate of the epoch before.          *)
Local(e) ==
  IF e > 0 /\ (e <= epoch \/ (e = epoch + 1 /\ past)) THEN LocalNonces ELSE {}

(* GetNonceForEpoch: local data, then Koios.                               *)
ComputeNonce(j) ==
  LET e == job[j].epoch
      Koios == IF e \in published THEN {KoiosNonce} ELSE {}
      Take(N) == IF N = {} THEN GiveUp(j)
                 ELSE \E n \in N : job' = [job EXCEPT ![j].pc = "cache", ![j].nonce = n]
  IN /\ job[j].pc = "compute"
     /\ \/ NoFault /\ Take(IF Local(e) # {} THEN Local(e) ELSE Koios)
        \/ Fault("tickn") /\ Take(Koios)
     /\ UNCHANGED <<chainView, handler, memory, checker, backfill, db, outside>>

(* GetNonceForEpoch: SetFinalNonce, an error is only logged.               *)
CacheNonce(j) ==
  /\ job[j].pc = "cache"
  /\ Goto(j, "store")
  /\ \/ final' = [final EXCEPT ![job[j].epoch] = job[j].nonce] /\ NoFault
     \/ final' = final /\ Fault("setFinal")
  /\ UNCHANGED <<chainView, handler, memory, checker, backfill, schedule, posted, outside>>

StoreScheduleForgetful(j) ==   \* takes the cache for the posted column
  LET e == job[j].epoch
  IN /\ job[j].pc = "store"
     /\ job' = [job EXCEPT ![j].pc = "post", ![j].reposting = e \in exists]
     /\ schedule' = [schedule EXCEPT ![e] = job[j].nonce]
     /\ NoFault
     /\ UNCHANGED <<chainView, handler, memory, checker, backfill, posted, final, outside>>

(* queryStakeForLeaderlog and CalculateLeaderSchedule, which read nothing  *)
(* that is modelled; then IsSchedulePosted, which says "no" if it cannot   *)
(* read, and InsertLeaderSchedule, whose error is only logged.             *)
StoreSchedule(j) ==
  LET e == job[j].epoch
      Posting(b) == IF j = Command THEN [job EXCEPT ![j] = NoJob]
                    ELSE [job EXCEPT ![j].pc = "post", ![j].reposting = b]
      Stored == [schedule EXCEPT ![e] = job[j].nonce]
  IN /\ job[j].pc = "store"
     /\ \/ job' = Posting(e \in posted) /\ schedule' = Stored /\ NoFault
        \/ job' = Posting(FALSE) /\ schedule' = Stored /\ Fault("posted")
        \/ job' = Posting(e \in posted) /\ schedule' = schedule /\ Fault("insert")
        \/ GiveUp(j) /\ schedule' = schedule /\ Fault("stake")
     /\ UNCHANGED <<chainView, handler, memory, checker, backfill, posted, final, outside>>

(* The message starts with a warning when job.reposting is set.            *)
PostSchedule(e) ==
  /\ job[e].pc = "post"
  /\ \/ channel' = [channel EXCEPT ![e] = job[e].nonce] /\ Goto(e, "mark") /\ NoFault
     \/ channel' = channel /\ GiveUp(e) /\ Fault("telegram")
  /\ UNCHANGED <<chainView, handler, memory, checker, backfill, db, published>>

(* MarkSchedulePosted updates a row, if there is one.                      *)
MarkSchedulePosted(e) ==
  /\ job[e].pc = "mark"
  /\ Goto(e, "succeeded")
  /\ \/ posted' = (IF schedule[e] = NoNonce THEN posted ELSE posted \cup {e}) /\ NoFault
     \/ posted' = posted /\ Fault("mark")
  /\ UNCHANGED <<chainView, handler, memory, checker, backfill, schedule, final, outside>>

FinishLeavesCalcing(e) ==   \* a failed worker stays in leaderlogCalcing
  /\ MuFree
  /\ job[e].pc = "succeeded"
  /\ job' = [job EXCEPT ![e] = NoJob]
  /\ exists' = exists \cup {e}
  /\ NoFault
  /\ UNCHANGED <<chainView, handler, failed, verified, recent, checker, backfill, db, outside>>

Finish(e) ==
  /\ MuFree
  /\ job[e].pc \in {"succeeded", "failed"}
  /\ job' = [job EXCEPT ![e] = NoJob]
  /\ IF job[e].pc = "succeeded"
     THEN exists' = exists \cup {e} /\ failed' = failed \ {e}
     ELSE failed' = failed \cup {e} /\ UNCHANGED exists
  /\ NoFault
  /\ UNCHANGED <<chainView, handler, verified, recent, checker, backfill, db, outside>>

----------------------------------------------------------------------------
(* verifyScheduleNonce.                                                    *)

CheckerGoto(e, pc) == checker' = [checker EXCEPT ![e] = pc]

FetchOnce(e) ==   \* no answer counts as confirmation
  /\ checker[e] = "fetch"
  /\ CheckerGoto(e, IF e \in published THEN "compare" ELSE "confirm")
  /\ NoFault
  /\ UNCHANGED <<chainView, handler, memory, job, backfill, db, outside>>

FetchKoiosNonce(e) ==
  /\ checker[e] = "fetch"
  /\ \/ CheckerGoto(e, IF e \in published THEN "compare" ELSE "idle") /\ NoFault
     \/ CheckerGoto(e, "idle") /\ Fault("koios")
  /\ UNCHANGED <<chainView, handler, memory, job, backfill, db, outside>>

CompareWithKoios(e) ==
  /\ checker[e] = "compare"
  /\ \/ /\ CheckerGoto(e, CASE final[e] = NoNonce -> "idle"
                             [] final[e] = KoiosNonce -> "confirm"
                             [] OTHER -> "correct")
        /\ NoFault
     \/ CheckerGoto(e, "idle") /\ Fault("cached")
  /\ UNCHANGED <<chainView, handler, memory, job, backfill, db, outside>>

CorrectNonce(e) ==
  /\ checker[e] = "correct"
  /\ \/ /\ final' = [final EXCEPT ![e] = KoiosNonce]
        /\ CheckerGoto(e, "corrected") /\ NoFault
     \/ final' = final /\ CheckerGoto(e, "idle") /\ Fault("setFinal")
  /\ UNCHANGED <<chainView, handler, memory, job, backfill, schedule, posted, outside>>

ConfirmOnly(e) ==   \* does not mark the schedule stale
  /\ MuFree
  /\ checker[e] \in {"confirm", "corrected"}
  /\ CheckerGoto(e, "idle")
  /\ verified' = verified \cup {e}
  /\ NoFault
  /\ UNCHANGED <<chainView, handler, exists, failed, recent, job, backfill, db, outside>>

Confirm(e) ==
  /\ MuFree
  /\ checker[e] \in {"confirm", "corrected"}
  /\ CheckerGoto(e, "idle")
  /\ verified' = verified \cup {e}
  /\ exists' = IF checker[e] = "corrected" THEN exists \ {e} ELSE exists
  /\ NoFault
  /\ UNCHANGED <<chainView, handler, failed, recent, job, backfill, db, outside>>

----------------------------------------------------------------------------
(* The backfill after the historical sync: correctNextEpochNonce replaces  *)
(* a cached nonce, then the cache of existing schedules is cleared.        *)
CorrectNextEpochNonce(e) ==
  /\ backfill = "run"
  /\ e = epoch + 1 /\ past
  /\ final[e] # NoNonce
  /\ Fault("backfill")
  /\ final' = [final EXCEPT ![e] = KoiosNonce]
  /\ backfill' = "clear"
  /\ UNCHANGED <<chainView, handler, memory, job, checker, schedule, posted, outside>>

(* Nothing to correct, or the backfill failed and returned early.          *)
BackfillWithoutCorrection ==
  /\ backfill = "run"
  /\ backfill' \in {"clear", "done"}
  /\ NoFault
  /\ UNCHANGED <<chainView, handler, memory, job, checker, db, outside>>

ClearScheduleExists ==
  /\ MuFree
  /\ backfill = "clear"
  /\ backfill' = "done"
  /\ exists' = {}
  /\ NoFault
  /\ UNCHANGED <<chainView, handler, failed, verified, recent, job, checker, db, outside>>

(* The process stops and starts again: only the database is left.          *)
Restart ==
  /\ Fault("restart")
  /\ armed' = FALSE
  /\ at' = "idle" /\ seen' = NoNonce
  /\ exists' = {} /\ failed' = {} /\ verified' = {} /\ recent' = {}
  /\ job' = [j \in Job |-> NoJob]
  /\ checker' = [e \in Epoch |-> "idle"]
  /\ backfill' = IF "backfill" \in Faults THEN "run" ELSE "done"
  /\ UNCHANGED <<epoch, past, db, outside>>

----------------------------------------------------------------------------
EpochReached == 0..MaxEpoch - 1   \* bound: the chain stays in these epochs

Trigger == CheckNext \/ CompareNext \/ CheckCurrent \/ CompareCurrent

JobStep(j) ==
  ReadNonce(j) \/ ComputeNonce(j) \/ CacheNonce(j) \/ StoreSchedule(j)

WorkerStep(e) == JobStep(e) \/ PostSchedule(e) \/ MarkSchedulePosted(e) \/ Finish(e)

CheckerStep(e) ==
  FetchKoiosNonce(e) \/ CompareWithKoios(e) \/ CorrectNonce(e) \/ Confirm(e)

Next ==
  \/ \E e \in EpochReached, p \in BOOLEAN : BlockArrives(e, p)
  \/ RollbackArrives
  \/ \E e \in EpochReached : Publish(e)
  \/ Arm
  \/ Trigger
  \/ \E e \in Epoch : WorkerStep(e) \/ CheckerStep(e)
  \/ \E e \in Epoch : CooldownExpires(e) \/ VerifyIntervalExpires(e)
  \/ \E e \in Epoch : CommandArrives(e)
  \/ JobStep(Command)
  \/ \E e \in Epoch : CorrectNextEpochNonce(e)
  \/ BackfillWithoutCorrection
  \/ ClearScheduleExists
  \/ Restart

Spec == Init /\ [][Next]_vars

(* Blocks keep arriving (the stall detector restarts a silent pipeline),   *)
(* goroutines run, mutexes are handed over and time passes.  Nothing forces*)
(* the chain into the next epoch, Koios to publish or faults to happen.    *)
Fairness ==
  /\ WF_vars(\E e \in EpochReached, p \in BOOLEAN : BlockArrives(e, p))
  /\ WF_vars(Arm)
  /\ WF_vars(Trigger)
  /\ \A e \in Epoch : /\ WF_vars(WorkerStep(e))
                      /\ WF_vars(CheckerStep(e))
                      /\ WF_vars(CooldownExpires(e))
                      /\ WF_vars(VerifyIntervalExpires(e))

FairSpec == Spec /\ Fairness

----------------------------------------------------------------------------
(* Properties.                                                             *)

(* Every variable has its type; a worker past GetNonceForEpoch has a nonce,*)
(* never the NULL of a row that SetFinalNonce has not filled.              *)
TypeOK ==
  /\ epoch \in EpochReached /\ past \in BOOLEAN /\ armed \in BOOLEAN
  /\ at \in {"idle", "next", "nextNonce", "cur", "curNonce"}
  /\ seen \in Nonces \cup {NoNonce}
  /\ exists \subseteq Epoch /\ failed \subseteq Epoch
  /\ verified \subseteq Epoch /\ recent \subseteq Epoch
  /\ job \in [Job -> [pc : {"idle", "nonce", "compute", "failed"}, epoch : Epoch,
                      nonce : Nonces \cup {NoNonce}, reposting : BOOLEAN]
                     \cup [pc : {"cache", "store", "post", "mark", "succeeded"},
                           epoch : Epoch, nonce : Nonces, reposting : BOOLEAN]]
  /\ checker \in [Epoch -> {"idle", "fetch", "compare", "correct", "confirm", "corrected"}]
  /\ backfill \in {"run", "clear", "done"}
  /\ schedule \in [Epoch -> Nonces \cup {NoNonce}]
  /\ posted \subseteq Epoch
  /\ final \in [Epoch -> Nonces \cup {NoNonce}]
  /\ channel \in [Epoch -> Nonces \cup {NoNonce}]
  /\ published \subseteq Epoch
  /\ budget \in 0..MaxFaults

(* The trigger is comparing the stored schedule of epoch e.                *)
Comparing(e) == (at = "nextNonce" /\ e = epoch + 1) \/ (at = "curNonce" /\ e = epoch)

WorkerAlone(e) ==
  /\ Calcing(e) => job[e].epoch = e /\ e \notin exists /\ ~Comparing(e)
  /\ job[e].pc \in {"compute", "cache"} => final[e] = NoNonce
  /\ job[e].pc \in {"store", "post", "mark", "succeeded"} =>
       final[e] \in {NoNonce, job[e].nonce}
  /\ job[e].pc \in {"post", "mark", "succeeded"} => schedule[e] = job[e].nonce

ComparesCurrent(e) ==
  Comparing(e) => e \notin exists /\ seen = schedule[e] /\ seen # NoNonce

CheckerAlone(e) ==
  /\ checker[e] # "idle" => e \in exists \cap recent /\ e \notin verified
  /\ checker[e] = "correct" => final[e] # NoNonce
  /\ checker[e] \in {"confirm", "corrected"} \/ e \in verified => final[e] = KoiosNonce

ExistsStored(e) ==
  e \in exists =>
    /\ schedule[e] # NoNonce
    /\ final[e] \in {NoNonce, schedule[e]} \/ checker[e] = "corrected"

(* Each conjunct is about one of those who act on epoch e.                 *)
Apart(e) ==
  WorkerAlone(e) /\ ComparesCurrent(e) /\ CheckerAlone(e) /\ ExistsStored(e)

(* A worker, a checker and the comparison of a stored schedule never meet   *)
(* on an epoch, so that what one of them has read is still so when it acts *)
(* on it.  Inductive if no insert and no read of a nonce fails, and neither*)
(* the command nor the backfill comes between: their writes are not fenced *)
(* by leaderlogCalcing.                                                    *)
OneAtATime ==
  /\ job[Command].pc = "idle"
  /\ backfill = "done"
  /\ \A e \in Epoch : Apart(e)

(* "Once Koios publishes, its nonce wins" (verifyScheduleNonce,            *)
(* main.go:1770): an epoch whose nonce is confirmed and whose schedule is  *)
(* believed to exist has the schedule of the nonce Koios published; nothing*)
(* would ever look at it again.  Not so once GetFinalNonce fails in the    *)
(* worker that corrects the schedule (GetNonceForEpoch, nonce.go:482): it  *)
(* computes the wrong nonce again and stores it over the one of Koios.     *)
KoiosWins ==
  \A e \in exists \cap verified : schedule[e] = KoiosNonce

(* A post that replaces another schedule says so, "so the earlier post is  *)
(* not mistaken for current" (calculateAndPostLeaderlog, main.go:1916), as *)
(* long as the posted column is written and read, and the process runs on. *)
CorrectionAnnounced ==
  [][\A e \in Epoch :
       channel[e] # NoNonce /\ channel'[e] # channel[e] => job[e].reposting]_vars

(* The schedule in the channel is not posted a second time: the cached and *)
(* the stored schedule are both checked before a worker starts, also after *)
(* a restart.  It is, once one of these checks or GetNonceForEpoch cannot  *)
(* read the schedule or the nonce.                                         *)
NoDuplicatePost ==
  [][\A e \in Epoch :
       job[e].pc = "post" /\ job'[e].pc = "mark" => channel[e] # job[e].nonce]_vars

(* "The next epoch's nonce becomes deterministic after the stability       *)
(* window. duckBot triggers leader schedule calculation automatically at   *)
(* this point" (README.md:141): it is posted, unless the epoch ends first. *)
NextPosted ==
  \A e \in EpochReached :
    (epoch = e /\ past) ~> (channel[e + 1] # NoNonce \/ epoch # e)

(* A worker whose read of final_nonce failed has computed a nonce over the *)
(* one of Koios, and a verified epoch is not checked again.  Without a     *)
(* fault no epoch counts as verified with another nonce.                   *)
Overwritten(e) ==
  budget < MaxFaults /\ e \in verified /\ final[e] # KoiosNonce

(* Once Koios has published the nonce of the running epoch, the channel    *)
(* shows the schedule that follows from it, unless the stability window    *)
(* comes first, or the correcting worker could not read the nonce.         *)
CurrentCorrected ==
  \A e \in EpochReached :
    (epoch = e /\ e \in published /\ ~past)
      ~> (channel[e] = KoiosNonce \/ past \/ epoch # e \/ Overwritten(e))
=============================================================================
