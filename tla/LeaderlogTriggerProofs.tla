----------------------- MODULE LeaderlogTriggerProofs -----------------------
(***************************************************************************)
(* Theorems about LeaderlogTrigger: types, the nonce that wins, the post   *)
(* that is made once and the correction that is announced.  The first      *)
(* needs nothing, the others that some faults stay away: a guard that the  *)
(* goroutines of the trigger keep is not kept by the command, the backfill,*)
(* a lost insert or a failing read of the nonce (see Fenced, Lasting).     *)
(* Blocks, rollbacks, time, Koios and the other faults happen at will, as  *)
(* many as MaxFaults says.                                                 *)
(***************************************************************************)
EXTENDS LeaderlogTrigger, TLAPS

----------------------------------------------------------------------------
(* Types.                                                                  *)

Early == {"idle", "nonce", "compute", "failed"}

Late == {"cache", "store", "post", "mark", "succeeded"}

JobState ==
  [pc : Early, epoch : Epoch, nonce : Nonces \cup {NoNonce}, reposting : BOOLEAN]
    \cup [pc : Late, epoch : Epoch, nonce : Nonces, reposting : BOOLEAN]

LEMMA JobTypes ==
  ASSUME TypeOK
  PROVE  /\ job \in [Job -> JobState]
         /\ \A j \in Job :
              /\ job[j].pc \in Early \cup Late
              /\ job[j].epoch \in Epoch
              /\ job[j].nonce \in Nonces \cup {NoNonce}
              /\ job[j].pc \in Late => job[j].nonce \in Nonces
              /\ job[j].reposting \in BOOLEAN
<1>1. job \in [Job -> JobState]
  BY DEF TypeOK, JobState, Early, Late
<1>2. ASSUME NEW j \in Job
      PROVE  /\ job[j].pc \in Early \cup Late
             /\ job[j].epoch \in Epoch
             /\ job[j].nonce \in Nonces \cup {NoNonce}
             /\ job[j].pc \in Late => job[j].nonce \in Nonces
             /\ job[j].reposting \in BOOLEAN
  <2>1. job[j] \in JobState
    BY <1>1
  <2> QED  BY <2>1 DEF JobState, Early, Late
<1> QED  BY <1>1, <1>2

(* What a step may make of one worker.                                     *)
LEMMA MoveType ==
  ASSUME TypeOK, NEW j \in Job, NEW pc, Goto(j, pc),
         pc \in Early \/ (pc \in Late /\ job[j].pc \in Late)
  PROVE  job' \in [Job -> JobState]
<1>1. job \in [Job -> JobState] /\ job[j] \in JobState
  BY JobTypes
<1>2. [job[j] EXCEPT !.pc = pc] \in JobState
  BY <1>1 DEF JobState, Early, Late
<1> QED  BY <1>1, <1>2 DEF Goto

LEMMA TakeType ==
  ASSUME TypeOK, NEW j \in Job, NEW pc \in Late, NEW n \in Nonces,
         job' = [job EXCEPT ![j].pc = pc, ![j].nonce = n]
  PROVE  job' \in [Job -> JobState]
<1>1. job \in [Job -> JobState] /\ job[j] \in JobState
  BY JobTypes
<1>2. [job[j] EXCEPT !.pc = pc, !.nonce = n] \in JobState
  BY <1>1 DEF JobState, Early, Late
<1> QED  BY <1>1, <1>2

LEMMA PostType ==
  ASSUME TypeOK, NEW j \in Job, NEW b \in BOOLEAN, job[j].pc \in Late,
         job' = [job EXCEPT ![j].pc = "post", ![j].reposting = b]
  PROVE  job' \in [Job -> JobState]
<1>1. job \in [Job -> JobState] /\ job[j] \in JobState
  BY JobTypes
<1>2. [job[j] EXCEPT !.pc = "post", !.reposting = b] \in JobState
  BY <1>1 DEF JobState, Early, Late
<1> QED  BY <1>1, <1>2

LEMMA NoJobType == NoJob \in JobState
<1>1. NoJob = [pc |-> "idle", epoch |-> 0, nonce |-> NoNonce, reposting |-> FALSE]
  BY DEF NoJob
<1>2. 0 \in Epoch
  BY TriggerAssumption DEF Epoch
<1> QED  BY <1>1, <1>2 DEF JobState, Early

LEMMA StartType ==
  ASSUME TypeOK, NEW j \in Job, NEW e \in Epoch,
         job' = [job EXCEPT ![j] = [NoJob EXCEPT !.pc = "nonce", !.epoch = e]]
  PROVE  job' \in [Job -> JobState]
<1>1. job \in [Job -> JobState]
  BY JobTypes
<1>2. [NoJob EXCEPT !.pc = "nonce", !.epoch = e] \in JobState
  BY NoJobType DEF JobState, Early, Late
<1> QED  BY <1>1, <1>2

LEMMA EndType ==
  ASSUME TypeOK, NEW j \in Job, job' = [job EXCEPT ![j] = NoJob]
  PROVE  job' \in [Job -> JobState]
BY JobTypes, NoJobType

(* The types of everything but the workers.                                *)
RestType ==
  /\ epoch \in EpochReached /\ past \in BOOLEAN /\ armed \in BOOLEAN
  /\ at \in {"idle", "next", "nextNonce", "cur", "curNonce"}
  /\ seen \in Nonces \cup {NoNonce}
  /\ exists \subseteq Epoch /\ failed \subseteq Epoch
  /\ verified \subseteq Epoch /\ recent \subseteq Epoch
  /\ checker \in [Epoch -> {"idle", "fetch", "compare", "correct", "confirm", "corrected"}]
  /\ backfill \in {"run", "clear", "done"}
  /\ schedule \in [Epoch -> Nonces \cup {NoNonce}]
  /\ posted \subseteq Epoch
  /\ final \in [Epoch -> Nonces \cup {NoNonce}]
  /\ channel \in [Epoch -> Nonces \cup {NoNonce}]
  /\ published \subseteq Epoch
  /\ budget \in 0..MaxFaults

LEMMA TypeParts == TypeOK <=> RestType /\ job \in [Job -> JobState]
BY DEF TypeOK, RestType, JobState, Early, Late

LEMMA EpochsAndJobs ==
  /\ EpochReached \subseteq Epoch
  /\ \A e \in EpochReached : e + 1 \in Epoch
  /\ Epoch \subseteq Job /\ Command \in Job
  /\ KoiosNonce \in Nonces /\ WrongNonce \in Nonces
BY TriggerAssumption DEF EpochReached, Epoch, Job, Nonces

LEMMA InitTypes == Init => TypeOK
<1> SUFFICES ASSUME Init PROVE TypeOK
  OBVIOUS
<1>1. 0 \in EpochReached /\ 0 \in Epoch /\ MaxFaults \in 0..MaxFaults
  BY TriggerAssumption DEF EpochReached, Epoch
<1>2. NoJob \in JobState
  BY <1>1 DEF NoJob, JobState, Early
<1>3. RestType
  BY <1>1 DEF Init, RestType
<1> QED  BY <1>2, <1>3, TypeParts DEF Init

(* A worker is as it was, or in one of the states above.                   *)
LEMMA NextJobTypes ==
  ASSUME TypeOK, [Next]_vars
  PROVE  job' \in [Job -> JobState]
<1> USE EpochsAndJobs
<1>1. ASSUME job' = job PROVE job' \in [Job -> JobState]
  BY <1>1, JobTypes
<1>2. CASE Trigger
  <2>1. epoch \in Epoch /\ epoch + 1 \in Epoch
    BY DEF TypeOK
  <2>2. job' = job \/ \E e \in Epoch : Spawn(e)
    BY <1>2, <2>1 DEF Trigger, CheckNext, CompareNext, CheckCurrent, CompareCurrent, AttemptNext
  <2> QED  BY <1>1, <2>2, StartType DEF Spawn
<1>3. ASSUME NEW j \in Job, JobStep(j) PROVE job' \in [Job -> JobState]
  <2>1. /\ job[j].epoch \in Epoch
        /\ final[job[j].epoch] \in Nonces \cup {NoNonce}
        /\ Local(job[j].epoch) \subseteq Nonces
    BY JobTypes, TriggerAssumption DEF TypeOK, Local
  <2>2. ASSUME NEW x \in {"compute", "failed"}, Goto(j, x) PROVE job' \in [Job -> JobState]
    BY <2>2, MoveType DEF Early
  <2>3. ASSUME GiveUp(j) PROVE job' \in [Job -> JobState]
    BY <2>2, <2>3, EndType DEF GiveUp
  <2>4. CASE ReadNonce(j)
    <3>1. CASE Goto(j, "compute")
      BY <2>2, <3>1
    <3>2. CASE /\ final[job[j].epoch] # NoNonce
               /\ job' = [job EXCEPT ![j].pc = "store", ![j].nonce = final[job[j].epoch]]
      <4>1. final[job[j].epoch] \in Nonces /\ "store" \in Late
        BY <2>1, <3>2 DEF Late
      <4> QED  BY <3>2, <4>1, TakeType
    <3> QED  BY <2>4, <3>1, <3>2 DEF ReadNonce
  <2>5. CASE ComputeNonce(j)
    <3>1. GiveUp(j) \/ \E n \in Nonces : job' = [job EXCEPT ![j].pc = "cache", ![j].nonce = n]
      BY <2>1, <2>5 DEF ComputeNonce
    <3> QED  BY <2>3, <3>1, TakeType DEF Late
  <2>6. CASE CacheNonce(j)
    BY <2>6, MoveType DEF CacheNonce, Late
  <2>7. CASE StoreSchedule(j)
    <3>1. \/ GiveUp(j) \/ job' = [job EXCEPT ![j] = NoJob]
          \/ \E b \in BOOLEAN : job' = [job EXCEPT ![j].pc = "post", ![j].reposting = b]
      BY <2>7, (job[j].epoch \in posted) \in BOOLEAN DEF StoreSchedule
    <3>2. job[j].pc \in Late
      BY <2>7 DEF StoreSchedule, Late
    <3>3. ASSUME NEW b \in BOOLEAN, job' = [job EXCEPT ![j].pc = "post", ![j].reposting = b]
          PROVE  job' \in [Job -> JobState]
      BY <3>2, <3>3, PostType
    <3> QED  BY <2>3, <3>1, <3>3, EndType
  <2> QED  BY <1>3, <2>4, <2>5, <2>6, <2>7 DEF JobStep
<1>4. ASSUME NEW e \in Epoch, WorkerStep(e) PROVE job' \in [Job -> JobState]
  <2>1. CASE PostSchedule(e)
    <3>1. e # Command
      BY TriggerAssumption
    <3>2. job[e].pc = "post" /\ (Goto(e, "mark") \/ Goto(e, "failed"))
      BY <2>1, <3>1 DEF PostSchedule, GiveUp
    <3> QED  BY <3>2, MoveType DEF Early, Late
  <2>2. CASE MarkSchedulePosted(e)
    BY <2>2, MoveType DEF MarkSchedulePosted, Late
  <2>3. CASE Finish(e)
    BY <2>3, EndType DEF Finish
  <2> QED  BY <1>3, <1>4, <2>1, <2>2, <2>3 DEF WorkerStep
<1>5. ASSUME NEW e \in Epoch, CommandArrives(e) PROVE job' \in [Job -> JobState]
  BY <1>5, StartType DEF CommandArrives
<1>6. CASE Restart
  BY <1>6, NoJobType DEF Restart
<1>7. ASSUME NEW e \in Epoch, CheckerStep(e) PROVE job' = job
  BY <1>7 DEF CheckerStep, FetchKoiosNonce, CompareWithKoios, CorrectNonce, Confirm
<1>8. ASSUME NEW e \in Epoch,
             CooldownExpires(e) \/ VerifyIntervalExpires(e) \/ CorrectNextEpochNonce(e)
      PROVE  job' = job
  BY <1>8 DEF CooldownExpires, VerifyIntervalExpires, CorrectNextEpochNonce, routines
<1>9. ASSUME NEW e \in EpochReached, Publish(e) \/ \E p \in BOOLEAN : BlockArrives(e, p)
      PROVE  job' = job
  BY <1>9 DEF Publish, BlockArrives, routines
<1>10. ASSUME Arm \/ RollbackArrives \/ BackfillWithoutCorrection \/ ClearScheduleExists
              \/ UNCHANGED vars
       PROVE  job' = job
  BY <1>10 DEF Arm, RollbackArrives, BackfillWithoutCorrection, ClearScheduleExists, routines,
    vars
<1> QED
  BY <1>1, <1>2, <1>3, <1>4, <1>5, <1>6, <1>7, <1>8, <1>9, <1>10 DEF Next

LEMMA NextRestTypes ==
  ASSUME TypeOK, [Next]_vars
  PROVE  RestType'
<1> USE EpochsAndJobs DEF RestType, Fault, NoFault, chainView, handler, memory, routines, db,
  outside
<1> RestType /\ MaxFaults \in Nat
  BY TypeParts, TriggerAssumption
<1>1. ASSUME NEW e \in EpochReached, NEW p \in BOOLEAN, BlockArrives(e, p) PROVE RestType'
  BY <1>1 DEF BlockArrives
<1>2. CASE RollbackArrives
  <2>1. epoch - 1 \in EpochReached
    BY <1>2, TriggerAssumption DEF RollbackArrives, EpochReached
  <2> QED  BY <1>2, <2>1 DEF RollbackArrives
<1>3. ASSUME NEW e \in EpochReached, Publish(e) PROVE RestType'
  BY <1>3 DEF Publish
<1>4. CASE Arm
  BY <1>4 DEF Arm
<1>5. CASE CheckNext
  BY <1>5 DEF CheckNext, AttemptNext, Return, MaybeVerifyScheduleNonce
<1>6. CASE CompareNext
  BY <1>6 DEF CompareNext, AttemptNext, Return
<1>7. CASE CheckCurrent
  BY <1>7 DEF CheckCurrent, Return, MaybeVerifyScheduleNonce
<1>8. CASE CompareCurrent
  BY <1>8 DEF CompareCurrent, Return
<1>9. ASSUME NEW j \in Job, ReadNonce(j) PROVE RestType'
  BY <1>9 DEF ReadNonce
<1>10. ASSUME NEW j \in Job, ComputeNonce(j) PROVE RestType'
  BY <1>10 DEF ComputeNonce
<1>11. ASSUME NEW j \in Job, CacheNonce(j) PROVE RestType'
  BY <1>11, JobTypes DEF CacheNonce, Late
<1>12. ASSUME NEW j \in Job, StoreSchedule(j) PROVE RestType'
  BY <1>12, JobTypes DEF StoreSchedule, Late
<1>13. ASSUME NEW e \in Epoch, PostSchedule(e) PROVE RestType'
  BY <1>13, JobTypes DEF PostSchedule, Late
<1>14. ASSUME NEW e \in Epoch, MarkSchedulePosted(e) PROVE RestType'
  BY <1>14 DEF MarkSchedulePosted
<1>15. ASSUME NEW e \in Epoch, Finish(e) PROVE RestType'
  BY <1>15 DEF Finish
<1>16. ASSUME NEW e \in Epoch, FetchKoiosNonce(e) PROVE RestType'
  BY <1>16 DEF FetchKoiosNonce, CheckerGoto
<1>17. ASSUME NEW e \in Epoch, CompareWithKoios(e) PROVE RestType'
  BY <1>17 DEF CompareWithKoios, CheckerGoto
<1>18. ASSUME NEW e \in Epoch, CorrectNonce(e) PROVE RestType'
  BY <1>18 DEF CorrectNonce, CheckerGoto
<1>19. ASSUME NEW e \in Epoch, Confirm(e) PROVE RestType'
  BY <1>19 DEF Confirm, CheckerGoto
<1>20. ASSUME NEW e \in Epoch, CooldownExpires(e) PROVE RestType'
  BY <1>20 DEF CooldownExpires
<1>21. ASSUME NEW e \in Epoch, VerifyIntervalExpires(e) PROVE RestType'
  BY <1>21 DEF VerifyIntervalExpires
<1>22. ASSUME NEW e \in Epoch, CommandArrives(e) PROVE RestType'
  BY <1>22 DEF CommandArrives
<1>23. ASSUME NEW e \in Epoch, CorrectNextEpochNonce(e) PROVE RestType'
  BY <1>23 DEF CorrectNextEpochNonce
<1>24. CASE BackfillWithoutCorrection
  BY <1>24 DEF BackfillWithoutCorrection
<1>25. CASE ClearScheduleExists
  BY <1>25 DEF ClearScheduleExists
<1>26. CASE Restart
  <2>1. /\ checker' \in [Epoch -> {"idle"}] /\ backfill' \in {"run", "done"}
        /\ budget' \in 0..MaxFaults
    BY <1>26 DEF Restart
  <2> QED  BY <1>26, <2>1 DEF Restart
<1>27. CASE UNCHANGED vars
  BY <1>27 DEF vars
<1> QED
  BY <1>1, <1>2, <1>3, <1>4, <1>5, <1>6, <1>7, <1>8, <1>9, <1>10, <1>11, <1>12, <1>13, <1>14,
     <1>15, <1>16, <1>17, <1>18, <1>19, <1>20, <1>21, <1>22, <1>23, <1>24, <1>25, <1>26, <1>27
  DEF Next, Trigger, JobStep, WorkerStep, CheckerStep

(* Every variable has its type in every reachable state, whatever fails:   *)
(* in particular no worker carries the NULL of an unset final_nonce past   *)
(* GetNonceForEpoch into a schedule.                                       *)
THEOREM TypeCorrect == Spec => []TypeOK
<1>1. TypeOK /\ [Next]_vars => TypeOK'
  <2>1. TypeOK' <=> RestType' /\ job' \in [Job -> JobState]
    BY DEF TypeOK, RestType, JobState, Early, Late
  <2> QED  BY <2>1, NextJobTypes, NextRestTypes
<1> QED  BY <1>1, InitTypes, PTL DEF Spec

----------------------------------------------------------------------------
(* One at a time.                                                          *)

(* What OneAtATime supposes of the faults: no insert and no GetFinalNonce  *)
(* fails, and neither the backfill nor the command comes between.          *)
Fenced == Faults \cap {"insert", "cached", "backfill", "command"} = {}

(* What a step changes of the workers.                                     *)
LEMMA GotoEffect ==
  ASSUME TypeOK, NEW j \in Job, NEW x, Goto(j, x)
  PROVE  /\ \A i \in Job \ {j} : job'[i] = job[i]
         /\ job'[j].pc = x /\ job'[j].epoch = job[j].epoch
         /\ job'[j].nonce = job[j].nonce /\ job'[j].reposting = job[j].reposting
<1>1. job \in [Job -> JobState] /\ job[j] \in JobState
  BY JobTypes
<1>2. \A i \in Job \ {j} : job'[i] = job[i]
  BY <1>1 DEF Goto
<1>3. job'[j] = [job[j] EXCEPT !.pc = x]
  BY <1>1 DEF Goto
<1>4. /\ [job[j] EXCEPT !.pc = x].pc = x
      /\ [job[j] EXCEPT !.pc = x].epoch = job[j].epoch
      /\ [job[j] EXCEPT !.pc = x].nonce = job[j].nonce
      /\ [job[j] EXCEPT !.pc = x].reposting = job[j].reposting
  BY <1>1 DEF JobState
<1> QED  BY <1>2, <1>3, <1>4

Take(j, x, n) == job' = [job EXCEPT ![j].pc = x, ![j].nonce = n]

LEMMA TakeEffect ==
  ASSUME TypeOK, NEW j \in Job, NEW x, NEW n, Take(j, x, n)
  PROVE  /\ \A i \in Job \ {j} : job'[i] = job[i]
         /\ job'[j].pc = x /\ job'[j].epoch = job[j].epoch /\ job'[j].nonce = n
<1>1. job \in [Job -> JobState] /\ job[j] \in JobState
  BY JobTypes
<1>2. \A i \in Job \ {j} : job'[i] = job[i]
  BY <1>1 DEF Take
<1>3. job'[j] = [job[j] EXCEPT !.pc = x, !.nonce = n]
  BY <1>1 DEF Take
<1>4. /\ [job[j] EXCEPT !.pc = x, !.nonce = n].pc = x
      /\ [job[j] EXCEPT !.pc = x, !.nonce = n].epoch = job[j].epoch
      /\ [job[j] EXCEPT !.pc = x, !.nonce = n].nonce = n
  BY <1>1 DEF JobState
<1> QED  BY <1>2, <1>3, <1>4

LEMMA PostEffect ==
  ASSUME TypeOK, NEW j \in Job, NEW b,
         job' = [job EXCEPT ![j].pc = "post", ![j].reposting = b]
  PROVE  /\ \A i \in Job \ {j} : job'[i] = job[i]
         /\ job'[j].pc = "post" /\ job'[j].epoch = job[j].epoch
         /\ job'[j].nonce = job[j].nonce /\ job'[j].reposting = b
<1>1. job \in [Job -> JobState] /\ job[j] \in JobState
  BY JobTypes
<1>2. \A i \in Job \ {j} : job'[i] = job[i]
  BY <1>1
<1>3. job'[j] = [job[j] EXCEPT !.pc = "post", !.reposting = b]
  BY <1>1
<1>4. /\ [job[j] EXCEPT !.pc = "post", !.reposting = b].pc = "post"
      /\ [job[j] EXCEPT !.pc = "post", !.reposting = b].epoch = job[j].epoch
      /\ [job[j] EXCEPT !.pc = "post", !.reposting = b].nonce = job[j].nonce
      /\ [job[j] EXCEPT !.pc = "post", !.reposting = b].reposting = b
  BY <1>1 DEF JobState
<1> QED  BY <1>2, <1>3, <1>4

LEMMA SpawnEffect ==
  ASSUME TypeOK, NEW e \in Epoch, Spawn(e)
  PROVE  /\ \A i \in Job \ {e} : job'[i] = job[i]
         /\ job'[e].pc = "nonce" /\ job'[e].epoch = e
<1>1. job \in [Job -> JobState] /\ e \in Job
  BY JobTypes, EpochsAndJobs
<1>2. job'[e] = [NoJob EXCEPT !.pc = "nonce", !.epoch = e]
  BY <1>1 DEF Spawn
<1>3. NoJob = [pc |-> "idle", epoch |-> 0, nonce |-> NoNonce, reposting |-> FALSE]
  BY DEF NoJob
<1>4. \A i \in Job \ {e} : job'[i] = job[i]
  BY <1>1 DEF Spawn
<1> QED  BY <1>2, <1>3, <1>4

LEMMA EndEffect ==
  ASSUME TypeOK, NEW j \in Job, job' = [job EXCEPT ![j] = NoJob]
  PROVE  /\ \A i \in Job \ {j} : job'[i] = job[i]
         /\ job'[j].pc = "idle"
<1>1. job \in [Job -> JobState]
  BY JobTypes
<1> QED  BY <1>1 DEF NoJob

(* A step that leaves alone what an epoch's worker, checker and schedule   *)
(* are, and does not start to compare it, keeps them apart.                *)
LEMMA Elsewhere ==
  ASSUME NEW e \in Epoch, Apart(e),
         job'[e] = job[e], final'[e] = final[e], schedule'[e] = schedule[e],
         checker'[e] = checker[e], e \in exists' <=> e \in exists,
         e \in verified' <=> e \in verified, e \in recent => e \in recent',
         Comparing(e)' => Comparing(e) /\ seen' = seen
  PROVE  Apart(e)'
BY DEF Apart, WorkerAlone, ComparesCurrent, CheckerAlone, ExistsStored, Calcing

LEMMA InitApart == Init /\ Fenced => OneAtATime
<1> SUFFICES ASSUME Init, Fenced PROVE OneAtATime
  OBVIOUS
<1>1. \A j \in Job : job[j].pc = "idle"
  BY DEF Init, NoJob
<1>2. ASSUME NEW e \in Epoch PROVE Apart(e)
  <2>1. job[e].pc = "idle" /\ checker[e] = "idle" /\ ~Comparing(e)
    BY <1>1, EpochsAndJobs DEF Init, Comparing
  <2> QED
    BY <2>1 DEF Init, Apart, WorkerAlone, ComparesCurrent, CheckerAlone, ExistsStored, Calcing
<1>3. backfill = "done"
  BY DEF Init, Fenced
<1> QED  BY <1>1, <1>2, <1>3, EpochsAndJobs DEF OneAtATime

(* Blocks, time and Koios.                                                 *)
LEMMA OutsideApart ==
  ASSUME TypeOK, NEW e \in Epoch, Apart(e),
         \/ \E f \in EpochReached, p \in BOOLEAN : BlockArrives(f, p)
         \/ RollbackArrives
         \/ \E f \in EpochReached : Publish(f)
         \/ Arm
         \/ \E f \in Epoch : CooldownExpires(f) \/ VerifyIntervalExpires(f)
         \/ UNCHANGED vars
  PROVE  Apart(e)'
<1> USE DEF chainView, handler, memory, routines, db, outside
<1>1. ASSUME NEW f \in EpochReached, NEW p \in BOOLEAN, BlockArrives(f, p) PROVE Apart(e)'
  BY <1>1, Elsewhere DEF BlockArrives, Comparing
<1>2. CASE RollbackArrives
  BY <1>2, Elsewhere DEF RollbackArrives, Comparing
<1>3. ASSUME NEW f \in EpochReached, Publish(f) PROVE Apart(e)'
  BY <1>3, Elsewhere DEF Publish, Comparing
<1>4. CASE Arm
  BY <1>4, Elsewhere DEF Arm, Comparing
<1>5. ASSUME NEW f \in Epoch, CooldownExpires(f) PROVE Apart(e)'
  BY <1>5, Elsewhere DEF CooldownExpires, Comparing
<1>6. ASSUME NEW f \in Epoch, VerifyIntervalExpires(f) PROVE Apart(e)'
  <2>1. checker' = checker /\ recent' = recent \ {f} /\ checker[f] = "idle"
    BY <1>6 DEF VerifyIntervalExpires
  <2> QED
    BY <1>6, <2>1 DEF VerifyIntervalExpires, Apart, WorkerAlone, ComparesCurrent,
       CheckerAlone, ExistsStored, Calcing, Comparing
<1>7. CASE UNCHANGED vars
  BY <1>7, Elsewhere DEF vars, Comparing
<1> QED  BY <1>1, <1>2, <1>3, <1>4, <1>5, <1>6, <1>7

(* A worker that is started finds its epoch free.                          *)
LEMMA SpawnApart ==
  ASSUME TypeOK, NEW f \in Epoch, NEW e \in Epoch, Apart(e), Spawn(f), f \notin exists,
         ~Comparing(e)', UNCHANGED <<final, schedule, checker, exists, verified, recent>>
  PROVE  Apart(e)'
<1>1. CASE e = f
  <2>1. job'[e].pc = "nonce" /\ job'[e].epoch = e
    BY <1>1, SpawnEffect
  <2> QED
    BY <1>1, <2>1 DEF Apart, WorkerAlone, ComparesCurrent, CheckerAlone, ExistsStored, Calcing
<1>2. CASE e # f
  BY <1>2, SpawnEffect, EpochsAndJobs, Elsewhere
<1> QED  BY <1>1, <1>2

LEMMA VerifyApart ==
  ASSUME TypeOK, NEW f \in Epoch, NEW e \in Epoch, Apart(e),
         MaybeVerifyScheduleNonce(f), f \in exists,
         ~Comparing(e)', UNCHANGED <<job, final, schedule, exists, verified>>
  PROVE  Apart(e)'
<1>1. CASE f \in verified \cup recent
  BY <1>1, Elsewhere DEF MaybeVerifyScheduleNonce
<1>2. CASE f \notin verified \cup recent
  <2>1. recent' = recent \cup {f} /\ checker' = [checker EXCEPT ![f] = "fetch"]
    BY <1>2 DEF MaybeVerifyScheduleNonce
  <2>2. CASE e # f
    BY <2>1, <2>2, Elsewhere DEF TypeOK
  <2>3. CASE e = f
    <3>1. checker'[e] = "fetch" /\ checker[e] = "idle" /\ e \in recent'
      BY <1>2, <2>1, <2>3 DEF TypeOK, Apart, CheckerAlone
    <3> QED
      BY <1>2, <2>3, <3>1 DEF Apart, WorkerAlone, ComparesCurrent, CheckerAlone, ExistsStored,
        Calcing
  <2> QED  BY <2>2, <2>3
<1> QED  BY <1>1, <1>2

LEMMA TriggerApart ==
  ASSUME TypeOK, NEW e \in Epoch, Apart(e), Trigger
  PROVE  Apart(e)'
<1> USE DEF chainView, handler, memory, routines, db, outside
<1>1. epoch \in Epoch /\ epoch + 1 \in Epoch /\ epoch # epoch + 1
  BY EpochsAndJobs DEF TypeOK, EpochReached
<1>2. CASE CheckNext
  <2>1. UNCHANGED <<epoch, exists, verified, final, schedule>>
    BY <1>2 DEF CheckNext
  <2>2. ASSUME epoch + 1 \notin exists, AttemptNext, UNCHANGED <<recent, checker>>
        PROVE  Apart(e)'
    <3>1. ~Comparing(e)'
      BY <2>2 DEF AttemptNext, Return, Comparing
    <3>2. job' = job \/ Spawn(epoch + 1)
      BY <2>2 DEF AttemptNext
    <3> QED  BY <1>1, <2>1, <2>2, <3>1, <3>2, Elsewhere, SpawnApart
  <2>3. CASE UNCHANGED <<recent, job, checker>> /\ Return
    BY <2>1, <2>3, Elsewhere DEF Return, Comparing
  <2>4. CASE epoch + 1 \in exists /\ MaybeVerifyScheduleNonce(epoch + 1) /\ Return /\ UNCHANGED
    job
    <3>1. ~Comparing(e)'
      BY <2>4 DEF Return, Comparing
    <3> QED  BY <1>1, <2>1, <2>4, <3>1, VerifyApart
  <2>5. CASE /\ ~Calcing(epoch + 1) /\ epoch + 1 \notin exists
             /\ schedule[epoch + 1] # NoNonce
             /\ at' = "nextNonce" /\ seen' = schedule[epoch + 1]
             /\ UNCHANGED <<recent, job, checker>>
    BY <1>1, <2>1, <2>5 DEF Comparing, Apart, WorkerAlone, ComparesCurrent,
       CheckerAlone, ExistsStored, Calcing
  <2> QED  BY <1>2, <2>2, <2>3, <2>4, <2>5 DEF CheckNext
<1>3. CASE CompareNext
  <2>1. UNCHANGED <<epoch, verified, final, schedule, recent, checker>> /\ at = "nextNonce"
    BY <1>3 DEF CompareNext
  <2>2. Comparing(epoch + 1)
    BY <2>1 DEF Comparing
  <2>3. ~Comparing(e)'
    BY <1>3 DEF CompareNext, AttemptNext, Return, Comparing
  <2>4. CASE UNCHANGED <<exists, job>>
    BY <2>1, <2>3, <2>4, Elsewhere
  <2>5. CASE final[epoch + 1] = seen /\ exists' = exists \cup {epoch + 1} /\ UNCHANGED job
    <3>1. CASE e # epoch + 1
      BY <2>1, <2>3, <2>5, <3>1, Elsewhere
    <3>2. CASE e = epoch + 1
      BY <2>1, <2>2, <2>3, <2>5, <3>2 DEF Apart, WorkerAlone, ComparesCurrent, CheckerAlone,
         ExistsStored, Calcing
    <3> QED  BY <3>1, <3>2
  <2>6. ASSUME AttemptNext, UNCHANGED exists PROVE Apart(e)'
    <3>1. job' = job \/ Spawn(epoch + 1)
      BY <2>6 DEF AttemptNext
    <3>2. CASE e = epoch + 1
      <4>1. epoch + 1 \notin exists
        BY <2>2, <3>2 DEF Apart, ComparesCurrent
      <4> QED  BY <1>1, <2>1, <2>3, <2>6, <3>1, <4>1, Elsewhere, SpawnApart
    <3>3. CASE e # epoch + 1
      BY <1>1, <2>1, <2>3, <2>6, <3>1, <3>3, EpochsAndJobs, SpawnEffect, Elsewhere
    <3> QED  BY <3>2, <3>3
  <2> QED  BY <1>3, <2>4, <2>5, <2>6 DEF CompareNext
<1>4. CASE CheckCurrent
  <2>1. UNCHANGED <<epoch, exists, verified, final, schedule>>
    BY <1>4 DEF CheckCurrent
  <2>2. CASE epoch \in exists /\ MaybeVerifyScheduleNonce(epoch) /\ Return /\ UNCHANGED job
    <3>1. ~Comparing(e)'
      BY <2>2 DEF Return, Comparing
    <3> QED  BY <1>1, <2>1, <2>2, <3>1, VerifyApart
  <2>3. CASE UNCHANGED <<recent, job, checker>> /\ Return
    BY <2>1, <2>3, Elsewhere DEF Return, Comparing
  <2>4. CASE epoch \notin exists /\ Spawn(epoch) /\ Return /\ UNCHANGED <<recent, checker>>
    <3>1. ~Comparing(e)'
      BY <2>4 DEF Return, Comparing
    <3> QED  BY <1>1, <2>1, <2>4, <3>1, SpawnApart
  <2>5. CASE /\ ~Calcing(epoch) /\ epoch \notin exists
             /\ schedule[epoch] # NoNonce
             /\ at' = "curNonce" /\ seen' = schedule[epoch]
             /\ UNCHANGED <<recent, job, checker>>
    BY <1>1, <2>1, <2>5 DEF Comparing, Apart, WorkerAlone, ComparesCurrent,
       CheckerAlone, ExistsStored, Calcing
  <2> QED  BY <1>4, <2>2, <2>3, <2>4, <2>5 DEF CheckCurrent
<1>5. CASE CompareCurrent
  <2>1. UNCHANGED <<epoch, verified, final, schedule, recent, checker>> /\ at = "curNonce"
    BY <1>5 DEF CompareCurrent
  <2>2. Comparing(epoch)
    BY <2>1 DEF Comparing
  <2>3. ~Comparing(e)'
    BY <1>5 DEF CompareCurrent, Return, Comparing
  <2>4. CASE UNCHANGED <<exists, job>>
    BY <2>1, <2>3, <2>4, Elsewhere
  <2>5. CASE final[epoch] = seen /\ exists' = exists \cup {epoch} /\ UNCHANGED job
    <3>1. CASE e # epoch
      BY <2>1, <2>3, <2>5, <3>1, Elsewhere
    <3>2. CASE e = epoch
      BY <2>1, <2>2, <2>3, <2>5, <3>2 DEF Apart, WorkerAlone, ComparesCurrent, CheckerAlone,
         ExistsStored, Calcing
    <3> QED  BY <3>1, <3>2
  <2>6. ASSUME Spawn(epoch), UNCHANGED exists PROVE Apart(e)'
    <3>1. CASE e = epoch
      <4>1. epoch \notin exists
        BY <2>2, <3>1 DEF Apart, ComparesCurrent
      <4> QED  BY <1>1, <2>1, <2>3, <2>6, <4>1, SpawnApart
    <3>2. CASE e # epoch
      BY <1>1, <2>1, <2>3, <2>6, <3>2, EpochsAndJobs, SpawnEffect, Elsewhere
    <3> QED  BY <3>1, <3>2
  <2> QED  BY <1>5, <2>4, <2>5, <2>6 DEF CompareCurrent
<1> QED  BY <1>2, <1>3, <1>4, <1>5 DEF Trigger

(* A step of the worker of epoch f: its job says the same epoch, so it     *)
(* reads and writes the nonce and the schedule of f alone.                 *)
LEMMA WorkerApart ==
  ASSUME TypeOK, Fenced, NEW f \in Epoch, Apart(f), WorkerStep(f), NEW e \in Epoch, Apart(e)
  PROVE  Apart(e)'
<1> USE DEF chainView, handler, memory, routines, db, outside, Fault, NoFault
<1>1. f \in Job /\ e \in Job /\ f # Command
  BY EpochsAndJobs, TriggerAssumption
<1>2. \/ job[f].pc \in {"nonce", "compute", "cache", "store", "post", "mark"}
         /\ exists' = exists
      \/ Finish(f)
  BY DEF WorkerStep, JobStep, ReadNonce, ComputeNonce, CacheNonce, StoreSchedule,
     PostSchedule, MarkSchedulePosted
<1>3. Calcing(f) /\ job[f].epoch = f /\ f \notin exists /\ ~Comparing(f) /\ checker[f] = "idle"
  <2>1. Calcing(f)
    BY <1>2 DEF Calcing, Finish
  <2> QED  BY <2>1 DEF Apart, WorkerAlone, CheckerAlone
<1>4. /\ UNCHANGED <<at, epoch, seen, checker, verified, recent>>
      /\ \A i \in Epoch : Comparing(i)' <=> Comparing(i)
  BY DEF WorkerStep, JobStep, ReadNonce, ComputeNonce, CacheNonce, StoreSchedule,
     PostSchedule, MarkSchedulePosted, Finish, Comparing
<1>5. \A x : Goto(f, x) <=> job' = [job EXCEPT ![f].pc = x]
  BY DEF Goto
<1>6. GiveUp(f) => Goto(f, "failed")
  BY <1>1 DEF GiveUp
<1>7. ASSUME e # f,
             /\ \A i \in Job \ {f} : job'[i] = job[i]
             /\ \A i \in Epoch \ {f} : /\ final'[i] = final[i] /\ schedule'[i] = schedule[i]
                                       /\ (i \in exists' <=> i \in exists)
      PROVE  Apart(e)'
  <2>1. /\ job'[e] = job[e] /\ final'[e] = final[e] /\ schedule'[e] = schedule[e]
        /\ (e \in exists' <=> e \in exists)
    BY <1>1, <1>7
  <2>2. /\ checker'[e] = checker[e] /\ (e \in verified' <=> e \in verified)
        /\ e \in recent => e \in recent'
        /\ Comparing(e)' => Comparing(e) /\ seen' = seen
    BY <1>4
  <2> QED  BY <2>1, <2>2, Elsewhere
<1>8. ASSUME f \notin exists', WorkerAlone(f)', final'[f] = final[f] \/ final[f] = NoNonce
      PROVE  Apart(f)'
  BY <1>3, <1>4, <1>8, TriggerAssumption
     DEF Apart, ComparesCurrent, CheckerAlone, ExistsStored, Calcing, Nonces
<1>9. ASSUME NEW x, Goto(f, x), UNCHANGED <<final, schedule, exists>>,
             x \in {"compute", "cache"} => final[f] = NoNonce,
             x \in {"store", "post", "mark", "succeeded"} => final[f] \in {NoNonce, job[f].nonce},
             x \in {"post", "mark", "succeeded"} => schedule[f] = job[f].nonce
      PROVE  Apart(e)'
  <2>1. /\ \A i \in Job \ {f} : job'[i] = job[i]
        /\ job'[f].pc = x /\ job'[f].epoch = job[f].epoch /\ job'[f].nonce = job[f].nonce
    BY <1>1, <1>9, GotoEffect
  <2>2. WorkerAlone(f)'
    BY <1>3, <1>4, <1>9, <2>1 DEF WorkerAlone, Calcing
  <2> QED  BY <1>3, <1>7, <1>8, <1>9, <2>1, <2>2
<1>10. CASE ReadNonce(f)
  <2>1. UNCHANGED <<final, schedule, exists>> /\ job[f].epoch = f
    BY <1>3, <1>10 DEF ReadNonce
  <2>2. CASE final[f] = NoNonce
    <3>1. Goto(f, "compute") /\ job[f].pc = "nonce"
      BY <1>10, <2>1, <2>2 DEF ReadNonce
    <3> QED  BY <1>9, <2>1, <2>2, <3>1
  <2>3. CASE final[f] # NoNonce
    <3>1. Take(f, "store", final[f])
      BY <1>10, <2>1, <2>3 DEF ReadNonce, Take, Fault, Fenced
    <3>2. /\ \A i \in Job \ {f} : job'[i] = job[i]
          /\ job'[f].pc = "store" /\ job'[f].epoch = job[f].epoch /\ job'[f].nonce = final[f]
      BY <1>1, <3>1, TakeEffect
    <3>3. WorkerAlone(f)'
      BY <1>3, <1>4, <2>1, <3>2 DEF WorkerAlone, Calcing
    <3> QED  BY <1>3, <1>7, <1>8, <2>1, <3>2, <3>3
  <2> QED  BY <2>2, <2>3
<1>11. CASE ComputeNonce(f)
  <2>1. UNCHANGED <<final, schedule, exists>> /\ job[f].pc = "compute"
    BY <1>11 DEF ComputeNonce
  <2>2. final[f] = NoNonce
    BY <2>1 DEF Apart, WorkerAlone
  <2>3. CASE GiveUp(f)
    BY <1>6, <1>9, <2>1, <2>3
  <2>4. ASSUME NEW n, job' = [job EXCEPT ![f].pc = "cache", ![f].nonce = n]
        PROVE  Apart(e)'
    <3>1. /\ \A i \in Job \ {f} : job'[i] = job[i]
          /\ job'[f].pc = "cache" /\ job'[f].epoch = job[f].epoch
      BY <1>1, <2>4, TakeEffect DEF Take
    <3>2. WorkerAlone(f)'
      BY <1>3, <1>4, <2>1, <2>2, <3>1 DEF WorkerAlone, Calcing
    <3> QED  BY <1>3, <1>7, <1>8, <2>1, <3>1, <3>2
  <2> QED  BY <1>11, <2>3, <2>4 DEF ComputeNonce
<1>12. CASE CacheNonce(f)
  <2>1. /\ UNCHANGED <<schedule, exists>> /\ job[f].pc = "cache" /\ Goto(f, "store")
        /\ final' = [final EXCEPT ![f] = job[f].nonce] \/ final' = final
    BY <1>3, <1>12 DEF CacheNonce
  <2>2. /\ \A i \in Job \ {f} : job'[i] = job[i]
        /\ job'[f].pc = "store" /\ job'[f].epoch = job[f].epoch /\ job'[f].nonce = job[f].nonce
    BY <1>1, <2>1, GotoEffect
  <2>3. final[f] = NoNonce /\ final'[f] \in {NoNonce, job[f].nonce}
        /\ \A i \in Epoch \ {f} : final'[i] = final[i]
    BY <2>1 DEF Apart, WorkerAlone, TypeOK
  <2>4. WorkerAlone(f)'
    BY <1>3, <1>4, <2>1, <2>2, <2>3 DEF WorkerAlone, Calcing
  <2> QED  BY <1>3, <1>7, <1>8, <2>1, <2>2, <2>3, <2>4
<1>13. CASE StoreSchedule(f)
  <2>1. UNCHANGED <<final, exists>> /\ job[f].pc = "store"
    BY <1>13 DEF StoreSchedule
  <2>2. CASE GiveUp(f) /\ schedule' = schedule
    BY <1>6, <1>9, <2>1, <2>2
  <2>3. ASSUME NEW b, job' = [job EXCEPT ![f].pc = "post", ![f].reposting = b],
               schedule' = [schedule EXCEPT ![f] = job[f].nonce]
        PROVE  Apart(e)'
    <3>1. /\ \A i \in Job \ {f} : job'[i] = job[i]
          /\ job'[f].pc = "post" /\ job'[f].epoch = job[f].epoch /\ job'[f].nonce = job[f].nonce
      BY <1>1, <2>3, PostEffect
    <3>2. schedule'[f] = job[f].nonce /\ \A i \in Epoch \ {f} : schedule'[i] = schedule[i]
      BY <2>3 DEF TypeOK
    <3>3. WorkerAlone(f)'
      BY <1>3, <1>4, <2>1, <3>1, <3>2 DEF Apart, WorkerAlone, Calcing
    <3> QED  BY <1>3, <1>7, <1>8, <2>1, <3>1, <3>2, <3>3
  <2> QED  BY <1>1, <1>3, <1>13, <2>2, <2>3 DEF StoreSchedule, Fenced
<1>14. CASE PostSchedule(f)
  <2>1. UNCHANGED <<final, schedule, exists>> /\ job[f].pc = "post"
        /\ (Goto(f, "mark") \/ GiveUp(f))
    BY <1>14 DEF PostSchedule
  <2>2. final[f] \in {NoNonce, job[f].nonce} /\ schedule[f] = job[f].nonce
    BY <2>1 DEF Apart, WorkerAlone
  <2> QED  BY <1>6, <1>9, <2>1, <2>2
<1>15. CASE MarkSchedulePosted(f)
  <2>1. UNCHANGED <<final, schedule, exists>> /\ job[f].pc = "mark" /\ Goto(f, "succeeded")
    BY <1>15 DEF MarkSchedulePosted
  <2>2. final[f] \in {NoNonce, job[f].nonce} /\ schedule[f] = job[f].nonce
    BY <2>1 DEF Apart, WorkerAlone
  <2> QED  BY <1>9, <2>1, <2>2
<1>16. CASE Finish(f)
  <2>1. /\ UNCHANGED <<final, schedule>> /\ job' = [job EXCEPT ![f] = NoJob]
        /\ \/ job[f].pc = "succeeded" /\ exists' = exists \cup {f}
           \/ exists' = exists
    BY <1>16 DEF Finish
  <2>2. /\ \A i \in Job \ {f} : job'[i] = job[i]
        /\ job'[f].pc = "idle"
    BY <1>1, <2>1, EndEffect
  <2>3. Apart(f)'
    <3>1. job[f].pc = "succeeded" =>
            /\ schedule[f] = job[f].nonce /\ schedule[f] # NoNonce
            /\ final[f] \in {NoNonce, job[f].nonce}
      BY <1>1, JobTypes, TriggerAssumption DEF Apart, WorkerAlone, Late
    <3> QED
      BY <1>3, <1>4, <2>1, <2>2, <3>1
         DEF Apart, WorkerAlone, ComparesCurrent, CheckerAlone, ExistsStored, Calcing
  <2> QED  BY <1>7, <2>1, <2>2, <2>3
<1> QED
  BY <1>10, <1>11, <1>12, <1>13, <1>14, <1>15, <1>16 DEF WorkerStep, JobStep

(* A step of the checker of epoch f: the epoch has no worker.              *)
LEMMA CheckerApart ==
  ASSUME TypeOK, NEW f \in Epoch, Apart(f), CheckerStep(f), NEW e \in Epoch, Apart(e)
  PROVE  Apart(e)'
<1> USE DEF chainView, handler, memory, routines, db, outside, Fault, NoFault
<1>1. checker[f] # "idle"
  BY DEF CheckerStep, FetchKoiosNonce, CompareWithKoios, CorrectNonce, Confirm
<1>2. f \in exists \cap recent /\ f \notin verified /\ ~Calcing(f) /\ ~Comparing(f)
  BY <1>1 DEF Apart, CheckerAlone, WorkerAlone, ComparesCurrent
<1>3. /\ UNCHANGED <<at, epoch, seen, recent, job, schedule>>
      /\ \A i \in Epoch : Comparing(i)' <=> Comparing(i)
  BY DEF CheckerStep, FetchKoiosNonce, CompareWithKoios, CorrectNonce, Confirm, Comparing
<1>4. ASSUME e # f, NEW x, CheckerGoto(f, x),
             /\ \A i \in Epoch \ {f} : /\ final'[i] = final[i]
                                       /\ (i \in exists' <=> i \in exists)
                                       /\ (i \in verified' <=> i \in verified)
      PROVE  Apart(e)'
  <2>1. checker'[e] = checker[e]
    BY <1>4 DEF CheckerGoto, TypeOK
  <2>2. /\ job'[e] = job[e] /\ final'[e] = final[e] /\ schedule'[e] = schedule[e]
        /\ e \in recent => e \in recent'
        /\ Comparing(e)' => Comparing(e) /\ seen' = seen
    BY <1>3, <1>4
  <2>3. /\ (e \in exists' <=> e \in exists)
        /\ (e \in verified' <=> e \in verified)
    BY <1>4
  <2> QED  BY <2>1, <2>2, <2>3, Elsewhere
<1>5. ASSUME NEW x, CheckerGoto(f, x) PROVE checker'[f] = x
  BY <1>5 DEF CheckerGoto, TypeOK
<1>6. CASE FetchKoiosNonce(f)
  <2>1. UNCHANGED <<final, exists, verified>>
        /\ \E x \in {"compare", "idle"} : CheckerGoto(f, x)
    BY <1>6 DEF FetchKoiosNonce
  <2>2. CASE e = f
    BY <1>2, <1>3, <1>5, <1>6, <2>1, <2>2 DEF FetchKoiosNonce, Apart, WorkerAlone,
       ComparesCurrent, CheckerAlone, ExistsStored, Calcing
  <2>3. CASE e # f
    <3>1. PICK x : CheckerGoto(f, x)
      BY <2>1
    <3> QED  BY <1>4, <2>1, <2>3, <3>1
  <2> QED  BY <2>2, <2>3
<1>7. CASE CompareWithKoios(f)
  <2>1. /\ UNCHANGED <<final, exists, verified>> /\ checker[f] = "compare"
        /\ \/ CheckerGoto(f, "idle")
           \/ CheckerGoto(f, "confirm") /\ final[f] = KoiosNonce
           \/ CheckerGoto(f, "correct") /\ final[f] # NoNonce
    BY <1>7 DEF CompareWithKoios
  <2>2. CASE e = f
    BY <1>2, <1>3, <1>5, <2>1, <2>2 DEF Apart, WorkerAlone,
       ComparesCurrent, CheckerAlone, ExistsStored, Calcing
  <2>3. CASE e # f
    <3>1. PICK x : CheckerGoto(f, x)
      BY <2>1
    <3> QED  BY <1>4, <2>1, <2>3, <3>1
  <2> QED  BY <2>2, <2>3
<1>8. CASE CorrectNonce(f)
  <2>1. /\ UNCHANGED <<exists, verified>> /\ checker[f] = "correct"
        /\ \/ CheckerGoto(f, "corrected") /\ final' = [final EXCEPT ![f] = KoiosNonce]
           \/ CheckerGoto(f, "idle") /\ final' = final
    BY <1>8 DEF CorrectNonce
  <2>2. \A i \in Epoch \ {f} : final'[i] = final[i]
    BY <2>1 DEF TypeOK
  <2>3. CASE e = f
    <3>1. \/ checker'[f] = "corrected" /\ final'[f] = KoiosNonce
          \/ checker'[f] = "idle" /\ final'[f] = final[f]
      BY <1>5, <2>1 DEF TypeOK
    <3> QED
      BY <1>2, <1>3, <2>1, <2>3, <3>1 DEF Apart, WorkerAlone,
         ComparesCurrent, CheckerAlone, ExistsStored, Calcing
  <2>4. CASE e # f
    <3>1. PICK x : CheckerGoto(f, x)
      BY <2>1
    <3> QED  BY <1>4, <2>1, <2>2, <2>4, <3>1
  <2> QED  BY <2>3, <2>4
<1>9. CASE Confirm(f)
  <2>1. /\ final' = final /\ checker[f] \in {"confirm", "corrected"} /\ CheckerGoto(f, "idle")
        /\ verified' = verified \cup {f}
        /\ \/ checker[f] = "corrected" /\ exists' = exists \ {f}
           \/ checker[f] = "confirm" /\ exists' = exists
    BY <1>9 DEF Confirm
  <2>2. CASE e = f
    BY <1>2, <1>3, <1>5, <2>1, <2>2 DEF Apart, WorkerAlone,
       ComparesCurrent, CheckerAlone, ExistsStored, Calcing
  <2>3. CASE e # f
    <3>1. PICK x : CheckerGoto(f, x)
      BY <2>1
    <3> QED  BY <1>4, <2>1, <2>3, <3>1
  <2> QED  BY <2>2, <2>3
<1> QED  BY <1>6, <1>7, <1>8, <1>9 DEF CheckerStep

LEMMA RestartApart ==
  ASSUME TypeOK, NEW e \in Epoch, Apart(e), Restart
  PROVE  Apart(e)'
<1>1. /\ job'[e].pc = "idle" /\ checker'[e] = "idle" /\ ~Comparing(e)'
      /\ exists' = {} /\ verified' = {}
  BY EpochsAndJobs DEF Restart, Comparing, NoJob
<1> QED
  BY <1>1 DEF Apart, WorkerAlone, ComparesCurrent, CheckerAlone, ExistsStored, Calcing

(* The steps of Next if no fault of Fenced happens.                        *)
LEMMA FencedSteps ==
  ASSUME Fenced, OneAtATime, Next
  PROVE  \/ \E f \in EpochReached, p \in BOOLEAN : BlockArrives(f, p)
         \/ RollbackArrives
         \/ \E f \in EpochReached : Publish(f)
         \/ Arm
         \/ \E f \in Epoch : CooldownExpires(f) \/ VerifyIntervalExpires(f)
         \/ Trigger
         \/ \E f \in Epoch : WorkerStep(f) \/ CheckerStep(f)
         \/ Restart
<1>1. job[Command].pc = "idle" /\ backfill = "done"
  BY DEF OneAtATime
<1>2. ~JobStep(Command) /\ ~ClearScheduleExists /\ ~BackfillWithoutCorrection
      /\ \A e \in Epoch : ~CommandArrives(e) /\ ~CorrectNextEpochNonce(e)
  BY <1>1 DEF JobStep, ReadNonce, ComputeNonce, CacheNonce, StoreSchedule, ClearScheduleExists,
     BackfillWithoutCorrection, CommandArrives, CorrectNextEpochNonce, Fenced, Fault
<1> QED  BY <1>2 DEF Next

LEMMA NextApart ==
  ASSUME TypeOK, Fenced, OneAtATime, [Next]_vars
  PROVE  OneAtATime'
<1> USE DEF routines, Fault
<1>1. job[Command].pc = "idle" /\ backfill = "done" /\ \A e \in Epoch : Apart(e)
  BY DEF OneAtATime
<1> DEFINE Outside ==
             \/ \E f \in EpochReached, p \in BOOLEAN : BlockArrives(f, p)
             \/ RollbackArrives
             \/ \E f \in EpochReached : Publish(f)
             \/ Arm
             \/ \E f \in Epoch : CooldownExpires(f) \/ VerifyIntervalExpires(f)
             \/ UNCHANGED vars
<1>3. \/ Outside \/ Trigger \/ Restart
      \/ \E f \in Epoch : WorkerStep(f) \/ CheckerStep(f)
  BY FencedSteps
<1>4. ASSUME NEW e \in Epoch PROVE Apart(e)'
  BY <1>1, <1>3, OutsideApart, TriggerApart, RestartApart, WorkerApart, CheckerApart
<1>5. job'[Command].pc = "idle" /\ backfill' = "done"
  <2>1. CASE Outside
    BY <1>1, <2>1 DEF BlockArrives, RollbackArrives, Publish, Arm, CooldownExpires,
       VerifyIntervalExpires, vars
  <2>2. CASE Trigger
    <3>1. backfill' = backfill /\ (job' = job \/ \E f \in Epoch : Spawn(f))
      BY <2>2, EpochsAndJobs DEF TypeOK, Trigger, CheckNext, CompareNext, CheckCurrent,
         CompareCurrent, AttemptNext
    <3> QED  BY <1>1, <3>1, SpawnEffect, EpochsAndJobs, TriggerAssumption
  <2>3. CASE Restart
    BY <2>3, EpochsAndJobs DEF Restart, NoJob, Fenced
  <2>4. ASSUME NEW f \in Epoch, WorkerStep(f) PROVE job'[Command].pc = "idle" /\ backfill' =
    "done"
    <3>1. f # Command /\ Command \in Job /\ job \in [Job -> JobState]
      BY EpochsAndJobs, TriggerAssumption, JobTypes
    <3>2. job'[Command] = job[Command] /\ backfill' = backfill
      BY <2>4, <3>1 DEF WorkerStep, JobStep, ReadNonce, ComputeNonce, CacheNonce, StoreSchedule,
         PostSchedule, MarkSchedulePosted, Finish, Goto, GiveUp
    <3> QED  BY <1>1, <3>2
  <2>5. ASSUME NEW f \in Epoch, CheckerStep(f) PROVE job'[Command].pc = "idle" /\ backfill' =
    "done"
    BY <1>1, <2>5 DEF CheckerStep, FetchKoiosNonce, CompareWithKoios, CorrectNonce, Confirm
  <2> QED  BY <1>3, <2>1, <2>2, <2>3, <2>4, <2>5
<1> QED  BY <1>4, <1>5 DEF OneAtATime

(* Unless an insert or GetFinalNonce fails or the command or the backfill  *)
(* comes between, whatever else fails: an epoch's worker, its              *)
(* verifyScheduleNonce and the comparison of a stored schedule never meet, *)
(* what each has read is still so when it acts, and a confirmed epoch has  *)
(* the nonce of Koios.                                                     *)
THEOREM OneAtATimeAlways ==
  ASSUME Fenced PROVE Spec => []OneAtATime
<1>1. Init => OneAtATime
  BY InitApart
<1>2. TypeOK /\ OneAtATime /\ [Next]_vars => OneAtATime'
  BY NextApart
<1> QED  BY <1>1, <1>2, TypeCorrect, PTL DEF Spec

(* As long as the faults that Fenced excludes stay away, whatever else     *)
(* fails, and however often the process restarts or the chain rolls back   *)
(* across an epoch: an epoch that verifyScheduleNonce has confirmed and    *)
(* whose schedule checkLeaderlogTrigger believes to exist has the schedule *)
(* of the nonce that Koios published.                                      *)
THEOREM KoiosWinsAlways ==
  ASSUME Fenced PROVE Spec => []KoiosWins
<1>1. TypeOK /\ OneAtATime => KoiosWins
  <2> SUFFICES ASSUME OneAtATime, NEW e \in exists \cap verified, e \in Epoch
               PROVE  schedule[e] = KoiosNonce
    BY DEF KoiosWins, TypeOK
  <2>1. Apart(e)
    BY DEF OneAtATime
  <2>2. final[e] = KoiosNonce /\ checker[e] = "idle"
    BY <2>1 DEF Apart, CheckerAlone
  <2> QED  BY <2>1, <2>2, EpochsAndJobs, TriggerAssumption DEF Apart, ExistsStored
<1> QED  BY <1>1, TypeCorrect, OneAtATimeAlways, PTL

----------------------------------------------------------------------------
(* What is posted.                                                         *)

(* What is in the channel has been stored, and a worker computes either the*)
(* first schedule of its epoch or the one that Koios corrects; it posts    *)
(* what the channel does not show.  Inductive, with the above, if the      *)
(* trigger never fails to read a stored schedule.                          *)
New(e) ==
  /\ schedule[e] = NoNonce => channel[e] = NoNonce
  /\ schedule[e] = KoiosNonce => final[e] \in {NoNonce, KoiosNonce}
  /\ channel[e] = KoiosNonce => schedule[e] = KoiosNonce
  /\ job[e].pc \in {"nonce", "compute", "cache", "store"} =>
       schedule[e] = NoNonce \/ (schedule[e] = WrongNonce /\ final[e] = KoiosNonce)
  /\ job[e].pc = "post" => channel[e] # job[e].nonce

PostsWhatIsNew == \A e \in Epoch : New(e)

LEMMA NewElsewhere ==
  ASSUME NEW e \in Epoch, New(e), job'[e] = job[e], final'[e] = final[e],
         schedule'[e] = schedule[e], channel'[e] = channel[e]
  PROVE  New(e)'
BY DEF New

(* The trigger starts a worker for an epoch without a schedule, or with one*)
(* whose nonce Koios has corrected.                                        *)
LEMMA SpawnsWhatIsNew ==
  ASSUME TypeOK, OneAtATime, PostsWhatIsNew, "read" \notin Faults, Trigger
  PROVE  /\ UNCHANGED <<final, schedule, channel>>
         /\ \/ job' = job
            \/ \E f \in Epoch :
                 /\ Spawn(f)
                 /\ schedule[f] = NoNonce
                      \/ (schedule[f] = WrongNonce /\ final[f] = KoiosNonce)
<1> USE DEF chainView, handler, memory, routines, db, outside, Fault
<1>1. epoch \in Epoch /\ epoch + 1 \in Epoch
  BY EpochsAndJobs DEF TypeOK
<1>2. UNCHANGED <<final, schedule, channel>>
  BY DEF Trigger, CheckNext, CompareNext, CheckCurrent, CompareCurrent
<1>3. ASSUME NEW f \in Epoch, Comparing(f), final[f] \in Nonces \ {seen}
      PROVE  schedule[f] = WrongNonce /\ final[f] = KoiosNonce
  <2>1. seen = schedule[f] /\ seen # NoNonce
    BY <1>3 DEF OneAtATime, Apart, ComparesCurrent
  <2>2. schedule[f] \in Nonces /\ New(f)
    BY <2>1 DEF TypeOK, PostsWhatIsNew
  <2> QED  BY <1>3, <2>1, <2>2, TriggerAssumption DEF New, Nonces
<1>4. CASE CheckNext
  BY <1>1, <1>2, <1>4 DEF CheckNext, AttemptNext
<1>5. CASE CompareNext
  <2>1. Comparing(epoch + 1)
    BY <1>5 DEF CompareNext, Comparing
  <2>2. job' = job \/ (Spawn(epoch + 1) /\ final[epoch + 1] \in Nonces \ {seen})
    BY <1>5 DEF CompareNext, AttemptNext
  <2> QED  BY <1>1, <1>2, <1>3, <2>1, <2>2
<1>6. CASE CheckCurrent
  BY <1>1, <1>2, <1>6 DEF CheckCurrent
<1>7. CASE CompareCurrent
  <2>1. Comparing(epoch)
    BY <1>7 DEF CompareCurrent, Comparing
  <2>2. job' = job \/ (Spawn(epoch) /\ final[epoch] \in Nonces \ {seen})
    BY <1>7 DEF CompareCurrent
  <2> QED  BY <1>1, <1>2, <1>3, <2>1, <2>2
<1> QED  BY <1>4, <1>5, <1>6, <1>7 DEF Trigger

LEMMA WorkerNew ==
  ASSUME TypeOK, Fenced, NEW f \in Epoch, Apart(f), New(f), WorkerStep(f), NEW e \in Epoch, New(e)
  PROVE  New(e)'
<1> USE DEF chainView, handler, memory, routines, db, outside, Fault, NoFault
<1>1. f \in Job /\ f # Command
  BY EpochsAndJobs, TriggerAssumption
<1>2. Calcing(f) /\ job[f].epoch = f
  <2>1. Calcing(f)
    BY DEF Calcing, WorkerStep, JobStep, ReadNonce, ComputeNonce, CacheNonce, StoreSchedule,
       PostSchedule, MarkSchedulePosted, Finish
  <2> QED  BY <2>1 DEF Apart, WorkerAlone
<1>3. GiveUp(f) => Goto(f, "failed")
  BY <1>1 DEF GiveUp
<1>4. ASSUME e # f,
             \A i \in Job \ {f} : job'[i] = job[i],
             \A i \in Epoch \ {f} : final'[i] = final[i] /\ schedule'[i] = schedule[i]
                                    /\ channel'[i] = channel[i]
      PROVE  New(e)'
  BY <1>4, NewElsewhere, EpochsAndJobs
<1>5. ASSUME UNCHANGED <<final, schedule, channel>>, \A i \in Job \ {f} : job'[i] = job[i],
             job'[f].pc # "post",
             job'[f].pc \in {"nonce", "compute", "cache", "store"} =>
               job[f].pc \in {"nonce", "compute", "cache", "store"}
      PROVE  New(e)'
  <2>1. CASE e = f
    BY <1>5, <2>1 DEF New
  <2> QED  BY <1>4, <1>5, <2>1
<1>6. ASSUME NEW x, Goto(f, x), UNCHANGED <<final, schedule, channel>>, x # "post",
             x \in {"nonce", "compute", "cache", "store"} =>
               job[f].pc \in {"nonce", "compute", "cache", "store"}
      PROVE  New(e)'
  BY <1>1, <1>5, <1>6, GotoEffect
<1>7. CASE ReadNonce(f)
  <2>1. UNCHANGED <<final, schedule, channel>> /\ job[f].pc = "nonce"
        /\ (Goto(f, "compute") \/ Take(f, "store", final[f]))
    BY <1>2, <1>7 DEF ReadNonce, Take
  <2>2. CASE Take(f, "store", final[f])
    BY <1>1, <1>5, <2>1, <2>2, TakeEffect
  <2> QED  BY <1>6, <2>1, <2>2
<1>8. CASE ComputeNonce(f)
  <2>1. UNCHANGED <<final, schedule, channel>> /\ job[f].pc = "compute"
        /\ (GiveUp(f) \/ \E n : Take(f, "cache", n))
    BY <1>8 DEF ComputeNonce, Take
  <2>2. ASSUME NEW n, Take(f, "cache", n) PROVE New(e)'
    BY <1>1, <1>5, <2>1, <2>2, TakeEffect
  <2> QED  BY <1>3, <1>6, <2>1, <2>2
<1>9. CASE CacheNonce(f)
  <2>1. /\ UNCHANGED <<schedule, channel>> /\ job[f].pc = "cache" /\ Goto(f, "store")
        /\ final' = [final EXCEPT ![f] = job[f].nonce] \/ final' = final
    BY <1>2, <1>9 DEF CacheNonce
  <2>2. (\A i \in Job \ {f} : job'[i] = job[i]) /\ job'[f].pc = "store"
    BY <1>1, <2>1, GotoEffect
  <2>3. \A i \in Epoch \ {f} : final'[i] = final[i]
    BY <2>1 DEF TypeOK
  <2>4. schedule[f] = NoNonce
    BY <2>1, EpochsAndJobs, TriggerAssumption DEF Apart, WorkerAlone, New
  <2>5. CASE e = f
    BY <2>1, <2>2, <2>4, <2>5, EpochsAndJobs, TriggerAssumption DEF New
  <2> QED  BY <1>4, <2>1, <2>2, <2>3, <2>5
<1>10. CASE StoreSchedule(f)
  <2>1. UNCHANGED <<final, channel>> /\ job[f].pc = "store"
    BY <1>10 DEF StoreSchedule
  <2>2. CASE GiveUp(f) /\ schedule' = schedule
    BY <1>3, <1>6, <2>1, <2>2
  <2>3. ASSUME NEW b, job' = [job EXCEPT ![f].pc = "post", ![f].reposting = b],
               schedule' = [schedule EXCEPT ![f] = job[f].nonce]
        PROVE  New(e)'
    <3>1. /\ \A i \in Job \ {f} : job'[i] = job[i]
          /\ job'[f].pc = "post" /\ job'[f].nonce = job[f].nonce
      BY <1>1, <2>3, PostEffect
    <3>2. schedule'[f] = job[f].nonce /\ \A i \in Epoch \ {f} : schedule'[i] = schedule[i]
      BY <2>3 DEF TypeOK
    <3>3. job[f].nonce \in Nonces /\ final[f] \in {NoNonce, job[f].nonce}
      BY <1>1, <2>1, JobTypes DEF Apart, WorkerAlone, Late
    <3>4. CASE e = f
      <4>1. channel[f] # job[f].nonce
        BY <2>1, <3>3, EpochsAndJobs, TriggerAssumption DEF New
      <4>2. channel[f] # KoiosNonce
        BY <2>1, EpochsAndJobs, TriggerAssumption DEF New
      <4> QED  BY <2>1, <3>1, <3>2, <3>3, <3>4, <4>1, <4>2, TriggerAssumption DEF New
    <3> QED  BY <1>4, <2>1, <3>1, <3>2, <3>4
  <2> QED  BY <1>1, <1>2, <1>10, <2>2, <2>3 DEF StoreSchedule, Fenced
<1>11. CASE PostSchedule(f)
  <2>1. /\ UNCHANGED <<final, schedule>> /\ job[f].pc = "post"
        /\ \/ Goto(f, "mark") /\ channel' = [channel EXCEPT ![f] = job[f].nonce]
           \/ GiveUp(f) /\ channel' = channel
    BY <1>11 DEF PostSchedule
  <2>2. CASE GiveUp(f) /\ channel' = channel
    BY <1>3, <1>6, <2>1, <2>2
  <2>3. CASE Goto(f, "mark") /\ channel' = [channel EXCEPT ![f] = job[f].nonce]
    <3>1. (\A i \in Job \ {f} : job'[i] = job[i]) /\ job'[f].pc = "mark"
      BY <1>1, <2>3, GotoEffect
    <3>2. channel'[f] = job[f].nonce /\ \A i \in Epoch \ {f} : channel'[i] = channel[i]
      BY <2>3 DEF TypeOK
    <3>3. schedule[f] = job[f].nonce /\ job[f].nonce \in Nonces
      BY <1>1, <2>1, JobTypes DEF Apart, WorkerAlone, Late
    <3>4. CASE e = f
      BY <2>1, <3>1, <3>2, <3>3, <3>4, TriggerAssumption DEF New
    <3> QED  BY <1>4, <2>1, <3>1, <3>2, <3>4
  <2> QED  BY <2>1, <2>2, <2>3
<1>12. CASE MarkSchedulePosted(f)
  BY <1>6, <1>12 DEF MarkSchedulePosted
<1>13. CASE Finish(f)
  <2>1. UNCHANGED <<final, schedule, channel>> /\ job' = [job EXCEPT ![f] = NoJob]
    BY <1>13 DEF Finish
  <2> QED  BY <1>1, <1>5, <2>1, EndEffect
<1> QED
  BY <1>7, <1>8, <1>9, <1>10, <1>11, <1>12, <1>13 DEF WorkerStep, JobStep

LEMMA CheckerNew ==
  ASSUME TypeOK, NEW f \in Epoch, Apart(f), CheckerStep(f), NEW e \in Epoch, New(e)
  PROVE  New(e)'
<1>1. UNCHANGED <<job, schedule, channel>>
  BY DEF CheckerStep, FetchKoiosNonce, CompareWithKoios, CorrectNonce, Confirm, db, outside
<1>2. CASE final' = final
  BY <1>1, <1>2, NewElsewhere
<1>3. CASE CorrectNonce(f) /\ final' = [final EXCEPT ![f] = KoiosNonce]
  <2>1. CASE e # f
    <3>1. final'[e] = final[e]
      BY <1>3, <2>1 DEF TypeOK
    <3> QED  BY <1>1, <3>1, NewElsewhere
  <2>2. CASE e = f
    <3>1. final'[e] = KoiosNonce
      BY <1>3, <2>2 DEF TypeOK
    <3>2. job[e].pc = "idle"
      BY <1>3, <2>2 DEF CorrectNonce, Apart, CheckerAlone, WorkerAlone, Calcing
    <3> QED  BY <1>1, <3>1, <3>2 DEF New
  <2> QED  BY <2>1, <2>2
<1> QED
  BY <1>2, <1>3 DEF CheckerStep, FetchKoiosNonce, CompareWithKoios, CorrectNonce, Confirm, db

LEMMA InitNew == Init => PostsWhatIsNew
<1> SUFFICES ASSUME Init, NEW e \in Epoch PROVE New(e)
  BY DEF PostsWhatIsNew
<1>1. job[e].pc = "idle" /\ schedule[e] = NoNonce /\ channel[e] = NoNonce
  BY EpochsAndJobs DEF Init, NoJob
<1> QED  BY <1>1, EpochsAndJobs, TriggerAssumption DEF New

LEMMA NextNew ==
  ASSUME TypeOK, Fenced, "read" \notin Faults, OneAtATime, PostsWhatIsNew, [Next]_vars
  PROVE  PostsWhatIsNew'
<1> SUFFICES ASSUME NEW e \in Epoch PROVE New(e)'
  BY DEF PostsWhatIsNew
<1> USE DEF chainView, handler, memory, routines, db, outside
<1>1. New(e) /\ \A f \in Epoch : Apart(f) /\ New(f)
  BY DEF PostsWhatIsNew, OneAtATime
<1>2. CASE UNCHANGED <<job, final, schedule, channel>>
  BY <1>1, <1>2, NewElsewhere
<1>3. CASE Trigger
  <2>1. UNCHANGED <<final, schedule, channel>>
    BY <1>3, SpawnsWhatIsNew
  <2>2. ASSUME NEW f \in Epoch, Spawn(f),
               schedule[f] = NoNonce \/ (schedule[f] = WrongNonce /\ final[f] = KoiosNonce)
        PROVE  New(e)'
    <3>1. (\A i \in Job \ {f} : job'[i] = job[i]) /\ job'[f].pc = "nonce"
      BY <2>2, SpawnEffect
    <3>2. CASE e = f
      BY <1>1, <2>1, <2>2, <3>1, <3>2 DEF New
    <3>3. CASE e # f
      BY <1>1, <2>1, <3>1, <3>3, NewElsewhere, EpochsAndJobs
    <3> QED  BY <3>2, <3>3
  <2> QED  BY <1>2, <1>3, <2>1, <2>2, SpawnsWhatIsNew
<1>4. ASSUME NEW f \in Epoch, WorkerStep(f) PROVE New(e)'
  BY <1>1, <1>4, WorkerNew
<1>5. ASSUME NEW f \in Epoch, CheckerStep(f) PROVE New(e)'
  BY <1>1, <1>5, CheckerNew
<1>6. CASE Restart
  <2>1. UNCHANGED <<final, schedule, channel>> /\ job'[e].pc = "idle"
    BY <1>6, EpochsAndJobs DEF Restart, NoJob
  <2> QED  BY <1>1, <2>1 DEF New
<1>7. ASSUME NEW f \in EpochReached, Publish(f) \/ \E p \in BOOLEAN : BlockArrives(f, p)
      PROVE  New(e)'
  BY <1>2, <1>7 DEF Publish, BlockArrives
<1>8. ASSUME NEW f \in Epoch, CooldownExpires(f) \/ VerifyIntervalExpires(f) PROVE New(e)'
  BY <1>2, <1>8 DEF CooldownExpires, VerifyIntervalExpires
<1>9. CASE Arm \/ RollbackArrives \/ UNCHANGED vars
  BY <1>2, <1>9 DEF Arm, RollbackArrives, vars
<1> QED  BY <1>3, <1>4, <1>5, <1>6, <1>7, <1>8, <1>9, FencedSteps

(* The schedule that a worker of calculateAndPostLeaderlog is about to     *)
(* store or post is not the one the channel shows, if neither              *)
(* GetLeaderSchedule nor GetFinalNonce fails and the trigger is fenced.    *)
THEOREM PostsWhatIsNewAlways ==
  ASSUME Fenced, "read" \notin Faults PROVE Spec => []PostsWhatIsNew
<1>1. Init => PostsWhatIsNew
  BY InitNew
<1>2. TypeOK /\ OneAtATime /\ PostsWhatIsNew /\ [Next]_vars => PostsWhatIsNew'
  BY NextNew
<1> QED  BY <1>1, <1>2, TypeCorrect, OneAtATimeAlways, PTL DEF Spec

(* The channel's schedule is never posted twice: a worker is only ever     *)
(* started for a first schedule, or for one that Koios corrects, also      *)
(* after any number of restarts, lost messages and lost marks, as long as  *)
(* the stored schedule and its nonce can be read and the trigger is fenced.*)
THEOREM NeverPostedTwice ==
  ASSUME Fenced, "read" \notin Faults PROVE Spec => NoDuplicatePost
<1>1. PostsWhatIsNew =>
        \A e \in Epoch : job[e].pc = "post" /\ job'[e].pc = "mark" => channel[e] # job[e].nonce
  BY DEF PostsWhatIsNew, New
<1> QED  BY <1>1, PostsWhatIsNewAlways, PTL DEF NoDuplicatePost

----------------------------------------------------------------------------
(* What is announced.                                                      *)

(* A posted schedule is marked, or is about to be, and a worker that posts *)
(* again knows.  Inductive if no insert and no mark fails and the process  *)
(* runs on.                                                                *)
Marked(e) ==
  /\ Calcing(e) => job[e].epoch = e /\ ~Comparing(e)
  /\ job[e].pc \in {"post", "mark"} => schedule[e] # NoNonce
  /\ channel[e] # NoNonce => e \in posted \/ job[e].pc = "mark"
  /\ job[e].pc = "post" /\ channel[e] # NoNonce => job[e].reposting

PostsAreMarked == \A e \in Epoch : Marked(e)

(* What PostsAreMarked supposes of the faults: the posted column is written*)
(* and read without an error, and the process is not stopped.              *)
Lasting == Faults \cap {"posted", "insert", "mark", "restart"} = {}

LEMMA MarkedElsewhere ==
  ASSUME NEW e \in Epoch, Marked(e), job'[e] = job[e], channel'[e] = channel[e],
         schedule[e] # NoNonce => schedule'[e] # NoNonce, e \in posted => e \in posted',
         Comparing(e)' => Comparing(e)
  PROVE  Marked(e)'
BY DEF Marked, Calcing

(* The trigger starts a worker where there is none.                        *)
LEMMA SpawnsOne ==
  ASSUME TypeOK, PostsAreMarked, Trigger
  PROVE  /\ UNCHANGED <<schedule, channel, posted>>
         /\ \/ job' = job /\ \A e \in Epoch : Comparing(e)' => Comparing(e) \/ ~Calcing(e)
            \/ /\ \E f \in Epoch : Spawn(f) /\ ~Calcing(f)
               /\ \A e \in Epoch : ~Comparing(e)'
<1>1. epoch \in Epoch /\ epoch + 1 \in Epoch /\ epoch # epoch + 1
  BY EpochsAndJobs DEF TypeOK, EpochReached
<1>2. UNCHANGED <<schedule, channel, posted>>
  BY DEF Trigger, CheckNext, CompareNext, CheckCurrent, CompareCurrent, db, outside
<1>3. \A f \in Epoch : Comparing(f) => ~Calcing(f)
  BY DEF PostsAreMarked, Marked
<1>4. CASE CheckNext
  <2>1. epoch' = epoch
    BY <1>4 DEF CheckNext, chainView
  <2>2. CASE Calcing(epoch + 1) /\ Return /\ job' = job
    BY <1>2, <2>2 DEF Return, Comparing
  <2>3. CASE Return /\ job' = job
    BY <1>2, <2>3 DEF Return, Comparing
  <2>4. CASE ~Calcing(epoch + 1) /\ AttemptNext
    BY <1>1, <1>2, <2>4 DEF AttemptNext, Return, Comparing
  <2>5. CASE ~Calcing(epoch + 1) /\ at' = "nextNonce" /\ job' = job
    BY <1>2, <2>1, <2>5 DEF Comparing
  <2> QED  BY <1>4, <2>2, <2>3, <2>4, <2>5 DEF CheckNext
<1>5. CASE CompareNext
  <2>1. Comparing(epoch + 1)
    BY <1>5 DEF CompareNext, Comparing
  <2>2. CASE Return /\ job' = job
    BY <1>2, <2>2 DEF Return, Comparing
  <2>3. CASE AttemptNext
    BY <1>1, <1>2, <1>3, <2>1, <2>3 DEF AttemptNext, Return, Comparing
  <2> QED  BY <1>5, <2>2, <2>3 DEF CompareNext
<1>6. CASE CheckCurrent
  <2>1. epoch' = epoch
    BY <1>6 DEF CheckCurrent, chainView
  <2>2. CASE Return /\ job' = job
    BY <1>2, <2>2 DEF Return, Comparing
  <2>3. CASE ~Calcing(epoch) /\ Spawn(epoch) /\ Return
    BY <1>1, <1>2, <2>3 DEF Return, Comparing
  <2>4. CASE ~Calcing(epoch) /\ at' = "curNonce" /\ job' = job
    BY <1>2, <2>1, <2>4 DEF Comparing
  <2> QED  BY <1>6, <2>2, <2>3, <2>4 DEF CheckCurrent
<1>7. CASE CompareCurrent
  <2>1. Comparing(epoch)
    BY <1>7 DEF CompareCurrent, Comparing
  <2>2. CASE Return /\ job' = job
    BY <1>2, <2>2 DEF Return, Comparing
  <2>3. CASE Spawn(epoch) /\ Return
    BY <1>1, <1>2, <1>3, <2>1, <2>3 DEF Return, Comparing
  <2> QED  BY <1>7, <2>2, <2>3 DEF CompareCurrent
<1> QED  BY <1>4, <1>5, <1>6, <1>7 DEF Trigger

(* A worker or the command: what it stores is not NULL.                    *)
LEMMA JobStores ==
  ASSUME TypeOK, NEW j \in Job, JobStep(j)
  PROVE  /\ UNCHANGED <<at, epoch, posted, channel>>
         /\ \A e \in Epoch : schedule[e] # NoNonce => schedule'[e] # NoNonce
         /\ \A i \in Job \ {j} : job'[i] = job[i]
<1> USE DEF chainView, handler, memory, routines, db, outside
<1>1. UNCHANGED <<at, epoch, posted, channel>>
  BY DEF JobStep, ReadNonce, ComputeNonce, CacheNonce, StoreSchedule
<1>2. \A e \in Epoch : schedule[e] # NoNonce => schedule'[e] # NoNonce
  <2>1. CASE schedule' = schedule
    BY <2>1
  <2>2. CASE job[j].pc = "store" /\ schedule' = [schedule EXCEPT ![job[j].epoch] = job[j].nonce]
    <3>1. job[j].nonce # NoNonce
      BY <2>2, JobTypes, TriggerAssumption DEF Late
    <3> QED  BY <2>2, <3>1 DEF TypeOK
  <2> QED
    BY <2>1, <2>2 DEF JobStep, ReadNonce, ComputeNonce, CacheNonce, StoreSchedule
<1>3. job \in [Job -> JobState]
  BY JobTypes
<1>4. \A i \in Job \ {j} : job'[i] = job[i]
  BY <1>3 DEF JobStep, ReadNonce, ComputeNonce, CacheNonce, StoreSchedule, Goto, GiveUp
<1> QED  BY <1>1, <1>2, <1>4

LEMMA WorkerMarked ==
  ASSUME TypeOK, Lasting, NEW f \in Epoch, Marked(f), WorkerStep(f), NEW e \in Epoch, Marked(e)
  PROVE  Marked(e)'
<1> USE DEF chainView, handler, memory, routines, db, outside, Fault, NoFault
<1>1. f \in Job /\ f # Command
  BY EpochsAndJobs, TriggerAssumption
<1>2. Calcing(f) /\ job[f].epoch = f /\ ~Comparing(f)
  <2>1. Calcing(f)
    BY DEF Calcing, WorkerStep, JobStep, ReadNonce, ComputeNonce, CacheNonce, StoreSchedule,
       PostSchedule, MarkSchedulePosted, Finish
  <2> QED  BY <2>1 DEF Marked
<1>3. GiveUp(f) => Goto(f, "failed")
  BY <1>1 DEF GiveUp
<1>4. /\ UNCHANGED <<at, epoch>>
      /\ \A i \in Job \ {f} : job'[i] = job[i]
      /\ \A i \in Epoch : schedule[i] # NoNonce => schedule'[i] # NoNonce
  <2>1. job \in [Job -> JobState]
    BY JobTypes
  <2>2. CASE JobStep(f)
    BY <1>1, <2>2, JobStores
  <2>3. CASE PostSchedule(f) \/ MarkSchedulePosted(f) \/ Finish(f)
    BY <1>1, <2>1, <2>3 DEF PostSchedule, MarkSchedulePosted, Finish, Goto, GiveUp
  <2> QED  BY <2>2, <2>3 DEF WorkerStep
<1>5. Comparing(e)' <=> Comparing(e)
  BY <1>4 DEF Comparing
<1>6. ASSUME e # f, channel'[e] = channel[e], posted \subseteq posted' PROVE Marked(e)'
  BY <1>4, <1>5, <1>6, MarkedElsewhere, EpochsAndJobs
<1>7. ASSUME UNCHANGED <<channel, posted>>, job[f].pc # "mark",
             job'[f].pc \notin {"post", "mark"}, job'[f].pc # "idle" => job'[f].epoch = f
      PROVE  Marked(e)'
  <2>1. CASE e = f
    BY <1>2, <1>5, <1>7, <2>1 DEF Marked, Calcing
  <2> QED  BY <1>6, <1>7, <2>1
<1>8. ASSUME NEW x, Goto(f, x), UNCHANGED <<channel, posted>>, job[f].pc # "mark",
             x \notin {"post", "mark"}
      PROVE  Marked(e)'
  BY <1>1, <1>2, <1>7, <1>8, GotoEffect
<1>9. CASE ReadNonce(f)
  <2>1. UNCHANGED <<channel, posted>> /\ job[f].pc = "nonce"
        /\ (Goto(f, "compute") \/ Take(f, "store", final[f]))
    BY <1>2, <1>9 DEF ReadNonce, Take
  <2>2. CASE Take(f, "store", final[f])
    BY <1>1, <1>2, <1>7, <2>1, <2>2, TakeEffect
  <2> QED  BY <1>8, <2>1, <2>2
<1>10. CASE ComputeNonce(f)
  <2>1. UNCHANGED <<channel, posted>> /\ job[f].pc = "compute"
        /\ (GiveUp(f) \/ \E n : Take(f, "cache", n))
    BY <1>10 DEF ComputeNonce, Take
  <2>2. ASSUME NEW n, Take(f, "cache", n) PROVE Marked(e)'
    BY <1>1, <1>2, <1>7, <2>1, <2>2, TakeEffect
  <2> QED  BY <1>3, <1>8, <2>1, <2>2
<1>11. CASE CacheNonce(f)
  BY <1>8, <1>11 DEF CacheNonce
<1>12. CASE StoreSchedule(f)
  <2>1. UNCHANGED <<channel, posted>> /\ job[f].pc = "store"
    BY <1>12 DEF StoreSchedule
  <2>2. CASE GiveUp(f)
    BY <1>3, <1>8, <2>1, <2>2
  <2>3. CASE /\ job' = [job EXCEPT ![f].pc = "post", ![f].reposting = f \in posted]
             /\ schedule' = [schedule EXCEPT ![f] = job[f].nonce]
    <3>1. /\ job'[f].pc = "post" /\ job'[f].epoch = f
          /\ job'[f].reposting = (f \in posted)
      BY <1>1, <1>2, <2>3, PostEffect
    <3>2. schedule'[f] = job[f].nonce /\ job[f].nonce # NoNonce
      BY <1>1, <2>1, <2>3, JobTypes, TriggerAssumption DEF TypeOK, Late
    <3>3. CASE e = f
      BY <1>2, <1>5, <2>1, <3>1, <3>2, <3>3 DEF Marked
    <3> QED  BY <1>6, <2>1, <3>3
  <2> QED  BY <1>1, <1>2, <1>12, <2>2, <2>3 DEF StoreSchedule, Lasting
<1>13. CASE PostSchedule(f)
  <2>1. /\ UNCHANGED <<posted, schedule>> /\ job[f].pc = "post"
        /\ \/ Goto(f, "mark") /\ channel' = [channel EXCEPT ![f] = job[f].nonce]
           \/ GiveUp(f) /\ channel' = channel
    BY <1>13 DEF PostSchedule
  <2>2. CASE GiveUp(f) /\ channel' = channel
    BY <1>3, <1>8, <2>1, <2>2
  <2>3. CASE Goto(f, "mark") /\ channel' = [channel EXCEPT ![f] = job[f].nonce]
    <3>1. job'[f].pc = "mark" /\ job'[f].epoch = f
      BY <1>1, <1>2, <2>3, GotoEffect
    <3>2. \A i \in Epoch \ {f} : channel'[i] = channel[i]
      BY <2>3 DEF TypeOK
    <3>3. CASE e = f
      BY <1>2, <1>5, <2>1, <3>1, <3>3 DEF Marked
    <3> QED  BY <1>6, <2>1, <3>2, <3>3
  <2> QED  BY <2>1, <2>2, <2>3
<1>14. CASE MarkSchedulePosted(f)
  <2>1. /\ channel' = channel /\ job[f].pc = "mark" /\ Goto(f, "succeeded")
        /\ posted' = IF schedule[f] = NoNonce THEN posted ELSE posted \cup {f}
    BY <1>14 DEF MarkSchedulePosted, Lasting
  <2>2. posted' = posted \cup {f}
    BY <2>1 DEF Marked
  <2>3. job'[f].pc = "succeeded" /\ job'[f].epoch = f
    BY <1>1, <1>2, <2>1, GotoEffect
  <2>4. CASE e = f
    BY <1>2, <1>5, <2>2, <2>3, <2>4 DEF Marked
  <2> QED  BY <1>6, <2>1, <2>2, <2>4
<1>15. CASE Finish(f)
  <2>1. /\ UNCHANGED <<channel, posted>> /\ job' = [job EXCEPT ![f] = NoJob]
        /\ job[f].pc # "mark"
    BY <1>15 DEF Finish
  <2> QED  BY <1>1, <1>7, <2>1, EndEffect
<1> QED
  BY <1>9, <1>10, <1>11, <1>12, <1>13, <1>14, <1>15 DEF WorkerStep, JobStep

LEMMA NextMarked ==
  ASSUME TypeOK, Lasting, PostsAreMarked, [Next]_vars
  PROVE  PostsAreMarked'
<1> SUFFICES ASSUME NEW e \in Epoch PROVE Marked(e)'
  BY DEF PostsAreMarked
<1> USE DEF chainView, handler, memory, routines, db, outside
<1>1. Marked(e) /\ \A f \in Epoch : Marked(f)
  BY DEF PostsAreMarked
<1>2. ASSUME UNCHANGED <<job, schedule, posted, channel>>, Comparing(e)' => Comparing(e)
      PROVE  Marked(e)'
  BY <1>1, <1>2, MarkedElsewhere
<1>3. CASE Trigger
  <2>1. UNCHANGED <<schedule, channel, posted>>
    BY <1>3, SpawnsOne
  <2>2. CASE job' = job /\ (Comparing(e)' => Comparing(e) \/ ~Calcing(e))
    BY <1>1, <2>1, <2>2 DEF Marked, Calcing
  <2>3. ASSUME NEW f \in Epoch, Spawn(f), ~Calcing(f), ~Comparing(e)' PROVE Marked(e)'
    <3>1. /\ \A i \in Job \ {f} : job'[i] = job[i]
          /\ job'[f].pc = "nonce" /\ job'[f].epoch = f
      BY <2>3, SpawnEffect
    <3>2. CASE e = f
      BY <1>1, <2>1, <2>3, <3>1, <3>2 DEF Marked, Calcing
    <3>3. CASE e # f
      BY <1>1, <2>1, <2>3, <3>1, <3>3, MarkedElsewhere, EpochsAndJobs
    <3> QED  BY <3>2, <3>3
  <2> QED  BY <1>3, <2>2, <2>3, SpawnsOne
<1>4. ASSUME NEW f \in Epoch, WorkerStep(f) PROVE Marked(e)'
  BY <1>1, <1>4, WorkerMarked
<1>5. ASSUME NEW f \in Epoch, CheckerStep(f) PROVE Marked(e)'
  BY <1>2, <1>5 DEF CheckerStep, FetchKoiosNonce, CompareWithKoios, CorrectNonce, Confirm,
    Comparing
<1>6. CASE JobStep(Command)
  <2>1. Command \in Job /\ e \in Job \ {Command}
    BY EpochsAndJobs, TriggerAssumption
  <2>2. /\ job'[e] = job[e] /\ UNCHANGED <<channel, posted>>
        /\ schedule[e] # NoNonce => schedule'[e] # NoNonce
        /\ Comparing(e)' => Comparing(e)
    BY <1>6, <2>1, JobStores DEF Comparing
  <2> QED  BY <1>1, <2>2, MarkedElsewhere
<1>7. ASSUME NEW f \in Epoch, CommandArrives(f) PROVE Marked(e)'
  <2>1. job'[e] = job[e] /\ UNCHANGED <<schedule, channel, posted, at, epoch>>
    BY <1>7, EpochsAndJobs, TriggerAssumption, JobTypes DEF CommandArrives
  <2>2. Comparing(e)' => Comparing(e)
    BY <2>1 DEF Comparing
  <2> QED  BY <1>1, <2>1, <2>2, MarkedElsewhere
<1>8. ~Restart
  BY DEF Restart, Lasting, Fault
<1>9. ASSUME NEW f \in EpochReached, Publish(f) \/ \E p \in BOOLEAN : BlockArrives(f, p)
      PROVE  Marked(e)'
  BY <1>2, <1>9 DEF Publish, BlockArrives, Comparing
<1>10. ASSUME NEW f \in Epoch,
              CooldownExpires(f) \/ VerifyIntervalExpires(f) \/ CorrectNextEpochNonce(f)
       PROVE  Marked(e)'
  BY <1>2, <1>10 DEF CooldownExpires, VerifyIntervalExpires, CorrectNextEpochNonce, Comparing
<1>11. CASE \/ Arm \/ RollbackArrives \/ BackfillWithoutCorrection \/ ClearScheduleExists
            \/ UNCHANGED vars
  BY <1>2, <1>11 DEF Arm, RollbackArrives, BackfillWithoutCorrection, ClearScheduleExists, vars,
     Comparing
<1> QED
  BY <1>3, <1>4, <1>5, <1>6, <1>7, <1>8, <1>9, <1>10, <1>11 DEF Next

LEMMA InitMarked == Init => PostsAreMarked
<1> SUFFICES ASSUME Init, NEW e \in Epoch PROVE Marked(e)
  BY DEF PostsAreMarked
<1>1. job[e].pc = "idle" /\ channel[e] = NoNonce
  BY EpochsAndJobs DEF Init, NoJob
<1> QED  BY <1>1 DEF Marked, Calcing

(* Where the channel shows a schedule, the posted flag is set or the worker*)
(* that sent it is about to set it, so the next worker of the epoch reads  *)
(* that it replaces one (calculateAndPostLeaderlog, main.go:1918).  The    *)
(* flag is taken to be written and read without an error (Lasting).        *)
THEOREM PostsAreMarkedAlways ==
  ASSUME Lasting PROVE Spec => []PostsAreMarked
<1>1. Init => PostsAreMarked
  BY InitMarked
<1>2. TypeOK /\ PostsAreMarked /\ [Next]_vars => PostsAreMarked'
  BY NextMarked
<1> QED  BY <1>1, <1>2, TypeCorrect, PTL DEF Spec

(* A post that replaces another schedule carries the warning, whatever the *)
(* command, the backfill, Koios and the rollbacks do meanwhile, and also if*)
(* a wrong nonce replaced the right one: see Lasting for what is excluded. *)
THEOREM CorrectionsAnnounced ==
  ASSUME Lasting PROVE Spec => CorrectionAnnounced
<1>1. TypeOK /\ PostsAreMarked /\ [Next]_vars =>
        \A e \in Epoch : channel[e] # NoNonce /\ channel'[e] # channel[e] => job[e].reposting
  <2> SUFFICES ASSUME TypeOK, PostsAreMarked, [Next]_vars, NEW e \in Epoch,
                      channel[e] # NoNonce, channel'[e] # channel[e]
               PROVE  job[e].reposting
    OBVIOUS
  <2>1. PICK f \in Epoch : PostSchedule(f)
    BY DEF Next, BlockArrives, RollbackArrives, Publish, Arm, Trigger, CheckNext, CompareNext,
       CheckCurrent, CompareCurrent, WorkerStep, JobStep, ReadNonce, ComputeNonce, CacheNonce,
       StoreSchedule, MarkSchedulePosted, Finish, CheckerStep, FetchKoiosNonce,
       CompareWithKoios, CorrectNonce, Confirm, CooldownExpires, VerifyIntervalExpires,
       CommandArrives, CorrectNextEpochNonce, BackfillWithoutCorrection, ClearScheduleExists,
       Restart, vars, outside
  <2>2. e = f /\ job[f].pc = "post"
    BY <2>1 DEF PostSchedule, TypeOK
  <2> QED  BY <2>2 DEF PostsAreMarked, Marked
<1> QED  BY <1>1, TypeCorrect, PostsAreMarkedAlways, PTL DEF Spec, CorrectionAnnounced

=============================================================================
