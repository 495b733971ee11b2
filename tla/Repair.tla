------------------------------- MODULE Repair -------------------------------
(***************************************************************************)
(* The two jobs that correct the nonces of a database with lost blocks or  *)
(* wrong rows, on top of NonceTracker.  RepairBlockGaps (gaprepair.go)     *)
(* runs at start-up, before anything else writes blocks: it inserts the    *)
(* blocks missing from past epochs and rebuilds the nonces that rolled     *)
(* over them.  BackfillNonces (nonce.go) runs once the live tail is up,    *)
(* next to the tracker and without its lock: it streams the whole blocks   *)
(* table, rewrites the rows of every epoch, then reseeds the tracker.      *)
(*                                                                         *)
(* The stream reads the blocks as they were when it was opened.  With      *)
(* OneConnection (SQLite) it holds the only connection until it is closed, *)
(* and every other store call waits for it.                                *)
(***************************************************************************)
EXTENDS NonceTracker

CONSTANTS
  OneConnection,   \* SqliteStore; FALSE for Postgres
  JobFaults,       \* the faults that may happen to a job, see JobFaultKinds
  MaxFailures      \* bound on the crashes and the tracker's store calls that fail

JobFaultKinds ==
  { "koios",      \* a request to Koios or to the node fails
    "store",      \* a store call of the job fails
    "cancel" }    \* the context of the job is done

ASSUME JobAssumption ==
  /\ OneConnection \in BOOLEAN
  /\ JobFaults \subseteq JobFaultKinds
  /\ MaxFailures \in Nat

VARIABLES
  job,        \* the job that runs
  failures    \* counts up to MaxFailures

repair_vars == <<vars, job, failures>>

Streaming == {"invalidate", "final", "evolving", "frozen"}

Stage == {"startup", "gaps", "insert", "range", "off", "wait", "reseed"} \cup Streaming

(* epoch: the one a job is at; from: the first repaired one, MaxEpoch + 1  *)
(* if there is none; through: the last to restore; rows: the blocks of the *)
(* stream; clean: no store call failed and no rollback changed the epochs  *)
(* before the last streamed one or rewound to one of them; backfilled: the *)
(* job runs once per start.                                                *)
NoJob(stage) ==
  [stage |-> stage, epoch |-> 0, from |-> MaxEpoch + 1, through |-> 0,
   rows |-> {}, clean |-> TRUE, backfilled |-> FALSE]

RepairInit == Init /\ job = NoJob("off") /\ failures = 0

At(stage) == job.stage = stage

JobFails(f) == f \in JobFaults

Held == OneConnection /\ job.stage \in Streaming

(* The lock of the tracker is taken, or nothing else runs yet.             *)
Busy == job.stage \in {"startup", "gaps", "insert", "range", "reseed"}

Tip == EpochAt(LastSlot(blocks))

LastStreamed == EpochAt(LastSlot(job.rows))

----------------------------------------------------------------------------
(* RepairBlockGaps.                                                        *)

Canonical(e) == InEpoch(chain, e)

Missing(e) == {b \in Canonical(e) : \A c \in blocks : c.slot # b.slot}

HasGap(e) ==
  /\ BlocksOf(e) # {}
  /\ Cardinality(BlocksOf(e)) < Cardinality(Canonical(e))

GapsFrom(e) == {f \in Epoch : f >= e /\ f < Tip /\ HasGap(f)}

First(S) == CHOOSE b \in S : \A c \in S : b.slot <= c.slot

GapRepairStarts ==
  /\ At("startup")
  /\ Idle
  /\ \/ job' = IF blocks = {} THEN NoJob("off") ELSE NoJob("gaps")
     \/ JobFails("koios") /\ job' = NoJob("off")
  /\ UNCHANGED vars

EpochToRepair ==
  /\ At("gaps")
  /\ \E e \in GapsFrom(job.epoch) :
       /\ \A f \in GapsFrom(job.epoch) : e <= f
       /\ job' = IF First(Canonical(e)) \in Missing(e)
                 THEN NoJob("off")   \* "first block of epoch is missing"
                 ELSE [job EXCEPT !.stage = "insert", !.epoch = e]
  /\ UNCHANGED vars

InsertMissing ==
  /\ At("insert")
  /\ Missing(job.epoch) # {}
  /\ blocks' = blocks \cup {First(Missing(job.epoch))}
  /\ job' = [job EXCEPT !.from = IF job.epoch < @ THEN job.epoch ELSE @]
  /\ UNCHANGED <<row, tracker, pc, work, stream>>

EpochRepaired ==
  /\ At("insert")
  /\ Missing(job.epoch) = {}
  /\ job' = [job EXCEPT !.stage = "gaps", !.epoch = @ + 1]
  /\ UNCHANGED vars

(* An error in any epoch skips the recomputation of those before it.       *)
GapRepairFails ==
  /\ job.stage \in {"gaps", "insert"}
  /\ JobFails("koios")
  /\ job' = NoJob("off")
  /\ UNCHANGED vars

GapsRepairedAlone ==   \* rebuilds the first repaired epoch only
  /\ At("gaps")
  /\ GapsFrom(job.epoch) = {}
  /\ job' = IF job.from > MaxEpoch THEN NoJob("off")
            ELSE [job EXCEPT !.stage = "range", !.epoch = job.from, !.through = job.from]
  /\ UNCHANGED vars

GapsRepaired ==
  /\ At("gaps")
  /\ GapsFrom(job.epoch) = {}
  /\ job' = IF job.from > MaxEpoch THEN NoJob("off")
            ELSE [job EXCEPT !.stage = "range", !.epoch = job.from, !.through = Tip]
  /\ UNCHANGED vars

----------------------------------------------------------------------------
(* RecomputeEpochRange and reseedFromBackfill: restore the epochs up to    *)
(* job.through, holding the lock throughout.                               *)

Restoring == job.stage \in {"range", "reseed"}

RestoreNext ==
  /\ Restoring
  /\ Idle
  /\ job.epoch <= job.through
  /\ RecomputeCurrentEpochNonce(job.epoch)
  /\ job' = [job EXCEPT !.epoch = @ + 1]
  /\ UNCHANGED <<db, tracker, stream>>

RestoreFails ==
  /\ Restoring
  /\ pc \in {"restore", "candidate"}
  /\ JobFails("store")
  /\ Finish
  /\ job' = [NoJob("off") EXCEPT !.backfilled = job.backfilled]
  /\ UNCHANGED <<db, tracker, stream>>

RangeRestored ==
  /\ Restoring
  /\ Idle
  /\ job.epoch > job.through
  /\ job' = [NoJob("off") EXCEPT !.backfilled = job.backfilled]
  /\ UNCHANGED vars

----------------------------------------------------------------------------
(* BackfillNonces.  The nonces of the stream are those of its blocks from  *)
(* genesis on; etaV of the loop at the start of epoch e is StreamNonce(e). *)

StreamNonce(e) == EvolveAll(GenesisNonce, Through(job.rows, e - 1))

BackfillStarts ==
  /\ At("off")
  /\ phase = "live" /\ pc # "down"
  /\ ~job.backfilled
  /\ blocks # {}
  /\ job' = [NoJob("frozen") EXCEPT !.rows = blocks, !.backfilled = TRUE,
                                   !.clean = blocks \subseteq chain]
  /\ UNCHANGED vars

(* A store call of the stream: r is the table if it succeeds, a failure is *)
(* only logged.                                                            *)
StoreCall(r, next) ==
  /\ ~Held
  /\ \/ row' = r /\ job' = next
     \/ JobFails("store") /\ row' = row /\ job' = [next EXCEPT !.clean = FALSE]
  /\ UNCHANGED <<blocks, tracker, pc, work, stream>>

(* The stability slot of an epoch: freeze the candidate.  Then the first   *)
(* block of the next epoch, or the end of the stream.  Koios may say that  *)
(* the nonce of the new epoch is another one.                              *)
StreamFreezes ==
  /\ At("frozen")
  /\ LET e    == job.epoch
         T    == InEpoch(job.rows, e)
         next == IF e = LastStreamed
                 THEN {[job EXCEPT !.stage = "wait"]}
                 ELSE {[job EXCEPT !.epoch = e + 1, !.stage = s] : s \in {"invalidate", "final"}}
     IN \E n \in next :
          IF FirstStable(T) = {}
          THEN job' = n /\ UNCHANGED vars
          ELSE StoreCall(SetCandidateNonce(row, e, CandidateOf(StreamNonce(e), T)), n)

StreamInvalidates ==
  /\ At("invalidate")
  /\ StoreCall(DeleteCandidateNonce(row, job.epoch), [job EXCEPT !.stage = "final"])

StreamCachesFinal ==
  /\ At("final")
  /\ StoreCall(SetFinalNonce(row, job.epoch, FinalNonce), [job EXCEPT !.stage = "evolving"])

StreamSkipsEvolving ==   \* caches the final nonces only
  /\ At("evolving")
  /\ job' = [job EXCEPT !.stage = "frozen"]
  /\ UNCHANGED vars

(* The row of the epoch that ended.                                        *)
StreamStoresEvolving ==
  /\ At("evolving")
  /\ LET e == job.epoch - 1
     IN StoreCall(UpsertEvolvingNonce(row, e, StreamNonce(job.epoch),
                                      Cardinality(InEpoch(job.rows, e))),
                  [job EXCEPT !.stage = "frozen"])

(* rows.Next or a call made meanwhile sees that the context is done.       *)
StreamCancelled ==
  /\ job.stage \in Streaming
  /\ Held \/ JobFails("cancel")
  /\ job' = [NoJob("off") EXCEPT !.backfilled = TRUE]
  /\ UNCHANGED vars

ReseedLastEpoch ==   \* not through the epoch the tracker is in
  /\ At("wait")
  /\ Idle
  /\ job' = [job EXCEPT !.stage = "reseed", !.epoch = LastStreamed, !.through = LastStreamed]
  /\ UNCHANGED vars

(* reseedFromBackfill takes the lock.                                      *)
ReseedStarts ==
  /\ At("wait")
  /\ Idle
  /\ job' = [job EXCEPT !.stage = "reseed", !.epoch = LastStreamed,
                        !.through = IF currentEpoch > LastStreamed THEN currentEpoch
                                    ELSE LastStreamed]
  /\ UNCHANGED vars

----------------------------------------------------------------------------
(* The tracker next to the jobs.  GetNonceForEpoch is left out: of the     *)
(* final nonces only the rows they create matter, and the stream creates   *)
(* those as well.                                                          *)

StreamEvent ==
  \/ \E b \in Block : BlockArrives(b)
  \/ \E p \in Slot : RollbackArrives(p)
  \/ GoLive

Handler ==
  \/ FreezeCandidate \/ EvolveNonce
  \/ RestoreEvolving \/ RestoreCandidate \/ ResetEvolving \/ ResetCandidate
  \/ ValidateDBIntegrity

(* restoreEpochFromDB has succeeded: the tracker continues from work.      *)
Restored ==
  /\ etaV' = work.eta /\ currentEpoch' = work.epoch
  /\ blockCount' = Cardinality(BlocksOf(work.epoch))
  /\ candidateFroze' = (work.candidate # NoNonce)
  /\ row'[work.epoch].candidate = work.candidate

RewindDone ==
  /\ work.epoch >= work.through
  /\ \/ pc = "candidate" /\ Restored
     \/ pc = "resetCandidate" /\ row'[work.epoch].candidate = NoNonce

(* A step in which a store call of the tracker fails.                      *)
TrackerFails ==
  \/ Rewinding /\ pc' = "idle" /\ ~RewindDone
  \/ pc = "evolve" /\ row' # UpsertEvolvingNonce(row, currentEpoch, etaV', blockCount')
  \/ phase' = "live" /\ cursor' < cursor /\ blocks' = blocks /\ Prefix(blocks, cursor') # blocks

InsertFails ==
  cursor' > cursor /\ blocks' = blocks /\ \A b \in blocks : b.slot # cursor'

Counted(failed) ==
  /\ failures' = failures + (IF failed THEN 1 ELSE 0)
  /\ failures' <= MaxFailures

(* Whether the epochs before the last streamed one still hold the blocks   *)
(* of the stream, and no others, and no rewind writes their rows.          *)
WatchStream ==
  job' = IF job.stage \in Streaming \cup {"wait"}
         THEN [job EXCEPT !.clean = /\ @ /\ ~TrackerFails
                                    /\ pc' = "restore" => work'.epoch >= LastStreamed
                                    /\ Through(job.rows, LastStreamed - 1)
                                          = Through(blocks', LastStreamed - 1)]
         ELSE job

TrackerStep ==
  /\ ~Held
  /\ \/ ~Busy /\ StreamEvent
     \/ ~Restoring /\ Handler
  /\ Counted(TrackerFails \/ InsertFails)
  /\ WatchStream

RestoreStep ==
  /\ Restoring
  /\ \/ RestoreEvolving /\ pc' = "candidate"
     \/ RestoreCandidate /\ Restored
  /\ UNCHANGED job

ProcessStops == Crash /\ Counted(TRUE) /\ job' = NoJob("off")

ProcessStarts == Restart /\ job' = NoJob("startup")

JobStep ==
  \/ GapRepairStarts \/ EpochToRepair \/ InsertMissing \/ EpochRepaired
  \/ GapRepairFails \/ GapsRepaired
  \/ RestoreNext \/ RestoreStep \/ RestoreFails \/ RangeRestored
  \/ StreamFreezes \/ StreamInvalidates \/ StreamCachesFinal \/ StreamStoresEvolving
  \/ StreamCancelled \/ ReseedStarts

RepairNext ==
  \/ (JobStep \/ BackfillStarts) /\ UNCHANGED failures
  \/ TrackerStep
  \/ ProcessStops
  \/ ProcessStarts /\ UNCHANGED failures

RepairSpec == RepairInit /\ [][RepairNext]_repair_vars

(* The goroutine of the job runs, its context is done at some time, and a  *)
(* handler that holds the lock goes on.                                    *)
FairRepairSpec ==
  /\ RepairSpec
  /\ WF_repair_vars(JobStep /\ UNCHANGED failures)
  /\ WF_repair_vars(TrackerStep /\ ~Idle)

----------------------------------------------------------------------------
RowRight(e) ==
  /\ row[e].evolving = ChainNonce(UpTo(e))
  /\ row[e].count = Cardinality(BlocksOf(e))

(* "one missing block corrupts every later candidate nonce, even in epochs *)
(* whose own block count is complete" (gaprepair.go:38-40): once a repair  *)
(* is done no epoch behind the tip has a gap and the rows and candidates   *)
(* of every epoch from the first repaired one on follow the blocks, if the *)
(* row before it did; wherever an earlier start was stopped.               *)
GapRepairHeals ==
  [][ At("range") /\ Idle /\ job.epoch > job.through
      /\ (job.from > 0 => RowRight(job.from - 1))
      => /\ \A e \in job.from..Tip : BlocksOf(e) # {} => RowRight(e) /\ CandidateRight(e)
         /\ \A e \in job.from..(Tip - 1) : ~HasGap(e)
         /\ etaV = ChainNonce(blocks) ]_repair_vars

(* After a backfill of which no store call failed, the tracker, every row  *)
(* and every candidate follow the blocks table, from whatever seed and     *)
(* rows it began with and whatever blocks and rollbacks arrived meanwhile, *)
(* unless a rollback changed the epochs before the last streamed one or    *)
(* rewound to one of them: their rows are not looked at again, and what    *)
(* restoreEpochFromDB made of a row the stream had not reached yet it may  *)
(* write after the stream has passed (reseedFromBackfill, nonce.go:916).   *)
BackfillHeals ==
  [][ At("reseed") /\ Idle /\ job.epoch > job.through /\ job.clean
      => /\ MemoryFollowsStore /\ RowsFollowStore
         /\ \A e \in Epoch : CandidateRight(e) ]_repair_vars

(* "BackfillNonces streams all blocks ... computing and caching every      *)
(* epoch's nonce in the DB" (nonce.go:741-742): a stream that was opened   *)
(* is read to its end.                                                     *)
BackfillStreamsAll == (job.stage \in Streaming) ~> At("reseed")
=============================================================================
