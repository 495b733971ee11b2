---------------------------- MODULE RepairProofs ----------------------------
(***************************************************************************)
(* Theorems about Repair: its type invariant under every fault, and that,  *)
(* as long as reads of the evolving nonce do not fail, a gap repair that   *)
(* runs to its end heals the epochs from the first repaired one on, and a  *)
(* backfill that runs to its end heals all of them, next to a tracker that *)
(* goes on storing blocks and rewinding.                                   *)
(***************************************************************************)
EXTENDS Repair, NonceTrackerProofs

----------------------------------------------------------------------------
(* The inductive invariant.                                                *)

(* A read of the evolving nonce that fails is taken for a missing row: the *)
(* epoch is then rebuilt from the genesis seed.                            *)
ReadsSucceed == "read" \notin Faults

Job == [stage : Stage, epoch : 0..MaxEpoch + 1, from : 0..MaxEpoch + 1, through : Epoch,
        rows : SUBSET Block, clean : BOOLEAN, backfilled : BOOLEAN]

JobType == job \in Job /\ IsFiniteSet(job.rows)

(* The node's chain, and the live tail on it.                              *)
ChainInv ==
  /\ IsFiniteSet(chain) /\ OnePerSlot(chain)
  /\ phase = "live" => \A b \in chain : b.slot <= cursor
  /\ pc = "validate" => phase # "live"

(* The handler that holds the lock works on the last event.                *)
HandlerInv ==
  /\ pc \in {"freeze", "evolve"} =>
       /\ work.block \in blocks /\ work.block.slot = cursor
       /\ currentEpoch = EpochOf[work.block.slot]
  /\ phase = "live" /\ Rewinding /\ ~Restoring => \A b \in blocks : EpochOf[b.slot] <= work.epoch

Replaying == job.stage \in Streaming \cup {"wait", "reseed"}

StageInv ==
  /\ pc = "down" => At("off")
  /\ pc = "validate" => At("startup")
  /\ job.stage \in {"gaps", "insert"} => Idle
  /\ Restoring => pc \in {"idle", "restore", "candidate"}
  /\ Replaying => phase = "live" /\ job.rows # {}

(* The epochs RepairBlockGaps has passed have no gap.                      *)
GapsInv ==
  /\ job.stage \in {"gaps", "insert", "range"} =>
       /\ blocks # {}
       /\ job.from \in Epoch => job.from < Tip
  /\ job.stage \in {"gaps", "insert"} =>
       /\ job.epoch <= Tip /\ (At("insert") => job.epoch < Tip)
       /\ \A f \in Epoch : f < job.epoch /\ f < Tip => ~HasGap(f)
  /\ At("range") => /\ job.from \in Epoch /\ job.through = Tip
                    /\ \A f \in Epoch : f < Tip => ~HasGap(f)

(* The first epoch that is restored; the last one that has been.           *)
Base == IF At("range") THEN job.from ELSE LastStreamed

Last == IF Idle THEN job.epoch - 1 ELSE job.epoch - 2

Right(e) == RowRight(e) /\ CandidateRight(e)

(* If reads succeed and the row before the first epoch is right, so are    *)
(* those restored.                                                         *)
RestoreInv ==
  Restoring =>
    /\ Base <= job.epoch /\ job.epoch <= job.through + 1 /\ Base <= job.through
    /\ ~Idle => Base < job.epoch /\ work.epoch = job.epoch - 1 /\ work.through = work.epoch
    /\ ReadsSucceed /\ (Base > 0 => RowRight(Base - 1)) =>
         /\ \A e \in Base..Last : Right(e)
         /\ pc = "candidate" =>
              /\ RowRight(work.epoch) /\ work.eta = ChainNonce(UpTo(work.epoch))
              /\ work.candidate = CandidateOf(ChainNonce(UpTo(work.epoch - 1)),
                                              BlocksOf(work.epoch))
         /\ Idle /\ job.epoch > Base =>
              etaV = ChainNonce(UpTo(job.epoch - 1)) /\ currentEpoch = job.epoch - 1

(* The epochs before these have their row and their candidate of the stream*)
RowsUpTo ==
  IF At("frozen") THEN job.epoch
  ELSE IF job.stage \in Streaming THEN job.epoch - 1 ELSE LastStreamed

CandidatesUpTo == IF job.stage \in Streaming THEN job.epoch ELSE LastStreamed

StreamRight ==
  /\ \A e \in Epoch : e < RowsUpTo =>
       /\ row[e].evolving = ChainNonce(Through(job.rows, e))
       /\ row[e].count = Cardinality(InEpoch(job.rows, e))
  /\ \A e \in Epoch : e < CandidatesUpTo /\ FirstStable(InEpoch(job.rows, e)) # {} =>
       row[e].candidate = CandidateOf(ChainNonce(Through(job.rows, e - 1)), InEpoch(job.rows, e))

(* Next to the stream, the tracker writes no row before the last epoch     *)
(* streamed, and stores no block in an epoch the reseed will not reach.    *)
BesideInv ==
  /\ Through(job.rows, LastStreamed - 1) = Through(blocks, LastStreamed - 1)
  /\ blocks \subseteq chain
  /\ \A b \in blocks : \/ EpochOf[b.slot] <= LastStreamed
                       \/ EpochOf[b.slot] <= IF At("reseed") THEN job.through ELSE currentEpoch
  /\ ~At("reseed") => /\ pc \in {"freeze", "evolve"} => currentEpoch >= LastStreamed
                      /\ Rewinding => work.epoch >= LastStreamed

ReplayInv ==
  Replaying =>
    /\ job.stage \in Streaming => job.epoch <= LastStreamed
    /\ job.stage \in {"invalidate", "final", "evolving"} => job.epoch > 0
    /\ job.clean => StreamRight /\ BesideInv

RepairInv ==
  /\ TypeInv /\ JobType /\ ChainInv /\ HandlerInv /\ StageInv
  /\ GapsInv /\ RestoreInv /\ ReplayInv

----------------------------------------------------------------------------
(* Types.                                                                  *)

LEMMA StageType ==
  /\ Stage = {"startup", "gaps", "insert", "range", "off", "wait", "reseed",
              "invalidate", "final", "evolving", "frozen"}
  /\ Streaming = {"invalidate", "final", "evolving", "frozen"}
BY DEF Stage, Streaming

LEMMA NoJobType ==
  ASSUME NEW s \in Stage
  PROVE  /\ NoJob(s) \in Job /\ IsFiniteSet(NoJob(s).rows) /\ NoJob(s).stage = s
         /\ \A c \in BOOLEAN : /\ [NoJob(s) EXCEPT !.backfilled = c] \in Job
                               /\ [NoJob(s) EXCEPT !.backfilled = c].stage = s
                               /\ IsFiniteSet([NoJob(s) EXCEPT !.backfilled = c].rows)
<1>1. 0 \in Epoch /\ 0 \in 0..MaxEpoch + 1 /\ MaxEpoch + 1 \in 0..MaxEpoch + 1
  BY EpochAssumption DEF Epoch
<1> QED BY <1>1, FS_EmptySet DEF NoJob, Job

LEMMA EpochRange ==
  /\ 0 \in Epoch /\ MaxEpoch \in Int
  /\ \A e \in Epoch : e \in Int /\ e >= 0 /\ e <= MaxEpoch /\ e \in 0..MaxEpoch + 1
                      /\ e + 1 \in 0..MaxEpoch + 1
  /\ \A e \in 0..MaxEpoch + 1 : /\ e \in Int /\ e >= 0 /\ e <= MaxEpoch + 1
                                /\ e <= MaxEpoch => e \in Epoch
                                /\ \A f \in Epoch : e <= f => e \in Epoch
BY EpochAssumption DEF Epoch

(* The epoch of the last of a set of blocks.                               *)
LEMMA LastEpochOf ==
  ASSUME NEW S \in SUBSET Block, IsFiniteSet(S)
  PROVE  /\ EpochAt(LastSlot(S)) \in Epoch
         /\ \A b \in S : EpochOf[b.slot] <= EpochAt(LastSlot(S)) /\ b.slot <= LastSlot(S)
         /\ S # {} => \E b \in S : EpochAt(LastSlot(S)) = EpochOf[b.slot] /\ LastSlot(S) = b.slot
<1>1. LastSlot(S) \in Slot \cup {0}
  BY LastSlotOf
<1>2. EpochAt(LastSlot(S)) \in Epoch
  BY <1>1, EpochRange, EpochAssumption DEF EpochAt
<1>3. CASE S = {}
  BY <1>2, <1>3
<1>4. CASE S # {}
  <2>1. PICK l \in S : IsLast(l, S) /\ LastSlot(S) = l.slot
    BY <1>4, LastSlotOf
  <2>2. EpochAt(LastSlot(S)) = EpochOf[l.slot]
    BY <2>1, BlockSlot DEF EpochAt
  <2>3. ASSUME NEW b \in S PROVE b.slot <= l.slot /\ EpochOf[b.slot] <= EpochOf[l.slot]
    BY <2>1, EpochMonotone DEF IsLast
  <2> QED BY <1>2, <2>1, <2>2, <2>3
<1> QED BY <1>3, <1>4

LEMMA TipType ==
  ASSUME TypeInv
  PROVE  /\ Tip \in Epoch /\ \A b \in blocks : EpochOf[b.slot] <= Tip
         /\ blocks # {} => \E b \in blocks : EpochOf[b.slot] = Tip
<1>1. blocks \in SUBSET Block /\ IsFiniteSet(blocks)
  BY DEF TypeInv, TypeOK
<1> QED BY <1>1, LastEpochOf DEF Tip

LEMMA LastStreamedType ==
  ASSUME JobType
  PROVE  /\ LastStreamed \in Epoch /\ \A b \in job.rows : EpochOf[b.slot] <= LastStreamed
         /\ job.rows # {} => \E b \in job.rows : EpochOf[b.slot] = LastStreamed
<1>1. job.rows \in SUBSET Block /\ IsFiniteSet(job.rows)
  BY DEF JobType, Job
<1> QED BY <1>1, LastEpochOf DEF LastStreamed

(* Another row, and nothing else.                                          *)
LEMMA TypeRow ==
  ASSUME TypeInv, row' \in [Epoch -> StoredRow], UNCHANGED <<blocks, tracker, pc, work, stream>>
  PROVE  TypeInv'
<1>1. row' \in [Epoch -> Row]
  BY DEF StoredRow
<1> QED BY <1>1 DEF TypeInv, TypeOK, tracker, stream

(* Steps of the tracker are steps of NonceTracker.                         *)
LEMMA TrackerStepIsNext ==
  ASSUME TrackerStep \/ RestoreStep \/ ProcessStops \/ ProcessStarts
  PROVE  Next
BY DEF TrackerStep, StreamEvent, Handler, RestoreStep, ProcessStops, ProcessStarts, Next

(* The first of the missing blocks.                                        *)
LEMMA FirstMissing ==
  ASSUME TypeInv, IsFiniteSet(chain), NEW e \in Epoch, Missing(e) # {}
  PROVE  /\ First(Missing(e)) \in Missing(e)
         /\ First(Missing(e)) \in Block /\ EpochOf[First(Missing(e)).slot] = e
         /\ First(Missing(e)) \in chain
<1>1. Missing(e) \in SUBSET chain /\ chain \in SUBSET Block
  BY DEF Missing, Canonical, InEpoch, TypeInv, TypeOK
<1>2. IsFiniteSet(Missing(e))
  BY <1>1, FS_Subset
<1>3. \E b \in Missing(e) : \A c \in Missing(e) : b.slot <= c.slot
  BY <1>1, <1>2, FirstExists
<1>4. First(Missing(e)) \in Missing(e)
  BY <1>3 DEF First
<1> QED BY <1>1, <1>4 DEF Missing, Canonical, InEpoch

(* The nonces of the stream.                                               *)
LEMMA StreamNonceType ==
  ASSUME JobType, NEW e
  PROVE  /\ StreamNonce(e) = ChainNonce(Through(job.rows, e - 1)) /\ StreamNonce(e) \in Nonce
         /\ InEpoch(job.rows, e) \in SUBSET Block
         /\ Cardinality(InEpoch(job.rows, e)) \in Nat
<1>1. Through(job.rows, e - 1) \in SUBSET Block
  BY DEF Through, JobType, Job
<1>2. InEpoch(job.rows, e) \in SUBSET job.rows /\ job.rows \in SUBSET Block
  BY DEF InEpoch, JobType, Job
<1>3. IsFiniteSet(InEpoch(job.rows, e))
  BY <1>2, FS_Subset DEF JobType
<1> QED BY <1>1, <1>2, <1>3, EvolveAllType, GenesisType, FS_CardinalityType DEF StreamNonce, ChainNonce

LEMMA CandidateIsNonce ==
  ASSUME NEW n \in Nonce, NEW T \in SUBSET Block, FirstStable(T) # {}
  PROVE  CandidateOf(n, T) \in Nonce /\ CandidateOf(n, T) # NoNonce
<1>1. \A b : Before(T, b) \in SUBSET Block
  BY DEF Before
<1> QED BY <1>1, EvolveAllType, AbsentAssumption DEF CandidateOf

(* A store call of the stream writes one row, or fails.                    *)
LEMMA StoreCallEffect ==
  ASSUME TypeInv, JobType, NEW r \in [Epoch -> StoredRow], NEW next \in Job, StoreCall(r, next),
         next.rows = job.rows, next.clean = job.clean
  PROVE  /\ UNCHANGED <<blocks, tracker, pc, work, stream>> /\ TypeInv' /\ JobType'
         /\ job'.rows = job.rows /\ job'.stage = next.stage /\ job'.epoch = next.epoch
         /\ job'.clean => row' = r /\ job.clean
<1>1. UNCHANGED <<blocks, tracker, pc, work, stream>>
  BY DEF StoreCall
<1>2. row' \in [Epoch -> StoredRow]
  BY DEF StoreCall, TypeInv
<1>3. CASE row' = r /\ job' = next
  BY <1>1, <1>2, <1>3, TypeRow DEF JobType
<1>4. CASE row' = row /\ job' = [next EXCEPT !.clean = FALSE]
  BY <1>1, <1>2, <1>4, TypeRow DEF JobType, Job
<1> QED BY <1>3, <1>4 DEF StoreCall

(* What a step of the stream does to its row.                              *)
LEMMA StreamEffect ==
  ASSUME TypeInv, JobType, ReplayInv,
         StreamFreezes \/ StreamInvalidates \/ StreamCachesFinal \/ StreamStoresEvolving
  PROVE  /\ UNCHANGED <<blocks, tracker, pc, work, stream>> /\ TypeInv' /\ JobType'
         /\ job.stage \in Streaming /\ job'.stage \in Streaming \cup {"wait"}
         /\ job'.rows = job.rows /\ (job'.clean => job.clean)
         /\ job.epoch \in Epoch /\ job.epoch <= LastStreamed
         /\ StreamFreezes /\ job'.clean =>
              /\ row' = IF FirstStable(InEpoch(job.rows, job.epoch)) = {} THEN row
                        ELSE SetCandidateNonce(row, job.epoch,
                               CandidateOf(StreamNonce(job.epoch), InEpoch(job.rows, job.epoch)))
              /\ \/ job.epoch = LastStreamed /\ job'.stage = "wait"
                 \/ /\ job.epoch < LastStreamed /\ job'.epoch = job.epoch + 1
                    /\ job'.stage \in {"invalidate", "final"}
         /\ StreamFreezes => \/ job.epoch = LastStreamed /\ job'.stage = "wait"
                             \/ /\ job.epoch < LastStreamed /\ job'.epoch = job.epoch + 1
                                /\ job'.stage \in {"invalidate", "final"}
         /\ StreamInvalidates \/ StreamCachesFinal \/ StreamStoresEvolving =>
              job'.epoch = job.epoch /\ job.epoch > 0
         /\ StreamInvalidates => /\ job'.stage = "final"
                                 /\ job'.clean => row' = DeleteCandidateNonce(row, job.epoch)
         /\ StreamCachesFinal => /\ job'.stage = "evolving"
                                 /\ job'.clean => row' = SetFinalNonce(row, job.epoch, FinalNonce)
         /\ StreamStoresEvolving =>
              /\ job'.stage = "frozen"
              /\ job'.clean => row' = UpsertEvolvingNonce(row, job.epoch - 1, StreamNonce(job.epoch),
                                        Cardinality(InEpoch(job.rows, job.epoch - 1)))
<1> DEFINE e == job.epoch
           T == InEpoch(job.rows, e)
<1>1. job.stage \in Streaming /\ Replaying
  BY StageType
     DEF StreamFreezes, StreamInvalidates, StreamCachesFinal, StreamStoresEvolving, At, Replaying
<1>2. e \in Epoch /\ e <= LastStreamed /\ LastStreamed \in Epoch
  BY <1>1, LastStreamedType, EpochRange DEF ReplayInv, JobType, Job
<1>3. row \in [Epoch -> StoredRow] /\ job \in Job
  BY DEF TypeInv, JobType
<1>4. CASE StreamFreezes
  <2>1. PICK n \in IF e = LastStreamed
                   THEN {[job EXCEPT !.stage = "wait"]}
                   ELSE {[job EXCEPT !.epoch = e + 1, !.stage = s] : s \in {"invalidate", "final"}} :
          IF FirstStable(T) = {}
          THEN job' = n /\ UNCHANGED vars
          ELSE StoreCall(SetCandidateNonce(row, e, CandidateOf(StreamNonce(e), T)), n)
    BY <1>4 DEF StreamFreezes
  <2>2. e # LastStreamed => e < LastStreamed /\ e + 1 \in 0..MaxEpoch + 1
    BY <1>2, EpochRange
  <2>3. /\ n \in Job /\ n.rows = job.rows /\ n.clean = job.clean
        /\ \/ e = LastStreamed /\ n.stage = "wait"
           \/ e < LastStreamed /\ n.epoch = e + 1 /\ n.stage \in {"invalidate", "final"}
    <3>1. CASE e = LastStreamed
      <4>1. n = [job EXCEPT !.stage = "wait"]
        BY <2>1, <3>1
      <4> QED BY <1>3, <3>1, <4>1, StageType DEF Job
    <3>2. CASE e # LastStreamed
      <4>1. PICK s \in {"invalidate", "final"} : n = [job EXCEPT !.epoch = e + 1, !.stage = s]
        BY <2>1, <3>2
      <4> QED BY <1>3, <2>2, <3>2, <4>1, StageType DEF Job
    <3> QED BY <3>1, <3>2
  <2>4. CASE FirstStable(T) = {}
    <3>1. job' = n /\ UNCHANGED vars
      BY <2>1, <2>4
    <3>2. TypeInv' /\ JobType'
      BY <2>3, <3>1, TypeStep DEF JobType
    <3> QED BY <1>1, <1>2, <1>4, <2>3, <2>4, <3>1, <3>2, StageType
            DEF vars, db, StreamFreezes, StreamInvalidates, StreamCachesFinal,
                StreamStoresEvolving, At
  <2>5. CASE FirstStable(T) # {}
    <3>1. CandidateOf(StreamNonce(e), T) \in Nonce
      BY <2>5, StreamNonceType, CandidateIsNonce
    <3>2. SetCandidateNonce(row, e, CandidateOf(StreamNonce(e), T)) \in [Epoch -> StoredRow]
      BY <1>2, <1>3, <3>1, StatementTypes, EpochRange
    <3>3. StoreCall(SetCandidateNonce(row, e, CandidateOf(StreamNonce(e), T)), n)
      BY <2>1, <2>5
    <3> QED BY <1>1, <1>2, <1>4, <2>3, <2>5, <3>2, <3>3, StoreCallEffect, StageType
            DEF StreamFreezes, StreamInvalidates, StreamCachesFinal, StreamStoresEvolving, At
  <2> QED BY <2>4, <2>5
<1>5. CASE StreamInvalidates
  <2>1. DeleteCandidateNonce(row, e) \in [Epoch -> StoredRow]
    BY <1>2, <1>3, StatementTypes, GenesisType, EpochRange
  <2>2. /\ [job EXCEPT !.stage = "final"] \in Job /\ [job EXCEPT !.stage = "final"].rows = job.rows
        /\ [job EXCEPT !.stage = "final"].clean = job.clean
    BY <1>3, StageType DEF Job
  <2>3. e > 0
    BY <1>1, <1>5 DEF StreamInvalidates, At, ReplayInv
  <2> QED BY <1>1, <1>2, <1>3, <1>5, <2>1, <2>2, <2>3, StoreCallEffect, StageType
          DEF StreamFreezes, StreamInvalidates, StreamCachesFinal, StreamStoresEvolving, At, Job
<1>6. CASE StreamCachesFinal
  <2>1. SetFinalNonce(row, e, FinalNonce) \in [Epoch -> StoredRow]
    BY <1>2, <1>3, StatementTypes, GenesisType, EpochRange
  <2>2. /\ [job EXCEPT !.stage = "evolving"] \in Job
        /\ [job EXCEPT !.stage = "evolving"].rows = job.rows
        /\ [job EXCEPT !.stage = "evolving"].clean = job.clean
    BY <1>3, StageType DEF Job
  <2>3. e > 0
    BY <1>1, <1>6 DEF StreamCachesFinal, At, ReplayInv
  <2> QED BY <1>1, <1>2, <1>3, <1>6, <2>1, <2>2, <2>3, StoreCallEffect, StageType
          DEF StreamFreezes, StreamInvalidates, StreamCachesFinal, StreamStoresEvolving, At, Job
<1>7. CASE StreamStoresEvolving
  <2>1. e > 0
    BY <1>1, <1>7 DEF StreamStoresEvolving, At, ReplayInv
  <2>2. e - 1 \in Epoch
    BY <1>2, <2>1, EpochRange, EpochAssumption DEF Epoch
  <2>3. UpsertEvolvingNonce(row, e - 1, StreamNonce(e), Cardinality(InEpoch(job.rows, e - 1)))
          \in [Epoch -> StoredRow]
    BY <1>3, <2>2, StatementTypes, StreamNonceType
  <2>4. /\ [job EXCEPT !.stage = "frozen"] \in Job /\ [job EXCEPT !.stage = "frozen"].rows = job.rows
        /\ [job EXCEPT !.stage = "frozen"].clean = job.clean
    BY <1>3, StageType DEF Job
  <2> QED BY <1>1, <1>2, <1>3, <1>7, <2>1, <2>3, <2>4, StoreCallEffect, StageType
          DEF StreamFreezes, StreamInvalidates, StreamCachesFinal, StreamStoresEvolving, At, Job
<1> QED BY <1>4, <1>5, <1>6, <1>7

----------------------------------------------------------------------------
(* Initial states, and the steps of a job that change only the job.        *)

LEMMA RepairTypeInit == RepairInit => TypeInv /\ JobType
<1> SUFFICES ASSUME RepairInit PROVE TypeInv /\ JobType
  OBVIOUS
<1>1. TypeInv
  BY TypeInit DEF RepairInit
<1>2. JobType
  BY NoJobType, StageType DEF RepairInit, JobType
<1> QED BY <1>1, <1>2

LEMMA InitRepair == RepairInit => RepairInv
<1> SUFFICES ASSUME RepairInit PROVE RepairInv
  OBVIOUS
<1>1. TypeInv /\ JobType
  BY RepairTypeInit
<1>2. job.stage = "off" /\ pc = "idle" /\ chain = {} /\ phase = "sync"
  BY NoJobType, StageType DEF RepairInit, Init
<1>3. ChainInv /\ HandlerInv
  BY <1>2, FS_EmptySet DEF ChainInv, HandlerInv, OnePerSlot
<1>4. StageInv /\ GapsInv /\ RestoreInv /\ ReplayInv
  BY <1>2 DEF StageInv, GapsInv, RestoreInv, ReplayInv, At, Restoring, Replaying, Streaming, Idle
<1> QED BY <1>1, <1>3, <1>4 DEF RepairInv

(* The parts of the invariant that do not look at the job.                 *)
LEMMA JobAlone ==
  ASSUME TypeInv, ChainInv, HandlerInv, UNCHANGED vars, Restoring => Restoring' \/ Idle
  PROVE  TypeInv' /\ ChainInv' /\ HandlerInv'
<1>1. TypeInv'
  BY TypeStep
<1>2. ChainInv'
  BY DEF ChainInv, vars, stream
<1>3. Rewinding' = Rewinding /\ (Idle => ~Rewinding)
  BY DEF Rewinding, vars, Idle
<1>4. HandlerInv'
  BY <1>3 DEF HandlerInv, vars, stream, db, tracker
<1> QED BY <1>1, <1>2, <1>4

(* A job ends, or does not begin.                                          *)
LEMMA JobEnds ==
  ASSUME RepairInv, UNCHANGED vars, JobType', job'.stage = "off",
         At("startup") \/ Restoring => Idle
  PROVE  RepairInv'
<1>1. TypeInv' /\ ChainInv' /\ HandlerInv'
  BY JobAlone DEF RepairInv
<1>2. StageInv'
  BY DEF RepairInv, StageInv, At, Restoring, Replaying, Streaming, Idle, vars
<1>3. GapsInv' /\ RestoreInv' /\ ReplayInv'
  BY DEF GapsInv, RestoreInv, ReplayInv, At, Restoring, Replaying, Streaming
<1> QED BY <1>1, <1>2, <1>3 DEF RepairInv

(* An epoch whose canonical blocks are all stored has no gap.              *)
LEMMA RepairedHasNoGap ==
  ASSUME TypeInv, ChainInv, NEW e \in Epoch, Missing(e) = {}
  PROVE  ~HasGap(e)
<1> DEFINE S == Canonical(e)
           T == BlocksOf(e)
           f == [b \in S |-> CHOOSE c \in blocks : c.slot = b.slot]
<1>1. S \in SUBSET chain /\ S \in SUBSET Block /\ IsFiniteSet(T)
  BY BlocksOfType DEF Canonical, InEpoch, TypeInv, TypeOK
<1>2. ASSUME NEW b \in S PROVE f[b] \in T /\ f[b].slot = b.slot
  <2>1. \E c \in blocks : c.slot = b.slot
    BY <1>2 DEF Missing
  <2>2. f[b] \in blocks /\ f[b].slot = b.slot
    BY <1>2, <2>1
  <2>3. EpochOf[b.slot] = e
    BY <1>2 DEF Canonical, InEpoch
  <2> QED BY <2>2, <2>3 DEF BlocksOf, InEpoch
<1>3. ASSUME NEW a \in S, NEW b \in S, f[a] = f[b] PROVE a = b
  <2>1. a.slot = b.slot
    BY <1>2, <1>3
  <2> QED BY <1>1, <2>1 DEF ChainInv, OnePerSlot
<1>4. f \in [S -> T]
  BY <1>2
<1> HIDE DEF S, T, f
<1>5. f \in Injection(S, T)
  BY <1>3, <1>4 DEF Injection, IsInjective
<1>6. Cardinality(S) <= Cardinality(T)
  BY <1>1, <1>5, FS_Injection
<1>7. Cardinality(S) \in Nat /\ Cardinality(T) \in Nat
  <2>1. IsFiniteSet(S)
    BY <1>1, <1>5, FS_Injection
  <2> QED BY <1>1, <2>1, FS_CardinalityType
<1> QED BY <1>6, <1>7 DEF HasGap, S, T

LEMMA GapsKept ==
  ASSUME UNCHANGED vars
  PROVE  Tip' = Tip /\ \A e : HasGap(e)' <=> HasGap(e)
BY DEF Tip, HasGap, Canonical, BlocksOf, vars, db, stream

----------------------------------------------------------------------------
(* The steps of RepairBlockGaps.                                           *)

LEMMA RepairJobFields ==
  ASSUME JobType
  PROVE  /\ job \in Job /\ job.stage \in Stage /\ job.epoch \in 0..MaxEpoch + 1
         /\ job.from \in 0..MaxEpoch + 1 /\ job.through \in Epoch
         /\ job.rows \in SUBSET Block /\ job.clean \in BOOLEAN /\ job.backfilled \in BOOLEAN
BY DEF JobType, Job

LEMMA KeepsGapRepairStarts ==
  ASSUME RepairInv, GapRepairStarts
  PROVE  RepairInv'
<1>1. UNCHANGED vars /\ At("startup") /\ Idle /\ ~Restoring
  BY DEF GapRepairStarts, At, Restoring
<1>2. CASE job' = NoJob("off")
  <2>1. JobType' /\ job'.stage = "off"
    BY <1>2, NoJobType, StageType DEF JobType
  <2> QED BY <1>1, <2>1, JobEnds
<1>3. CASE job' = NoJob("gaps") /\ blocks # {}
  <2>1. JobType' /\ job'.stage = "gaps"
    BY <1>3, NoJobType, StageType DEF JobType
  <2>2. job'.epoch = 0 /\ job'.from = MaxEpoch + 1
    BY <1>3 DEF NoJob
  <2>3. TypeInv' /\ ChainInv' /\ HandlerInv'
    BY <1>1, JobAlone DEF RepairInv
  <2>4. StageInv'
    BY <1>1, <2>1 DEF StageInv, At, Restoring, Replaying, Streaming, Idle, vars
  <2>5. RestoreInv' /\ ReplayInv'
    BY <2>1 DEF RestoreInv, ReplayInv, Restoring, Replaying, Streaming
  <2>6. Tip' \in Epoch /\ blocks' # {}
    BY <1>1, <1>3, <2>3, GapsKept, TipType DEF RepairInv, vars, db
  <2>7. job'.from \notin Epoch
    BY <2>2, EpochRange
  <2>8. job'.epoch <= Tip' /\ \A f \in Epoch : ~(f < job'.epoch)
    BY <2>2, <2>6, EpochRange
  <2>9. GapsInv'
    BY <2>1, <2>6, <2>7, <2>8 DEF GapsInv, At
  <2> QED BY <2>1, <2>3, <2>4, <2>5, <2>9 DEF RepairInv
<1> QED BY <1>1, <1>2, <1>3 DEF GapRepairStarts

LEMMA KeepsEpochToRepair ==
  ASSUME RepairInv, EpochToRepair
  PROVE  RepairInv'
<1>1. UNCHANGED vars /\ At("gaps") /\ ~At("startup") /\ ~Restoring
  BY DEF EpochToRepair, At, Restoring
<1>2. PICK e \in GapsFrom(job.epoch) :
        /\ \A f \in GapsFrom(job.epoch) : e <= f
        /\ job' = IF First(Canonical(e)) \in Missing(e) THEN NoJob("off")
                  ELSE [job EXCEPT !.stage = "insert", !.epoch = e]
  BY DEF EpochToRepair
<1>3. e \in Epoch /\ e >= job.epoch /\ e < Tip /\ Tip \in Epoch
  BY <1>2, TipType DEF GapsFrom, RepairInv
<1>4. CASE job' = NoJob("off")
  <2>1. JobType' /\ job'.stage = "off"
    BY <1>4, NoJobType, StageType DEF JobType
  <2> QED BY <1>1, <2>1, JobEnds
<1>5. CASE job' = [job EXCEPT !.stage = "insert", !.epoch = e]
  <2>1. /\ JobType' /\ job'.stage = "insert" /\ job'.epoch = e
        /\ job'.from = job.from /\ job'.rows = job.rows
    BY <1>3, <1>5, RepairJobFields, StageType, EpochRange DEF JobType, Job, RepairInv
  <2>2. TypeInv' /\ ChainInv' /\ HandlerInv'
    BY <1>1, JobAlone DEF RepairInv
  <2>3. Idle /\ StageInv'
    BY <1>1, <2>1 DEF RepairInv, StageInv, At, Restoring, Replaying, Streaming, Idle, vars
  <2>4. RestoreInv' /\ ReplayInv'
    BY <2>1 DEF RestoreInv, ReplayInv, Restoring, Replaying, Streaming
  <2>5. ASSUME NEW f \in Epoch, f < e PROVE ~HasGap(f)
    <3>1. CASE f < job.epoch
      BY <1>1, <1>3, <2>5, <3>1, EpochRange DEF RepairInv, GapsInv, At
    <3>2. CASE f >= job.epoch
      <4>1. f < Tip /\ ~(e <= f)
        BY <1>3, <2>5, EpochRange
      <4> QED BY <1>2, <3>2, <4>1 DEF GapsFrom
    <3>3. job.epoch \in Int
      BY RepairJobFields, EpochRange DEF RepairInv
    <3> QED BY <3>1, <3>2, <3>3, EpochRange
  <2>6. /\ blocks' # {} /\ Tip' = Tip
        /\ job.from \in Epoch => job.from < Tip
    BY <1>1, GapsKept DEF RepairInv, GapsInv, At, vars, db
  <2>7. \A f \in Epoch : f < job'.epoch /\ f < Tip' => ~HasGap(f)'
    BY <1>1, <2>1, <2>5, GapsKept
  <2>8. e <= Tip /\ e < Tip
    BY <1>3, EpochRange
  <2>9. GapsInv'
    BY <2>1, <2>6, <2>7, <2>8 DEF GapsInv, At
  <2> QED BY <2>1, <2>2, <2>3, <2>4, <2>9 DEF RepairInv
<1> QED BY <1>2, <1>4, <1>5

LEMMA KeepsEpochRepaired ==
  ASSUME RepairInv, EpochRepaired
  PROVE  RepairInv'
<1>1. UNCHANGED vars /\ At("insert") /\ ~Restoring /\ Missing(job.epoch) = {}
  BY DEF EpochRepaired, At, Restoring
<1>2. job.epoch < Tip /\ Tip \in Epoch /\ job.epoch \in Epoch /\ job.epoch + 1 \in 0..MaxEpoch + 1
      /\ job.epoch + 1 <= Tip
  <2>1. Tip \in Epoch /\ job.epoch \in 0..MaxEpoch + 1
    BY TipType, RepairJobFields DEF RepairInv
  <2>2. job.epoch < Tip
    BY <1>1 DEF RepairInv, GapsInv, At
  <2> QED BY <2>1, <2>2, EpochRange
<1>3. job' = [job EXCEPT !.stage = "gaps", !.epoch = job.epoch + 1]
  BY DEF EpochRepaired
<1>4. /\ JobType' /\ job'.stage = "gaps" /\ job'.epoch = job.epoch + 1
      /\ job'.from = job.from /\ job'.rows = job.rows
  BY <1>2, <1>3, StageType DEF JobType, Job, RepairInv
<1>5. TypeInv' /\ ChainInv' /\ HandlerInv'
  BY <1>1, JobAlone DEF RepairInv
<1>6. StageInv'
  BY <1>1, <1>4 DEF RepairInv, StageInv, At, Restoring, Replaying, Streaming, Idle, vars
<1>7. RestoreInv' /\ ReplayInv'
  BY <1>4 DEF RestoreInv, ReplayInv, Restoring, Replaying, Streaming
<1>8. ASSUME NEW f \in Epoch, f < job.epoch + 1, f < Tip PROVE ~HasGap(f)
  <2>1. CASE f < job.epoch
    BY <1>1, <1>8, <2>1 DEF RepairInv, GapsInv, At
  <2>2. CASE f = job.epoch
    BY <1>1, <2>2, RepairedHasNoGap DEF RepairInv
  <2> QED BY <1>2, <1>8, <2>1, <2>2, EpochRange
<1>9. /\ blocks' # {} /\ Tip' = Tip
      /\ job.from \in Epoch => job.from < Tip
  BY <1>1, GapsKept DEF RepairInv, GapsInv, At, vars, db
<1>10. \A f \in Epoch : f < job'.epoch /\ f < Tip' => ~HasGap(f)'
  BY <1>1, <1>4, <1>8, GapsKept
<1>11. GapsInv'
  BY <1>2, <1>4, <1>9, <1>10 DEF GapsInv, At
<1> QED BY <1>4, <1>5, <1>6, <1>7, <1>11 DEF RepairInv

LEMMA KeepsGapRepairFails ==
  ASSUME RepairInv, GapRepairFails
  PROVE  RepairInv'
<1>1. UNCHANGED vars /\ ~At("startup") /\ ~Restoring
  BY DEF GapRepairFails, At, Restoring
<1>2. JobType' /\ job'.stage = "off"
  BY NoJobType, StageType DEF GapRepairFails, JobType
<1> QED BY <1>1, <1>2, JobEnds

LEMMA KeepsGapsRepaired ==
  ASSUME RepairInv, GapsRepaired
  PROVE  RepairInv'
<1>1. UNCHANGED vars /\ At("gaps") /\ ~At("startup") /\ ~Restoring /\ GapsFrom(job.epoch) = {} /\ Idle
  BY DEF GapsRepaired, At, Restoring, RepairInv, StageInv
<1>2. CASE job.from > MaxEpoch
  <2>1. JobType' /\ job'.stage = "off"
    BY <1>2, NoJobType, StageType DEF GapsRepaired, JobType
  <2> QED BY <1>1, <2>1, JobEnds
<1>3. CASE ~(job.from > MaxEpoch)
  <2>1. job.from \in Epoch /\ Tip \in Epoch /\ job.epoch \in 0..MaxEpoch + 1
    BY <1>3, RepairJobFields, TipType, EpochRange DEF RepairInv
  <2>2. job' = [job EXCEPT !.stage = "range", !.epoch = job.from, !.through = Tip]
    BY <1>3 DEF GapsRepaired
  <2>3. /\ JobType' /\ job'.stage = "range" /\ job'.epoch = job.from /\ job'.from = job.from
        /\ job'.through = Tip
    BY <2>1, <2>2, EpochRange, StageType DEF JobType, Job, RepairInv
  <2>4. TypeInv' /\ ChainInv' /\ HandlerInv'
    BY <1>1, JobAlone DEF RepairInv
  <2>5. StageInv'
    BY <1>1, <2>3 DEF RepairInv, StageInv, At, Restoring, Replaying, Streaming, Idle, vars
  <2>6. ReplayInv'
    BY <2>3 DEF ReplayInv, Replaying, Streaming
  <2>7. ASSUME NEW f \in Epoch, f < Tip PROVE ~HasGap(f)
    <3>1. CASE f < job.epoch
      BY <1>1, <2>7, <3>1 DEF RepairInv, GapsInv, At
    <3>2. CASE f >= job.epoch
      BY <1>1, <2>7, <3>2 DEF GapsFrom
    <3> QED BY <2>1, <3>1, <3>2, EpochRange
  <2>8. blocks' # {} /\ Tip' = Tip /\ job.from < Tip
    BY <1>1, <2>1, GapsKept DEF RepairInv, GapsInv, At, vars, db
  <2>9. \A f \in Epoch : f < Tip' => ~HasGap(f)'
    BY <1>1, <2>7, <2>8, GapsKept
  <2>10. GapsInv'
    BY <2>1, <2>3, <2>8, <2>9 DEF GapsInv, At
  <2>11. Idle' /\ pc' # "candidate" /\ Base' = job.from /\ Last' = job.from - 1
    BY <1>1, <2>3 DEF Idle, vars, Base, Last, At
  <2>12. job.from \in Int /\ Tip \in Int
    BY <2>1, EpochRange
  <2>13. ~(job.from > job.from) /\ job.from <= job.from /\ job.from <= Tip + 1 /\ job.from <= Tip
         /\ job.from .. (job.from - 1) = {}
    BY <2>8, <2>12
  <2>14. RestoreInv'
    BY <2>3, <2>11, <2>13 DEF RestoreInv
  <2> QED BY <2>3, <2>4, <2>5, <2>6, <2>10, <2>14 DEF RepairInv
<1> QED BY <1>2, <1>3

LEMMA KeepsInsertMissing ==
  ASSUME RepairInv, InsertMissing
  PROVE  RepairInv'
<1> DEFINE b == First(Missing(job.epoch))
<1>1. /\ At("insert") /\ Missing(job.epoch) # {} /\ blocks' = blocks \cup {b} /\ Idle
      /\ UNCHANGED <<row, tracker, pc, work, stream>>
      /\ job' = [job EXCEPT !.from = IF job.epoch < job.from THEN job.epoch ELSE job.from]
  BY DEF InsertMissing, At, RepairInv, StageInv
<1>2. job.epoch < Tip /\ Tip \in Epoch /\ job.epoch \in Epoch /\ job.from \in 0..MaxEpoch + 1
      /\ blocks # {} /\ (job.from \in Epoch => job.from < Tip)
  <2>1. Tip \in Epoch /\ job.epoch \in 0..MaxEpoch + 1 /\ job.from \in 0..MaxEpoch + 1
    BY TipType, RepairJobFields DEF RepairInv
  <2>2. job.epoch < Tip /\ blocks # {} /\ (job.from \in Epoch => job.from < Tip)
    BY <1>1 DEF RepairInv, GapsInv, At
  <2> QED BY <2>1, <2>2, EpochRange
<1>3. b \in Block /\ EpochOf[b.slot] = job.epoch
  BY <1>1, <1>2, FirstMissing DEF RepairInv, ChainInv
<1> HIDE DEF b
<1>4. blocks' \in SUBSET Block /\ IsFiniteSet(blocks')
  BY <1>1, <1>3, FS_AddElement DEF RepairInv, TypeInv, TypeOK
<1>5. TypeInv'
  BY <1>1, <1>4 DEF RepairInv, TypeInv, TypeOK, tracker, stream, Idle
<1>6. /\ JobType' /\ job'.stage = "insert" /\ job'.epoch = job.epoch
      /\ job'.from = job.epoch \/ job'.from = job.from
  BY <1>1, <1>2, EpochRange DEF JobType, Job, RepairInv, At
<1>7. ChainInv'
  BY <1>1 DEF ChainInv, RepairInv, stream
<1>8. HandlerInv'
  BY <1>1 DEF HandlerInv, Idle, Rewinding
<1>9. StageInv'
  BY <1>1, <1>6 DEF RepairInv, StageInv, At, Restoring, Replaying, Streaming, Idle
<1>10. RestoreInv' /\ ReplayInv'
  BY <1>6 DEF RestoreInv, ReplayInv, Restoring, Replaying, Streaming
<1>11. Tip' = Tip
  <2>0. /\ Tip' \in Epoch /\ \A c \in blocks' : EpochOf[c.slot] <= Tip'
        /\ \E c \in blocks' : EpochOf[c.slot] = Tip'
    <3>1. blocks' # {}
      BY <1>1
    <3> QED BY <1>4, <3>1, LastEpochOf DEF Tip
  <2>1. PICK l \in blocks : EpochOf[l.slot] = Tip
    BY <1>2, TipType DEF RepairInv
  <2>2. PICK m \in blocks' : EpochOf[m.slot] = Tip'
    BY <2>0
  <2>3. Tip <= Tip'
    BY <1>1, <2>0, <2>1
  <2>4. Tip' <= Tip
    <3>1. CASE m = b
      BY <1>2, <1>3, <2>2, <3>1, EpochRange
    <3>2. CASE m \in blocks
      BY <2>2, <3>2, TipType DEF RepairInv
    <3> QED BY <1>1, <3>1, <3>2
  <2> QED BY <1>2, <2>0, <2>3, <2>4, EpochRange
<1>12. ASSUME NEW f \in Epoch, f # job.epoch PROVE HasGap(f)' <=> HasGap(f)
  <2>1. BlocksOf(f)' = BlocksOf(f)
    BY <1>1, <1>3, <1>12 DEF BlocksOf, InEpoch
  <2>2. Canonical(f)' = Canonical(f)
    BY <1>1 DEF Canonical, stream
  <2> QED BY <2>1, <2>2 DEF HasGap
<1>13. \A f \in Epoch : f < job.epoch => f # job.epoch
  BY <1>2, EpochRange
<1>14. \A f \in Epoch : f < job'.epoch /\ f < Tip' => ~HasGap(f)'
  BY <1>1, <1>6, <1>11, <1>12, <1>13 DEF RepairInv, GapsInv, At
<1>15. job.epoch <= Tip
  BY <1>2, EpochRange
<1>16. job'.from \in Epoch => job'.from < Tip'
  BY <1>2, <1>6, <1>11
<1>17. GapsInv'
  BY <1>1, <1>2, <1>6, <1>11, <1>14, <1>15, <1>16 DEF GapsInv, At
<1> QED BY <1>5, <1>6, <1>7, <1>8, <1>9, <1>10, <1>17 DEF RepairInv

----------------------------------------------------------------------------
(* The steps of RecomputeEpochRange and reseedFromBackfill.                *)

LEMMA RightKept ==
  ASSUME UNCHANGED blocks, NEW f, row'[f] = row[f]
  PROVE  /\ RowRight(f)' <=> RowRight(f)
         /\ CandidateRight(f)' <=> CandidateRight(f)
         /\ Right(f)' <=> Right(f)
<1>1. RowRight(f)' <=> RowRight(f)
  BY DEF RowRight, BlocksOf, UpTo
<1>2. CandidateRight(f)' <=> CandidateRight(f)
  BY DEF CandidateRight, BlocksOf, UpTo
<1> QED BY <1>1, <1>2 DEF Right

(* A step that leaves the rows before the last streamed epoch alone.       *)
LEMMA StreamRightKept ==
  ASSUME JobType, ReplayInv, Replaying, job'.rows = job.rows, job'.stage = job.stage,
         job.stage \in Streaming => job'.epoch = job.epoch,
         \A f \in Epoch : f < LastStreamed => row'[f] = row[f],
         StreamRight
  PROVE  StreamRight'
<1>1. LastStreamed' = LastStreamed /\ LastStreamed \in Epoch
  BY LastStreamedType DEF LastStreamed
<1>2. RowsUpTo' = RowsUpTo /\ CandidatesUpTo' = CandidatesUpTo
  BY <1>1, StageType DEF RowsUpTo, CandidatesUpTo, At
<1>3. job.stage \in Streaming => job.epoch \in Epoch /\ job.epoch <= LastStreamed
  BY <1>1, RepairJobFields, EpochRange DEF ReplayInv
<1>4. ASSUME NEW f \in Epoch, f < RowsUpTo \/ f < CandidatesUpTo PROVE f < LastStreamed
  BY <1>1, <1>3, <1>4, EpochRange, StageType DEF RowsUpTo, CandidatesUpTo, At
<1>5. ASSUME NEW f \in Epoch, f < RowsUpTo'
      PROVE  /\ row'[f].evolving = ChainNonce(Through(job'.rows, f))
             /\ row'[f].count = Cardinality(InEpoch(job'.rows, f))
  BY <1>2, <1>4, <1>5 DEF StreamRight
<1>6. ASSUME NEW f \in Epoch, f < CandidatesUpTo', FirstStable(InEpoch(job'.rows, f)) # {}
      PROVE  row'[f].candidate
               = CandidateOf(ChainNonce(Through(job'.rows, f - 1)), InEpoch(job'.rows, f))
  BY <1>2, <1>4, <1>6 DEF StreamRight
<1> QED BY <1>5, <1>6 DEF StreamRight

(* What holds of the job while epochs are restored.                        *)
LEMMA RestoringFields ==
  ASSUME RepairInv, Restoring
  PROVE  /\ Base \in Epoch /\ job.epoch \in Int /\ job.through \in Epoch
         /\ Base <= job.epoch /\ job.epoch <= job.through + 1
         /\ ~Idle => /\ work.epoch \in Epoch /\ Base <= work.epoch /\ work.epoch = job.epoch - 1
                     /\ work.through = work.epoch
         /\ job.stage \in {"range", "reseed"} /\ job.stage \notin Streaming
         /\ ~At("startup") /\ ~At("off") /\ ~At("gaps") /\ ~At("insert") /\ ~At("wait")
<1>1. Base \in Epoch
  BY LastStreamedType DEF Base, RepairInv, GapsInv
<1>2. job.epoch \in Int /\ job.through \in Epoch
  BY RepairJobFields, EpochRange DEF RepairInv
<1>3. /\ Base <= job.epoch /\ job.epoch <= job.through + 1
      /\ ~Idle => Base < job.epoch /\ work.epoch = job.epoch - 1 /\ work.through = work.epoch
  BY DEF RepairInv, RestoreInv
<1>4. ~Idle => work.epoch \in Epoch /\ Base <= work.epoch
  <2>1. Base \in Int /\ Base >= 0 /\ job.through \in Int /\ job.through <= MaxEpoch /\ MaxEpoch \in Int
    BY <1>1, <1>2, EpochRange
  <2> QED BY <1>2, <1>3, <2>1 DEF Epoch
<1> QED BY <1>1, <1>2, <1>3, <1>4, StageType DEF Restoring, At

LEMMA KeepsRestoreNext ==
  ASSUME RepairInv, RestoreNext
  PROVE  RepairInv'
<1>1. /\ Restoring /\ Idle /\ job.epoch <= job.through /\ UNCHANGED <<db, tracker, stream>>
      /\ pc' = "restore" /\ work' = [NoWork EXCEPT !.epoch = job.epoch, !.through = job.epoch]
      /\ job' = [job EXCEPT !.epoch = job.epoch + 1]
  BY DEF RestoreNext, RecomputeCurrentEpochNonce
<1>2. job.epoch \in Epoch /\ job.epoch \in Int /\ job.through \in Int /\ Base \in Int
      /\ job.epoch + 1 \in 0..MaxEpoch + 1
  BY <1>1, RestoringFields, RepairJobFields, EpochRange DEF RepairInv
<1>3. JobType' /\ job'.stage = job.stage /\ job'.epoch = job.epoch + 1 /\ job'.rows = job.rows
      /\ job'.through = job.through /\ job'.from = job.from /\ job'.clean = job.clean
  BY <1>1, <1>2 DEF JobType, Job, RepairInv
<1>4. TypeInv'
  <2>1. work' \in [block : Block \cup {NoBlock}, epoch : Epoch, through : Epoch,
                   eta : Nonce, candidate : Nonce \cup {NoNonce}]
    BY <1>1, <1>2, NoWorkType
  <2> QED BY <1>1, <2>1, TypeFrame DEF RepairInv, TypeInv, TypeOK, db, tracker, stream
<1>5. ChainInv' /\ HandlerInv'
  BY <1>1, <1>3 DEF ChainInv, HandlerInv, Rewinding, Restoring, RepairInv, stream
<1>6. StageInv' /\ GapsInv'
  <2>1. Tip' = Tip /\ (\A e : HasGap(e)' <=> HasGap(e))
    BY <1>1 DEF Tip, HasGap, Canonical, BlocksOf, db, stream
  <2>2. StageInv'
    BY <1>1, <1>3, RestoringFields
       DEF RepairInv, StageInv, At, Restoring, Replaying, Streaming, Idle, stream
  <2>3. GapsInv'
    BY <1>1, <1>3, <2>1, RestoringFields DEF RepairInv, GapsInv, At, db
  <2> QED BY <2>2, <2>3
<1>7. RestoreInv'
  <2>1. Base' = Base /\ Last' = job.epoch - 1 /\ Last = job.epoch - 1 /\ ~Idle' /\ Restoring'
    BY <1>1, <1>2, <1>3 DEF Base, Last, At, LastStreamed, Idle, Restoring
  <2>2. work'.epoch = job.epoch /\ work'.through = job.epoch
    BY <1>1 DEF NoWork
  <2>3. \A f : /\ RowRight(f)' <=> RowRight(f)
               /\ Right(f)' <=> Right(f)
    BY <1>1, RightKept DEF db
  <2>4. Base <= job.epoch /\ Base <= job.through
    BY <1>1 DEF RepairInv, RestoreInv
  <2>5. /\ Base <= job.epoch + 1 /\ job.epoch + 1 <= job.through + 1 /\ Base < job.epoch + 1
        /\ job.epoch = (job.epoch + 1) - 1
    BY <1>1, <1>2, <2>4
  <2>6. ReadsSucceed /\ (Base > 0 => RowRight(Base - 1)) => \A e \in Base..Last : Right(e)
    BY <1>1 DEF RepairInv, RestoreInv
  <2> QED BY <1>1, <1>3, <2>1, <2>2, <2>3, <2>4, <2>5, <2>6 DEF RestoreInv
<1>8. ReplayInv'
  <2>1. CASE At("reseed") /\ job.clean
    <3>1. Replaying /\ StreamRight /\ BesideInv
      BY <2>1 DEF Replaying, At, RepairInv, ReplayInv
    <3>2. StreamRight'
      BY <1>1, <1>3, <3>1, StreamRightKept, RestoringFields DEF db, RepairInv
    <3>3. BesideInv'
      BY <1>1, <1>3, <2>1, <3>1 DEF BesideInv, LastStreamed, db, stream, At
    <3> QED BY <1>3, <2>1, <3>2, <3>3, StageType DEF ReplayInv, At
  <2> QED BY <1>1, <1>3, <2>1, StageType DEF ReplayInv, Restoring, Replaying, At
<1> QED BY <1>3, <1>4, <1>5, <1>6, <1>7, <1>8 DEF RepairInv

(* The frame of the two steps below: only the row of work.epoch and the    *)
(* tracker change.                                                         *)
LEMMA RestoreFrame ==
  ASSUME RepairInv, Restoring, ~Idle, TypeInv', UNCHANGED <<blocks, stream, job>>,
         \A f \in Epoch : f # work.epoch => row'[f] = row[f],
         pc' \in {"idle", "candidate"}
  PROVE  /\ JobType' /\ ChainInv' /\ HandlerInv' /\ StageInv' /\ GapsInv' /\ ReplayInv'
         /\ Restoring' /\ Base' = Base
<1>1. JobType' /\ ChainInv' /\ Restoring'
  BY DEF RepairInv, JobType, ChainInv, stream, Restoring
<1>2. HandlerInv'
  BY <1>1 DEF HandlerInv
<1>3. Base' = Base /\ Tip' = Tip /\ (\A e : HasGap(e)' <=> HasGap(e))
  BY DEF Base, At, LastStreamed, Tip, HasGap, Canonical, BlocksOf, stream
<1>4. StageInv' /\ GapsInv'
  <2>1. StageInv'
    BY <1>1, RestoringFields DEF RepairInv, StageInv, At, Restoring, Replaying, Streaming, stream, Idle
  <2>2. GapsInv'
    BY <1>3 DEF RepairInv, GapsInv, At
  <2> QED BY <2>1, <2>2
<1>5. ReplayInv'
  <2>1. CASE At("reseed") /\ job.clean
    <3>1. Replaying /\ StreamRight /\ BesideInv
      BY <2>1 DEF Replaying, At, RepairInv, ReplayInv
    <3>2. LastStreamed \in Epoch /\ LastStreamed <= work.epoch /\ work.epoch \in Epoch
      BY <2>1, RestoringFields, StageType DEF Base, At
    <3>3. \A f \in Epoch : f < LastStreamed => f # work.epoch
      BY <3>2, EpochRange
    <3>4. StreamRight'
      BY <3>1, <3>3, StreamRightKept DEF RepairInv
    <3>5. BesideInv'
      BY <2>1, <3>1 DEF BesideInv, LastStreamed, stream, At
    <3> QED BY <2>1, <3>4, <3>5, StageType DEF ReplayInv, At
  <2> QED BY <2>1, StageType DEF ReplayInv, Restoring, Replaying, At
<1> QED BY <1>1, <1>2, <1>3, <1>4, <1>5

(* The nonce and the candidate of an epoch follow from the row before it.  *)
LEMMA SeedOfRow ==
  ASSUME TypeInv, ReadsSucceed, NEW e \in Epoch, e > 0 => RowRight(e - 1),
         NEW prev \in GetEvolvingNonce(row, e - 1)
  PROVE  /\ Seed(prev) = ChainNonce(UpTo(e - 1))
         /\ EvolveAll(Seed(prev), BlocksOf(e)) = ChainNonce(UpTo(e))
<1>1. blocks \in SUBSET Block
  BY DEF TypeInv, TypeOK
<1>2. \A c \in blocks : EpochOf[c.slot] \in Int /\ EpochOf[c.slot] >= 0
  BY <1>1, BlockSlot, EpochRange
<1>3. e \in Int /\ e >= 0
  BY EpochRange
<1>4. UpTo(e - 1) \in SUBSET Block /\ BlocksOf(e) \in SUBSET Block
  BY <1>1 DEF UpTo, Through, BlocksOf, InEpoch
<1>5. Seed(prev) = ChainNonce(UpTo(e - 1))
  <2>1. CASE e = 0
    <3>1. e - 1 \notin Epoch
      BY <2>1, EpochRange
    <3>2. prev = NoRow
      BY <3>1 DEF GetEvolvingNonce, ReadsSucceed, Fails
    <3>3. UpTo(e - 1) = {}
      BY <1>2, <2>1 DEF UpTo, Through
    <3> QED BY <3>2, <3>3, ChainNonceEmpty DEF Seed, NoRow
  <2>2. CASE e # 0
    <3>1. e > 0 /\ e - 1 \in Epoch
      BY <1>3, <2>2, EpochAssumption DEF Epoch
    <3>2. prev = row[e - 1]
      BY <3>1 DEF GetEvolvingNonce, ReadsSucceed, Fails
    <3>3. prev.evolving = ChainNonce(UpTo(e - 1))
      BY <3>1, <3>2 DEF RowRight
    <3>4. ChainNonce(UpTo(e - 1)) # NoNonce
      BY <1>4, ChainNonceType
    <3> QED BY <3>3, <3>4 DEF Seed
  <2> QED BY <2>1, <2>2
<1>6. UpTo(e) = UpTo(e - 1) \cup BlocksOf(e)
  BY <1>2, <1>3 DEF UpTo, Through, BlocksOf, InEpoch
<1>7. \A a \in UpTo(e - 1), b \in BlocksOf(e) : a.slot < b.slot
  <2>1. ASSUME NEW a \in UpTo(e - 1), NEW b \in BlocksOf(e) PROVE a.slot < b.slot
    <3>1. a \in Block /\ b \in Block /\ EpochOf[a.slot] < EpochOf[b.slot]
      BY <1>1, <1>2, <1>3 DEF UpTo, Through, BlocksOf, InEpoch
    <3> QED BY <3>1, EpochMonotone
  <2> QED BY <2>1
<1>8. EvolveAll(ChainNonce(UpTo(e - 1)), BlocksOf(e)) = ChainNonce(UpTo(e - 1) \cup BlocksOf(e))
  BY <1>4, <1>7, EvolveAllLast
<1> QED BY <1>5, <1>6, <1>8

LEMMA KeepsRestoreEvolving ==
  ASSUME RepairInv, Restoring, UNCHANGED job, RestoreEvolving, pc' = "candidate"
  PROVE  RepairInv'
<1> PICK e, d : e = work.epoch /\ d = Base
  OBVIOUS
<1>1. PICK prev \in GetEvolvingNonce(row, e - 1) :
        work' = [work EXCEPT !.eta = EvolveAll(Seed(prev), BlocksOf(e)),
                             !.candidate = CandidateOf(Seed(prev), BlocksOf(e))]
  BY DEF RestoreEvolving, RewindFails, Finish
<1>2. /\ pc = "restore" /\ ~Idle /\ UNCHANGED <<blocks, stream, tracker>>
      /\ row' = UpsertEvolvingNonce(row, e, work'.eta, Cardinality(BlocksOf(e)))
  BY DEF RestoreEvolving, RewindFails, Finish, Idle
<1>3. TypeInv'
  BY TypeRestoreEvolving DEF RepairInv
<1>4. e \in Epoch /\ Base <= e /\ e = job.epoch - 1 /\ work.through = e /\ Base \in Epoch
      /\ Base <= job.epoch /\ job.epoch <= job.through + 1 /\ job.epoch \in Int /\ job.through \in Epoch
  BY <1>2, RestoringFields
<1>5. row \in [Epoch -> StoredRow]
  BY DEF RepairInv, TypeInv
<1>6. /\ \A f \in Epoch : f # e => row'[f] = row[f]
      /\ row'[e].evolving = work'.eta /\ row'[e].count = Cardinality(BlocksOf(e))
  BY <1>2, <1>4, <1>5 DEF UpsertEvolvingNonce, StoredRow, Row
<1>7. work'.epoch = e /\ work'.through = e
      /\ work'.eta = EvolveAll(Seed(prev), BlocksOf(e))
      /\ work'.candidate = CandidateOf(Seed(prev), BlocksOf(e))
  BY <1>1, <1>4 DEF RepairInv, TypeInv, TypeOK
<1>8. /\ JobType' /\ ChainInv' /\ HandlerInv' /\ StageInv' /\ GapsInv' /\ ReplayInv'
      /\ Restoring' /\ Base' = Base
  BY <1>2, <1>3, <1>6, RestoreFrame
<1>9. ~Idle' /\ Last' = job.epoch - 2 /\ Last = job.epoch - 2
  BY <1>2 DEF Idle, Last
<1>10. ASSUME ReadsSucceed, d > 0 => RowRight(d - 1)'
       PROVE  /\ \A f \in d..(job.epoch - 2) : Right(f)'
              /\ RowRight(e)' /\ work'.eta = ChainNonce(UpTo(e))
              /\ work'.candidate = CandidateOf(ChainNonce(UpTo(e - 1)), BlocksOf(e))
  <2>1. d > 0 => RowRight(d - 1)
    <3>1. d > 0 => d - 1 \in Epoch /\ d - 1 # e
      BY <1>4, EpochRange, EpochAssumption DEF Epoch
    <3> QED BY <1>2, <1>6, <1>10, <3>1, RightKept
  <2>2. \A f \in d..(job.epoch - 2) : Right(f)
    BY <1>9, <1>10, <2>1 DEF RepairInv, RestoreInv
  <2>3. \A f \in d..(job.epoch - 2) : f \in Epoch /\ f # e
    BY <1>4, EpochRange, EpochAssumption DEF Epoch
  <2>4. e > 0 => RowRight(e - 1)
    <3>1. CASE e = d
      BY <2>1, <3>1
    <3>2. CASE e # d
      <4>1. e - 1 \in d..(job.epoch - 2)
        BY <1>4, <3>2, EpochRange
      <4> QED BY <2>2, <4>1 DEF Right
    <3> QED BY <3>1, <3>2
  <2>5. /\ Seed(prev) = ChainNonce(UpTo(e - 1))
        /\ EvolveAll(Seed(prev), BlocksOf(e)) = ChainNonce(UpTo(e))
    BY <1>4, <1>10, <2>4, SeedOfRow DEF RepairInv
  <2>6. RowRight(e)'
    BY <1>2, <1>6, <1>7, <2>5 DEF RowRight, BlocksOf, UpTo
  <2>7. \A f \in d..(job.epoch - 2) : Right(f)'
    BY <1>2, <1>6, <2>2, <2>3, RightKept
  <2> QED BY <1>7, <2>5, <2>6, <2>7
<1>11. /\ (UpTo(e))' = UpTo(e) /\ UpTo(e - 1)' = UpTo(e - 1) /\ BlocksOf(e)' = BlocksOf(e)
  BY <1>2 DEF UpTo, BlocksOf
<1>12. RestoreInv'
  <2>1. Base <= job.through /\ Base < job.epoch
    BY <1>2 DEF RepairInv, RestoreInv
  <2>2. ReadsSucceed /\ (d > 0 => RowRight(d - 1)') =>
          /\ \A f \in d..(job.epoch - 2) : Right(f)'
          /\ RowRight(e)' /\ work'.eta = ChainNonce(UpTo(e)')
          /\ work'.candidate = CandidateOf(ChainNonce(UpTo(e - 1)'), BlocksOf(e)')
    BY <1>10, <1>11
  <2> QED BY <1>4, <1>7, <1>8, <1>9, <2>1, <2>2 DEF RestoreInv
<1> QED BY <1>3, <1>8, <1>12 DEF RepairInv

LEMMA KeepsRestoreCandidate ==
  ASSUME RepairInv, Restoring, UNCHANGED job, RestoreCandidate, Restored
  PROVE  RepairInv'
<1> PICK e, d : e = work.epoch /\ d = Base
  OBVIOUS
<1>1. /\ pc = "candidate" /\ ~Idle /\ UNCHANGED <<blocks, stream>>
      /\ etaV' = work.eta /\ currentEpoch' = e /\ row'[e].candidate = work.candidate
  BY DEF RestoreCandidate, Restored, Idle
<1>2. TypeInv' /\ row \in [Epoch -> StoredRow] /\ work.candidate \in Nonce \cup {NoNonce}
  BY TypeRestoreCandidate DEF RepairInv, TypeInv, TypeOK
<1>3. e \in Epoch /\ d <= e /\ e = job.epoch - 1 /\ work.through = e /\ d \in Epoch
      /\ d <= job.epoch /\ job.epoch <= job.through + 1 /\ job.epoch \in Int /\ job.through \in Epoch
  BY <1>1, RestoringFields
<1>4. pc' = "idle"
  <2>1. ~(e < work.through)
    BY <1>3, EpochRange
  <2> QED BY <2>1 DEF RestoreCandidate, RewindFails, Finish
<1>5. row' \in {row, DeleteCandidateNonce(row, e), SetCandidateNonce(row, e, work.candidate)}
  BY DEF RestoreCandidate, RewindFails
<1>6. /\ \A f \in Epoch : f # e => row'[f] = row[f]
      /\ row'[e].count = row[e].count
      /\ row[e].evolving # NoNonce => row'[e].evolving = row[e].evolving
  BY <1>2, <1>3, <1>5 DEF SetCandidateNonce, DeleteCandidateNonce, OrCreate, StoredRow, Row
<1>7. /\ JobType' /\ ChainInv' /\ HandlerInv' /\ StageInv' /\ GapsInv' /\ ReplayInv'
      /\ Restoring' /\ Base' = Base
  BY <1>1, <1>2, <1>4, <1>6, RestoreFrame
<1>8. Idle' /\ Last' = job.epoch - 1 /\ Last = job.epoch - 2
  BY <1>1, <1>4 DEF Idle, Last
<1>9. ASSUME ReadsSucceed, d > 0 => RowRight(d - 1)'
      PROVE  /\ \A f \in d..(job.epoch - 1) : Right(f)'
             /\ etaV' = ChainNonce(UpTo(e))
  <2>1. d > 0 => RowRight(d - 1)
    <3>1. d > 0 => d - 1 \in Epoch /\ d - 1 # e
      BY <1>3, EpochRange, EpochAssumption DEF Epoch
    <3> QED BY <1>1, <1>6, <1>9, <3>1, RightKept
  <2>2. /\ \A f \in d..(job.epoch - 2) : Right(f)
        /\ RowRight(e) /\ work.eta = ChainNonce(UpTo(e))
        /\ work.candidate = CandidateOf(ChainNonce(UpTo(e - 1)), BlocksOf(e))
    BY <1>1, <1>8, <1>9, <2>1 DEF RepairInv, RestoreInv
  <2>3. \A f \in d..(job.epoch - 2) : f \in Epoch /\ f # e
    BY <1>3, EpochRange, EpochAssumption DEF Epoch
  <2>4. \A f \in d..(job.epoch - 2) : Right(f)'
    BY <1>1, <1>6, <2>2, <2>3, RightKept
  <2>5. UpTo(e) \in SUBSET Block
    BY DEF UpTo, Through, RepairInv, TypeInv, TypeOK
  <2>6. row'[e].evolving = row[e].evolving
    BY <1>6, <2>2, <2>5, ChainNonceType DEF RowRight
  <2>7. RowRight(e)'
    BY <1>1, <1>6, <2>2, <2>6 DEF RowRight, BlocksOf, UpTo
  <2>8. CandidateRight(e)'
    BY <1>1, <2>2 DEF CandidateRight, BlocksOf, UpTo
  <2>9. \A f \in d..(job.epoch - 1) : f = e \/ f \in d..(job.epoch - 2)
    BY <1>3, EpochRange
  <2>10. \A f \in d..(job.epoch - 1) : Right(f)'
    BY <2>4, <2>7, <2>8, <2>9 DEF Right
  <2> QED BY <1>1, <2>2, <2>10
<1>10. (UpTo(e))' = UpTo(e)
  BY <1>1 DEF UpTo
<1>11. RestoreInv'
  <2>1. Base <= job.through
    BY <1>1 DEF RepairInv, RestoreInv
  <2>2. ReadsSucceed /\ (d > 0 => RowRight(d - 1)') =>
          \A f \in d..(job.epoch - 1) : Right(f)' /\ etaV' = ChainNonce(UpTo(e)')
    BY <1>9, <1>10
  <2>3. ReadsSucceed /\ (d > 0 => RowRight(d - 1)') => etaV' = ChainNonce(UpTo(job.epoch - 1)')
    BY <1>3, <1>9, <1>10
  <2> QED BY <1>1, <1>3, <1>4, <1>7, <1>8, <2>1, <2>2, <2>3 DEF RestoreInv
<1> QED BY <1>2, <1>7, <1>11 DEF RepairInv

LEMMA KeepsRestoreStep ==
  ASSUME RepairInv, RestoreStep
  PROVE  RepairInv'
BY KeepsRestoreEvolving, KeepsRestoreCandidate DEF RestoreStep

LEMMA KeepsRestoreFails ==
  ASSUME RepairInv, RestoreFails
  PROVE  RepairInv'
<1>1. /\ Restoring /\ pc' = "idle" /\ work' = NoWork /\ UNCHANGED <<db, tracker, stream>>
  BY DEF RestoreFails, Finish
<1>2. JobType' /\ job'.stage = "off"
  BY NoJobType, StageType, RepairJobFields DEF RestoreFails, JobType, RepairInv
<1>3. TypeInv'
  BY <1>1, NoWorkType, TypeFrame DEF RepairInv, TypeInv, TypeOK, db, tracker, stream
<1>4. ChainInv' /\ HandlerInv'
  BY <1>1 DEF ChainInv, HandlerInv, Rewinding, RepairInv, stream
<1>5. StageInv' /\ GapsInv' /\ RestoreInv' /\ ReplayInv'
  BY <1>1, <1>2 DEF StageInv, GapsInv, RestoreInv, ReplayInv, At, Restoring, Replaying, Streaming, Idle
<1> QED BY <1>2, <1>3, <1>4, <1>5 DEF RepairInv

LEMMA KeepsRangeRestored ==
  ASSUME RepairInv, RangeRestored
  PROVE  RepairInv'
<1>1. UNCHANGED vars /\ Idle
  BY DEF RangeRestored
<1>2. JobType' /\ job'.stage = "off"
  BY NoJobType, StageType, RepairJobFields DEF RangeRestored, JobType, RepairInv
<1> QED BY <1>1, <1>2, JobEnds

----------------------------------------------------------------------------
(* The steps of the stream.                                                *)

(* The rows and candidates of the epochs before e that the step leaves     *)
(* alone.                                                                  *)
RowsTo(r, e) ==
  \A f \in Epoch : f < e => /\ r[f].evolving = ChainNonce(Through(job.rows, f))
                            /\ r[f].count = Cardinality(InEpoch(job.rows, f))

CandidatesTo(r, e) ==
  \A f \in Epoch : f < e /\ FirstStable(InEpoch(job.rows, f)) # {} =>
    r[f].candidate = CandidateOf(ChainNonce(Through(job.rows, f - 1)), InEpoch(job.rows, f))

LEMMA StreamRightIs ==
  /\ StreamRight <=> RowsTo(row, RowsUpTo) /\ CandidatesTo(row, CandidatesUpTo)
  /\ job'.rows = job.rows =>
       (RowsTo(row', RowsUpTo') /\ CandidatesTo(row', CandidatesUpTo') => StreamRight')
<1>1. StreamRight <=> RowsTo(row, RowsUpTo) /\ CandidatesTo(row, CandidatesUpTo)
  BY DEF StreamRight, RowsTo, CandidatesTo
<1>2. ASSUME job'.rows = job.rows, RowsTo(row', RowsUpTo'), CandidatesTo(row', CandidatesUpTo')
      PROVE  StreamRight'
  <2>1. ASSUME NEW f \in Epoch, f < RowsUpTo'
        PROVE  /\ row'[f].evolving = ChainNonce(Through(job'.rows, f))
               /\ row'[f].count = Cardinality(InEpoch(job'.rows, f))
    BY <1>2, <2>1 DEF RowsTo
  <2>2. ASSUME NEW f \in Epoch, f < CandidatesUpTo', FirstStable(InEpoch(job'.rows, f)) # {}
        PROVE  row'[f].candidate
                 = CandidateOf(ChainNonce(Through(job'.rows, f - 1)), InEpoch(job'.rows, f))
    BY <1>2, <2>2 DEF CandidatesTo
  <2> QED BY <2>1, <2>2 DEF StreamRight
<1> QED BY <1>1, <1>2

LEMMA FreezesRight ==
  ASSUME TypeInv, JobType, ReplayInv, StreamFreezes, job'.clean, StreamRight
  PROVE  StreamRight'
<1> PICK e : e = job.epoch
  OBVIOUS
<1>1. /\ e \in Epoch /\ e <= LastStreamed /\ LastStreamed \in Epoch /\ job'.rows = job.rows
      /\ row' = IF FirstStable(InEpoch(job.rows, e)) = {} THEN row
                ELSE SetCandidateNonce(row, e, CandidateOf(StreamNonce(e), InEpoch(job.rows, e)))
      /\ \/ e = LastStreamed /\ job'.stage = "wait"
         \/ e < LastStreamed /\ job'.epoch = e + 1 /\ job'.stage \in {"invalidate", "final"}
  BY StreamEffect, LastStreamedType
<1>2. job.stage = "frozen" /\ row \in [Epoch -> StoredRow]
  BY DEF StreamFreezes, At, TypeInv
<1>3. LastStreamed' = LastStreamed
  BY <1>1 DEF LastStreamed
<1>4. RowsUpTo = e /\ CandidatesUpTo = e
  BY <1>2, StageType DEF RowsUpTo, CandidatesUpTo, At
<1>5. RowsUpTo' = e /\ (CandidatesUpTo' = e \/ CandidatesUpTo' = e + 1)
  <2>1. CASE e = LastStreamed /\ job'.stage = "wait"
    BY <1>3, <2>1, StageType DEF RowsUpTo, CandidatesUpTo, At
  <2>2. CASE job'.epoch = e + 1 /\ job'.stage \in {"invalidate", "final"}
    <3>1. RowsUpTo' = (e + 1) - 1 /\ CandidatesUpTo' = e + 1
      BY <2>2, StageType DEF RowsUpTo, CandidatesUpTo, At
    <3> QED BY <1>1, <3>1, EpochRange
  <2> QED BY <1>1, <2>1, <2>2
<1>6. RowsTo(row, e) /\ CandidatesTo(row, e)
  BY <1>4, StreamRightIs
<1>7. /\ \A f \in Epoch \ {e} : row'[f] = row[f]
      /\ FirstStable(InEpoch(job.rows, e)) # {} =>
           row'[e].candidate = CandidateOf(StreamNonce(e), InEpoch(job.rows, e))
  BY <1>1, <1>2 DEF SetCandidateNonce, StoredRow, Row
<1>8. \A f \in Epoch : f < e => f # e
  BY <1>1, EpochRange
<1>9. RowsTo(row', e)
  BY <1>6, <1>7, <1>8 DEF RowsTo
<1>10. StreamNonce(e) = ChainNonce(Through(job.rows, e - 1))
  BY StreamNonceType
<1>11. \A f \in Epoch : f < e + 1 => f < e \/ f = e
  BY <1>1, EpochRange
<1>12. CandidatesTo(row', e) /\ CandidatesTo(row', e + 1)
  BY <1>6, <1>7, <1>8, <1>10, <1>11 DEF CandidatesTo
<1> QED BY <1>1, <1>5, <1>9, <1>12, StreamRightIs

LEMMA InvalidatesRight ==
  ASSUME TypeInv, JobType, ReplayInv, StreamInvalidates \/ StreamCachesFinal, job'.clean, StreamRight
  PROVE  StreamRight'
<1> PICK e : e = job.epoch
  OBVIOUS
<1>1. /\ e \in Epoch /\ e > 0 /\ job'.rows = job.rows /\ job'.epoch = e
      /\ job'.stage \in {"final", "evolving"}
      /\ row' \in {DeleteCandidateNonce(row, e), SetFinalNonce(row, e, FinalNonce)}
  BY StreamEffect
<1>2. job.stage \in {"invalidate", "final"} /\ row \in [Epoch -> StoredRow]
  BY DEF StreamInvalidates, StreamCachesFinal, At, TypeInv
<1>3. RowsUpTo = e - 1 /\ CandidatesUpTo = e
  BY <1>2, StageType DEF RowsUpTo, CandidatesUpTo, At
<1>4. RowsUpTo' = e - 1 /\ CandidatesUpTo' = e
  BY <1>1, StageType DEF RowsUpTo, CandidatesUpTo, At
<1>5. \A f \in Epoch \ {e} : row'[f] = row[f]
  BY <1>1, <1>2 DEF DeleteCandidateNonce, SetFinalNonce, StoredRow, Row
<1>6. \A f \in Epoch : (f < e \/ f < e - 1) => f # e
  BY <1>1, EpochRange
<1>7. RowsTo(row, e - 1) /\ CandidatesTo(row, e)
  BY <1>3, StreamRightIs
<1>8. RowsTo(row', e - 1) /\ CandidatesTo(row', e)
  BY <1>5, <1>6, <1>7 DEF RowsTo, CandidatesTo
<1> QED BY <1>1, <1>4, <1>8, StreamRightIs

LEMMA StoresRight ==
  ASSUME TypeInv, JobType, ReplayInv, StreamStoresEvolving, job'.clean, StreamRight
  PROVE  StreamRight'
<1> PICK e : e = job.epoch
  OBVIOUS
<1>1. /\ e \in Epoch /\ e > 0 /\ job'.rows = job.rows /\ job'.epoch = e /\ job'.stage = "frozen"
      /\ row' = UpsertEvolvingNonce(row, e - 1, StreamNonce(e),
                                    Cardinality(InEpoch(job.rows, e - 1)))
  BY StreamEffect
<1>2. job.stage = "evolving" /\ row \in [Epoch -> StoredRow]
  BY DEF StreamStoresEvolving, At, TypeInv
<1>3. RowsUpTo = e - 1 /\ CandidatesUpTo = e
  BY <1>2, StageType DEF RowsUpTo, CandidatesUpTo, At
<1>4. RowsUpTo' = e /\ CandidatesUpTo' = e
  BY <1>1, StageType DEF RowsUpTo, CandidatesUpTo, At
<1>5. e - 1 \in Epoch
  BY <1>1, EpochRange, EpochAssumption DEF Epoch
<1>6. /\ \A f \in Epoch \ {e - 1} : row'[f] = row[f]
      /\ \A f \in Epoch : row'[f].candidate = row[f].candidate
      /\ row'[e - 1].evolving = StreamNonce(e)
      /\ row'[e - 1].count = Cardinality(InEpoch(job.rows, e - 1))
  BY <1>1, <1>2, <1>5 DEF UpsertEvolvingNonce, StoredRow, Row
<1>7. RowsTo(row, e - 1) /\ CandidatesTo(row, e)
  BY <1>3, StreamRightIs
<1>8. StreamNonce(e) = ChainNonce(Through(job.rows, e - 1))
  BY StreamNonceType
<1>9. \A f \in Epoch : f < e => f = e - 1 \/ (f < e - 1 /\ f # e - 1)
  BY <1>1, EpochRange
<1>10. RowsTo(row', e)
  BY <1>6, <1>7, <1>8, <1>9 DEF RowsTo
<1>11. CandidatesTo(row', e)
  BY <1>6, <1>7 DEF CandidatesTo
<1> QED BY <1>1, <1>4, <1>10, <1>11, StreamRightIs

LEMMA KeepsStream ==
  ASSUME RepairInv, StreamFreezes \/ StreamInvalidates \/ StreamCachesFinal \/ StreamStoresEvolving
  PROVE  RepairInv'
<1>0. TypeInv /\ JobType /\ ReplayInv
  BY DEF RepairInv
<1>1. /\ UNCHANGED <<blocks, tracker, pc, work, stream>> /\ TypeInv' /\ JobType'
      /\ job.stage \in Streaming /\ job'.stage \in Streaming \cup {"wait"}
      /\ job'.rows = job.rows /\ (job'.clean => job.clean)
      /\ job.epoch \in Epoch /\ job.epoch <= LastStreamed
  BY <1>0, StreamEffect
<1>2. /\ job'.stage \in Streaming => job'.epoch <= LastStreamed
      /\ job'.stage \in {"invalidate", "final", "evolving"} => job'.epoch > 0
  <2>1. LastStreamed \in Epoch
    BY <1>0, LastStreamedType
  <2>2. CASE StreamFreezes
    <3>1. \/ job'.stage = "wait"
          \/ job.epoch < LastStreamed /\ job'.epoch = job.epoch + 1
      BY <1>0, <2>2, StreamEffect
    <3> QED BY <1>1, <2>1, <3>1, EpochRange, StageType
  <2>3. CASE StreamInvalidates \/ StreamCachesFinal \/ StreamStoresEvolving
    <3>1. job'.epoch = job.epoch /\ job.epoch > 0
      BY <1>0, <2>3, StreamEffect
    <3> QED BY <1>1, <3>1
  <2> QED BY <2>2, <2>3
<1>3. ChainInv'
  BY <1>1 DEF ChainInv, RepairInv, stream
<1>4. ~Restoring /\ ~Restoring' /\ ~At("reseed") /\ ~At("reseed")' /\ Replaying
  BY <1>1, StageType DEF Restoring, At, Replaying
<1>5. HandlerInv'
  BY <1>1, <1>4 DEF HandlerInv, RepairInv, Rewinding, stream, tracker
<1>6. StageInv'
  BY <1>1, <1>4, StageType DEF RepairInv, StageInv, At, Replaying, Idle, stream
<1>7. GapsInv' /\ RestoreInv'
  BY <1>1, <1>4, StageType DEF GapsInv, RestoreInv, At
<1>8. ASSUME job'.clean PROVE StreamRight' /\ BesideInv'
  <2>1. StreamRight /\ BesideInv
    BY <1>1, <1>4, <1>8 DEF RepairInv, ReplayInv
  <2>2. StreamRight'
    BY <1>0, <1>8, <2>1, FreezesRight, InvalidatesRight, StoresRight
  <2>3. BesideInv'
    BY <1>1, <1>4, <2>1 DEF BesideInv, LastStreamed, Rewinding, stream, tracker
  <2> QED BY <2>2, <2>3
<1>9. LastStreamed' = LastStreamed
  BY <1>1 DEF LastStreamed
<1>10. ReplayInv'
  BY <1>2, <1>8, <1>9 DEF ReplayInv
<1> QED BY <1>1, <1>3, <1>5, <1>6, <1>7, <1>10 DEF RepairInv

LEMMA KeepsStreamCancelled ==
  ASSUME RepairInv, StreamCancelled
  PROVE  RepairInv'
<1>1. UNCHANGED vars /\ ~At("startup") /\ ~Restoring
  BY StageType DEF StreamCancelled, At, Restoring
<1>2. JobType' /\ job'.stage = "off"
  BY NoJobType, StageType DEF StreamCancelled, JobType
<1> QED BY <1>1, <1>2, JobEnds

LEMMA KeepsReseedStarts ==
  ASSUME RepairInv, ReseedStarts
  PROVE  RepairInv'
<1>1. /\ UNCHANGED vars /\ At("wait") /\ Idle /\ ~Restoring /\ Replaying
      /\ job' = [job EXCEPT !.stage = "reseed", !.epoch = LastStreamed,
                            !.through = IF currentEpoch > LastStreamed THEN currentEpoch
                                        ELSE LastStreamed]
  BY DEF ReseedStarts, At, Restoring, Replaying
<1>2. LastStreamed \in Epoch /\ currentEpoch \in Epoch /\ LastStreamed \in 0..MaxEpoch + 1
  BY LastStreamedType, EpochRange DEF RepairInv, TypeInv, TypeOK
<1>3. /\ JobType' /\ job'.stage = "reseed" /\ job'.epoch = LastStreamed /\ job'.rows = job.rows
      /\ job'.through \in Epoch /\ job'.clean = job.clean
      /\ job'.through = currentEpoch \/ job'.through = LastStreamed
      /\ LastStreamed <= job'.through /\ currentEpoch <= job'.through
  <2>1. PICK m : m = IF currentEpoch > LastStreamed THEN currentEpoch ELSE LastStreamed
    OBVIOUS
  <2>2. /\ m \in Epoch /\ (m = currentEpoch \/ m = LastStreamed)
        /\ LastStreamed <= m /\ currentEpoch <= m
    BY <1>2, <2>1, EpochRange
  <2>3. job' = [job EXCEPT !.stage = "reseed", !.epoch = LastStreamed, !.through = m]
    BY <1>1, <2>1
  <2> QED BY <1>2, <2>2, <2>3, StageType DEF JobType, Job, RepairInv
<1>4. TypeInv' /\ ChainInv' /\ HandlerInv'
  BY <1>1, JobAlone DEF RepairInv
<1>5. LastStreamed' = LastStreamed /\ Base' = LastStreamed
  BY <1>3 DEF LastStreamed, Base, At
<1>6. StageInv' /\ GapsInv'
  BY <1>1, <1>3 DEF StageInv, GapsInv, RepairInv, At, Replaying, Streaming, Restoring, Idle, vars, stream
<1>7. RestoreInv'
  <2>1. Idle' /\ pc' # "candidate" /\ Last' = LastStreamed - 1
    BY <1>1, <1>3 DEF Idle, vars, Last
  <2>2. /\ LastStreamed <= LastStreamed /\ ~(LastStreamed > LastStreamed)
        /\ LastStreamed <= job'.through + 1 /\ LastStreamed..(LastStreamed - 1) = {}
    BY <1>2, <1>3, EpochRange
  <2> QED BY <1>3, <1>5, <2>1, <2>2 DEF RestoreInv
<1>8. ASSUME job'.clean PROVE StreamRight' /\ BesideInv'
  <2>1. StreamRight /\ BesideInv
    BY <1>1, <1>3, <1>8 DEF RepairInv, ReplayInv
  <2>2. RowsUpTo = LastStreamed /\ CandidatesUpTo = LastStreamed
    BY <1>1, StageType DEF RowsUpTo, CandidatesUpTo, At
  <2>3. RowsUpTo' = LastStreamed /\ CandidatesUpTo' = LastStreamed
    BY <1>3, <1>5, StageType DEF RowsUpTo, CandidatesUpTo, At
  <2>4. StreamRight'
    BY <1>1, <1>3, <2>1, <2>2, <2>3, StreamRightIs DEF vars, db
  <2>5. \A b \in blocks : EpochOf[b.slot] <= LastStreamed \/ EpochOf[b.slot] <= job'.through
    <3>1. ASSUME NEW b \in blocks
          PROVE  EpochOf[b.slot] <= LastStreamed \/ EpochOf[b.slot] <= job'.through
      <4>1. EpochOf[b.slot] <= LastStreamed \/ EpochOf[b.slot] <= currentEpoch
        BY <1>1, <2>1 DEF BesideInv, At
      <4>2. EpochOf[b.slot] \in Int
        BY BlockSlot, EpochRange DEF RepairInv, TypeInv, TypeOK
      <4> QED BY <1>2, <1>3, <4>1, <4>2, EpochRange
    <3> QED BY <3>1
  <2>6. BesideInv'
    BY <1>1, <1>3, <1>5, <2>1, <2>5 DEF BesideInv, At, vars, db, stream
  <2> QED BY <2>4, <2>6
<1>9. ReplayInv'
  BY <1>3, <1>8, StageType DEF ReplayInv
<1> QED BY <1>3, <1>4, <1>6, <1>7, <1>9 DEF RepairInv

LEMMA KeepsBackfillStarts ==
  ASSUME RepairInv, BackfillStarts
  PROVE  RepairInv'
<1>1. /\ UNCHANGED vars /\ At("off") /\ phase = "live" /\ blocks # {} /\ pc # "down"
      /\ ~Restoring /\ ~Replaying
      /\ job' = [NoJob("frozen") EXCEPT !.rows = blocks, !.backfilled = TRUE,
                                       !.clean = blocks \subseteq chain]
  BY DEF BackfillStarts, At, Restoring, Replaying, Streaming
<1>2. blocks \in SUBSET Block /\ IsFiniteSet(blocks)
  BY DEF RepairInv, TypeInv, TypeOK
<1>3. /\ JobType' /\ job'.stage = "frozen" /\ job'.epoch = 0 /\ job'.rows = blocks
      /\ job'.clean <=> blocks \subseteq chain
  <2>1. NoJob("frozen") \in Job
    BY NoJobType, StageType
  <2> QED BY <1>1, <1>2, <2>1 DEF JobType, Job, NoJob
<1>4. TypeInv' /\ ChainInv' /\ HandlerInv'
  BY <1>1, JobAlone DEF RepairInv
<1>5. StageInv' /\ GapsInv' /\ RestoreInv'
  BY <1>1, <1>3 DEF StageInv, GapsInv, RestoreInv, RepairInv, At, Replaying, Streaming, Restoring,
                    Idle, vars, stream
<1>6. /\ LastStreamed' \in Epoch /\ LastStreamed' = EpochAt(LastSlot(blocks))
      /\ \A b \in blocks : EpochOf[b.slot] <= LastStreamed'
      /\ \E b \in blocks : LastStreamed' = EpochOf[b.slot]
  BY <1>1, <1>2, <1>3, LastEpochOf DEF LastStreamed
<1>7. ASSUME job'.clean PROVE StreamRight' /\ BesideInv'
  <2>1. RowsUpTo' = 0 /\ CandidatesUpTo' = 0
    BY <1>3, StageType DEF RowsUpTo, CandidatesUpTo, At
  <2>2. \A f \in Epoch : ~(f < 0)
    BY EpochRange
  <2>3. StreamRight'
    BY <2>1, <2>2 DEF StreamRight
  <2>4. PICK l \in blocks : LastStreamed' = EpochOf[l.slot]
    BY <1>6
  <2>5. ASSUME pc \in {"freeze", "evolve"} PROVE currentEpoch >= LastStreamed'
    <3>1. work.block \in blocks /\ work.block.slot = cursor /\ currentEpoch = EpochOf[work.block.slot]
      BY <2>5 DEF RepairInv, HandlerInv
    <3>2. l.slot <= work.block.slot
      BY <1>1, <1>3, <1>7, <3>1 DEF RepairInv, ChainInv
    <3>3. EpochOf[l.slot] <= EpochOf[work.block.slot]
      BY <1>2, <3>1, <3>2, EpochMonotone
    <3>4. currentEpoch \in Epoch
      BY DEF RepairInv, TypeInv, TypeOK
    <3> QED BY <1>6, <2>4, <3>1, <3>3, <3>4, EpochRange
  <2>6. ASSUME Rewinding PROVE work.epoch >= LastStreamed'
    <3>1. EpochOf[l.slot] <= work.epoch
      BY <1>1, <2>6 DEF RepairInv, HandlerInv
    <3>2. work.epoch \in Epoch
      BY DEF RepairInv, TypeInv, TypeOK
    <3> QED BY <1>6, <2>4, <3>1, <3>2, EpochRange
  <2>7. BesideInv'
    <3>1. Through(job'.rows, LastStreamed' - 1) = Through(blocks', LastStreamed' - 1)
      BY <1>1, <1>3 DEF vars, db
    <3>2. Rewinding' <=> Rewinding
      BY <1>1 DEF Rewinding, vars
    <3> QED BY <1>1, <1>3, <1>6, <1>7, <2>5, <2>6, <3>1, <3>2
            DEF BesideInv, At, vars, db, stream, tracker
  <2> QED BY <2>3, <2>7
<1>8. ReplayInv'
  <2>1. 0 <= LastStreamed'
    BY <1>6, EpochRange
  <2> QED BY <1>3, <1>7, <2>1, StageType DEF ReplayInv
<1> QED BY <1>3, <1>4, <1>5, <1>8 DEF RepairInv

----------------------------------------------------------------------------
(* The steps of the tracker next to a job.                                 *)

LEMMA WatchEffect ==
  ASSUME JobType, WatchStream
  PROVE  /\ JobType' /\ job'.stage = job.stage /\ job'.epoch = job.epoch /\ job'.rows = job.rows
         /\ job'.from = job.from /\ job'.through = job.through
         /\ job'.clean => job.clean
         /\ job.stage \in Streaming \cup {"wait"} /\ job'.clean =>
              /\ ~TrackerFails
              /\ pc' = "restore" => work'.epoch >= LastStreamed
              /\ Through(job.rows, LastStreamed - 1) = Through(blocks', LastStreamed - 1)
<1> DEFINE now == /\ job.clean /\ ~TrackerFails
                  /\ pc' = "restore" => work'.epoch >= LastStreamed
                  /\ Through(job.rows, LastStreamed - 1) = Through(blocks', LastStreamed - 1)
<1>1. job \in Job /\ IsFiniteSet(job.rows)
  BY DEF JobType
<1>2. CASE job.stage \in Streaming \cup {"wait"}
  <2>1. job' = [job EXCEPT !.clean = now]
    BY <1>2 DEF WatchStream
  <2>2. now \in BOOLEAN
    OBVIOUS
  <2> HIDE DEF now
  <2>3. /\ job' \in Job /\ job'.stage = job.stage /\ job'.epoch = job.epoch /\ job'.rows = job.rows
        /\ job'.from = job.from /\ job'.through = job.through
    BY <1>1, <2>1, <2>2 DEF Job
  <2>4. job'.clean = now
    BY <1>1, <2>1 DEF Job
  <2>5. now => /\ job.clean /\ ~TrackerFails
               /\ pc' = "restore" => work'.epoch >= LastStreamed
               /\ Through(job.rows, LastStreamed - 1) = Through(blocks', LastStreamed - 1)
    BY DEF now
  <2> QED BY <1>1, <2>3, <2>4, <2>5 DEF JobType
<1>3. CASE job.stage \notin Streaming \cup {"wait"}
  <2>1. job' = job
    BY <1>3 DEF WatchStream
  <2> QED BY <1>1, <1>3, <2>1 DEF JobType
<1> QED BY <1>2, <1>3

(* What a step of the tracker next to the stream keeps.                    *)
BesideStep ==
  /\ \A f \in Epoch : f < LastStreamed => row'[f] = row[f]
  /\ blocks' \subseteq chain'
  /\ \A b \in blocks' : EpochOf[b.slot] <= LastStreamed \/ EpochOf[b.slot] <= currentEpoch'
  /\ pc' \in {"freeze", "evolve"} => currentEpoch' >= LastStreamed
  /\ Rewinding' => work'.epoch >= LastStreamed

LEMMA KeepsBeside ==
  ASSUME RepairInv, TypeInv', ChainInv', HandlerInv', WatchStream,
         job.stage \in {"startup", "off", "wait"} \cup Streaming,
         pc' \notin {"down", "validate"}, Replaying => phase' = "live",
         Replaying /\ job'.clean /\ StreamRight /\ BesideInv => BesideStep
  PROVE  RepairInv'
<1>1. /\ JobType' /\ job'.stage = job.stage /\ job'.epoch = job.epoch /\ job'.rows = job.rows
      /\ job'.from = job.from /\ job'.through = job.through /\ (job'.clean => job.clean)
      /\ job.stage \in Streaming \cup {"wait"} /\ job'.clean =>
           /\ ~TrackerFails
           /\ pc' = "restore" => work'.epoch >= LastStreamed
           /\ Through(job.rows, LastStreamed - 1) = Through(blocks', LastStreamed - 1)
  BY WatchEffect DEF RepairInv
<1>2. StageInv' /\ GapsInv' /\ RestoreInv'
  BY <1>1, StageType DEF RepairInv, StageInv, GapsInv, RestoreInv, Restoring, Replaying, At
<1>3. LastStreamed' = LastStreamed
  BY <1>1 DEF LastStreamed
<1>4. ASSUME Replaying, job'.clean PROVE StreamRight' /\ BesideInv'
  <2>1. StreamRight /\ BesideInv /\ BesideStep /\ job.stage \in Streaming \cup {"wait"}
    BY <1>1, <1>4, StageType DEF RepairInv, ReplayInv, Replaying
  <2>2. StreamRight'
    BY <1>1, <1>4, <2>1, StreamRightKept DEF RepairInv, BesideStep
  <2>3. BesideInv'
    BY <1>1, <1>3, <1>4, <2>1, StageType DEF BesideInv, BesideStep, At
  <2> QED BY <2>2, <2>3
<1>5. ReplayInv'
  BY <1>1, <1>3, <1>4 DEF RepairInv, ReplayInv, Replaying
<1> QED BY <1>1, <1>2, <1>5 DEF RepairInv

LEMMA KeepsBlockArrives ==
  ASSUME RepairInv, WatchStream, ~Busy, NEW b \in Block, BlockArrives(b)
  PROVE  RepairInv'
<1>1. /\ Idle /\ b.slot > cursor /\ chain' = chain \cup {b} /\ cursor' = b.slot
      /\ \A c \in chain : c.slot > cursor => c.slot >= b.slot
      /\ (\E c \in chain : c.slot > cursor) => b \in chain
      /\ UNCHANGED <<row, phase>>
      /\ \/ /\ blocks' = blocks \cup {b} /\ pc' = "freeze"
            /\ work' = [NoWork EXCEPT !.block = b] /\ \A c \in blocks : c.slot # b.slot
         \/ UNCHANGED <<blocks, pc, work>>
  BY DEF BlockArrives, NextBlock
<1>2. currentEpoch' = EpochOf[b.slot]
  BY DEF BlockArrives, EnterEpoch, tracker
<1>3. TypeInv'
  BY TypeBlockArrives DEF RepairInv
<1>4. chain \in SUBSET Block /\ cursor \in Int /\ b.slot \in Int
      /\ \A c \in chain : c \in Block /\ c.slot \in Int
  <2>1. cursor \in Slot \cup {0} /\ chain \in SUBSET Block
    BY DEF RepairInv, TypeInv, TypeOK
  <2> QED BY <2>1, BlockSlot, SlotAssumption
<1>5. ChainInv'
  <2>1. IsFiniteSet(chain')
    BY <1>1, FS_AddElement DEF RepairInv, ChainInv
  <2>2. OnePerSlot(chain')
    <3>1. b \in chain \/ \A c \in chain : c.slot # b.slot
      BY <1>1, <1>4
    <3> QED BY <1>1, <3>1 DEF RepairInv, ChainInv, OnePerSlot
  <2>3. phase' = "live" => \A c \in chain' : c.slot <= cursor'
    BY <1>1, <1>4 DEF RepairInv, ChainInv
  <2>4. pc' # "validate"
    BY <1>1 DEF Idle
  <2> QED BY <2>1, <2>2, <2>3, <2>4 DEF ChainInv
<1>6. pc' \in {"idle", "freeze"} /\ ~Rewinding' /\ ~Restoring
  BY <1>1, StageType DEF Idle, Rewinding, Busy, Restoring
<1>7. HandlerInv'
  <2>1. pc' = "freeze" => work'.block = b /\ b \in blocks'
    BY <1>1 DEF NoWork, Idle
  <2> QED BY <1>1, <1>2, <1>6, <2>1 DEF HandlerInv
<1>8. job.stage \in {"startup", "off", "wait"} \cup Streaming
  BY RepairJobFields, StageType DEF RepairInv, Busy
<1>9. Replaying => phase' = "live"
  BY <1>1 DEF RepairInv, StageInv
<1>10. ASSUME Replaying, job'.clean, StreamRight, BesideInv PROVE BesideStep
  <2>1. LastStreamed \in Epoch /\ EpochOf[b.slot] \in Epoch
    BY LastStreamedType, BlockSlot DEF RepairInv
  <2>2. blocks \subseteq chain /\ Through(job.rows, LastStreamed - 1) = Through(blocks, LastStreamed - 1)
    BY <1>10 DEF BesideInv
  <2>3. \A c \in blocks : EpochOf[c.slot] <= EpochOf[b.slot]
    <3>1. ASSUME NEW c \in blocks PROVE EpochOf[c.slot] <= EpochOf[b.slot]
      <4>1. c \in chain /\ c.slot <= cursor
        BY <1>10, <2>2 DEF RepairInv, ChainInv, StageInv
      <4>2. c \in Block /\ c.slot <= b.slot
        BY <1>1, <1>4, <4>1
      <4> QED BY <4>2, EpochMonotone
    <3> QED BY <3>1
  <2>4. \A c \in blocks' : EpochOf[c.slot] <= currentEpoch'
    BY <1>1, <1>2, <2>1, <2>3, EpochRange
  <2>5. ASSUME pc' = "freeze" PROVE currentEpoch' >= LastStreamed
    <3>1. blocks' = blocks \cup {b} /\ b \notin blocks
      BY <1>1, <2>5 DEF Idle
    <3>2. Through(blocks, LastStreamed - 1) = Through(blocks', LastStreamed - 1)
      <4>1. job.stage \in Streaming \cup {"wait"}
        BY <1>8, <1>10, StageType DEF Replaying
      <4> QED BY <1>10, <2>2, <4>1, WatchEffect DEF RepairInv
    <3>3. ~(EpochOf[b.slot] <= LastStreamed - 1)
      BY <3>1, <3>2 DEF Through
    <3> QED BY <1>2, <2>1, <3>3, EpochRange
  <2> QED BY <1>1, <1>6, <2>2, <2>4, <2>5 DEF BesideStep
<1> QED BY <1>3, <1>5, <1>6, <1>7, <1>8, <1>9, <1>10, KeepsBeside

LEMMA KeepsRollback ==
  ASSUME RepairInv, WatchStream, ~Busy, Idle, TypeInv', NEW p \in Slot \cup {0}, RollbackTo(p),
         phase' = "live", p < cursor \/ ~Replaying
  PROVE  RepairInv'
<1>1. /\ chain' = Prefix(chain, p) /\ cursor' = p /\ UNCHANGED <<row, tracker>>
      /\ \/ blocks' = Prefix(blocks, p)
         \/ blocks' = blocks /\ UNCHANGED <<pc, work>>
      /\ \/ UNCHANGED <<pc, work>>
         \/ /\ blocks' = Prefix(blocks, p) /\ pc' = "restore"
            /\ work' = [NoWork EXCEPT !.epoch = EpochAt(p), !.through = currentEpoch]
  BY DEF RollbackTo
<1>2. chain' \subseteq chain /\ blocks' \subseteq blocks /\ \A c \in chain' : c.slot <= p
  BY <1>1 DEF Prefix
<1>3. ChainInv'
  <2>1. IsFiniteSet(chain') /\ OnePerSlot(chain')
    BY <1>2, FS_Subset DEF RepairInv, ChainInv, OnePerSlot
  <2>2. pc' # "validate"
    BY <1>1 DEF Idle
  <2> QED BY <1>1, <1>2, <2>1, <2>2 DEF ChainInv
<1>4. pc' \in {"idle", "restore"} /\ ~Restoring
  BY <1>1, StageType DEF Idle, Busy, Restoring
<1>5. pc' = "restore" => work'.epoch = EpochAt(p)
  BY <1>1 DEF NoWork, Idle
<1>6. HandlerInv'
  <2>1. ASSUME pc' = "restore", NEW c \in blocks' PROVE EpochOf[c.slot] <= work'.epoch
    <3>1. c \in Block /\ c.slot <= p
      BY <1>1, <1>2, <2>1 DEF Idle, Prefix, RepairInv, TypeInv, TypeOK
    <3>2. c.slot \in Slot /\ EpochAt(c.slot) = EpochOf[c.slot]
      BY <3>1, BlockSlot DEF EpochAt
    <3> QED BY <1>5, <2>1, <3>1, <3>2, EpochAtMonotone
  <2> QED BY <1>4, <2>1 DEF HandlerInv, Rewinding
<1>7. job.stage \in {"startup", "off", "wait"} \cup Streaming
  BY RepairJobFields, StageType DEF RepairInv, Busy
<1>8. ASSUME Replaying, job'.clean, StreamRight, BesideInv PROVE BesideStep
  <2>1. job.stage \in Streaming \cup {"wait"}
    BY <1>7, <1>8, StageType DEF Replaying
  <2>2. ~TrackerFails /\ (pc' = "restore" => work'.epoch >= LastStreamed)
    BY <1>8, <2>1, WatchEffect DEF RepairInv
  <2>3. blocks' \subseteq chain'
    <3>1. CASE blocks' = Prefix(blocks, p)
      BY <1>1, <1>8, <3>1 DEF BesideInv, Prefix
    <3>2. CASE blocks' = blocks
      <4>1. Prefix(blocks, p) = blocks
        BY <1>1, <1>8, <2>2, <3>2 DEF TrackerFails
      <4> QED BY <1>1, <1>8, <3>2, <4>1 DEF BesideInv, Prefix
    <3> QED BY <1>1, <3>1, <3>2
  <2>4. \A c \in blocks' : EpochOf[c.slot] <= LastStreamed \/ EpochOf[c.slot] <= currentEpoch'
    BY <1>1, <1>2, <1>8, <2>1, StageType DEF BesideInv, At, tracker
  <2>5. Rewinding' => pc' = "restore"
    BY <1>4 DEF Rewinding
  <2> QED BY <1>1, <1>4, <2>2, <2>3, <2>4, <2>5 DEF BesideStep
<1> QED BY <1>3, <1>4, <1>6, <1>7, <1>8, KeepsBeside

LEMMA KeepsRollbackArrives ==
  ASSUME RepairInv, WatchStream, ~Busy, NEW p \in Slot, RollbackArrives(p)
  PROVE  RepairInv'
<1>1. TypeInv'
  BY TypeRollbackArrives DEF RepairInv
<1>2. Idle /\ RollbackTo(p) /\ phase' = "live" /\ p < cursor
  BY DEF RollbackArrives
<1> QED BY <1>1, <1>2, KeepsRollback

LEMMA KeepsGoLive ==
  ASSUME RepairInv, WatchStream, ~Busy, GoLive
  PROVE  RepairInv'
<1>1. TypeInv' /\ ResumeSlot \in Slot \cup {0}
  BY TypeGoLive, ResumeSlotType DEF RepairInv
<1>2. Idle /\ RollbackTo(ResumeSlot) /\ phase' = "live" /\ phase = "sync"
  BY DEF GoLive
<1>3. ~Replaying
  BY <1>2 DEF RepairInv, StageInv
<1> PICK p : p = ResumeSlot
  OBVIOUS
<1>4. p \in Slot \cup {0} /\ RollbackTo(p)
  BY <1>1, <1>2 DEF RollbackTo
<1> QED BY <1>1, <1>2, <1>3, <1>4, KeepsRollback

(* ProcessBlock writes the row of the tracker's epoch.                     *)
LEMMA KeepsProcessBlock ==
  ASSUME RepairInv, WatchStream, FreezeCandidate \/ EvolveNonce
  PROVE  RepairInv'
<1>1. /\ pc \in {"freeze", "evolve"} /\ pc' \in {"evolve", "idle"}
      /\ pc' = "evolve" => UNCHANGED work
      /\ UNCHANGED <<blocks, currentEpoch, stream>>
  BY DEF FreezeCandidate, EvolveNonce, Finish
<1>2. \A f \in Epoch : f # currentEpoch => row'[f] = row[f]
  <2>1. row \in [Epoch -> StoredRow]
    BY DEF RepairInv, TypeInv
  <2>2. \A n, c : /\ \A f \in Epoch : f # currentEpoch =>
                       UpsertEvolvingNonce(row, currentEpoch, n, c)[f] = row[f]
                  /\ \A f \in Epoch : f # currentEpoch =>
                       SetCandidateNonce(row, currentEpoch, n)[f] = row[f]
    BY <2>1 DEF UpsertEvolvingNonce, SetCandidateNonce, StoredRow, Row
  <2>3. \/ row' = row \/ row' = SetCandidateNonce(row, currentEpoch, etaV)
        \/ row' = UpsertEvolvingNonce(row, currentEpoch, etaV', blockCount')
    BY DEF FreezeCandidate, EvolveNonce
  <2> QED BY <2>2, <2>3
<1>3. TypeInv'
  BY TypeFreezeCandidate, TypeEvolveNonce DEF RepairInv
<1>4. ChainInv' /\ HandlerInv' /\ ~Rewinding'
  BY <1>1 DEF RepairInv, ChainInv, HandlerInv, Rewinding, stream
<1>5. job.stage \in {"startup", "off", "wait"} \cup Streaming
  <2>1. ~Idle /\ pc \notin {"idle", "restore", "candidate"}
    BY <1>1 DEF Idle
  <2>2. job.stage \notin {"gaps", "insert"} /\ ~Restoring
    BY <2>1 DEF RepairInv, StageInv
  <2> QED BY <2>2, RepairJobFields, StageType DEF RepairInv, Restoring
<1>6. Replaying => phase' = "live"
  BY <1>1 DEF RepairInv, StageInv, stream
<1>7. ASSUME Replaying, job'.clean, StreamRight, BesideInv PROVE BesideStep
  <2>1. ~At("reseed")
    BY <1>5, StageType DEF At
  <2>2. currentEpoch >= LastStreamed /\ LastStreamed \in Epoch /\ currentEpoch \in Epoch
    BY <1>1, <1>7, <2>1, LastStreamedType DEF BesideInv, RepairInv, TypeInv, TypeOK
  <2>3. \A f \in Epoch : f < LastStreamed => f # currentEpoch
    BY <2>2, EpochRange
  <2> QED BY <1>1, <1>2, <1>4, <1>7, <2>1, <2>2, <2>3 DEF BesideStep, BesideInv, stream
<1> QED BY <1>1, <1>3, <1>4, <1>5, <1>6, <1>7, KeepsBeside

(* A rewind writes the row of the epoch it is at.                          *)
LEMMA KeepsRewind ==
  ASSUME RepairInv, WatchStream, ~Restoring,
         RestoreEvolving \/ RestoreCandidate \/ ResetEvolving \/ ResetCandidate
  PROVE  RepairInv'
<1>1. /\ Rewinding /\ pc' \in {"candidate", "resetEvolving", "resetCandidate", "idle"}
      /\ UNCHANGED <<blocks, stream>>
  BY DEF RestoreEvolving, RestoreCandidate, ResetEvolving, ResetCandidate, RewindFails, Finish,
         Rewinding
<1>2. work.epoch \in Epoch /\ row \in [Epoch -> StoredRow]
      /\ work \in [block : Block \cup {NoBlock}, epoch : Epoch, through : Epoch,
                   eta : Nonce, candidate : Nonce \cup {NoNonce}]
  BY DEF RepairInv, TypeInv, TypeOK
<1>3. \A f \in Epoch : f # work.epoch => row'[f] = row[f]
  <2>1. \A n, c : /\ \A f \in Epoch : f # work.epoch =>
                       UpsertEvolvingNonce(row, work.epoch, n, c)[f] = row[f]
                  /\ \A f \in Epoch : f # work.epoch =>
                       SetCandidateNonce(row, work.epoch, n)[f] = row[f]
                  /\ \A f \in Epoch : f # work.epoch =>
                       DeleteCandidateNonce(row, work.epoch)[f] = row[f]
    BY <1>2 DEF UpsertEvolvingNonce, SetCandidateNonce, DeleteCandidateNonce, StoredRow, Row
  <2>2. \/ row' = row \/ \E n, c : row' = UpsertEvolvingNonce(row, work.epoch, n, c)
        \/ \E n : row' = SetCandidateNonce(row, work.epoch, n)
        \/ row' = DeleteCandidateNonce(row, work.epoch)
    BY DEF RestoreEvolving, RestoreCandidate, ResetEvolving, ResetCandidate, RewindFails
  <2> QED BY <2>1, <2>2
<1>4. TypeInv'
  BY TypeRestoreEvolving, TypeRestoreCandidate, TypeResetEvolving, TypeResetCandidate DEF RepairInv
<1>5. Rewinding' => work'.epoch >= work.epoch /\ work'.epoch \in Int /\ work.epoch \in Int
  <2>1. work.epoch >= work.epoch /\ work.epoch + 1 >= work.epoch /\ work.epoch \in Int
    BY <1>2, EpochRange
  <2>2. Rewinding' => work'.epoch \in {work.epoch, work.epoch + 1}
    BY <1>2 DEF RestoreEvolving, RestoreCandidate, ResetEvolving, ResetCandidate, RewindFails, Finish,
                Rewinding
  <2> QED BY <2>1, <2>2
<1>6. currentEpoch' \in {currentEpoch, work.epoch}
  BY DEF RestoreEvolving, RestoreCandidate, ResetEvolving, ResetCandidate, RewindFails, tracker
<1>7. \A c \in blocks : EpochOf[c.slot] \in Int
  BY BlockSlot, EpochRange DEF RepairInv, TypeInv, TypeOK
<1>8. ChainInv' /\ HandlerInv'
  <2>1. ChainInv'
    BY <1>1 DEF RepairInv, ChainInv, stream
  <2>2. phase' = "live" /\ Rewinding' => \A c \in blocks' : EpochOf[c.slot] <= work'.epoch
    BY <1>1, <1>2, <1>5, <1>7 DEF RepairInv, HandlerInv, stream
  <2> QED BY <1>1, <2>1, <2>2 DEF HandlerInv
<1>9. job.stage \in {"startup", "off", "wait"} \cup Streaming
  <2>1. ~Idle
    BY <1>1 DEF Idle, Rewinding
  <2>2. job.stage \notin {"gaps", "insert"}
    BY <2>1 DEF RepairInv, StageInv
  <2> QED BY <2>2, RepairJobFields, StageType DEF RepairInv, Restoring
<1>10. Replaying => phase' = "live"
  BY <1>1 DEF RepairInv, StageInv, stream
<1>11. ASSUME Replaying, job'.clean, StreamRight, BesideInv PROVE BesideStep
  <2>1. ~At("reseed")
    BY <1>9, StageType DEF At
  <2>2. work.epoch >= LastStreamed /\ LastStreamed \in Epoch
    BY <1>1, <1>11, <2>1, LastStreamedType DEF BesideInv, RepairInv
  <2>3. \A f \in Epoch : f < LastStreamed => f # work.epoch
    BY <1>2, <2>2, EpochRange
  <2>4. Rewinding' => work'.epoch >= LastStreamed
    BY <1>5, <2>2, EpochRange
  <2>5. \A c \in blocks' : EpochOf[c.slot] <= LastStreamed \/ EpochOf[c.slot] <= currentEpoch'
    <3>1. CASE currentEpoch' = currentEpoch
      BY <1>1, <1>11, <2>1, <3>1 DEF BesideInv
    <3>2. CASE currentEpoch' = work.epoch
      <4>1. phase = "live"
        BY <1>11 DEF RepairInv, StageInv
      <4> QED BY <1>1, <3>2, <4>1 DEF RepairInv, HandlerInv
    <3> QED BY <1>6, <3>1, <3>2
  <2> QED BY <1>1, <1>3, <1>11, <2>3, <2>4, <2>5 DEF BesideStep, BesideInv, stream
<1> QED BY <1>1, <1>4, <1>8, <1>9, <1>10, <1>11, KeepsBeside

(* The start-up check runs before the jobs.                                *)
LEMMA KeepsValidate ==
  ASSUME RepairInv, WatchStream, ValidateDBIntegrity
  PROVE  RepairInv'
<1>1. pc = "validate" /\ phase # "live" /\ At("startup")
  BY DEF ValidateDBIntegrity, RepairInv, ChainInv, StageInv
<1>2. chain' = chain \/ chain' = {}
  BY DEF ValidateDBIntegrity
<1>3. pc' \in {"idle", "restore"}
  BY DEF ValidateDBIntegrity, Finish, RecomputeCurrentEpochNonce
<1>4. phase' # "live"
  <2>1. phase' = phase \/ Resume
    BY DEF ValidateDBIntegrity
  <2> QED BY <1>1, <2>1 DEF Resume
<1>5. TypeInv'
  BY TypeValidate DEF RepairInv
<1>6. ChainInv'
  BY <1>2, <1>3, <1>4, FS_EmptySet DEF RepairInv, ChainInv, OnePerSlot
<1>7. HandlerInv'
  BY <1>3, <1>4 DEF HandlerInv
<1>8. job.stage = "startup" /\ ~Replaying
  BY <1>1, StageType DEF At, Replaying
<1> QED BY <1>3, <1>5, <1>6, <1>7, <1>8, KeepsBeside

LEMMA KeepsTrackerStep ==
  ASSUME RepairInv, TrackerStep
  PROVE  RepairInv'
<1>1. WatchStream /\ \/ ~Busy /\ StreamEvent
                     \/ ~Restoring /\ Handler
  BY DEF TrackerStep
<1>2. CASE ~Busy /\ StreamEvent
  BY <1>1, <1>2, KeepsBlockArrives, KeepsRollbackArrives, KeepsGoLive DEF StreamEvent
<1>3. CASE ~Restoring /\ Handler
  BY <1>1, <1>3, KeepsProcessBlock, KeepsRewind, KeepsValidate DEF Handler
<1> QED BY <1>1, <1>2, <1>3

LEMMA KeepsProcessStops ==
  ASSUME RepairInv, ProcessStops
  PROVE  RepairInv'
<1>1. pc' = "down" /\ UNCHANGED <<db, stream>> /\ Crash
  BY DEF ProcessStops, Crash
<1>2. JobType' /\ job'.stage = "off"
  BY NoJobType, StageType DEF ProcessStops, JobType
<1>3. TypeInv'
  BY <1>1, TypeCrash DEF RepairInv
<1>4. ChainInv' /\ HandlerInv'
  BY <1>1 DEF ChainInv, HandlerInv, Rewinding, RepairInv, stream
<1>5. StageInv' /\ GapsInv' /\ RestoreInv' /\ ReplayInv'
  BY <1>1, <1>2 DEF StageInv, GapsInv, RestoreInv, ReplayInv, At, Restoring, Replaying, Streaming
<1> QED BY <1>2, <1>3, <1>4, <1>5 DEF RepairInv

LEMMA KeepsProcessStarts ==
  ASSUME RepairInv, ProcessStarts
  PROVE  RepairInv'
<1>1. pc' = "validate" /\ phase' = "sync" /\ UNCHANGED <<chain, cursor>> /\ Restart
  BY DEF ProcessStarts, Restart
<1>2. JobType' /\ job'.stage = "startup"
  BY NoJobType, StageType DEF ProcessStarts, JobType
<1>3. TypeInv'
  BY <1>1, TypeRestart DEF RepairInv
<1>4. ChainInv' /\ HandlerInv'
  BY <1>1 DEF ChainInv, HandlerInv, Rewinding, RepairInv
<1>5. StageInv' /\ GapsInv' /\ RestoreInv' /\ ReplayInv'
  BY <1>1, <1>2 DEF StageInv, GapsInv, RestoreInv, ReplayInv, At, Restoring, Replaying, Streaming
<1> QED BY <1>2, <1>3, <1>4, <1>5 DEF RepairInv

LEMMA KeepsStuttering ==
  ASSUME RepairInv, UNCHANGED repair_vars
  PROVE  RepairInv'
<1>1. UNCHANGED vars /\ UNCHANGED job
  BY DEF repair_vars
<1>2. UNCHANGED <<blocks, row, etaV, currentEpoch, blockCount, candidateFroze, pc, work, phase, chain,
                  cursor, clock, unrewound>>
  BY <1>1 DEF vars, db, tracker, stream
<1>3. TypeInv' /\ JobType' /\ ChainInv' /\ HandlerInv'
  BY <1>1, JobAlone DEF RepairInv, JobType, Restoring
<1>4. StageInv' /\ GapsInv'
  BY <1>1, <1>2, GapsKept DEF RepairInv, StageInv, GapsInv, At, Idle, Restoring, Replaying
<1>5. RestoreInv'
  <2>1. Base' = Base /\ Last' = Last /\ Idle' = Idle /\ Restoring' = Restoring
    BY <1>1, <1>2 DEF Base, Last, Idle, At, LastStreamed, Restoring
  <2>2. \A f : /\ RowRight(f)' <=> RowRight(f)
               /\ Right(f)' <=> Right(f)
    BY <1>2, RightKept
  <2> QED BY <1>1, <1>2, <2>1, <2>2 DEF RepairInv, RestoreInv, UpTo, BlocksOf
<1>6. ReplayInv'
  <2>1. StreamRight' <=> StreamRight
    BY <1>1, <1>2 DEF StreamRight, RowsUpTo, CandidatesUpTo, At, LastStreamed
  <2>2. BesideInv' <=> BesideInv
    BY <1>1, <1>2 DEF BesideInv, At, LastStreamed, Rewinding
  <2> QED BY <1>1, <2>1, <2>2 DEF RepairInv, ReplayInv, Replaying, LastStreamed
<1> QED BY <1>3, <1>4, <1>5, <1>6 DEF RepairInv

LEMMA RepairStep ==
  ASSUME RepairInv, [RepairNext]_repair_vars
  PROVE  RepairInv'
<1>1. CASE JobStep
  BY <1>1, KeepsGapRepairStarts, KeepsEpochToRepair, KeepsInsertMissing, KeepsEpochRepaired,
     KeepsGapRepairFails, KeepsGapsRepaired, KeepsRestoreNext, KeepsRestoreStep, KeepsRestoreFails,
     KeepsRangeRestored, KeepsStream, KeepsStreamCancelled, KeepsReseedStarts DEF JobStep
<1>2. CASE BackfillStarts
  BY <1>2, KeepsBackfillStarts
<1>3. CASE TrackerStep
  BY <1>3, KeepsTrackerStep
<1>4. CASE ProcessStops
  BY <1>4, KeepsProcessStops
<1>5. CASE ProcessStarts
  BY <1>5, KeepsProcessStarts
<1>6. CASE UNCHANGED repair_vars
  BY <1>6, KeepsStuttering
<1> QED BY <1>1, <1>2, <1>3, <1>4, <1>5, <1>6 DEF RepairNext

(* RepairInv is an inductive invariant of the jobs and the tracker.        *)
THEOREM RepairInvariant == RepairSpec => []RepairInv
<1>1. RepairInv /\ [RepairNext]_repair_vars => RepairInv'
  BY RepairStep
<1> QED BY <1>1, InitRepair, PTL DEF RepairSpec

(* Type correctness: the database, the tracker and the handler keep their  *)
(* types next to the jobs, whichever of their calls fail; in particular no *)
(* rewind and no restored range leaves the epochs (RewindToSlot,           *)
(* RecomputeEpochRange, reseedFromBackfill).                               *)
THEOREM RepairTypeCorrect == RepairSpec => []TypeOK
<1>1. RepairInv => TypeOK
  BY DEF RepairInv, TypeInv
<1> QED BY <1>1, RepairInvariant, PTL

----------------------------------------------------------------------------
(* What a job has healed when it is done.                                  *)

LEMMA GapsHealed ==
  ASSUME RepairInv, ReadsSucceed, At("range"), Idle, job.epoch > job.through,
         job.from > 0 => RowRight(job.from - 1)
  PROVE  /\ \A e \in job.from..Tip : Right(e)
         /\ \A e \in job.from..(Tip - 1) : ~HasGap(e)
         /\ etaV = ChainNonce(blocks)
<1>1. /\ Restoring /\ Base = job.from /\ Last = job.epoch - 1
      /\ job.from \in Epoch /\ job.through = Tip /\ Tip \in Epoch /\ job.from < Tip
      /\ \A f \in Epoch : f < Tip => ~HasGap(f)
  BY TipType DEF Restoring, At, Base, Last, RepairInv, GapsInv
<1>2. job.epoch \in Int /\ job.epoch <= job.through + 1
  BY <1>1, RestoringFields
<1>3. job.epoch - 1 = Tip /\ job.epoch > Base
  BY <1>1, <1>2, EpochRange
<1>4. /\ \A e \in job.from..Tip : Right(e)
      /\ etaV = ChainNonce(UpTo(Tip))
  BY <1>1, <1>3 DEF RepairInv, RestoreInv
<1>5. UpTo(Tip) = blocks
  BY TipType DEF UpTo, Through, RepairInv
<1>6. \A e \in job.from..(Tip - 1) : e \in Epoch /\ e < Tip
  BY <1>1, EpochRange, EpochAssumption DEF Epoch
<1> QED BY <1>1, <1>4, <1>5, <1>6

(* A gap repair that runs to its end leaves no gap behind the tip, and the *)
(* rows, the candidates and the nonce in memory follow the blocks from the *)
(* first repaired epoch on, if the row before it did, wherever an earlier  *)
(* start was stopped (RepairBlockGaps and RecomputeEpochRange).            *)
THEOREM GapRepairHealsAlways ==
  ASSUME ReadsSucceed
  PROVE  RepairSpec => GapRepairHeals
<1> DEFINE Healed ==
      At("range") /\ Idle /\ job.epoch > job.through
      /\ (job.from > 0 => RowRight(job.from - 1))
      => /\ \A e \in job.from..Tip : BlocksOf(e) # {} => RowRight(e) /\ CandidateRight(e)
         /\ \A e \in job.from..(Tip - 1) : ~HasGap(e)
         /\ etaV = ChainNonce(blocks)
<1>1. RepairInv => Healed
  BY GapsHealed DEF Right
<1>2. GapRepairHeals <=> [][Healed]_repair_vars
  BY DEF GapRepairHeals
<1> HIDE DEF Healed
<1> QED BY <1>1, <1>2, RepairInvariant, PTL

(* The epochs before the last streamed one follow the blocks table.        *)
LEMMA StreamedRight ==
  ASSUME RepairInv, At("reseed"), job.clean, NEW e \in Epoch, e < LastStreamed
  PROVE  Right(e)
<1>1. StreamRight /\ BesideInv
  BY StageType DEF RepairInv, ReplayInv, Replaying, At
<1>2. RowsUpTo = LastStreamed /\ CandidatesUpTo = LastStreamed /\ LastStreamed \in Epoch
  BY StageType, LastStreamedType DEF RowsUpTo, CandidatesUpTo, At, RepairInv
<1>3. Through(job.rows, LastStreamed - 1) = Through(blocks, LastStreamed - 1)
  BY <1>1 DEF BesideInv
<1>4. \A b \in job.rows \cup blocks : EpochOf[b.slot] \in Int
  BY BlockSlot, EpochRange DEF RepairInv, JobType, Job, TypeInv, TypeOK
<1>5. e \in Int /\ LastStreamed \in Int /\ e <= LastStreamed - 1
  BY <1>2, EpochRange
<1>6. ASSUME NEW f \in Int, f <= LastStreamed - 1 PROVE Through(job.rows, f) = Through(blocks, f)
  <2>1. /\ Through(job.rows, f) = {b \in Through(job.rows, LastStreamed - 1) : EpochOf[b.slot] <= f}
        /\ Through(blocks, f) = {b \in Through(blocks, LastStreamed - 1) : EpochOf[b.slot] <= f}
    BY <1>4, <1>5, <1>6 DEF Through
  <2> QED BY <1>3, <2>1
<1>7. InEpoch(job.rows, e) = BlocksOf(e)
  <2>1. /\ InEpoch(job.rows, e) = {b \in Through(job.rows, LastStreamed - 1) : EpochOf[b.slot] = e}
        /\ BlocksOf(e) = {b \in Through(blocks, LastStreamed - 1) : EpochOf[b.slot] = e}
    BY <1>4, <1>5 DEF Through, InEpoch, BlocksOf
  <2> QED BY <1>3, <2>1
<1>8. Through(job.rows, e) = UpTo(e) /\ Through(job.rows, e - 1) = UpTo(e - 1)
  BY <1>5, <1>6 DEF UpTo
<1>9. RowRight(e)
  BY <1>1, <1>2, <1>7, <1>8 DEF StreamRight, RowRight
<1>10. CandidateRight(e)
  BY <1>1, <1>2, <1>7, <1>8 DEF StreamRight, CandidateRight
<1> QED BY <1>9, <1>10 DEF Right

LEMMA BackfillHealed ==
  ASSUME RepairInv, ReadsSucceed, At("reseed"), Idle, job.epoch > job.through, job.clean
  PROVE  /\ MemoryFollowsStore /\ RowsFollowStore
         /\ \A e \in Epoch : CandidateRight(e)
<1>1. /\ Restoring /\ Base = LastStreamed /\ Last = job.epoch - 1 /\ LastStreamed \in Epoch
      /\ BesideInv
  BY LastStreamedType, StageType DEF Restoring, At, Base, Last, RepairInv, ReplayInv, Replaying
<1>2. job.epoch \in Int /\ job.epoch <= job.through + 1 /\ job.through \in Epoch
  BY <1>1, RestoringFields
<1>3. Base <= job.through
  BY <1>1 DEF RepairInv, RestoreInv
<1>4. job.epoch - 1 = job.through /\ job.epoch > Base
  BY <1>1, <1>2, <1>3, EpochRange
<1>5. Base > 0 => RowRight(Base - 1)
  <2>1. Base > 0 => Base - 1 \in Epoch /\ Base - 1 < LastStreamed
    BY <1>1, EpochRange, EpochAssumption DEF Epoch
  <2> QED BY <2>1, StreamedRight DEF Right
<1>6. /\ \A e \in Base..job.through : Right(e)
      /\ etaV = ChainNonce(UpTo(job.through)) /\ currentEpoch = job.through
  BY <1>1, <1>4, <1>5 DEF RepairInv, RestoreInv
<1>7. ASSUME NEW e \in Epoch PROVE Right(e) \/ BlocksOf(e) = {}
  <2>1. CASE e < LastStreamed
    BY <2>1, StreamedRight
  <2>2. CASE e >= LastStreamed /\ e <= job.through
    <3>1. e \in Base..job.through
      BY <1>1, <1>2, <2>2, EpochRange
    <3> QED BY <1>6, <3>1
  <2>3. CASE e > job.through
    <3>1. \A b \in blocks : EpochOf[b.slot] <= LastStreamed \/ EpochOf[b.slot] <= job.through
      BY <1>1 DEF BesideInv
    <3>2. \A b \in blocks : EpochOf[b.slot] \in Int
      BY BlockSlot, EpochRange DEF RepairInv, TypeInv, TypeOK
    <3>3. e \in Int /\ job.through \in Int /\ LastStreamed \in Int /\ LastStreamed <= job.through
      BY <1>1, <1>2, <1>3, EpochRange
    <3>4. \A b \in blocks : EpochOf[b.slot] # e
      BY <2>3, <3>1, <3>2, <3>3
    <3> QED BY <3>4 DEF BlocksOf, InEpoch
  <2> QED BY <1>1, <1>2, <2>1, <2>2, <2>3, EpochRange
<1>8. MemoryFollowsStore
  BY <1>6 DEF MemoryFollowsStore
<1>9. RowsFollowStore
  BY <1>7 DEF RowsFollowStore, Right, RowRight
<1>10. \A e \in Epoch : CandidateRight(e)
  BY <1>7 DEF Right, CandidateRight, FirstStable
<1> QED BY <1>8, <1>9, <1>10

(* When a backfill is done of which no store call failed, the tracker,     *)
(* every row and every candidate follow the blocks table, from whatever    *)
(* seed and rows it began with, unless a rollback changed or rewound the   *)
(* epochs before the last streamed one (BackfillNonces and                 *)
(* reseedFromBackfill).                                                    *)
THEOREM BackfillHealsAlways ==
  ASSUME ReadsSucceed
  PROVE  RepairSpec => BackfillHeals
<1> DEFINE Healed ==
      At("reseed") /\ Idle /\ job.epoch > job.through /\ job.clean
      => /\ MemoryFollowsStore /\ RowsFollowStore
         /\ \A e \in Epoch : CandidateRight(e)
<1>1. RepairInv => Healed
  BY BackfillHealed
<1>2. BackfillHeals <=> [][Healed]_repair_vars
  BY DEF BackfillHeals
<1> HIDE DEF Healed
<1> QED BY <1>1, <1>2, RepairInvariant, PTL

=============================================================================
