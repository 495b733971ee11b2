---------------------------- MODULE SyncPipeline ----------------------------
(***************************************************************************)
(* The historical sync (sync.go; runChainTail and flushBlockBatch, main.go)*)
(* on top of the nonce tracker: ChainSyncer's callbacks push headers into a*)
(* bounded channel, a writer goroutine drains it in batches into the blocks*)
(* table and the tracker, and a retry loop reconnects after an error.      *)
(*                                                                         *)
(* chain is the node's chain, known from the start; cursor the last header *)
(* delivered; pc and work belong to the goroutine that holds nt.mu.        *)
(***************************************************************************)
EXTENDS NonceTracker, Sequences

CONSTANTS
  SmallBatch,   \* batches below this size are processed block by block (100)
  BatchCap,     \* blocks the writer collects at most (2000)
  ChanCap,      \* capacity of blockCh (2000)
  Window,       \* slots from the tip at which the sync counts as caught up (120)
  MaxErrors,    \* bound on connection errors, rollbacks and stops
  SyncFaults    \* see SyncFaultKinds

SyncFaultKinds ==
  { "batch",      \* InsertBlockBatch fails, its transaction is rolled back
    "rollback" }  \* the node switches to another fork during the sync

ASSUME SyncAssumption ==
  /\ SmallBatch \in Nat \ {0}
  /\ BatchCap \in Nat \ {0}
  /\ ChanCap \in Nat \ {0}
  /\ Window \in Nat
  /\ MaxErrors \in Nat
  /\ SyncFaults \subseteq SyncFaultKinds

(* What the pipeline does not cope with.                                   *)
Disturbances ==
  { "straddle",     \* the blocks delivered again after a reconnection are of
                    \* more than one epoch
    "rollback",     \* a rollback during the sync
    "split",        \* a stop between the insert of a batch of more than one
                    \* epoch and the end of its ProcessBatch
    "late" }        \* a restart in a later epoch than the last stored block's

VARIABLES
  session,    \* the goroutine of runChainTail: where its retry loop is
  sending,    \* a header callback is in progress: its block is in the channel,
              \* or waits behind a full one
  caughtUp,   \* ChainSyncer.caughtUp
  tip,        \* ChainSyncer.tipSlot
  errors,     \* connection errors so far
  channel,    \* blockCh, followed by the block of a blocked sender
  writer,     \* where the writer goroutine is
  batch,      \* the blocks it has collected
  todo,       \* the blocks of a flush still to be processed
  disturbed   \* history: what has happened of Disturbances

syncer   == <<session, sending, caughtUp, tip, errors, disturbed>>
pipe     == <<channel, writer, batch, todo>>
syncVars == <<vars, syncer, pipe>>

Tip == LastSlot(chain)

(* A chain long enough to be resumed on, with enough blocks in each epoch. *)
PlausibleChain(T) ==
  /\ OnePerSlot(T)
  /\ IsFiniteSet(T) /\ Cardinality(T) >= Overlap
  /\ \A b \in T : \A e \in Epoch :
       e < EpochOf[b.slot] => Cardinality(InEpoch(T, e)) >= 2

SyncInit ==
  /\ blocks = {} /\ row = [e \in Epoch |-> NoRow]
  /\ chain \in {T \in SUBSET Block : PlausibleChain(T)}
  /\ clock = EpochAt(Tip)
  /\ etaV = GenesisNonce /\ currentEpoch = clock
  /\ blockCount = 0 /\ candidateFroze = FALSE
  /\ pc = "idle" /\ work = NoWork
  /\ phase = "sync" /\ cursor = 0 /\ unrewound = {}
  /\ session = "start" /\ sending = FALSE /\ caughtUp = FALSE /\ tip = 0 /\ errors = 0
  /\ channel = <<>> /\ writer = "collect" /\ batch = <<>> /\ todo = <<>>
  /\ disturbed = {}

----------------------------------------------------------------------------
(* ChainSyncer.                                                            *)

(* NewChainSyncer and Start: connect and intersect at the oldest of the    *)
(* last Overlap blocks, or at the start of the Shelley era.                *)
Connect ==
  /\ session = "start"
  /\ pc \notin {"down", "validate", "restore", "candidate"}
  /\ blocks # {} => Intersects
  /\ session' = "run"
  /\ cursor' = ResumeSlot
  /\ caughtUp' = FALSE /\ tip' = 0
  /\ disturbed' = IF \E b \in blocks : /\ b.slot > ResumeSlot
                                        /\ EpochOf[b.slot] < EpochAt(LastSlot(blocks))
                  THEN disturbed \cup {"straddle"} ELSE disturbed
  /\ UNCHANGED <<db, tracker, pc, work, phase, chain, clock, unrewound, sending, errors, pipe>>

NextOnChain(b) ==
  /\ b \in chain /\ b.slot > cursor
  /\ \A c \in chain : c.slot > cursor => b.slot <= c.slot

(* handleRollForward calls onBlock, which sends to blockCh and waits when  *)
(* the channel is full.                                                    *)
HandleRollForward(b) ==
  /\ session = "run" /\ ~sending
  /\ NextOnChain(b)
  /\ tip' = Tip
  /\ cursor' = b.slot
  /\ channel' = Append(channel, b)
  /\ sending' = TRUE
  /\ UNCHANGED <<db, tracker, pc, work, phase, chain, clock, unrewound>>
  /\ UNCHANGED <<session, caughtUp, errors, disturbed, writer, batch, todo>>

Blocked == Len(channel) > ChanCap

CaughtUpPastTip == cursor > tip   \* no header is past the tip

CaughtUp == cursor + Window >= tip

(* The send has gone through: is the sync caught up?                       *)
RollForwardReturns ==
  /\ session = "run" /\ sending /\ ~Blocked
  /\ sending' = FALSE
  /\ caughtUp' = (caughtUp \/ CaughtUp)
  /\ UNCHANGED <<vars, session, tip, errors, disturbed, pipe>>

(* handleRollBackward only logs; the node goes on from block p.            *)
HandleRollBackward(p) ==
  /\ "rollback" \in SyncFaults
  /\ session = "run" /\ ~sending /\ errors < MaxErrors
  /\ p < cursor /\ \E b \in chain : b.slot = p
  /\ \E T \in SUBSET Block :
       /\ PlausibleChain(T) /\ Prefix(T, p) = Prefix(chain, p) /\ T # chain
       /\ chain' = T
  /\ cursor' = p
  /\ errors' = errors + 1
  /\ disturbed' = disturbed \cup {"rollback"}
  /\ UNCHANGED <<db, tracker, pc, work, phase, clock, unrewound>>
  /\ UNCHANGED <<session, sending, caughtUp, tip, pipe>>

(* The node closes the connection, or a keep-alive is late.  The sender, if*)
(* blocked, is woken up by the writer; nothing else is sent (main.go:680). *)
ConnectionFails ==
  /\ session = "run"
  /\ errors < MaxErrors
  /\ errors' = errors + 1
  /\ session' = IF caughtUp THEN "close" ELSE "drain"
  /\ sending' = FALSE
  /\ UNCHANGED <<vars, caughtUp, tip, disturbed, pipe>>

(* onCaughtUp has cancelled the context: Start returns.                    *)
ContextDone ==
  /\ session = "run" /\ caughtUp /\ ~sending
  /\ session' = "close"
  /\ UNCHANGED <<vars, sending, caughtUp, tip, errors, disturbed, pipe>>

----------------------------------------------------------------------------
(* The retry loop.                                                         *)

(* Wait until the channel is empty, then three seconds, which are taken to *)
(* be enough for the writer to flush what it has collected.                *)
Drain ==
  /\ session = "drain"
  /\ channel = <<>>
  /\ writer = "collect" /\ batch = <<>>
  /\ session' = "resync"
  /\ UNCHANGED <<vars, sending, caughtUp, tip, errors, disturbed, pipe>>

ResyncTakeRow(e) ==
  /\ etaV' = row[e].evolving
  /\ blockCount' = row[e].count

(* A row that counts fewer blocks than are stored is computed again from   *)
(* the row of the epoch before it.                                         *)
ResyncRecompute(e) ==
  LET T == BlocksOf(e)
  IN \E prev \in GetEvolvingNonce(row, e - 1) :
       /\ etaV' = EvolveAll(Seed(prev), T)
       /\ blockCount' = Cardinality(T)
       /\ row' = UpsertEvolvingNonce(row, e, etaV', blockCount')

(* ResyncFromDB, under nt.mu.                                              *)
ResyncFromDB ==
  LET e == EpochAt(LastSlot(blocks))
  IN /\ session = "resync"
     /\ Idle
     /\ session' = "start"
     /\ \/ /\ blocks = {} \/ ~HasRow(e)
           /\ UNCHANGED <<tracker, row>>
        \/ /\ blocks # {} /\ HasRow(e)
           /\ currentEpoch' = e /\ candidateFroze' = FALSE
           /\ IF row[e].count = Cardinality(BlocksOf(e))
              THEN ResyncTakeRow(e) /\ UNCHANGED row
              ELSE \/ ResyncRecompute(e)
                   \/ Fails("upsert") /\ ResyncTakeRow(e) /\ UNCHANGED row
     /\ UNCHANGED <<blocks, pc, work, stream, sending, caughtUp, tip, errors, disturbed, pipe>>

(* close(blockCh), once the loop is left.                                  *)
CloseChannel ==
  /\ session = "close"
  /\ ~Blocked
  /\ session' = "closed"
  /\ UNCHANGED <<vars, sending, caughtUp, tip, errors, disturbed, pipe>>

(* <-writerDone, then historicalSyncDone.                                  *)
SyncDone ==
  /\ session = "closed"
  /\ writer = "done"
  /\ session' = "done"
  /\ UNCHANGED <<vars, sending, caughtUp, tip, errors, disturbed, pipe>>

----------------------------------------------------------------------------
(* The writer goroutine.                                                   *)

Receive ==
  /\ writer = "collect"
  /\ channel # <<>>
  /\ channel' = Tail(channel)
  /\ batch' = Append(batch, Head(channel))
  /\ writer' = IF Len(batch') >= BatchCap THEN "flush" ELSE "collect"
  /\ UNCHANGED <<vars, syncer, todo>>

Tick ==
  /\ writer = "collect"
  /\ batch # <<>>
  /\ writer' = "flush"
  /\ UNCHANGED <<vars, syncer, channel, batch, todo>>

ExitWithoutFlush ==   \* drops what is collected
  /\ writer = "collect"
  /\ session = "closed" /\ channel = <<>>
  /\ writer' = "done"
  /\ batch' = <<>>
  /\ UNCHANGED <<vars, syncer, channel, todo>>

(* The channel is closed and empty: flush what is left, then return.       *)
ChannelClosed ==
  /\ writer = "collect"
  /\ session = "closed" /\ channel = <<>>
  /\ writer' = IF batch = <<>> THEN "done" ELSE "flush"
  /\ UNCHANGED <<vars, syncer, channel, batch, todo>>

(* InsertBlockBatch: the blocks of q that ON CONFLICT (slot) lets through. *)
NewIn(q) ==
  {q[i] : i \in {j \in DOMAIN q :
     /\ \A c \in blocks : c.slot # q[j].slot
     /\ \A k \in 1..j - 1 : q[k].slot # q[j].slot}}

FlushAll ==   \* evolves the duplicates too
  /\ writer = "flush"
  /\ batch' = <<>>
  /\ todo' = batch
  /\ IF Len(batch) < SmallBatch
     THEN writer' = "each" /\ UNCHANGED blocks
     ELSE writer' = "batch" /\ blocks' = blocks \cup NewIn(batch)
  /\ UNCHANGED <<row, tracker, pc, work, stream, syncer, channel>>

FlushDropsFailed ==   \* a batch that cannot be inserted is given up
  /\ writer = "flush"
  /\ batch' = <<>>
  /\ \/ /\ Len(batch) < SmallBatch \/ "batch" \in SyncFaults
        /\ todo' = IF Len(batch) < SmallBatch THEN batch ELSE <<>>
        /\ writer' = "each"
        /\ UNCHANGED blocks
     \/ /\ Len(batch) >= SmallBatch
        /\ blocks' = blocks \cup NewIn(batch)
        /\ todo' = SubSeq(batch, 1 + Len(batch) - Cardinality(NewIn(batch)), Len(batch))
        /\ writer' = "batch"
  /\ UNCHANGED <<row, tracker, pc, work, stream, syncer, channel>>

(* flushBlockBatch: a small batch block by block; a large one inserted as a*)
(* whole, then its last blocks evolved, as many as were inserted; block by *)
(* block when the insert fails.                                            *)
FlushBlockBatch ==
  /\ writer = "flush"
  /\ batch' = <<>>
  /\ \/ /\ Len(batch) < SmallBatch \/ "batch" \in SyncFaults
        /\ todo' = batch
        /\ writer' = "each"
        /\ UNCHANGED blocks
     \/ /\ Len(batch) >= SmallBatch
        /\ blocks' = blocks \cup NewIn(batch)
        /\ todo' = SubSeq(batch, 1 + Len(batch) - Cardinality(NewIn(batch)), Len(batch))
        /\ writer' = "batch"
  /\ UNCHANGED <<row, tracker, pc, work, stream, syncer, channel>>

(* ProcessBlock: NonceTracker models what follows the insert.              *)
ProcessBlock ==
  LET b == Head(todo)
  IN /\ writer = "each" /\ todo # <<>>
     /\ Idle
     /\ todo' = Tail(todo)
     /\ EnterEpoch(EpochOf[b.slot])
     /\ \/ /\ \A c \in blocks : c.slot # b.slot
           /\ blocks' = blocks \cup {b}
           /\ pc' = "freeze"
           /\ work' = [NoWork EXCEPT !.block = b]
        \/ /\ Fails("insert") \/ \E c \in blocks : c.slot = b.slot
           /\ UNCHANGED <<blocks, pc, work>>
     /\ UNCHANGED <<row, stream, syncer, channel, writer, batch>>

EachDone ==
  /\ writer = "each" /\ todo = <<>>
  /\ Idle
  /\ writer' = "collect"
  /\ UNCHANGED <<vars, syncer, channel, batch, todo>>

(* ProcessBatch holds nt.mu from here on.                                  *)
ProcessBatch ==
  /\ writer = "batch"
  /\ Idle
  /\ pc' = "batch"
  /\ UNCHANGED <<db, tracker, work, stream, syncer, pipe>>

InBatch == writer = "batch" /\ pc = "batch"

(* ProcessBatch: the block enters another epoch; the row of the epoch that *)
(* is left is written, the one of the epoch entered is not read.           *)
BatchEntersEpoch ==
  /\ InBatch
  /\ todo # <<>>
  /\ LET e == EpochOf[Head(todo).slot]
     IN e # currentEpoch /\ currentEpoch' = e
  /\ \/ row' = UpsertEvolvingNonce(row, currentEpoch, etaV, blockCount)
     \/ Fails("upsert") /\ row' = row
  /\ blockCount' = 0
  /\ candidateFroze' = FALSE
  /\ UNCHANGED <<blocks, etaV, pc, work, stream, syncer, pipe>>

(* ProcessBatch: freeze the candidate, then evolve in memory.              *)
BatchEvolves ==
  LET b == Head(todo)
      freeze == ~candidateFroze /\ b.slot \in Stable
  IN /\ InBatch
     /\ todo # <<>>
     /\ EpochOf[b.slot] = currentEpoch
     /\ \/ row' = IF freeze THEN SetCandidateNonce(row, currentEpoch, etaV) ELSE row
        \/ Fails("freeze") /\ row' = row
     /\ candidateFroze' = (candidateFroze \/ freeze)
     /\ etaV' = Evolve(etaV, b)
     /\ blockCount' = blockCount + 1
     /\ todo' = Tail(todo)
     /\ UNCHANGED <<blocks, currentEpoch, pc, work, stream, syncer, channel, writer, batch>>

(* ProcessBatch: persist the final state.                                  *)
BatchPersists ==
  /\ InBatch
  /\ todo = <<>>
  /\ \/ row' = UpsertEvolvingNonce(row, currentEpoch, etaV, blockCount)
     \/ Fails("upsert") /\ row' = row
  /\ pc' = "idle"
  /\ writer' = "collect"
  /\ UNCHANGED <<blocks, tracker, work, stream, syncer, channel, batch, todo>>

----------------------------------------------------------------------------
(* The process stops: the channel and the writer's batch are lost.  It     *)
(* starts again with the integrity check of NonceTracker.                  *)

Epochs(q) == {EpochOf[q[i].slot] : i \in DOMAIN q}

Stop ==
  /\ Crash
  /\ session # "done"
  /\ errors < MaxErrors
  /\ errors' = errors + 1
  /\ session' = "start" /\ sending' = FALSE /\ caughtUp' = FALSE /\ tip' = 0
  /\ channel' = <<>> /\ writer' = "collect" /\ batch' = <<>> /\ todo' = <<>>
  /\ disturbed' = IF writer = "batch" /\ Cardinality(Epochs(todo) \cup {currentEpoch}) > 1
                  THEN disturbed \cup {"split"} ELSE disturbed

RestartSync ==
  /\ Restart
  /\ disturbed' = IF blocks # {} /\ currentEpoch' > EpochAt(LastSlot(blocks))
                  THEN disturbed \cup {"late"} ELSE disturbed
  /\ UNCHANGED <<session, sending, caughtUp, tip, errors, pipe>>

StartUp ==
  /\ ValidateDBIntegrity \/ RestoreEvolving \/ RestoreCandidate
  /\ UNCHANGED <<syncer, pipe>>

----------------------------------------------------------------------------
SyncerStep ==
  \/ Connect
  \/ \E b \in Block : HandleRollForward(b)
  \/ RollForwardReturns
  \/ ContextDone
  \/ Drain
  \/ ResyncFromDB
  \/ CloseChannel
  \/ SyncDone

(* Every step of the writer but the passing of two seconds.                *)
WriterStep ==
  \/ Receive
  \/ ChannelClosed
  \/ FlushBlockBatch
  \/ ProcessBlock
  \/ EachDone
  \/ ProcessBatch
  \/ BatchEntersEpoch
  \/ BatchEvolves
  \/ BatchPersists
  \/ (FreezeCandidate \/ EvolveNonce) /\ UNCHANGED <<syncer, pipe>>

SyncNext ==
  \/ SyncerStep
  \/ WriterStep
  \/ Tick
  \/ ConnectionFails
  \/ \E p \in Slot : HandleRollBackward(p)
  \/ Stop
  \/ RestartSync
  \/ StartUp
  \/ \E e \in FinalEpochs : CacheFinalNonce(e) /\ UNCHANGED <<syncer, pipe>>

SyncSpec == SyncInit /\ [][SyncNext]_syncVars

(* The goroutines run and the ticker ticks; connections fail a bounded     *)
(* number of times.                                                        *)
SyncFairness ==
  /\ WF_syncVars(SyncerStep)
  /\ WF_syncVars(WriterStep)
  /\ WF_syncVars(Tick)
  /\ WF_syncVars(RestartSync \/ StartUp)

FairSyncSpec == SyncSpec /\ SyncFairness

----------------------------------------------------------------------------
(* Properties.                                                             *)

(* Every stored block has been hashed: the writer is between two flushes.  *)
Quiet == Idle /\ writer \in {"collect", "done"}

FollowsStore ==
  /\ Current => etaV = ChainNonce(UpTo(currentEpoch))
  /\ \A e \in Epoch : BlocksOf(e) # {} =>
       /\ row[e].evolving = ChainNonce(UpTo(e))
       /\ row[e].count = Cardinality(BlocksOf(e))

(* Between two flushes the tracker and every row agree with the blocks     *)
(* table, whatever blocks the dead connections, the channel and the overlap*)
(* of the next connection delivered twice, whichever batch inserts failed  *)
(* and wherever the process stopped, as long as none of Disturbances       *)
(* happened (flushBlockBatch's suffix, ResyncFromDB, the start-up check).  *)
SyncFollowsStore == Quiet /\ disturbed = {} => FollowsStore

(* "Uses an overlap window of 100 blocks on reconnect to prevent gaps"     *)
(* (getIntersectPoints, sync.go:139): below the last stored block nothing  *)
(* is missing, at any time, unless the node has rolled back.               *)
NoStoredGap ==
  "rollback" \notin disturbed => \A b \in chain : b.slot <= LastSlot(blocks) => b \in blocks

(* When the sync is declared done, every block of the chain older than the *)
(* window is stored: the last partial batch is flushed before the hand-over*)
(* to the live tail (main.go:709-711).                                     *)
NothingLeftBehind ==
  session = "done" /\ "rollback" \notin disturbed => \A b \in chain : b.slot + Window < tip => b \in blocks

(* The sync ends: no connection error, full channel, stop or writer's flush*)
(* makes the syncer, the retry loop and the writer wait for each other     *)
(* forever.  After a rollback the resume point may be a forked block.      *)
SyncCompletes == <>(session = "done" \/ "rollback" \in disturbed)
=============================================================================
