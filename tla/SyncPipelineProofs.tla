------------------------- MODULE SyncPipelineProofs -------------------------
(***************************************************************************)
(* Theorems about SyncPipeline: whatever is delivered twice, lost with the *)
(* channel, cut short by a stop or given up by a failing batch insert, the *)
(* blocks table has no gap, nothing older than the window is missing when  *)
(* the sync is done, and between two flushes the nonces in memory and in   *)
(* the rows are those of the stored blocks.                                *)
(***************************************************************************)
EXTENDS SyncPipeline, NonceTrackerProofs, SequenceTheorems

----------------------------------------------------------------------------
(* The inductive invariant.                                                *)

In(q) == {q[i] : i \in 1..Len(q)}

Sorted(q) == \A i, j \in 1..Len(q) : i < j => q[i].slot < q[j].slot

(* The blocks that have been delivered and are not stored for certain.     *)
Pipe == In(todo) \cup In(batch) \cup In(channel)

PipeType ==
  /\ blocks \subseteq Block /\ IsFiniteSet(blocks)
  /\ chain \subseteq Block /\ IsFiniteSet(chain)
  /\ cursor \in Nat /\ tip \in Nat
  /\ todo \in Seq(Block) /\ batch \in Seq(Block) /\ channel \in Seq(Block)
  /\ session \in {"start", "run", "drain", "resync", "close", "closed", "done"}
  /\ writer \in {"collect", "flush", "each", "batch", "done"}
  /\ sending \in BOOLEAN /\ caughtUp \in BOOLEAN

(* Where the goroutines may be at the same time, and what is then empty.   *)
PlacesInv ==
  /\ pc \in {"down", "validate"} => session = "start"
  /\ session \in {"start", "resync"} => channel = <<>> /\ batch = <<>> /\ writer = "collect"
  /\ writer \in {"collect", "flush", "done"} => todo = <<>>
  /\ writer \in {"each", "batch", "done"} => batch = <<>>
  /\ writer = "done" => channel = <<>> /\ session \in {"closed", "done"}
  /\ session = "done" => writer = "done"
  /\ session \in {"close", "closed", "done"} => caughtUp
  /\ session # "run" => ~sending

(* The pipe holds blocks of the chain in the order of their slots, first   *)
(* those of the flush, then the writer's batch, then the channel's.        *)
OrderInv ==
  /\ Sorted(todo) /\ Sorted(batch) /\ Sorted(channel)
  /\ \A b \in In(todo) \cup In(batch), c \in In(channel) : b.slot < c.slot
  /\ Pipe \subseteq chain
  /\ session # "start" => \A b \in Pipe : b.slot <= cursor
  /\ writer = "batch" => In(todo) \subseteq blocks

(* Nothing below the last stored block is missing, and nothing below the   *)
(* cursor is neither stored nor in the pipe.                               *)
StoredInv ==
  /\ OnePerSlot(chain)
  /\ blocks \subseteq chain
  /\ \A b \in chain, c \in blocks : b.slot <= c.slot => b \in blocks
  /\ session # "start" => \A b \in chain : b.slot <= cursor => b \in blocks \cup Pipe

TipInv ==
  /\ sending \/ caughtUp => tip = Tip
  /\ caughtUp /\ session # "start" => CaughtUp

GapInv == "rollback" \notin disturbed => OrderInv /\ StoredInv /\ TipInv

(* InsertBlock does not fail; everything else may.                         *)
StoresBlocks == "insert" \notin Faults

SyncInv == PipeType /\ PlacesInv /\ GapInv

----------------------------------------------------------------------------
(* Sequences of blocks.                                                    *)

LEMMA EmptySequence == <<>> \in Seq(Block) /\ Len(<<>>) = 0 /\ In(<<>>) = {} /\ Sorted(<<>>)
<1>1. <<>> \in Seq(Block) /\ Len(<<>>) = 0
  BY EmptySeq
<1>2. \A i \in 1..0 : FALSE
  OBVIOUS
<1> QED BY <1>1, <1>2 DEF In, Sorted

LEMMA InType ==
  ASSUME NEW q \in Seq(Block)
  PROVE  /\ In(q) \in SUBSET Block
         /\ IsFiniteSet(In(q)) /\ Cardinality(In(q)) <= Len(q)
         /\ Len(q) \in Nat
         /\ q # <<>> => Len(q) > 0
<1>1. Len(q) \in Nat /\ q \in [1..Len(q) -> Block]
  BY LenProperties
<1>2. In(q) \in SUBSET Block
  BY <1>1 DEF In
<1>3. q \in Surjection(1..Len(q), In(q))
  BY <1>1 DEF Surjection, In
<1>4. /\ IsFiniteSet(1..Len(q)) /\ Cardinality(1..Len(q)) = Len(q)
  BY <1>1, FS_Interval
<1>5. IsFiniteSet(In(q)) /\ Cardinality(In(q)) <= Len(q)
  BY <1>3, <1>4, FS_Surjection
<1>6. q # <<>> => Len(q) > 0
  BY <1>1, EmptySeq
<1> QED BY <1>1, <1>2, <1>5, <1>6

LEMMA AppendBlock ==
  ASSUME NEW q \in Seq(Block), NEW b \in Block
  PROVE  /\ Append(q, b) \in Seq(Block) /\ In(Append(q, b)) = In(q) \cup {b}
         /\ Sorted(q) /\ (\A c \in In(q) : c.slot < b.slot) => Sorted(Append(q, b))
<1> DEFINE r == Append(q, b)
<1>1. /\ r \in Seq(Block) /\ Len(r) = Len(q) + 1 /\ Len(q) \in Nat
      /\ \A i \in 1..Len(q) : r[i] = q[i]
      /\ r[Len(q) + 1] = b
  BY AppendProperties, LenProperties
<1> HIDE DEF r
<1>2. 1..Len(r) = 1..Len(q) \cup {Len(q) + 1}
  BY <1>1
<1>3. In(r) = In(q) \cup {b}
  BY <1>1, <1>2 DEF In
<1>4. ASSUME Sorted(q), \A c \in In(q) : c.slot < b.slot PROVE Sorted(r)
  <2> SUFFICES ASSUME NEW i \in 1..Len(r), NEW j \in 1..Len(r), i < j
               PROVE  r[i].slot < r[j].slot
    BY DEF Sorted
  <2>1. i \in 1..Len(q)
    BY <1>1, <1>2
  <2>2. CASE j \in 1..Len(q)
    BY <1>1, <1>4, <2>1, <2>2 DEF Sorted
  <2>3. CASE j = Len(q) + 1
    <3>1. q[i] \in In(q)
      BY <2>1 DEF In
    <3> QED BY <1>1, <1>4, <2>1, <2>3, <3>1
  <2> QED BY <1>2, <2>2, <2>3
<1> QED BY <1>1, <1>3, <1>4 DEF r

LEMMA TailBlock ==
  ASSUME NEW q \in Seq(Block), q # <<>>
  PROVE  /\ Head(q) \in Block /\ Tail(q) \in Seq(Block)
         /\ In(q) = {Head(q)} \cup In(Tail(q))
         /\ Sorted(q) => /\ Sorted(Tail(q))
                         /\ \A c \in In(Tail(q)) : Head(q).slot < c.slot
<1> DEFINE r == Tail(q)
<1>1. /\ Head(q) \in Block /\ r \in Seq(Block) /\ Len(r) = Len(q) - 1
      /\ \A i \in 1..Len(r) : r[i] = q[i + 1]
  BY HeadTailProperties
<1>2. Len(q) \in Nat /\ Len(q) > 0 /\ Head(q) = q[1]
  BY InType
<1> HIDE DEF r
<1>3. \A i \in 1..Len(q) : i = 1 \/ i - 1 \in 1..Len(r)
  BY <1>1, <1>2
<1>4. \A i \in 1..Len(r) : i + 1 \in 1..Len(q)
  BY <1>1, <1>2
<1>5. In(q) = {q[1]} \cup In(r)
  <2>1. ASSUME NEW c \in In(q) PROVE c = q[1] \/ c \in In(r)
    <3>1. PICK i \in 1..Len(q) : c = q[i]
      BY DEF In
    <3>2. CASE i = 1
      BY <3>1, <3>2
    <3>3. CASE i - 1 \in 1..Len(r)
      <4>1. r[i - 1] = q[i]
        BY <1>1, <3>3
      <4> QED BY <3>1, <3>3, <4>1 DEF In
    <3> QED BY <1>3, <3>2, <3>3
  <2>2. q[1] \in In(q)
    BY <1>2 DEF In
  <2>3. In(r) \subseteq In(q)
    BY <1>1, <1>4 DEF In
  <2> QED BY <2>1, <2>2, <2>3
<1>6. ASSUME Sorted(q) PROVE Sorted(r) /\ \A c \in In(r) : q[1].slot < c.slot
  <2>1. Sorted(r)
    BY <1>1, <1>2, <1>4, <1>6 DEF Sorted
  <2>2. ASSUME NEW i \in 1..Len(r) PROVE q[1].slot < r[i].slot
    <3>1. 1 \in 1..Len(q) /\ i + 1 \in 1..Len(q) /\ 1 < i + 1
      BY <1>2, <1>4
    <3> QED BY <1>1, <1>6, <3>1 DEF Sorted
  <2> QED BY <2>1, <2>2 DEF In
<1> QED BY <1>1, <1>2, <1>5, <1>6 DEF r

LEMMA SuffixBlocks ==
  ASSUME NEW q \in Seq(Block), NEW m \in 1..Len(q) + 1
  PROVE  /\ SubSeq(q, m, Len(q)) \in Seq(Block)
         /\ In(SubSeq(q, m, Len(q))) = {q[i] : i \in m..Len(q)}
         /\ Sorted(q) => Sorted(SubSeq(q, m, Len(q)))
<1> DEFINE n == Len(q)
           r == SubSeq(q, m, n)
<1>1. n \in Nat /\ q \in [1..n -> Block] /\ m \in Nat /\ m >= 1 /\ m <= n + 1
  BY LenProperties
<1>2. /\ r \in Seq(Block) /\ Len(r) = (IF m <= n THEN n - m + 1 ELSE 0)
      /\ \A i \in 1..n - m + 1 : r[i] = q[m + i - 1]
  <2>1. \A i \in m..n : q[i] \in Block
    BY <1>1
  <2> HIDE DEF n
  <2> QED BY <1>1, <2>1, SubSeqProperties
<1> HIDE DEF r, n
<1>3. Len(r) = n - m + 1
  BY <1>1, <1>2
<1>4. \A i \in 1..Len(r) : m + i - 1 \in m..n /\ r[i] = q[m + i - 1]
  BY <1>1, <1>2, <1>3
<1>5. \A k \in m..n : k - m + 1 \in 1..Len(r) /\ r[k - m + 1] = q[k]
  <2> SUFFICES ASSUME NEW k \in m..n
               PROVE  k - m + 1 \in 1..Len(r) /\ r[k - m + 1] = q[k]
    OBVIOUS
  <2>1. k - m + 1 \in 1..Len(r) /\ m + (k - m + 1) - 1 = k
    BY <1>1, <1>3
  <2> QED BY <1>4, <2>1
<1>6. In(r) = {q[k] : k \in m..n}
  <2>1. \A c \in In(r) : c \in {q[k] : k \in m..n}
    BY <1>4 DEF In
  <2>2. \A k \in m..n : q[k] \in In(r)
    BY <1>5 DEF In
  <2> QED BY <2>1, <2>2
<1>7. ASSUME Sorted(q) PROVE Sorted(r)
  <2> SUFFICES ASSUME NEW i \in 1..Len(r), NEW j \in 1..Len(r), i < j
               PROVE  r[i].slot < r[j].slot
    BY DEF Sorted
  <2>1. /\ m + i - 1 \in 1..n /\ m + j - 1 \in 1..n /\ m + i - 1 < m + j - 1
    BY <1>1, <1>3
  <2>2. q[m + i - 1].slot < q[m + j - 1].slot
    BY <1>7, <2>1 DEF Sorted, n
  <2> QED BY <1>4, <2>2
<1> QED BY <1>2, <1>6, <1>7 DEF r, n

(* ON CONFLICT (slot) drops from a batch of the chain exactly the blocks   *)
(* that are stored already.                                                *)
LEMMA NewInBatch ==
  ASSUME NEW q \in Seq(Block), Sorted(q), OnePerSlot(chain), blocks \subseteq chain,
         In(q) \subseteq chain
  PROVE  NewIn(q) = In(q) \ blocks
<1>1. Len(q) \in Nat /\ DOMAIN q = 1..Len(q)
  BY LenProperties
<1>2. ASSUME NEW j \in 1..Len(q), NEW c \in blocks, c.slot = q[j].slot PROVE q[j] = c
  <2>1. q[j] \in chain /\ c \in chain
    BY DEF In
  <2> QED BY <1>2, <2>1 DEF OnePerSlot
<1>3. ASSUME NEW j \in 1..Len(q), NEW k \in 1..j - 1 PROVE q[k].slot # q[j].slot
  <2>1. k \in 1..Len(q) /\ k < j
    BY <1>1
  <2>2. q[k].slot < q[j].slot /\ q[j] \in Block /\ q[k] \in Block
    BY <1>1, <2>1, LenProperties DEF Sorted
  <2> QED BY <2>2, BlockSlot
<1>4. \A j \in 1..Len(q) : (\A c \in blocks : c.slot # q[j].slot) <=> q[j] \notin blocks
  BY <1>2
<1>5. NewIn(q) = {q[i] : i \in {j \in 1..Len(q) : q[j] \notin blocks}}
  BY <1>1, <1>3, <1>4 DEF NewIn
<1> QED BY <1>5 DEF In

----------------------------------------------------------------------------
(* Every step keeps the types, and the goroutines in their places.         *)

LEMMA SyncTypeInit == SyncInit => PipeType /\ PlacesInv
<1> SUFFICES ASSUME SyncInit PROVE PipeType /\ PlacesInv
  OBVIOUS
<1>1. IsFiniteSet(blocks) /\ chain \subseteq Block /\ IsFiniteSet(chain)
  BY FS_EmptySet DEF SyncInit, PlausibleChain
<1> QED BY <1>1, EmptySequence DEF SyncInit, PipeType, PlacesInv

LEMMA TipType ==
  ASSUME PipeType
  PROVE  Tip \in Nat /\ ResumeSlot \in Nat
<1>1. Tip \in Slot \cup {0} /\ ResumeSlot \in Slot \cup {0}
  BY LastSlotOf, ResumeSlotOf DEF PipeType, Tip
<1> QED BY <1>1, SlotAssumption

LEMMA SyncTypeStep ==
  ASSUME StoresBlocks, PipeType, PlacesInv, [SyncNext]_syncVars
  PROVE  PipeType' /\ PlacesInv'
<1>1. CASE UNCHANGED syncVars
  BY <1>1 DEF syncVars, vars, db, tracker, stream, syncer, pipe, PipeType, PlacesInv
<1>2. CASE Connect
  BY <1>2, TipType DEF Connect, db, tracker, pipe, PipeType, PlacesInv
<1>3. ASSUME NEW b \in Block, HandleRollForward(b) PROVE PipeType' /\ PlacesInv'
  <2>1. b.slot \in Nat
    BY BlockSlot
  <2>2. Append(channel, b) \in Seq(Block)
    BY AppendBlock DEF PipeType
  <2> QED BY <1>3, <2>1, <2>2, TipType DEF HandleRollForward, db, tracker, PipeType, PlacesInv
<1>4. CASE RollForwardReturns \/ ContextDone \/ Drain \/ CloseChannel \/ SyncDone
  <2>1. /\ UNCHANGED <<blocks, chain, cursor, tip, pc, channel, batch, todo, writer>>
        /\ \/ session = "run" /\ session' = "run" /\ sending' = FALSE
              /\ caughtUp' = (caughtUp \/ CaughtUp)
           \/ session = "run" /\ session' = "close" /\ caughtUp /\ ~sending
              /\ UNCHANGED <<sending, caughtUp>>
           \/ session = "drain" /\ session' = "resync" /\ UNCHANGED <<sending, caughtUp>>
              /\ channel = <<>> /\ batch = <<>> /\ writer = "collect"
           \/ session = "close" /\ session' = "closed" /\ UNCHANGED <<sending, caughtUp>>
           \/ session = "closed" /\ session' = "done" /\ UNCHANGED <<sending, caughtUp>>
              /\ writer = "done"
    BY <1>4 DEF RollForwardReturns, ContextDone, Drain, CloseChannel, SyncDone, vars, db, stream,
                pipe
  <2>2. CaughtUp \in BOOLEAN
    BY DEF CaughtUp
  <2>3. caughtUp' \in BOOLEAN /\ sending' \in BOOLEAN
    BY <2>1, <2>2 DEF PipeType
  <2>4. PipeType'
    BY <2>1, <2>3 DEF PipeType
  <2>5. caughtUp => caughtUp'
    BY <2>1
  <2>6. PlacesInv'
    BY <2>1, <2>5 DEF PlacesInv
  <2> QED BY <2>4, <2>6
<1>5. CASE ResyncFromDB
  BY <1>5 DEF ResyncFromDB, Idle, stream, pipe, PipeType, PlacesInv
<1>6. CASE Receive
  <2>1. /\ channel \in Seq(Block) /\ channel # <<>>
        /\ batch \in Seq(Block)
    BY <1>6 DEF Receive, PipeType
  <2>2. Tail(channel) \in Seq(Block) /\ Head(channel) \in Block
    BY <2>1, TailBlock
  <2>3. Append(batch, Head(channel)) \in Seq(Block)
    BY <2>1, <2>2, AppendBlock
  <2> QED BY <1>6, <2>2, <2>3 DEF Receive, vars, db, tracker, stream, syncer, PipeType, PlacesInv
<1>7. CASE ChannelClosed \/ Tick \/ EachDone
  BY <1>7 DEF ChannelClosed, Tick, EachDone, vars, db, tracker, stream, syncer,
              PipeType, PlacesInv
<1>8. CASE FlushBlockBatch
  <2>1. batch \in Seq(Block) /\ Len(batch) \in Nat
    BY InType DEF PipeType
  <2>2. /\ NewIn(batch) \subseteq In(batch)
        /\ IsFiniteSet(NewIn(batch)) /\ Cardinality(NewIn(batch)) \in 0..Len(batch)
        /\ NewIn(batch) \subseteq Block
    <3>1. DOMAIN batch = 1..Len(batch)
      BY <2>1, LenProperties
    <3>2. NewIn(batch) \in SUBSET In(batch)
      BY <3>1 DEF NewIn, In
    <3>3. /\ In(batch) \in SUBSET Block /\ IsFiniteSet(In(batch))
          /\ Cardinality(In(batch)) <= Len(batch)
      BY <2>1, InType
    <3>4. /\ IsFiniteSet(NewIn(batch)) /\ Cardinality(NewIn(batch)) <= Cardinality(In(batch))
      BY <3>2, <3>3, FS_Subset
    <3>5. Cardinality(NewIn(batch)) \in Nat /\ Cardinality(In(batch)) \in Nat
      BY <3>3, <3>4, FS_CardinalityType
    <3> QED BY <2>1, <3>2, <3>3, <3>4, <3>5
  <2>3. 1 + Len(batch) - Cardinality(NewIn(batch)) \in 1..Len(batch) + 1
    BY <2>1, <2>2
  <2>4. SubSeq(batch, 1 + Len(batch) - Cardinality(NewIn(batch)), Len(batch)) \in Seq(Block)
    BY <2>1, <2>3, SuffixBlocks
  <2>5. blocks \cup NewIn(batch) \subseteq Block /\ IsFiniteSet(blocks \cup NewIn(batch))
    BY <2>2, FS_Union DEF PipeType
  <2>6. /\ blocks' \in {blocks, blocks \cup NewIn(batch)}
        /\ todo' \in Seq(Block) /\ batch' = <<>>
        /\ writer = "flush" /\ writer' \in {"each", "batch"}
        /\ UNCHANGED <<chain, cursor, tip, channel, session, sending, caughtUp, pc>>
    BY <1>8, <2>1, <2>4 DEF FlushBlockBatch, stream, syncer
  <2> QED BY <2>5, <2>6, EmptySequence DEF PipeType, PlacesInv
<1>9. CASE ProcessBlock
  <2>1. todo \in Seq(Block) /\ todo # <<>>
    BY <1>9 DEF ProcessBlock, PipeType
  <2>2. Head(todo) \in Block /\ Tail(todo) \in Seq(Block)
    BY <2>1, TailBlock
  <2>3. /\ blocks' \in {blocks, blocks \cup {Head(todo)}}
        /\ todo' = Tail(todo) /\ pc' \in {"idle", "freeze"} /\ writer = "each"
        /\ UNCHANGED <<chain, cursor, tip, channel, batch, session, sending, caughtUp, writer>>
    BY <1>9 DEF ProcessBlock, Idle, stream, syncer
  <2>4. blocks \cup {Head(todo)} \subseteq Block /\ IsFiniteSet(blocks \cup {Head(todo)})
    BY <2>2, FS_AddElement DEF PipeType
  <2> QED BY <2>2, <2>3, <2>4 DEF PipeType, PlacesInv
<1>10. CASE ProcessBatch \/ BatchEntersEpoch
  BY <1>10 DEF ProcessBatch, BatchEntersEpoch, InBatch, db, tracker, stream, syncer, pipe,
               PipeType, PlacesInv
<1>11. CASE BatchEvolves
  <2>1. todo \in Seq(Block) /\ todo # <<>>
    BY <1>11 DEF BatchEvolves, PipeType
  <2>2. Tail(todo) \in Seq(Block)
    BY <2>1, TailBlock
  <2> QED BY <1>11, <2>2 DEF BatchEvolves, InBatch, stream, syncer, PipeType, PlacesInv
<1>12. CASE BatchPersists
  BY <1>12 DEF BatchPersists, InBatch, tracker, stream, syncer, PipeType, PlacesInv
<1>13. CASE (FreezeCandidate \/ EvolveNonce) /\ UNCHANGED <<syncer, pipe>>
  BY <1>13 DEF FreezeCandidate, EvolveNonce, Finish, stream, syncer, pipe, PipeType, PlacesInv
<1>14. CASE ConnectionFails
  BY <1>14 DEF ConnectionFails, vars, db, tracker, stream, pipe, PipeType, PlacesInv
<1>15. ASSUME NEW p \in Slot, HandleRollBackward(p) PROVE PipeType' /\ PlacesInv'
  <2>1. p \in Nat
    BY SlotAssumption
  <2>2. chain' \subseteq Block /\ IsFiniteSet(chain')
    BY <1>15 DEF HandleRollBackward, PlausibleChain
  <2> QED BY <1>15, <2>1, <2>2 DEF HandleRollBackward, db, tracker, pipe, PipeType, PlacesInv
<1>16. CASE Stop
  BY <1>16, EmptySequence DEF Stop, Crash, db, stream, PipeType, PlacesInv
<1>17. CASE RestartSync
  BY <1>17 DEF RestartSync, Restart, db, pipe, PipeType, PlacesInv
<1>18. CASE StartUp
  <2>1. CASE ValidateDBIntegrity
    <3>1. /\ pc = "validate" /\ pc' \in {"idle", "restore"}
          /\ blocks' \in {blocks, {}} /\ chain' \in {chain, {}}
          /\ cursor' \in {0, ResumeSlot}
      BY <2>1 DEF ValidateDBIntegrity, Finish, Resume, RecomputeCurrentEpochNonce, db
    <3>2. blocks' \subseteq Block /\ IsFiniteSet(blocks')
      BY <3>1, FS_EmptySet DEF PipeType
    <3>3. chain' \subseteq Block /\ IsFiniteSet(chain')
      BY <3>1, FS_EmptySet DEF PipeType
    <3>4. cursor' \in Nat
      BY <3>1, TipType
    <3> QED BY <1>18, <3>1, <3>2, <3>3, <3>4 DEF StartUp, syncer, pipe, PipeType, PlacesInv
  <2>2. CASE RestoreEvolving \/ RestoreCandidate
    <3>1. /\ pc' \in {"idle", "candidate", "resetEvolving"}
          /\ UNCHANGED <<blocks, chain, cursor>>
      BY <2>2 DEF RestoreEvolving, RestoreCandidate, RewindFails, Finish, stream
    <3> QED BY <1>18, <3>1 DEF StartUp, syncer, pipe, PipeType, PlacesInv
  <2> QED BY <1>18, <2>1, <2>2 DEF StartUp
<1>19. CASE \E e \in FinalEpochs : CacheFinalNonce(e) /\ UNCHANGED <<syncer, pipe>>
  BY <1>19 DEF CacheFinalNonce, tracker, stream, syncer, pipe, PipeType, PlacesInv
<1> QED BY <1>1, <1>2, <1>3, <1>4, <1>5, <1>6, <1>7, <1>8, <1>9, <1>10, <1>11, <1>12, <1>13,
           <1>14, <1>15, <1>16, <1>17, <1>18, <1>19 DEF SyncNext, SyncerStep, WriterStep

----------------------------------------------------------------------------
(* No step leaves a gap.                                                   *)

LEMMA GapInit == SyncInit => GapInv
<1> SUFFICES ASSUME SyncInit PROVE OrderInv /\ StoredInv /\ TipInv
  BY DEF GapInv
<1>1. OnePerSlot(chain)
  BY DEF SyncInit, PlausibleChain
<1> QED BY <1>1, EmptySequence DEF SyncInit, OrderInv, StoredInv, TipInv, Pipe

(* Steps that deliver, move and store no block.                            *)
LEMMA GapQuiet ==
  ASSUME GapInv,
         UNCHANGED <<blocks, chain, cursor, tip, channel, batch, todo>>,
         disturbed \subseteq disturbed',
         session' # "start" => session # "start",
         writer' = "batch" => writer = "batch",
         sending' \/ caughtUp' => sending \/ caughtUp,
         caughtUp' /\ session' # "start" => CaughtUp
  PROVE  GapInv'
<1> SUFFICES ASSUME "rollback" \notin disturbed' PROVE OrderInv' /\ StoredInv' /\ TipInv'
  BY DEF GapInv
<1>1. OrderInv /\ StoredInv /\ TipInv
  BY DEF GapInv
<1>2. Pipe' = Pipe /\ Tip' = Tip /\ CaughtUp' = CaughtUp
  BY DEF Pipe, Tip, CaughtUp
<1>3. OrderInv'
  BY <1>1, <1>2 DEF OrderInv
<1>4. StoredInv'
  BY <1>1, <1>2 DEF StoredInv
<1>5. TipInv'
  BY <1>1, <1>2 DEF TipInv
<1> QED BY <1>3, <1>4, <1>5

(* A connection resumes at a stored block, below which nothing is missing. *)
LEMMA GapConnect ==
  ASSUME PipeType, PlacesInv, GapInv, Connect
  PROVE  GapInv'
<1> SUFFICES ASSUME "rollback" \notin disturbed' PROVE OrderInv' /\ StoredInv' /\ TipInv'
  BY DEF GapInv
<1>1. /\ session = "start" /\ cursor' = ResumeSlot
      /\ caughtUp' = FALSE /\ sending' = sending
      /\ blocks # {} => \E b \in blocks \cap chain : b.slot = ResumeSlot
      /\ disturbed \subseteq disturbed'
      /\ UNCHANGED <<blocks, chain, channel, batch, todo, writer>>
  BY DEF Connect, Intersects, db, pipe
<1>2. OrderInv /\ StoredInv /\ TipInv
  BY <1>1 DEF GapInv
<1>3. channel = <<>> /\ batch = <<>> /\ todo = <<>> /\ writer = "collect" /\ ~sending
  BY <1>1 DEF PlacesInv
<1>4. Pipe' = {} /\ In(todo') = {} /\ In(batch') = {} /\ In(channel') = {}
  BY <1>1, <1>3, EmptySequence DEF Pipe
<1>5. OrderInv'
  BY <1>1, <1>3, <1>4, EmptySequence DEF OrderInv
<1>6. \A b \in chain : b.slot <= ResumeSlot => b \in blocks
  <2>1. CASE blocks = {}
    <3>1. ResumeSlot = 0
      BY <2>1 DEF ResumeSlot
    <3>2. \A b \in chain : b.slot \in Int /\ b.slot > 0
      BY BlockSlot DEF PipeType
    <3> QED BY <3>1, <3>2
  <2>2. CASE blocks # {}
    BY <1>1, <1>2, <2>2 DEF StoredInv
  <2> QED BY <2>1, <2>2
<1>7. StoredInv'
  BY <1>1, <1>2, <1>6 DEF StoredInv
<1>8. TipInv'
  BY <1>1, <1>3 DEF TipInv
<1> QED BY <1>5, <1>7, <1>8

(* The next header is the next block of the chain after the cursor.        *)
LEMMA GapHandleRollForward ==
  ASSUME PipeType, PlacesInv, GapInv, NEW b \in Block, HandleRollForward(b)
  PROVE  GapInv'
<1> SUFFICES ASSUME "rollback" \notin disturbed' PROVE OrderInv' /\ StoredInv' /\ TipInv'
  BY DEF GapInv
<1>1. /\ session = "run" /\ b \in chain /\ b.slot > cursor
      /\ \A c \in chain : c.slot > cursor => b.slot <= c.slot
      /\ tip' = Tip /\ cursor' = b.slot /\ channel' = Append(channel, b) /\ sending' = TRUE
      /\ UNCHANGED <<blocks, chain, session, caughtUp, disturbed, writer, batch, todo>>
  BY DEF HandleRollForward, NextOnChain, db
<1>2. OrderInv /\ StoredInv /\ TipInv
  BY <1>1 DEF GapInv
<1>3. /\ cursor \in Int /\ b.slot \in Int /\ tip \in Int
      /\ \A c \in chain : c \in Block /\ c.slot \in Int
  BY BlockSlot DEF PipeType
<1>4. \A c \in Pipe : c \in chain /\ c.slot < b.slot
  BY <1>1, <1>2, <1>3 DEF OrderInv
<1>5. /\ In(channel') = In(channel) \cup {b}
      /\ Sorted(channel) /\ (\A c \in In(channel) : c.slot < b.slot) => Sorted(channel')
  BY <1>1, AppendBlock DEF PipeType
<1>6. Pipe' = Pipe \cup {b}
  BY <1>1, <1>5 DEF Pipe
<1>7. OrderInv'
  <2>1. Sorted(todo') /\ Sorted(batch') /\ Sorted(channel')
    BY <1>1, <1>2, <1>4, <1>5 DEF OrderInv, Pipe
  <2>2. \A a \in In(todo') \cup In(batch'), c \in In(channel') : a.slot < c.slot
    BY <1>1, <1>2, <1>4, <1>5 DEF OrderInv, Pipe
  <2>3. \A c \in Pipe' : c \in chain' /\ c.slot <= cursor'
    BY <1>1, <1>3, <1>4, <1>6
  <2>4. writer' = "batch" => In(todo') \subseteq blocks'
    BY <1>1, <1>2 DEF OrderInv
  <2> QED BY <2>1, <2>2, <2>3, <2>4 DEF OrderInv
<1>8. StoredInv'
  <2>1. ASSUME NEW c \in chain, c.slot <= b.slot PROVE c \in blocks \cup Pipe'
    <3>1. CASE c.slot <= cursor
      BY <1>1, <1>2, <1>6, <3>1 DEF StoredInv
    <3>2. CASE c.slot > cursor
      <4>1. c.slot = b.slot
        BY <1>1, <1>3, <2>1, <3>2
      <4>2. c = b
        BY <1>1, <1>2, <4>1 DEF StoredInv, OnePerSlot
      <4> QED BY <1>6, <4>2
    <3> QED BY <1>3, <3>1, <3>2
  <2> QED BY <1>1, <1>2, <2>1 DEF StoredInv
<1>9. TipInv'
  <2>1. Tip' = Tip
    BY <1>1 DEF Tip
  <2>2. caughtUp => tip = Tip /\ CaughtUp
    BY <1>1, <1>2 DEF TipInv
  <2>3. caughtUp => CaughtUp'
    <3>1. Window \in Int
      BY SyncAssumption
    <3> QED BY <1>1, <1>3, <2>2, <3>1 DEF CaughtUp
  <2> QED BY <1>1, <2>1, <2>3 DEF TipInv
<1> QED BY <1>7, <1>8, <1>9

LEMMA GapReceive ==
  ASSUME PipeType, PlacesInv, GapInv, Receive
  PROVE  GapInv'
<1> SUFFICES ASSUME "rollback" \notin disturbed' PROVE OrderInv' /\ StoredInv' /\ TipInv'
  BY DEF GapInv
<1> DEFINE b == Head(channel)
<1>1. /\ writer = "collect" /\ channel # <<>> /\ writer' \in {"flush", "collect"}
      /\ channel' = Tail(channel) /\ batch' = Append(batch, b)
      /\ UNCHANGED <<blocks, chain, cursor, session, sending, caughtUp, tip, disturbed, todo>>
  BY DEF Receive, vars, db, stream, syncer
<1>2. OrderInv /\ StoredInv /\ TipInv
  BY <1>1 DEF GapInv
<1>3. todo = <<>> /\ In(todo) = {}
  BY <1>1, EmptySequence DEF PlacesInv
<1>4. /\ b \in Block /\ In(channel) = {b} \cup In(channel')
      /\ Sorted(channel) => Sorted(channel') /\ \A c \in In(channel') : b.slot < c.slot
  BY <1>1, TailBlock DEF PipeType
<1>5. /\ In(batch') = In(batch) \cup {b}
      /\ Sorted(batch) /\ (\A c \in In(batch) : c.slot < b.slot) => Sorted(batch')
  BY <1>1, <1>4, AppendBlock DEF PipeType
<1>6. Pipe' = Pipe
  BY <1>1, <1>4, <1>5 DEF Pipe
<1>7. OrderInv'
  <2>1. Sorted(todo') /\ Sorted(batch') /\ Sorted(channel')
    BY <1>1, <1>2, <1>4, <1>5 DEF OrderInv
  <2>2. \A a \in In(todo') \cup In(batch'), c \in In(channel') : a.slot < c.slot
    BY <1>1, <1>2, <1>4, <1>5 DEF OrderInv
  <2>3. Pipe' \subseteq chain' /\ (session' # "start" => \A c \in Pipe' : c.slot <= cursor')
    BY <1>1, <1>2, <1>6 DEF OrderInv
  <2> QED BY <1>1, <2>1, <2>2, <2>3 DEF OrderInv
<1>8. StoredInv'
  BY <1>1, <1>2, <1>6 DEF StoredInv
<1>9. TipInv'
  BY <1>1, <1>2 DEF TipInv, Tip, CaughtUp
<1> QED BY <1>7, <1>8, <1>9

(* A flush stores the whole batch, or hands it on block by block.          *)
LEMMA GapFlush ==
  ASSUME PipeType, PlacesInv, GapInv, FlushBlockBatch
  PROVE  GapInv'
<1> SUFFICES ASSUME "rollback" \notin disturbed' PROVE OrderInv' /\ StoredInv' /\ TipInv'
  BY DEF GapInv
<1> DEFINE n == 1 + Len(batch) - Cardinality(NewIn(batch))
<1>1. /\ writer = "flush" /\ batch' = <<>>
      /\ UNCHANGED <<chain, cursor, session, sending, caughtUp, tip, disturbed, channel>>
      /\ \/ todo' = batch /\ writer' = "each" /\ UNCHANGED blocks
         \/ /\ writer' = "batch" /\ blocks' = blocks \cup NewIn(batch)
            /\ todo' = SubSeq(batch, n, Len(batch))
  BY DEF FlushBlockBatch, stream, syncer
<1>2. OrderInv /\ StoredInv /\ TipInv
  BY <1>1 DEF GapInv
<1>3. /\ todo = <<>> /\ In(todo) = {} /\ In(batch') = {} /\ Sorted(batch')
  BY <1>1, EmptySequence DEF PlacesInv
<1>4. /\ batch \in Seq(Block) /\ Sorted(batch) /\ In(batch) \subseteq chain
      /\ \A c \in chain : c \in Block /\ c.slot \in Int
  BY <1>2, BlockSlot DEF PipeType, OrderInv, Pipe
<1>5. NewIn(batch) = In(batch) \ blocks
  BY <1>2, <1>4, NewInBatch DEF StoredInv
<1>6. Tip' = Tip /\ CaughtUp' = CaughtUp /\ TipInv'
  BY <1>1, <1>2 DEF TipInv, Tip, CaughtUp
<1>7. CASE todo' = batch /\ writer' = "each" /\ UNCHANGED blocks
  <2>1. Pipe' = Pipe
    BY <1>1, <1>3, <1>7 DEF Pipe
  <2>2. OrderInv'
    BY <1>1, <1>2, <1>3, <1>7, <2>1 DEF OrderInv
  <2>3. StoredInv'
    BY <1>1, <1>2, <1>7, <2>1 DEF StoredInv
  <2> QED BY <1>6, <2>2, <2>3
<1>8. CASE writer' = "batch" /\ blocks' = blocks \cup NewIn(batch)
             /\ todo' = SubSeq(batch, n, Len(batch))
  <2>1. blocks' = blocks \cup In(batch)
    BY <1>5, <1>8
  <2>2. n \in 1..Len(batch) + 1
    <3>1. /\ IsFiniteSet(In(batch)) /\ Cardinality(In(batch)) <= Len(batch) /\ Len(batch) \in Nat
      BY <1>4, InType
    <3>2. NewIn(batch) \in SUBSET In(batch)
      BY <1>5
    <3>3. /\ IsFiniteSet(NewIn(batch)) /\ Cardinality(NewIn(batch)) <= Cardinality(In(batch))
      BY <3>1, <3>2, FS_Subset
    <3>4. Cardinality(NewIn(batch)) \in Nat /\ Cardinality(In(batch)) \in Nat
      BY <3>1, <3>3, FS_CardinalityType
    <3> QED BY <3>1, <3>3, <3>4
  <2>3. /\ In(todo') = {batch[i] : i \in n..Len(batch)} /\ Sorted(todo')
    BY <1>4, <1>8, <2>2, SuffixBlocks
  <2>4. In(todo') \subseteq In(batch)
    <3>1. Len(batch) \in Nat
      BY <1>4, InType
    <3>2. n..Len(batch) \subseteq 1..Len(batch)
      BY <2>2, <3>1
    <3> QED BY <2>3, <3>2 DEF In
  <2>5. Pipe' = In(todo') \cup In(channel) /\ Pipe = In(batch) \cup In(channel)
    BY <1>1, <1>3 DEF Pipe
  <2>6. OrderInv'
    <3>1. \A a \in In(todo') \cup In(batch'), c \in In(channel') : a.slot < c.slot
      BY <1>1, <1>2, <1>3, <2>4 DEF OrderInv
    <3>2. Pipe' \subseteq chain' /\ (session' # "start" => \A c \in Pipe' : c.slot <= cursor')
      BY <1>1, <1>2, <2>4, <2>5 DEF OrderInv
    <3>3. Sorted(channel') /\ In(todo') \subseteq blocks'
      BY <1>1, <1>2, <2>1, <2>4 DEF OrderInv
    <3> QED BY <1>3, <2>3, <3>1, <3>2, <3>3 DEF OrderInv
  <2>7. StoredInv'
    <3>1. ASSUME NEW c \in chain, NEW d \in In(batch), c.slot <= d.slot
          PROVE  c \in blocks'
      <4>1. session # "start"
        BY <1>1 DEF PlacesInv
      <4>2. d.slot <= cursor /\ cursor \in Int /\ d \in chain
        BY <1>2, <1>4, <2>5, <4>1 DEF OrderInv, PipeType
      <4>3. c \in blocks \cup Pipe
        BY <1>2, <1>4, <3>1, <4>1, <4>2 DEF StoredInv
      <4>4. c \notin In(channel)
        BY <1>2, <1>4, <3>1, <4>2 DEF OrderInv
      <4> QED BY <2>1, <2>5, <4>3, <4>4
    <3>2. \A c \in chain', d \in blocks' : c.slot <= d.slot => c \in blocks'
      BY <1>1, <1>2, <2>1, <3>1 DEF StoredInv
    <3>3. blocks \cup Pipe \subseteq blocks' \cup Pipe'
      BY <2>1, <2>5
    <3>4. blocks' \subseteq chain' /\ OnePerSlot(chain')
      BY <1>1, <1>2, <1>4, <2>1 DEF StoredInv
    <3> QED BY <1>1, <1>2, <3>2, <3>3, <3>4 DEF StoredInv
  <2> QED BY <1>6, <2>6, <2>7
<1> QED BY <1>1, <1>7, <1>8

(* A block taken from the flush is stored, now or before.                  *)
LEMMA GapProcessBlock ==
  ASSUME StoresBlocks, PipeType, PlacesInv, GapInv, ProcessBlock
  PROVE  GapInv'
<1> SUFFICES ASSUME "rollback" \notin disturbed' PROVE OrderInv' /\ StoredInv' /\ TipInv'
  BY DEF GapInv
<1> DEFINE b == Head(todo)
<1>1. /\ writer = "each" /\ todo # <<>> /\ todo' = Tail(todo)
      /\ \/ blocks' = blocks \cup {b}
         \/ blocks' = blocks /\ \E c \in blocks : c.slot = b.slot
      /\ UNCHANGED <<chain, cursor, session, sending, caughtUp, tip, disturbed, channel, writer,
                     batch>>
  BY DEF ProcessBlock, StoresBlocks, Fails, stream, syncer
<1>2. OrderInv /\ StoredInv /\ TipInv
  BY <1>1 DEF GapInv
<1>3. batch = <<>> /\ In(batch) = {} /\ session # "start"
  BY <1>1, EmptySequence DEF PlacesInv
<1>4. /\ b \in Block /\ In(todo) = {b} \cup In(todo')
      /\ Sorted(todo) => Sorted(todo') /\ \A c \in In(todo') : b.slot < c.slot
  BY <1>1, TailBlock DEF PipeType
<1>5. /\ b \in chain /\ b.slot <= cursor /\ cursor \in Int
      /\ \A c \in chain : c \in Block /\ c.slot \in Int
  BY <1>2, <1>3, <1>4, BlockSlot DEF OrderInv, Pipe, PipeType
<1>6. blocks' = blocks \cup {b}
  <2>1. \A c \in blocks : c.slot = b.slot => c = b
    BY <1>2, <1>5 DEF StoredInv, OnePerSlot
  <2> QED BY <1>1, <2>1
<1>7. Pipe = Pipe' \cup {b}
  BY <1>1, <1>4 DEF Pipe
<1>8. OrderInv'
  <2>1. Sorted(todo') /\ Sorted(batch') /\ Sorted(channel')
    BY <1>1, <1>2, <1>4 DEF OrderInv
  <2>2. \A a \in In(todo') \cup In(batch'), c \in In(channel') : a.slot < c.slot
    BY <1>1, <1>2, <1>4 DEF OrderInv
  <2>3. Pipe' \subseteq chain' /\ (session' # "start" => \A c \in Pipe' : c.slot <= cursor')
    BY <1>1, <1>2, <1>7 DEF OrderInv
  <2> QED BY <1>1, <2>1, <2>2, <2>3 DEF OrderInv
<1>9. StoredInv'
  <2>1. ASSUME NEW c \in chain, c.slot <= b.slot PROVE c \in blocks'
    <3>1. c \in blocks \cup Pipe
      BY <1>2, <1>3, <1>5, <2>1 DEF StoredInv
    <3>2. c \notin In(channel) /\ c \notin In(todo')
      BY <1>2, <1>4, <1>5, <2>1 DEF OrderInv
    <3> QED BY <1>3, <1>4, <1>6, <3>1, <3>2 DEF Pipe
  <2>2. \A c \in chain', d \in blocks' : c.slot <= d.slot => c \in blocks'
    BY <1>1, <1>2, <1>6, <2>1 DEF StoredInv
  <2>3. blocks \cup Pipe = blocks' \cup Pipe'
    BY <1>6, <1>7
  <2>4. blocks' \subseteq chain' /\ OnePerSlot(chain')
    BY <1>1, <1>2, <1>5, <1>6 DEF StoredInv
  <2> QED BY <1>1, <1>2, <2>2, <2>3, <2>4 DEF StoredInv
<1>10. TipInv'
  BY <1>1, <1>2 DEF TipInv, Tip, CaughtUp
<1> QED BY <1>8, <1>9, <1>10

LEMMA GapBatchEvolves ==
  ASSUME PipeType, PlacesInv, GapInv, BatchEvolves
  PROVE  GapInv'
<1> SUFFICES ASSUME "rollback" \notin disturbed' PROVE OrderInv' /\ StoredInv' /\ TipInv'
  BY DEF GapInv
<1> DEFINE b == Head(todo)
<1>1. /\ writer = "batch" /\ todo # <<>> /\ todo' = Tail(todo)
      /\ UNCHANGED <<blocks, chain, cursor, session, sending, caughtUp, tip, disturbed, channel,
                     writer, batch>>
  BY DEF BatchEvolves, InBatch, stream, syncer
<1>2. OrderInv /\ StoredInv /\ TipInv
  BY <1>1 DEF GapInv
<1>3. /\ In(todo) = {b} \cup In(todo') /\ (Sorted(todo) => Sorted(todo'))
  BY <1>1, TailBlock DEF PipeType
<1>4. Pipe = Pipe' \cup {b} /\ b \in blocks
  BY <1>1, <1>2, <1>3 DEF Pipe, OrderInv
<1>5. OrderInv'
  <2>1. \A a \in In(todo') \cup In(batch'), c \in In(channel') : a.slot < c.slot
    BY <1>1, <1>2, <1>3 DEF OrderInv
  <2> QED BY <1>1, <1>2, <1>3, <1>4, <2>1 DEF OrderInv
<1>6. StoredInv'
  BY <1>1, <1>2, <1>4 DEF StoredInv
<1>7. TipInv'
  BY <1>1, <1>2 DEF TipInv, Tip, CaughtUp
<1> QED BY <1>5, <1>6, <1>7

(* A stop loses the pipe, and nothing else.                                *)
LEMMA GapStop ==
  ASSUME PipeType, PlacesInv, GapInv, Stop
  PROVE  GapInv'
<1> SUFFICES ASSUME "rollback" \notin disturbed' PROVE OrderInv' /\ StoredInv' /\ TipInv'
  BY DEF GapInv
<1>1. /\ UNCHANGED <<blocks, chain, cursor>> /\ disturbed \subseteq disturbed'
      /\ session' = "start" /\ sending' = FALSE /\ caughtUp' = FALSE
      /\ channel' = <<>> /\ writer' = "collect" /\ batch' = <<>> /\ todo' = <<>>
  BY DEF Stop, Crash, db, stream
<1>2. StoredInv
  BY <1>1 DEF GapInv
<1>3. OrderInv'
  BY <1>1, EmptySequence DEF OrderInv, Pipe
<1> QED BY <1>1, <1>2, <1>3 DEF StoredInv, TipInv

(* The integrity check finds the last stored block on the node's chain, so *)
(* it never truncates.                                                     *)
LEMMA LastIsKnown ==
  ASSUME PipeType, StoredInv, blocks # {}
  PROVE  LastBlocks(Lookback) \cap chain # {}
<1>1. PICK b \in blocks : IsLast(b, blocks)
  BY LastExists DEF PipeType
<1>2. {c \in blocks : c.slot > b.slot} = {}
  BY <1>1, BlockSlot DEF IsLast, PipeType
<1>3. b \in LastBlocks(Lookback)
  <2>1. Cardinality({c \in blocks : c.slot > b.slot}) = 0 /\ 0 < Lookback
    BY <1>2, FS_EmptySet, BoundAssumption
  <2> QED BY <2>1 DEF LastBlocks
<1> QED BY <1>3 DEF StoredInv

LEMMA GapStartUp ==
  ASSUME PipeType, PlacesInv, GapInv, StartUp
  PROVE  GapInv'
<1> SUFFICES ASSUME "rollback" \notin disturbed' PROVE OrderInv' /\ StoredInv' /\ TipInv'
  BY DEF GapInv
<1>1. UNCHANGED <<session, sending, caughtUp, tip, disturbed, channel, writer, batch, todo>>
  BY DEF StartUp, syncer, pipe
<1>2. OrderInv /\ StoredInv /\ TipInv
  BY <1>1 DEF GapInv
<1>3. /\ UNCHANGED <<blocks, chain>>
      /\ cursor' = cursor \/ session = "start"
  <2>1. CASE RestoreEvolving \/ RestoreCandidate
    BY <2>1 DEF RestoreEvolving, RestoreCandidate, stream
  <2>2. CASE ValidateDBIntegrity
    <3>1. session = "start"
      BY <2>2 DEF ValidateDBIntegrity, PlacesInv
    <3>2. blocks # {} => LastBlocks(Lookback) \cap chain # {}
      BY <1>2, LastIsKnown
    <3>3. UNCHANGED <<blocks, chain>>
      BY <2>2, <3>2 DEF ValidateDBIntegrity, db
    <3> QED BY <3>1, <3>3
  <2> QED BY <2>1, <2>2 DEF StartUp
<1>4. Pipe' = Pipe /\ Tip' = Tip
  BY <1>1, <1>3 DEF Pipe, Tip
<1>5. OrderInv'
  BY <1>1, <1>2, <1>3, <1>4 DEF OrderInv
<1>6. StoredInv'
  BY <1>1, <1>2, <1>3, <1>4 DEF StoredInv
<1>7. TipInv'
  BY <1>1, <1>2, <1>3, <1>4 DEF TipInv, CaughtUp
<1> QED BY <1>5, <1>6, <1>7

LEMMA GapStep ==
  ASSUME StoresBlocks, PipeType, PlacesInv, GapInv, [SyncNext]_syncVars
  PROVE  GapInv'
<1>0. caughtUp /\ session # "start" /\ "rollback" \notin disturbed => CaughtUp
  BY DEF GapInv, TipInv
<1>1. ASSUME UNCHANGED <<blocks, chain, cursor, tip, channel, batch, todo>>,
             disturbed' = disturbed,
             session' # "start" => session # "start",
             writer' = "batch" => writer = "batch",
             sending' \/ caughtUp' => sending \/ caughtUp,
             caughtUp' => caughtUp
      PROVE  GapInv'
  <2>1. CASE "rollback" \in disturbed
    BY <1>1, <2>1 DEF GapInv
  <2>2. CASE "rollback" \notin disturbed
    <3>1. caughtUp' /\ session' # "start" => CaughtUp
      BY <1>0, <1>1, <2>2
    <3> QED BY <1>1, <3>1, GapQuiet
  <2> QED BY <2>1, <2>2
<1>2. CASE UNCHANGED syncVars
  BY <1>1, <1>2 DEF syncVars, vars, db, stream, syncer, pipe
<1>3. CASE RollForwardReturns
  <2>1. /\ UNCHANGED <<blocks, chain, cursor, tip, channel, batch, todo, disturbed, session,
                       writer>>
        /\ sending = TRUE /\ sending' = FALSE /\ caughtUp' = (caughtUp \/ CaughtUp)
        /\ session = "run"
    BY <1>3 DEF RollForwardReturns, vars, db, stream, pipe
  <2>2. CASE "rollback" \in disturbed
    BY <2>1, <2>2 DEF GapInv
  <2>3. CASE "rollback" \notin disturbed
    <3>1. caughtUp' /\ session' # "start" => CaughtUp
      BY <1>0, <2>1, <2>3
    <3> QED BY <2>1, <3>1, GapQuiet
  <2> QED BY <2>2, <2>3
<1>4. CASE Connect
  BY <1>4, GapConnect
<1>5. CASE \E b \in Block : HandleRollForward(b)
  BY <1>5, GapHandleRollForward
<1>6. CASE ContextDone \/ Drain \/ CloseChannel \/ SyncDone
  BY <1>1, <1>6 DEF ContextDone, Drain, CloseChannel, SyncDone, vars, db, stream, pipe
<1>7. CASE ResyncFromDB
  BY <1>1, <1>7 DEF ResyncFromDB, stream, pipe
<1>8. CASE Receive
  BY <1>8, GapReceive
<1>9. CASE ChannelClosed \/ Tick \/ EachDone
  BY <1>1, <1>9 DEF ChannelClosed, Tick, EachDone, vars, db, stream, syncer
<1>10. CASE FlushBlockBatch
  BY <1>10, GapFlush
<1>11. CASE ProcessBlock
  BY <1>11, GapProcessBlock
<1>12. CASE ProcessBatch \/ BatchEntersEpoch
  BY <1>1, <1>12 DEF ProcessBatch, BatchEntersEpoch, db, stream, syncer, pipe
<1>13. CASE BatchEvolves
  BY <1>13, GapBatchEvolves
<1>14. CASE BatchPersists
  BY <1>1, <1>14 DEF BatchPersists, stream, syncer
<1>15. CASE (FreezeCandidate \/ EvolveNonce) /\ UNCHANGED <<syncer, pipe>>
  BY <1>1, <1>15 DEF FreezeCandidate, EvolveNonce, stream, syncer, pipe
<1>16. CASE ConnectionFails
  BY <1>1, <1>16 DEF ConnectionFails, vars, db, stream, pipe
<1>17. CASE \E p \in Slot : HandleRollBackward(p)
  BY <1>17 DEF HandleRollBackward, GapInv
<1>18. CASE Stop
  BY <1>18, GapStop
<1>19. CASE RestartSync
  <2>1. /\ UNCHANGED <<blocks, chain, cursor, tip, channel, batch, todo, session, writer, sending,
                       caughtUp>>
        /\ disturbed \subseteq disturbed'
        /\ session = "start"
    BY <1>19 DEF RestartSync, Restart, PlacesInv, db, pipe
  <2> QED BY <2>1, GapQuiet
<1>20. CASE StartUp
  BY <1>20, GapStartUp
<1>21. CASE \E e \in FinalEpochs : CacheFinalNonce(e) /\ UNCHANGED <<syncer, pipe>>
  BY <1>1, <1>21 DEF CacheFinalNonce, stream, syncer, pipe
<1> QED BY <1>2, <1>3, <1>4, <1>5, <1>6, <1>7, <1>8, <1>9, <1>10, <1>11, <1>12, <1>13, <1>14,
           <1>15, <1>16, <1>17, <1>18, <1>19, <1>20, <1>21 DEF SyncNext, SyncerStep, WriterStep

----------------------------------------------------------------------------
(* Theorems.                                                               *)

(* As long as InsertBlock does not fail, whatever else does: blocks of the *)
(* node's chain travel in order from the connection through the channel    *)
(* and the writer's batch into the table, each block below the cursor is   *)
(* stored or on its way, and the goroutines hand over to each other only   *)
(* when what they leave behind is empty.                                   *)
THEOREM PipelineInvariant ==
  ASSUME StoresBlocks
  PROVE  SyncSpec => []SyncInv
<1>1. SyncInit => SyncInv
  BY SyncTypeInit, GapInit DEF SyncInv
<1>2. SyncInv /\ [SyncNext]_syncVars => SyncInv'
  BY SyncTypeStep, GapStep DEF SyncInv
<1> QED BY <1>1, <1>2, PTL DEF SyncSpec

(* As long as InsertBlock does not fail and the node does not roll back    *)
(* during the sync, nothing below the last stored block is ever missing:   *)
(* the overlap at which a connection resumes, the batches that are given   *)
(* up and inserted block by block, and what a stop loses leave no gap.     *)
THEOREM NoStoredGapAlways ==
  ASSUME StoresBlocks
  PROVE  SyncSpec => []NoStoredGap
<1>1. SyncInv => NoStoredGap
  <2> SUFFICES ASSUME SyncInv, "rollback" \notin disturbed,
                      NEW b \in chain, b.slot <= LastSlot(blocks)
               PROVE  b \in blocks
    BY DEF NoStoredGap
  <2>1. blocks \in SUBSET Block /\ IsFiniteSet(blocks) /\ b \in Block
    BY DEF SyncInv, PipeType
  <2>2. blocks # {}
    <3>1. LastSlot({}) = 0
      BY DEF LastSlot
    <3> QED BY <2>1, <3>1, BlockSlot
  <2>3. \E c \in blocks : LastSlot(blocks) = c.slot
    BY <2>1, <2>2, LastSlotOf
  <2> QED BY <2>3 DEF SyncInv, GapInv, StoredInv
<1> QED BY <1>1, PipelineInvariant, PTL

(* Under the same assumptions the hand-over to the live tail leaves nothing *)
(* behind: when the sync is done, every block of the chain further than the *)
(* window from the tip is stored, wherever it was when the node closed the  *)
(* connection.                                                              *)
THEOREM NothingLeftBehindAlways ==
  ASSUME StoresBlocks
  PROVE  SyncSpec => []NothingLeftBehind
<1>1. SyncInv => NothingLeftBehind
  <2> SUFFICES ASSUME SyncInv, session = "done", "rollback" \notin disturbed,
                      NEW b \in chain, b.slot + Window < tip
               PROVE  b \in blocks
    BY DEF NothingLeftBehind
  <2>1. writer = "done" /\ caughtUp
    BY DEF SyncInv, PlacesInv
  <2>2. Pipe = {}
    BY <2>1, EmptySequence DEF SyncInv, PlacesInv, Pipe
  <2>3. cursor + Window >= tip
    BY <2>1 DEF SyncInv, GapInv, TipInv, CaughtUp
  <2>4. cursor \in Int /\ tip \in Int /\ Window \in Int /\ b.slot \in Int
    BY SyncAssumption, BlockSlot DEF SyncInv, PipeType
  <2>5. b.slot <= cursor
    BY <2>3, <2>4
  <2> QED BY <2>2, <2>5 DEF SyncInv, GapInv, StoredInv
<1> QED BY <1>1, PipelineInvariant, PTL

----------------------------------------------------------------------------
(* Memory and rows.                                                        *)

(* Only the candidate may be lost, and no rewind is cut short; a batch     *)
(* insert may fail and the process may stop anywhere else.                 *)
KeepsRows == Faults \subseteq {"freeze", "crash"}

(* The blocks hashed into the nonce in memory, between two blocks: those   *)
(* of a batch are stored before the first of them is hashed.               *)
Evolved == IF writer = "batch" THEN blocks \ In(todo) ELSE blocks

LastEpoch(S, e) ==
  /\ \A c \in S : EpochOf[c.slot] <= e
  /\ \E c \in S : EpochOf[c.slot] = e

(* The row of epoch e counts the blocks of S, or fewer of them.            *)
Behind(r, S, e) ==
  /\ r[e].count <= Cardinality(InEpoch(S, e))
  /\ (r[e].count = Cardinality(InEpoch(S, e)) /\ InEpoch(S, e) # {}) =>
       r[e].evolving = ChainNonce(Through(S, e))

(* Every row agrees with the blocks of S, that of epoch e may be behind.   *)
BehindIn(r, S, e) ==
  /\ RowsOf(r, S, Epoch \ {e})
  /\ Behind(r, S, e)
  /\ \A c \in S : EpochOf[c.slot] <= e

TrackerType ==
  /\ row \in [Epoch -> StoredRow]
  /\ etaV \in Nonce /\ currentEpoch \in Epoch
  /\ blockCount \in Nat /\ candidateFroze \in BOOLEAN
  /\ work \in [block : Block \cup {NoBlock}, epoch : Epoch, through : Epoch,
               eta : Nonce, candidate : Nonce \cup {NoNonce}]
  /\ phase \in {"sync", "live", "noIntersection"}
  /\ cursor \in Slot \cup {0} /\ clock \in Epoch /\ unrewound \subseteq Epoch
  /\ pc \in {"freeze", "evolve"} => work.block \in Block

(* The goroutine that holds nt.mu, and the node's chain.                   *)
HolderInv ==
  /\ pc \in {"idle", "freeze", "evolve", "batch", "down", "validate", "restore", "candidate"}
  /\ pc \in {"freeze", "evolve"} => writer = "each"
  /\ pc = "batch" => writer = "batch"
  /\ pc \in {"down", "validate", "restore", "candidate"} => session = "start"
  /\ blocks = {} => /\ row = [e \in Epoch |-> NoRow]
                    /\ pc \in {"idle", "down", "validate"}
                    /\ writer # "batch"
  /\ \A b \in chain : EpochOf[b.slot] <= clock
  /\ \A b \in chain : \A e \in Epoch : e < EpochOf[b.slot] => InEpoch(chain, e) # {}

(* What will reach ProcessBlock, or the node will send: of the blocks that *)
(* are stored, those of the last epoch only.                               *)
Ahead(b) ==
  \/ b \in In(batch) \cup In(channel)
  \/ writer = "each" /\ b \in In(todo)
  \/ session # "start" /\ b.slot > cursor

AgainInv == \A b \in blocks : Ahead(b) => \A c \in blocks : EpochOf[c.slot] <= EpochOf[b.slot]

RestInv ==
  pc = "idle" => /\ etaV = ChainNonce(Evolved)
                 /\ blockCount = row[currentEpoch].count
                 /\ RowsOf(row, Evolved, Epoch)
                 /\ Evolved # {} => LastEpoch(Evolved, currentEpoch)

(* Within ProcessBatch the rows of the epochs that are left are right.     *)
BatchInv ==
  /\ writer = "batch" => \A b \in Evolved, c \in In(todo) : b.slot < c.slot
  /\ pc = "batch" =>
       /\ etaV = ChainNonce(Evolved)
       /\ blockCount = Cardinality(InEpoch(Evolved, currentEpoch))
       /\ BehindIn(row, Evolved, currentEpoch)
       /\ \/ Evolved # {} => LastEpoch(Evolved, currentEpoch)
          \/ todo # <<>> /\ EpochOf[Head(todo).slot] = currentEpoch

(* After a stop only the row of the last stored epoch may be behind.       *)
StoppedInv ==
  /\ pc \in {"down", "validate"} /\ blocks # {} =>
       \E e \in Epoch : LastEpoch(blocks, e) /\ BehindIn(row, blocks, e)
  /\ pc = "validate" =>
       /\ blockCount = row[currentEpoch].count
       /\ blocks = {} => etaV = GenesisNonce
       /\ blocks # {} => LastEpoch(blocks, currentEpoch)
       /\ blocks # {} /\ row[currentEpoch].count = Cardinality(BlocksOf(currentEpoch)) =>
            etaV = ChainNonce(blocks)

RepairInv ==
  pc \in {"restore", "candidate"} =>
    /\ RewindInv
    /\ work.through = work.epoch
    /\ LastEpoch(blocks, work.epoch)

TrackInv ==
  /\ TrackerType /\ HolderInv /\ AgainInv /\ RestInv /\ ProcessInv /\ BatchInv
  /\ StoppedInv /\ RepairInv

StoreInv == SyncInv /\ (disturbed = {} => TrackInv)

LEMMA RowsAreKept ==
  ASSUME KeepsRows
  PROVE  /\ StoresBlocks /\ RowsWritten /\ ~RewindFails
         /\ ~Fails("upsert") /\ ~Fails("insert") /\ ~Fails("earlyFinal") /\ ~Fails("node")
         /\ ~Fails("read") /\ ~Fails("crashInRewind")
BY DEF KeepsRows, StoresBlocks, RowsWritten, RewindFails, Fails

(* Without a disturbance everything SyncInv says holds.                    *)
LEMMA Calm ==
  ASSUME SyncInv, disturbed = {}
  PROVE  /\ PipeType /\ PlacesInv /\ OrderInv /\ StoredInv
         /\ blocks \in SUBSET Block /\ IsFiniteSet(blocks)
         /\ chain \in SUBSET Block /\ blocks \subseteq chain
BY DEF SyncInv, GapInv, PipeType, StoredInv

LEMMA PipeEmpty ==
  ASSUME PlacesInv
  PROVE  /\ session = "start" => In(todo) = {} /\ In(batch) = {} /\ In(channel) = {}
                                 /\ writer = "collect"
         /\ writer \in {"collect", "flush", "done"} => In(todo) = {}
         /\ writer \in {"each", "batch", "done"} => In(batch) = {} /\ session # "start"
         /\ writer = "flush" => session # "start"
         /\ session \in {"start", "resync"} => writer = "collect"
BY EmptySequence DEF PlacesInv

LEMMA CardinalityIn ==
  ASSUME NEW S \in SUBSET Block, IsFiniteSet(S), NEW e
  PROVE  /\ InEpoch(S, e) \in SUBSET Block /\ IsFiniteSet(InEpoch(S, e))
         /\ Cardinality(InEpoch(S, e)) \in Nat
         /\ Cardinality(InEpoch(S, e)) = 0 <=> InEpoch(S, e) = {}
<1>1. InEpoch(S, e) \in SUBSET S
  BY DEF InEpoch
<1>2. IsFiniteSet(InEpoch(S, e))
  BY <1>1, FS_Subset
<1> QED BY <1>1, <1>2, FS_CardinalityType, FS_EmptySet

LEMMA LastOf ==
  ASSUME PipeType, blocks # {}
  PROVE  /\ EpochAt(LastSlot(blocks)) \in Epoch
         /\ LastEpoch(blocks, EpochAt(LastSlot(blocks)))
<1> DEFINE L == EpochAt(LastSlot(blocks))
<1>1. blocks \in SUBSET Block /\ IsFiniteSet(blocks)
  BY DEF PipeType
<1>2. PICK b \in blocks : IsLast(b, blocks) /\ LastSlot(blocks) = b.slot
  BY <1>1, LastSlotOf
<1>3. L = EpochOf[b.slot] /\ L \in Epoch
  BY <1>1, <1>2, BlockSlot DEF EpochAt
<1>4. ASSUME NEW c \in blocks PROVE EpochOf[c.slot] <= L
  BY <1>1, <1>2, <1>3, BlockSlot, EpochMonotone DEF IsLast
<1> QED BY <1>2, <1>3, <1>4 DEF LastEpoch

LEMMA OneLastEpoch ==
  ASSUME NEW S \in SUBSET Block, NEW e \in Epoch, NEW f \in Epoch, LastEpoch(S, e), LastEpoch(S, f)
  PROVE  e = f /\ S # {} /\ Through(S, e) = S
<1>1. e \in Int /\ f \in Int
  BY EpochIsInt
<1> QED BY <1>1 DEF LastEpoch, Through

LEMMA RowsAreBehind ==
  ASSUME NEW r, NEW S \in SUBSET Block, IsFiniteSet(S), NEW e \in Epoch, RowsOf(r, S, Epoch),
         \A c \in S : EpochOf[c.slot] <= e
  PROVE  BehindIn(r, S, e)
<1>1. Cardinality(InEpoch(S, e)) \in Nat
  BY CardinalityIn
<1> QED BY <1>1 DEF BehindIn, Behind, RowsOf

(* A row that counts all blocks of its epoch is not behind.                *)
LEMMA BehindExact ==
  ASSUME NEW r, NEW S, NEW e \in Epoch, BehindIn(r, S, e),
         r[e].count = Cardinality(InEpoch(S, e))
  PROVE  RowsOf(r, S, Epoch)
BY DEF BehindIn, Behind, RowsOf

LEMMA BehindKept ==
  ASSUME NEW r, NEW q, NEW S \in SUBSET Block, NEW e \in Epoch, BehindIn(r, S, e),
         \A f \in Epoch : /\ q[f].count = r[f].count
                          /\ r[f].evolving # NoNonce => q[f].evolving = r[f].evolving
  PROVE  BehindIn(q, S, e)
<1>1. RowsOf(q, S, Epoch \ {e})
  BY RowsKept DEF BehindIn
<1>2. Through(S, e) \in SUBSET Block
  BY DEF Through
<1>3. ChainNonce(Through(S, e)) # NoNonce
  BY <1>2, ChainNonceType
<1> QED BY <1>1, <1>3 DEF BehindIn, Behind

(* More blocks of epoch e leave the other rows right.                      *)
LEMMA BehindGrows ==
  ASSUME NEW r \in [Epoch -> StoredRow], NEW S \in SUBSET Block, IsFiniteSet(S),
         NEW D \in SUBSET S, NEW e \in Epoch, BehindIn(r, D, e),
         \A b \in S \ D : EpochOf[b.slot] = e
  PROVE  BehindIn(r, S, e)
<1>1. e \in Int /\ \A c \in S : EpochOf[c.slot] \in Int
  BY EpochIsInt, BlockSlot
<1>2. D \in SUBSET Block /\ IsFiniteSet(D)
  BY FS_Subset
<1>3. ASSUME NEW f \in Epoch \ {e}
      PROVE  /\ InEpoch(S, f) = InEpoch(D, f)
             /\ InEpoch(D, f) # {} => Through(S, f) = Through(D, f)
  <2>1. InEpoch(S, f) = InEpoch(D, f)
    BY DEF InEpoch
  <2>2. ASSUME InEpoch(D, f) # {} PROVE Through(S, f) = Through(D, f)
    <3>1. PICK c \in D : EpochOf[c.slot] = f
      BY <2>2 DEF InEpoch
    <3>2. f < e /\ f \in Int
      BY <1>1, <3>1, EpochIsInt DEF BehindIn
    <3> QED BY <1>1, <3>2 DEF Through
  <2> QED BY <2>1, <2>2
<1>4. RowsOf(r, S, Epoch \ {e})
  BY <1>3 DEF BehindIn, RowsOf
<1>5. Behind(r, S, e)
  <2>1. InEpoch(D, e) \in SUBSET InEpoch(S, e)
    BY DEF InEpoch
  <2>2. /\ IsFiniteSet(InEpoch(S, e)) /\ Cardinality(InEpoch(S, e)) \in Nat
        /\ IsFiniteSet(InEpoch(D, e)) /\ Cardinality(InEpoch(D, e)) \in Nat
    BY <1>2, CardinalityIn
  <2>3. /\ Cardinality(InEpoch(D, e)) <= Cardinality(InEpoch(S, e))
        /\ Cardinality(InEpoch(D, e)) = Cardinality(InEpoch(S, e)) => InEpoch(D, e) = InEpoch(S, e)
    BY <2>1, <2>2, FS_Subset
  <2>4. r[e].count \in Nat
    BY DEF StoredRow, Row
  <2>5. InEpoch(D, e) = InEpoch(S, e) => S = D
    BY DEF InEpoch
  <2>6. r[e].count <= Cardinality(InEpoch(D, e))
    BY DEF BehindIn, Behind
  <2>7. r[e].count = Cardinality(InEpoch(S, e)) => S = D
    BY <2>2, <2>3, <2>4, <2>5, <2>6
  <2>8. Behind(r, D, e)
    BY DEF BehindIn
  <2>9. r[e].count <= Cardinality(InEpoch(S, e))
    BY <2>2, <2>3, <2>4, <2>6
  <2> QED BY <2>7, <2>8, <2>9 DEF Behind
<1>6. \A c \in S : EpochOf[c.slot] <= e
  BY <1>1 DEF BehindIn
<1> QED BY <1>4, <1>5, <1>6 DEF BehindIn

(* TypeInv of NonceTracker, outside of ProcessBatch.                       *)
LEMMA TrackType ==
  ASSUME PipeType, TrackerType, HolderInv, pc # "batch"
  PROVE  TypeInv
<1>1. \A f \in Epoch : row[f] \in Row
  BY DEF TrackerType, StoredRow
<1>2. row \in [Epoch -> Row]
  BY <1>1 DEF TrackerType
<1> QED BY <1>2 DEF PipeType, TrackerType, HolderInv, TypeInv, TypeOK

----------------------------------------------------------------------------
(* Steps that leave the tracker and the database alone.                    *)

LEMMA TrackQuiet ==
  ASSUME TrackInv,
         UNCHANGED <<blocks, row, etaV, currentEpoch, blockCount, pc, work,
                     chain, clock, phase, unrewound>>,
         candidateFroze' = candidateFroze \/ candidateFroze' = FALSE,
         cursor' \in Slot \cup {0},
         writer' = "batch" <=> writer = "batch",
         writer = "batch" => todo' = todo,
         pc \in {"freeze", "evolve"} => writer' = "each",
         pc \in {"down", "validate", "restore", "candidate"} =>
           session' = "start" /\ cursor' = cursor,
         AgainInv'
  PROVE  TrackInv'
<1>1. TrackerType'
  BY DEF TrackInv, TrackerType
<1>2. HolderInv'
  BY DEF TrackInv, HolderInv, InEpoch
<1>3. Evolved' = Evolved
  BY DEF Evolved
<1>4. RestInv'
  BY <1>3 DEF TrackInv, RestInv, RowsOf, InEpoch, Through, LastEpoch
<1>5. ProcessInv'
  BY DEF TrackInv, ProcessInv, Settled, RowsOf
<1>6. BatchInv'
  <2>1. writer' = "batch" => writer = "batch" /\ todo' = todo
    OBVIOUS
  <2>2. pc = "batch" => todo' = todo
    BY DEF TrackInv, HolderInv
  <2>3. BatchInv
    BY DEF TrackInv
  <2>4. BehindIn(row, Evolved, currentEpoch)' = BehindIn(row, Evolved, currentEpoch)
    BY <1>3 DEF BehindIn, Behind, RowsOf, InEpoch, Through
  <2>5. LastEpoch(Evolved, currentEpoch)' = LastEpoch(Evolved, currentEpoch)
    BY <1>3 DEF LastEpoch
  <2>6. InEpoch(Evolved, currentEpoch)' = InEpoch(Evolved, currentEpoch)
    BY <1>3 DEF InEpoch
  <2> QED BY <1>3, <2>1, <2>2, <2>3, <2>4, <2>5, <2>6 DEF BatchInv
<1>7. StoppedInv'
  <2>1. StoppedInv
    BY DEF TrackInv
  <2>2. \A e : LastEpoch(blocks', e) = LastEpoch(blocks, e)
    OBVIOUS
  <2>3. \A e : BehindIn(row', blocks', e) = BehindIn(row, blocks, e)
    OBVIOUS
  <2>4. BlocksOf(currentEpoch)' = BlocksOf(currentEpoch)
    BY DEF BlocksOf
  <2>5. LastEpoch(blocks, currentEpoch)' = LastEpoch(blocks, currentEpoch)
    BY DEF LastEpoch
  <2> QED BY <2>1, <2>2, <2>3, <2>4, <2>5 DEF StoppedInv
<1>8. RepairInv'
  BY DEF TrackInv, RepairInv, RewindInv, Rewinding, Lo, BlocksOf, LastEpoch
<1> QED BY <1>1, <1>2, <1>4, <1>5, <1>6, <1>7, <1>8 DEF TrackInv

LEMMA TrackInit == SyncInit => TrackInv
<1> SUFFICES ASSUME SyncInit PROVE TrackInv
  OBVIOUS
<1>1. /\ blocks = {} /\ row = [e \in Epoch |-> NoRow] /\ pc = "idle" /\ work = NoWork
      /\ etaV = GenesisNonce /\ currentEpoch = clock /\ clock = EpochAt(Tip)
      /\ blockCount = 0 /\ candidateFroze = FALSE /\ phase = "sync" /\ cursor = 0 /\ unrewound = {}
      /\ session = "start" /\ writer = "collect" /\ PlausibleChain(chain)
  BY DEF SyncInit
<1>2. chain \in SUBSET Block /\ IsFiniteSet(chain)
  BY <1>1 DEF SyncInit, PlausibleChain
<1>3. Tip \in Slot \cup {0} /\ (chain # {} => \E b \in chain : IsLast(b, chain) /\ Tip = b.slot)
  BY <1>2, LastSlotOf DEF Tip
<1>4. clock \in Epoch
  BY <1>1, <1>3, EpochAssumption DEF EpochAt, Epoch
<1>5. ASSUME NEW c \in chain PROVE EpochOf[c.slot] <= clock
  <2>1. PICK b \in chain : IsLast(b, chain) /\ Tip = b.slot
    BY <1>3
  <2>2. clock = EpochOf[b.slot] /\ c.slot <= b.slot
    BY <1>1, <1>2, <2>1, BlockSlot DEF EpochAt, IsLast
  <2> QED BY <1>2, <2>1, <2>2, EpochMonotone
<1>6. ASSUME NEW b \in chain, NEW e \in Epoch, e < EpochOf[b.slot] PROVE InEpoch(chain, e) # {}
  <2>1. Cardinality(InEpoch(chain, e)) >= 2
    BY <1>1, <1>6 DEF PlausibleChain
  <2> QED BY <2>1, FS_EmptySet
<1>7. TrackerType
  BY <1>1, <1>4, NoRowType, NoWorkType, GenesisType DEF TrackerType
<1>8. HolderInv
  BY <1>1, <1>5, <1>6 DEF HolderInv
<1>9. RestInv
  <2>1. Evolved = {} /\ row[currentEpoch].count = 0
    BY <1>1, <1>4 DEF Evolved, NoRow
  <2>2. RowsOf(row, {}, Epoch)
    <3>1. \A e \in Epoch : row[e].count = 0 /\ InEpoch({}, e) = {}
      BY <1>1 DEF NoRow, InEpoch
    <3> QED BY <3>1, FS_EmptySet DEF RowsOf
  <2> QED BY <1>1, <2>1, <2>2, ChainNonceEmpty DEF RestInv
<1>10. AgainInv /\ ProcessInv /\ BatchInv /\ StoppedInv /\ RepairInv
  BY <1>1 DEF AgainInv, ProcessInv, BatchInv, StoppedInv, RepairInv
<1> QED BY <1>7, <1>8, <1>9, <1>10 DEF TrackInv

(* Unless it is a disturbance, a connection resumes in the last epoch.     *)
LEMMA TrackConnect ==
  ASSUME SyncInv, TrackInv, disturbed' = {}, Connect
  PROVE  TrackInv'
<1>1. /\ session = "start" /\ cursor' = ResumeSlot
      /\ pc \notin {"down", "validate", "restore", "candidate"}
      /\ UNCHANGED <<blocks, row, etaV, currentEpoch, blockCount, candidateFroze, pc, work,
                     chain, clock, phase, unrewound, channel, writer, batch, todo>>
      /\ ~\E b \in blocks : /\ b.slot > ResumeSlot
                            /\ EpochOf[b.slot] < EpochAt(LastSlot(blocks))
  BY DEF Connect, db, tracker, pipe
<1>2. PipeType /\ PlacesInv
  BY DEF SyncInv
<1>3. writer = "collect" /\ In(batch) = {} /\ In(channel) = {}
  BY <1>1, <1>2, PipeEmpty
<1>4. cursor' \in Slot \cup {0}
  BY <1>1, <1>2, ResumeSlotOf DEF PipeType
<1>5. AgainInv'
  <2> SUFFICES ASSUME NEW b \in blocks, b.slot > ResumeSlot, NEW c \in blocks
               PROVE  EpochOf[c.slot] <= EpochOf[b.slot]
    BY <1>1, <1>3 DEF AgainInv, Ahead
  <2> DEFINE L == EpochAt(LastSlot(blocks))
  <2>1. L \in Epoch /\ EpochOf[c.slot] <= L
    BY <1>2, LastOf DEF LastEpoch
  <2>2. ~(EpochOf[b.slot] < L)
    BY <1>1
  <2>3. EpochOf[b.slot] \in Epoch /\ EpochOf[c.slot] \in Epoch
    BY <1>2, BlockSlot DEF PipeType
  <2> HIDE DEF L
  <2> QED BY <2>1, <2>2, <2>3, EpochIsInt
<1>6. pc \notin {"freeze", "evolve"} /\ writer' # "batch"
  BY <1>1, <1>3 DEF TrackInv, HolderInv
<1> QED BY <1>1, <1>3, <1>4, <1>5, <1>6, TrackQuiet

(* Every other step of the syncer, and the writer's collecting.            *)
LEMMA TrackHandleRollForward ==
  ASSUME SyncInv, TrackInv, NEW b \in Block, HandleRollForward(b)
  PROVE  TrackInv'
<1>1. /\ session = "run" /\ cursor' = b.slot /\ channel' = Append(channel, b) /\ b.slot > cursor
      /\ UNCHANGED <<blocks, row, etaV, currentEpoch, blockCount, candidateFroze, pc, work,
                     chain, clock, phase, unrewound, writer, batch, todo, session>>
  BY DEF HandleRollForward, NextOnChain, db, tracker
<1>2. PipeType /\ PlacesInv
  BY DEF SyncInv
<1>3. In(channel') = In(channel) \cup {b}
  BY <1>1, <1>2, AppendBlock DEF PipeType
<1>4. cursor \in Int /\ \A c \in blocks : c.slot \in Int /\ b.slot \in Int
  BY <1>2, BlockSlot DEF PipeType
<1>5. \A c \in blocks : Ahead(c)' => Ahead(c)
  BY <1>1, <1>3, <1>4 DEF Ahead
<1>6. AgainInv'
  BY <1>1, <1>5 DEF AgainInv, TrackInv
<1>7. /\ cursor' \in Slot \cup {0}
      /\ pc \in {"freeze", "evolve"} => writer' = "each"
      /\ pc \notin {"down", "validate", "restore", "candidate"}
  BY <1>1, BlockSlot DEF TrackInv, HolderInv
<1> QED BY <1>1, <1>6, <1>7, TrackQuiet

LEMMA TrackReceive ==
  ASSUME SyncInv, TrackInv, Receive
  PROVE  TrackInv'
<1>1. /\ writer = "collect" /\ channel # <<>>
      /\ channel' = Tail(channel) /\ batch' = Append(batch, Head(channel))
      /\ writer' \in {"flush", "collect"}
      /\ UNCHANGED <<blocks, row, etaV, currentEpoch, blockCount, candidateFroze, pc, work,
                     chain, clock, phase, unrewound, cursor, todo, session>>
  BY DEF Receive, vars, db, tracker, stream, syncer
<1>2. channel \in Seq(Block) /\ batch \in Seq(Block)
  BY DEF SyncInv, PipeType
<1>3. Head(channel) \in Block /\ In(channel) = {Head(channel)} \cup In(channel')
  BY <1>1, <1>2, TailBlock
<1>4. In(batch') = In(batch) \cup {Head(channel)}
  BY <1>1, <1>2, <1>3, AppendBlock
<1>5. AgainInv'
  BY <1>1, <1>3, <1>4 DEF AgainInv, Ahead, TrackInv
<1>6. /\ cursor' \in Slot \cup {0} /\ pc \notin {"freeze", "evolve"}
      /\ writer' # "batch" /\ writer # "batch"
      /\ pc \in {"down", "validate", "restore", "candidate"} => session' = "start"
  BY <1>1 DEF TrackInv, HolderInv, TrackerType
<1> QED BY <1>1, <1>5, <1>6, TrackQuiet

LEMMA TrackRests ==
  ASSUME SyncInv, TrackInv,
         \/ RollForwardReturns \/ ContextDone \/ Drain \/ CloseChannel \/ SyncDone
         \/ ChannelClosed \/ Tick \/ EachDone \/ ConnectionFails
         \/ UNCHANGED syncVars
  PROVE  TrackInv'
<1>1. /\ UNCHANGED <<blocks, row, etaV, currentEpoch, blockCount, candidateFroze, pc, work,
                     chain, clock, phase, unrewound, cursor, channel, batch, todo>>
      /\ session' # "start" => session # "start"
      /\ session = "start" => session' = "start"
      /\ \/ writer' = writer
         \/ writer = "collect" /\ writer' \in {"flush", "done"}
         \/ writer = "each" /\ writer' = "collect" /\ Idle
  BY DEF RollForwardReturns, ContextDone, Drain, CloseChannel, SyncDone, ChannelClosed, Tick,
         EachDone, ConnectionFails, syncVars, vars, db, tracker, stream, syncer, pipe
<1>2. AgainInv'
  BY <1>1 DEF AgainInv, Ahead, TrackInv
<1>3. /\ cursor' \in Slot \cup {0}
      /\ writer' = "batch" <=> writer = "batch"
      /\ pc \in {"freeze", "evolve"} => writer' = "each"
      /\ pc \in {"down", "validate", "restore", "candidate"} => session' = "start"
  BY <1>1 DEF TrackInv, HolderInv, TrackerType, Idle
<1> QED BY <1>1, <1>2, <1>3, TrackQuiet

(* Between two connections the tracker already has what ResyncFromDB takes *)
(* from the row of the last epoch.                                         *)
LEMMA TrackResyncFromDB ==
  ASSUME KeepsRows, SyncInv, TrackInv, ResyncFromDB
  PROVE  TrackInv'
<1> DEFINE e == EpochAt(LastSlot(blocks))
<1>1. /\ session = "resync" /\ pc = "idle" /\ session' = "start"
      /\ UNCHANGED <<blocks, pc, work, chain, clock, phase, cursor, unrewound, channel, writer,
                     batch, todo>>
      /\ \/ UNCHANGED <<etaV, currentEpoch, blockCount, candidateFroze, row>>
         \/ /\ blocks # {} /\ HasRow(e) /\ currentEpoch' = e /\ candidateFroze' = FALSE
            /\ row[e].count = Cardinality(BlocksOf(e)) =>
                 ResyncTakeRow(e) /\ UNCHANGED row
  BY DEF ResyncFromDB, Idle, tracker, stream, pipe
<1>2. PipeType /\ PlacesInv /\ blocks \in SUBSET Block
  BY DEF SyncInv, PipeType
<1>3. writer = "collect" /\ Evolved = blocks
  BY <1>1, <1>2, PipeEmpty DEF Evolved
<1>4. In(batch) = {} /\ In(channel) = {}
  BY <1>1, <1>2, EmptySequence DEF PlacesInv
<1>5. RestInv /\ TrackerType
  BY DEF TrackInv
<1>6. ASSUME blocks # {}, currentEpoch' = e,
             row[e].count = Cardinality(BlocksOf(e)) => ResyncTakeRow(e) /\ UNCHANGED row
      PROVE  UNCHANGED <<etaV, currentEpoch, blockCount, row>>
  <2>1. e \in Epoch /\ LastEpoch(blocks, e) /\ LastEpoch(blocks, currentEpoch)
    BY <1>1, <1>2, <1>3, <1>5, <1>6, LastOf DEF RestInv
  <2>2. e = currentEpoch /\ Through(blocks, e) = blocks
    BY <1>2, <1>5, <2>1, OneLastEpoch DEF TrackerType
  <2>3. BlocksOf(e) = InEpoch(blocks, e) /\ InEpoch(blocks, e) # {}
    BY <2>1 DEF BlocksOf, InEpoch, LastEpoch
  <2>4. /\ row[e].count = Cardinality(BlocksOf(e)) /\ row[e].evolving = ChainNonce(blocks)
        /\ etaV = ChainNonce(blocks) /\ blockCount = row[currentEpoch].count
    BY <1>1, <1>3, <1>5, <2>1, <2>2, <2>3 DEF RestInv, RowsOf
  <2>5. etaV' = row[e].evolving /\ blockCount' = row[e].count /\ UNCHANGED row
    BY <1>6, <2>4 DEF ResyncTakeRow
  <2> HIDE DEF e
  <2> QED BY <1>6, <2>2, <2>4, <2>5
<1>7. UNCHANGED <<etaV, currentEpoch, blockCount, row>>
  BY <1>1, <1>6
<1>8. AgainInv'
  BY <1>1, <1>3, <1>4 DEF AgainInv, Ahead
<1>9. cursor' \in Slot \cup {0} /\ (candidateFroze' = candidateFroze \/ candidateFroze' = FALSE)
  BY <1>1, <1>5 DEF TrackerType
<1> QED BY <1>1, <1>3, <1>7, <1>8, <1>9, TrackQuiet

----------------------------------------------------------------------------
(* The writer's flush.                                                     *)

(* The blocks of a batch that are not stored yet are its last ones, as many*)
(* as InsertBlockBatch has inserted.                                       *)
LEMMA NewBlocksAreLast ==
  ASSUME NEW q \in Seq(Block), Sorted(q), OnePerSlot(chain), blocks \subseteq chain,
         In(q) \subseteq chain, chain \in SUBSET Block,
         \A b \in chain, c \in blocks : b.slot <= c.slot => b \in blocks,
         NEW n, n = 1 + Len(q) - Cardinality(NewIn(q))
  PROVE  /\ n \in 1..Len(q) + 1
         /\ In(SubSeq(q, n, Len(q))) = In(q) \ blocks
<1> DEFINE N == Len(q)
           J == {j \in 1..N : q[j] \notin blocks}
           New == In(q) \ blocks
<1>1. N \in Nat /\ \A j \in 1..N : q[j] \in Block /\ q[j] \in chain /\ q[j].slot \in Int
  <2>1. N \in Nat /\ q \in [1..N -> Block]
    BY LenProperties
  <2> QED BY <2>1, BlockSlot DEF In
<1>2. NewIn(q) = New
  BY NewInBatch
<1>3. IsFiniteSet(J) /\ Cardinality(J) = Cardinality(New) /\ Cardinality(J) \in 0..N
  <2> DEFINE f == [j \in J |-> q[j]]
  <2>1. J \in SUBSET (1..N) /\ IsFiniteSet(1..N) /\ Cardinality(1..N) = N
    <3>1. J \in SUBSET (1..N)
      OBVIOUS
    <3> HIDE DEF J, N
    <3>2. IsFiniteSet(1..N) /\ Cardinality(1..N) = N
      BY <1>1, FS_Interval
    <3> QED BY <3>1, <3>2
  <2>2. IsFiniteSet(J) /\ Cardinality(J) <= N /\ Cardinality(J) \in Nat
    <3> HIDE DEF J, N
    <3>1. IsFiniteSet(J) /\ Cardinality(J) <= Cardinality(1..N)
      BY <2>1, FS_Subset
    <3> QED BY <2>1, <3>1, FS_CardinalityType
  <2>3. \A i, j \in J : i # j => q[i] # q[j]
    <3> SUFFICES ASSUME NEW i \in J, NEW j \in J, i < j PROVE q[i] # q[j]
      BY <1>1
    <3>1. q[i].slot < q[j].slot
      BY DEF Sorted
    <3> QED BY <1>1, <3>1
  <2>4. New = {q[j] : j \in J}
    BY DEF In
  <2>5. f \in Bijection(J, New)
    <3>1. f \in [J -> New] /\ \A j \in J : f[j] = q[j]
      BY <2>4
    <3>2. \A y \in New : \E j \in J : f[j] = y
      BY <2>4
    <3>3. \A i, j \in J : f[i] = f[j] => i = j
      BY <2>3, <3>1
    <3> HIDE DEF f, J, New
    <3> QED BY <3>1, <3>2, <3>3 DEF Bijection, Injection, Surjection, IsInjective
  <2>6. Cardinality(New) = Cardinality(J)
    <3> HIDE DEF f, J, New
    <3> QED BY <2>2, <2>5, FS_Bijection DEF ExistsBijection
  <2> QED BY <1>1, <2>2, <2>6
<1>4. n = 1 + N - Cardinality(J)
  BY <1>2, <1>3
<1>5. n \in 1..N + 1
  BY <1>1, <1>3, <1>4
<1>6. ASSUME NEW i \in 1..N, NEW j \in 1..N, i <= j, q[j] \in blocks PROVE q[i] \in blocks
  <2>1. q[i].slot <= q[j].slot
    BY <1>1, <1>6 DEF Sorted
  <2> QED BY <1>1, <1>6, <2>1
<1>7. ASSUME NEW j \in J PROVE j >= n
  <2>1. j..N \in SUBSET J
    BY <1>1, <1>6
  <2>2. j \in 1..N
    OBVIOUS
  <2> HIDE DEF J
  <2>3. Cardinality(j..N) = N - j + 1
    <3>1. j \in Int /\ N \in Int /\ j <= N
      BY <1>1, <2>2
    <3> HIDE DEF N
    <3> QED BY <3>1, FS_Interval
  <2>4. Cardinality(j..N) <= Cardinality(J)
    BY <1>3, <2>1, FS_Subset
  <2> QED BY <1>1, <1>3, <1>4, <2>2, <2>3, <2>4
<1>8. ASSUME NEW j \in 1..N, j \notin J PROVE j < n
  <2>1. J \in SUBSET (j + 1..N)
    BY <1>1, <1>6, <1>8
  <2>2. IsFiniteSet(j + 1..N) /\ Cardinality(j + 1..N) = N - j
    BY <1>1, FS_Interval
  <2>3. Cardinality(J) <= Cardinality(j + 1..N)
    <3> HIDE DEF J
    <3> QED BY <2>1, <2>2, FS_Subset
  <2> HIDE DEF J
  <2> QED BY <1>1, <1>3, <1>4, <2>2, <2>3
<1>9. J = n..N
  <2>1. J \subseteq n..N
    <3>1. J \subseteq 1..N
      OBVIOUS
    <3> HIDE DEF J
    <3> QED BY <1>1, <1>5, <1>7, <3>1
  <2>2. n..N \subseteq J
    <3> HIDE DEF J
    <3> QED BY <1>1, <1>5, <1>8
  <2> QED BY <2>1, <2>2
<1>10. In(SubSeq(q, n, N)) = {q[i] : i \in n..N}
  BY <1>5, SuffixBlocks
<1>11. New = {q[j] : j \in J}
  BY DEF In
<1> QED BY <1>5, <1>9, <1>10, <1>11

LEMMA TrackFlush ==
  ASSUME SyncInv, TrackInv, disturbed = {}, FlushBlockBatch
  PROVE  TrackInv'
<1> DEFINE n == 1 + Len(batch) - Cardinality(NewIn(batch))
           New == In(batch) \ blocks
<1>1. /\ writer = "flush" /\ batch' = <<>>
      /\ \/ todo' = batch /\ writer' = "each" /\ UNCHANGED blocks
         \/ /\ Len(batch) >= SmallBatch /\ blocks' = blocks \cup NewIn(batch)
            /\ todo' = SubSeq(batch, n, Len(batch)) /\ writer' = "batch"
      /\ UNCHANGED <<row, etaV, currentEpoch, blockCount, candidateFroze, pc, work,
                     chain, clock, phase, unrewound, cursor, session, channel>>
  BY DEF FlushBlockBatch, tracker, stream, syncer
<1>2. /\ PipeType /\ PlacesInv /\ OrderInv /\ StoredInv
      /\ blocks \in SUBSET Block /\ chain \in SUBSET Block /\ blocks \subseteq chain
  BY Calm
<1>3. session # "start" /\ In(batch') = {} /\ In(todo) = {}
  BY <1>1, <1>2, PipeEmpty, EmptySequence
<1>4. pc = "idle"
  BY <1>1, <1>3 DEF TrackInv, HolderInv
<1>5. CASE todo' = batch /\ writer' = "each" /\ UNCHANGED blocks
  <2>1. AgainInv'
    BY <1>1, <1>3, <1>5 DEF AgainInv, Ahead, TrackInv
  <2>2. cursor' \in Slot \cup {0}
    BY <1>1 DEF TrackInv, TrackerType
  <2> QED BY <1>1, <1>4, <1>5, <2>1, <2>2, TrackQuiet
<1>6. CASE /\ Len(batch) >= SmallBatch /\ blocks' = blocks \cup NewIn(batch)
           /\ todo' = SubSeq(batch, n, Len(batch)) /\ writer' = "batch"
  <2>1. batch \in Seq(Block) /\ Sorted(batch) /\ In(batch) \subseteq chain
    BY <1>2 DEF PipeType, OrderInv, Pipe
  <2>2. /\ OnePerSlot(chain)
        /\ \A b \in chain, c \in blocks : b.slot <= c.slot => b \in blocks
    BY <1>2 DEF StoredInv
  <2>3. NewIn(batch) = New /\ In(todo') = New
    BY <1>2, <1>6, <2>1, <2>2, NewInBatch, NewBlocksAreLast
  <2>4. blocks' = blocks \cup In(batch)
    BY <1>6, <2>3
  <2>5. Evolved' = blocks /\ Evolved = blocks
    BY <1>1, <1>6, <2>3 DEF Evolved
  <2>6. blocks' # {}
    <3>1. Len(batch) \in Nat /\ Len(batch) >= 1
      BY <1>6, <2>1, SyncAssumption, LenProperties
    <3>2. batch[1] \in In(batch)
      BY <3>1 DEF In
    <3> QED BY <2>4, <3>2
  <2>7. \A b \in blocks, c \in New : b.slot < c.slot
    <3>1. \A b \in chain : b.slot \in Int
      BY <1>2, BlockSlot
    <3>2. blocks \subseteq chain /\ New \subseteq chain
      BY <1>2, <2>1
    <3> QED BY <2>2, <3>1, <3>2
  <2>8. AgainInv'
    <3> SUFFICES ASSUME NEW b \in blocks', Ahead(b)'
                 PROVE  \A c \in blocks' : EpochOf[c.slot] <= EpochOf[b.slot]
      BY DEF AgainInv
    <3>1. b \in In(channel) \/ b.slot > cursor
      BY <1>1, <1>3, <1>6 DEF Ahead
    <3>2. \A c \in In(batch) : c.slot < b.slot
      <4>1. \A c \in In(batch) : c.slot <= cursor /\ c.slot \in Int
        BY <1>2, <1>3, <2>1, BlockSlot DEF OrderInv, Pipe
      <4>2. cursor \in Int /\ b.slot \in Int
        BY <1>2, <2>1, <2>4, BlockSlot DEF PipeType
      <4> QED BY <1>2, <3>1, <4>1, <4>2 DEF OrderInv
    <3>3. b \notin In(batch) /\ b \in blocks /\ b.slot \in Int
      <4>1. b \in Block
        BY <1>2, <2>1, <2>4
      <4>2. b.slot \in Int
        BY <4>1, BlockSlot
      <4> QED BY <2>4, <3>2, <4>2
    <3>4. In(batch) \subseteq blocks
      <4>1. \A c \in In(batch) : c \in chain /\ c.slot <= b.slot
        BY <1>2, <2>1, <3>2, <3>3, BlockSlot
      <4> QED BY <2>2, <3>3, <4>1
    <3>5. Ahead(b)
      BY <1>3, <3>1 DEF Ahead
    <3> QED BY <2>4, <3>3, <3>4, <3>5 DEF TrackInv, AgainInv
  <2>9. TrackerType' /\ HolderInv'
    BY <1>1, <1>4, <1>6, <2>6 DEF TrackInv, TrackerType, HolderInv, InEpoch
  <2>10. RestInv'
    BY <1>1, <1>4, <2>5 DEF TrackInv, RestInv
  <2>11. BatchInv'
    BY <1>1, <1>4, <2>3, <2>5, <2>7 DEF BatchInv
  <2> QED BY <1>1, <1>4, <2>8, <2>9, <2>10, <2>11
          DEF TrackInv, ProcessInv, StoppedInv, RepairInv
<1> QED BY <1>1, <1>5, <1>6

(* A block stored before is of the tracker's epoch and changes nothing; a  *)
(* new one continues from the nonce of the stored chain.                   *)
LEMMA TrackProcessBlock ==
  ASSUME KeepsRows, SyncInv, TrackInv, disturbed = {}, ProcessBlock
  PROVE  TrackInv'
<1> DEFINE b == Head(todo)
           e == EpochOf[b.slot]
<1>1. /\ writer = "each" /\ todo # <<>> /\ pc = "idle" /\ todo' = Tail(todo)
      /\ EnterEpoch(e)
      /\ \/ /\ \A c \in blocks : c.slot # b.slot
            /\ blocks' = blocks \cup {b} /\ pc' = "freeze"
            /\ work' = [NoWork EXCEPT !.block = b]
         \/ (\E c \in blocks : c.slot = b.slot) /\ UNCHANGED <<blocks, pc, work>>
      /\ UNCHANGED <<row, chain, clock, phase, unrewound, cursor, session, channel, writer, batch>>
  BY RowsAreKept DEF ProcessBlock, Idle, stream, syncer
<1>2. /\ PipeType /\ PlacesInv /\ OrderInv /\ StoredInv
      /\ blocks \in SUBSET Block /\ chain \in SUBSET Block /\ blocks \subseteq chain
  BY Calm
<1>3. /\ b \in Block /\ In(todo) = {b} \cup In(todo') /\ \A c \in In(todo') : b.slot < c.slot
      /\ session # "start" /\ In(batch) = {}
  BY <1>1, <1>2, TailBlock, PipeEmpty DEF PipeType, OrderInv
<1>4. b \in chain /\ b.slot <= cursor /\ cursor \in Int /\ b.slot \in Int /\ e \in Epoch
  BY <1>2, <1>3, BlockSlot DEF OrderInv, Pipe, PipeType
<1>5. /\ TrackerType /\ HolderInv /\ AgainInv /\ RestInv /\ Evolved = blocks
  BY <1>1 DEF TrackInv, Evolved
<1>6. CASE (\E c \in blocks : c.slot = b.slot) /\ UNCHANGED <<blocks, pc, work>>
  <2>1. b \in blocks
    BY <1>2, <1>4, <1>6 DEF StoredInv, OnePerSlot
  <2>2. Ahead(b)
    BY <1>1, <1>3 DEF Ahead
  <2>3. LastEpoch(blocks, e)
    BY <1>5, <2>1, <2>2 DEF AgainInv, LastEpoch
  <2>4. LastEpoch(blocks, currentEpoch)
    BY <1>1, <1>5, <2>1 DEF RestInv
  <2>5. e = currentEpoch
    BY <1>2, <1>4, <1>5, <2>3, <2>4, OneLastEpoch DEF TrackerType
  <2>6. UNCHANGED <<etaV, currentEpoch, blockCount, candidateFroze>>
    BY <1>1, <2>5 DEF EnterEpoch, tracker
  <2>7. AgainInv'
    BY <1>1, <1>3, <1>5, <1>6 DEF AgainInv, Ahead
  <2>8. cursor' \in Slot \cup {0}
    BY <1>1, <1>5 DEF TrackerType
  <2> QED BY <1>1, <1>6, <2>6, <2>7, <2>8, TrackQuiet
<1>7. CASE /\ \A c \in blocks : c.slot # b.slot
           /\ blocks' = blocks \cup {b} /\ pc' = "freeze"
           /\ work' = [NoWork EXCEPT !.block = b]
  <2>1. \A c \in blocks : c \in Block /\ c.slot < b.slot /\ EpochOf[c.slot] <= e
    <3>1. \A c \in blocks : c.slot < b.slot
      <4>1. \A c \in blocks : c.slot \in Int /\ c.slot # b.slot
        BY <1>2, <1>7, BlockSlot
      <4>2. \A c \in blocks : b.slot <= c.slot => b \in blocks
        BY <1>2, <1>4 DEF StoredInv
      <4> QED BY <1>4, <1>7, <4>1, <4>2
    <3> QED BY <1>2, <1>3, <3>1, BlockSlot, EpochMonotone
  <2>2. currentEpoch' = e /\ etaV' = ChainNonce(blocks) /\ blockCount' = row[e].count
        /\ (candidateFroze' = candidateFroze \/ candidateFroze' = FALSE)
    <3>1. CASE e = currentEpoch
      BY <1>1, <1>5, <3>1 DEF EnterEpoch, tracker, RestInv
    <3>2. CASE e # currentEpoch
      <4>1. InEpoch(blocks, e) = {}
        <5>1. ASSUME NEW c \in blocks, EpochOf[c.slot] = e PROVE FALSE
          <6>1. LastEpoch(blocks, currentEpoch)
            BY <1>1, <1>5, <5>1 DEF RestInv
          <6>2. e <= currentEpoch /\ currentEpoch <= e
            BY <2>1, <5>1, <6>1 DEF LastEpoch
          <6> QED BY <1>4, <1>5, <3>2, <6>2, EpochIsInt DEF TrackerType
        <5> QED BY <5>1 DEF InEpoch
      <4>2. row[e].count = 0
        BY <1>1, <1>4, <1>5, <4>1, FS_EmptySet DEF RestInv, RowsOf
      <4>3. PICK found \in GetEvolvingNonce(row, e) :
              /\ etaV' = IF found.count > 0 THEN found.evolving ELSE etaV
              /\ blockCount' = found.count
        BY <1>1, <3>2 DEF EnterEpoch
      <4>4. found = row[e]
        BY <1>4, <4>3, RowsAreKept, ReadOf
      <4>5. currentEpoch' = e /\ candidateFroze' = FALSE
        BY <1>1, <3>2 DEF EnterEpoch
      <4> QED BY <1>1, <1>5, <4>2, <4>3, <4>4, <4>5 DEF RestInv
    <3> QED BY <3>1, <3>2
  <2>3. work' \in [block : Block \cup {NoBlock}, epoch : Epoch, through : Epoch,
                   eta : Nonce, candidate : Nonce \cup {NoNonce}] /\ work'.block = b
    BY <1>3, <1>7, NoWorkType DEF NoWork
  <2>4. TrackerType'
    <3>1. etaV' \in Nonce /\ blockCount' \in Nat /\ candidateFroze' \in BOOLEAN
      <4>1. row[e] \in StoredRow
        BY <1>4, <1>5 DEF TrackerType
      <4>2. row[e].count \in Nat
        BY <4>1 DEF StoredRow, Row
      <4>3. candidateFroze \in BOOLEAN
        BY <1>5 DEF TrackerType
      <4> QED BY <1>2, <2>2, <4>2, <4>3, ChainNonceType
    <3> QED BY <1>1, <1>3, <1>4, <1>5, <2>2, <2>3, <3>1 DEF TrackerType
  <2>5. HolderInv'
    BY <1>1, <1>5, <1>7 DEF HolderInv, InEpoch
  <2>6. AgainInv'
    <3> SUFFICES ASSUME NEW c \in blocks', Ahead(c)' PROVE FALSE
      BY DEF AgainInv
    <3>1. c.slot > b.slot /\ c.slot \in Int
      <4>1. c \in Block /\ c.slot \in Int
        BY <1>2, <1>3, <1>7, BlockSlot
      <4>2. CASE c \in In(channel)
        BY <1>2, <1>3, <4>1, <4>2, <1>4 DEF OrderInv
      <4>3. CASE c \in In(todo')
        BY <1>3, <1>4, <4>1, <4>3
      <4>4. CASE c.slot > cursor
        BY <1>4, <4>1, <4>4
      <4> QED BY <1>1, <1>3, <4>2, <4>3, <4>4 DEF Ahead
    <3>2. c \in blocks
      BY <1>4, <1>7, <3>1
    <3> QED BY <1>4, <2>1, <3>1, <3>2
  <2>7. ProcessInv'
    <3>1. Settled' = blocks
      <4>1. b \notin blocks
        BY <1>7
      <4> QED BY <1>7, <2>3, <4>1 DEF Settled
    <3>2. RowsOf(row', blocks, Epoch)
      BY <1>1, <1>5 DEF RestInv
    <3>3. row'[currentEpoch'].count = row[e].count
      BY <1>1, <2>2
    <3> QED BY <1>1, <1>7, <2>1, <2>2, <2>3, <3>1, <3>2, <3>3 DEF ProcessInv
  <2> QED BY <1>1, <1>7, <2>4, <2>5, <2>6, <2>7
          DEF TrackInv, RestInv, BatchInv, StoppedInv, RepairInv
<1> QED BY <1>1, <1>6, <1>7

----------------------------------------------------------------------------
(* ProcessBlock's second part and ProcessBatch.                            *)

LEMMA TrackFreezeCandidate ==
  ASSUME TrackInv, SyncInv, FreezeCandidate, UNCHANGED <<syncer, pipe>>
  PROVE  TrackInv'
<1>1. /\ pc = "freeze" /\ pc' = "evolve"
      /\ UNCHANGED <<blocks, etaV, currentEpoch, blockCount, work, chain, clock, phase, unrewound,
                     cursor, session, channel, writer, batch, todo>>
  BY DEF FreezeCandidate, stream, syncer, pipe
<1>2. TrackerType /\ HolderInv /\ AgainInv /\ ProcessInv /\ PipeType /\ TypeInv
  BY <1>1, TrackType DEF TrackInv, SyncInv
<1>3. ProcessInv' /\ TypeInv'
  BY <1>2, FreezeKeeps, TypeFreezeCandidate
<1>4. TrackerType'
  BY <1>1, <1>2, <1>3 DEF TrackerType, TypeInv, TypeOK
<1>5. blocks # {} /\ writer = "each"
  BY <1>1, <1>2 DEF ProcessInv, HolderInv
<1>6. HolderInv'
  BY <1>1, <1>2, <1>5 DEF HolderInv, InEpoch
<1>7. AgainInv'
  BY <1>1, <1>2 DEF AgainInv, Ahead
<1> QED BY <1>1, <1>3, <1>4, <1>5, <1>6, <1>7
        DEF TrackInv, RestInv, BatchInv, StoppedInv, RepairInv

LEMMA TrackEvolveNonce ==
  ASSUME KeepsRows, TrackInv, SyncInv, EvolveNonce, UNCHANGED <<syncer, pipe>>
  PROVE  TrackInv'
<1>1. /\ pc = "evolve"
      /\ UNCHANGED <<blocks, currentEpoch, chain, clock, phase, unrewound,
                     cursor, session, channel, writer, batch, todo>>
  BY DEF EvolveNonce, stream, syncer, pipe
<1>2. TrackerType /\ HolderInv /\ AgainInv /\ ProcessInv /\ PipeType /\ TypeInv
  BY <1>1, TrackType DEF TrackInv, SyncInv
<1>3. /\ IdleInv' /\ pc' = "idle" /\ TypeInv'
      /\ etaV' = ChainNonce(blocks)
      /\ \A c \in blocks : EpochOf[c.slot] <= currentEpoch
  BY <1>2, RowsAreKept, EvolveCounts, TypeEvolveNonce
<1>4. work.block \in blocks /\ EpochOf[work.block.slot] = currentEpoch /\ writer = "each"
  BY <1>1, <1>2 DEF ProcessInv, HolderInv
<1>5. TrackerType'
  BY <1>1, <1>2, <1>3 DEF TrackerType, TypeInv, TypeOK
<1>6. HolderInv'
  BY <1>1, <1>2, <1>3, <1>4 DEF HolderInv, InEpoch
<1>7. AgainInv'
  BY <1>1, <1>2 DEF AgainInv, Ahead
<1>8. RestInv'
  <2>1. LastEpoch(blocks, currentEpoch)'
    BY <1>1, <1>3, <1>4 DEF LastEpoch
  <2>2. Evolved' = blocks'
    BY <1>1, <1>4 DEF Evolved
  <2>3. /\ etaV' = ChainNonce(blocks')
        /\ blockCount' = row[currentEpoch].count' /\ RowsOf(row', blocks', Epoch)
    BY <1>3 DEF IdleInv, Idle
  <2> QED BY <2>1, <2>2, <2>3 DEF RestInv, LastEpoch
<1> QED BY <1>1, <1>3, <1>4, <1>5, <1>6, <1>7, <1>8
        DEF TrackInv, ProcessInv, BatchInv, StoppedInv, RepairInv

(* The blocks of a batch come after what is hashed.                        *)
LEMMA EvolvedType ==
  ASSUME SyncInv, TrackInv, disturbed = {}
  PROVE  /\ Evolved \in SUBSET Block /\ IsFiniteSet(Evolved) /\ Evolved \subseteq blocks
         /\ writer = "batch" => blocks = Evolved \cup In(todo)
         /\ writer = "batch" => \A b \in Evolved, c \in In(todo) : b.slot < c.slot
<1>1. blocks \in SUBSET Block /\ IsFiniteSet(blocks) /\ OrderInv
  BY Calm
<1>2. Evolved \in SUBSET blocks
  BY DEF Evolved
<1>3. IsFiniteSet(Evolved)
  BY <1>1, <1>2, FS_Subset
<1>4. writer = "batch" => blocks = Evolved \cup In(todo)
  BY <1>1 DEF Evolved, OrderInv
<1> QED BY <1>1, <1>2, <1>3, <1>4 DEF TrackInv, BatchInv

LEMMA TrackProcessBatch ==
  ASSUME SyncInv, TrackInv, disturbed = {}, ProcessBatch
  PROVE  TrackInv'
<1>1. /\ writer = "batch" /\ pc = "idle" /\ pc' = "batch"
      /\ UNCHANGED <<blocks, row, etaV, currentEpoch, blockCount, candidateFroze, work, chain,
                     clock, phase, unrewound, cursor, session, channel, writer, batch, todo>>
  BY DEF ProcessBatch, Idle, db, tracker, stream, syncer, pipe
<1>2. /\ TrackerType /\ HolderInv /\ AgainInv /\ RestInv /\ BatchInv
  BY DEF TrackInv
<1>3. Evolved' = Evolved /\ Evolved \in SUBSET Block /\ IsFiniteSet(Evolved)
  BY <1>1, EvolvedType DEF Evolved
<1>4. TrackerType' /\ HolderInv' /\ AgainInv'
  BY <1>1, <1>2 DEF TrackerType, HolderInv, AgainInv, Ahead, InEpoch
<1>5. BehindIn(row, Evolved, currentEpoch)
  <2>1. \A c \in Evolved : EpochOf[c.slot] <= currentEpoch
    BY <1>1, <1>2 DEF RestInv, LastEpoch
  <2> QED BY <1>1, <1>2, <1>3, <2>1, RowsAreBehind DEF RestInv, TrackerType
<1>6. blockCount = Cardinality(InEpoch(Evolved, currentEpoch))
  BY <1>1, <1>2 DEF RestInv, RowsOf, TrackerType
<1>7. BatchInv'
  BY <1>1, <1>2, <1>3, <1>5, <1>6 DEF BatchInv, RestInv
<1> QED BY <1>1, <1>4, <1>7 DEF TrackInv, RestInv, ProcessInv, StoppedInv, RepairInv

LEMMA TrackBatchEntersEpoch ==
  ASSUME KeepsRows, SyncInv, TrackInv, disturbed = {}, BatchEntersEpoch
  PROVE  TrackInv'
<1> DEFINE b == Head(todo)
           e == EpochOf[b.slot]
           D == Evolved
<1>1. /\ writer = "batch" /\ pc = "batch" /\ todo # <<>>
      /\ e # currentEpoch /\ currentEpoch' = e /\ blockCount' = 0 /\ candidateFroze' = FALSE
      /\ row' = UpsertEvolvingNonce(row, currentEpoch, etaV, blockCount)
      /\ UNCHANGED <<blocks, etaV, pc, work, chain,
                     clock, phase, unrewound, cursor, session, channel, writer, batch, todo>>
  BY RowsAreKept DEF BatchEntersEpoch, InBatch, stream, syncer, pipe
<1>2. /\ TrackerType /\ HolderInv /\ AgainInv /\ BatchInv
  BY DEF TrackInv
<1>3. /\ D \in SUBSET Block /\ IsFiniteSet(D) /\ Evolved' = D
      /\ \A c \in D, d \in In(todo) : c.slot < d.slot
  BY <1>1, EvolvedType DEF Evolved
<1>4. b \in Block /\ b \in In(todo) /\ e \in Epoch
  BY <1>1, TailBlock, BlockSlot DEF SyncInv, PipeType
<1>5. /\ etaV = ChainNonce(D) /\ blockCount = Cardinality(InEpoch(D, currentEpoch))
      /\ BehindIn(row, D, currentEpoch) /\ (D # {} => LastEpoch(D, currentEpoch))
  BY <1>1, <1>2 DEF BatchInv
<1>6. currentEpoch \in Epoch /\ row \in [Epoch -> StoredRow]
  BY <1>2 DEF TrackerType
<1>7. RowsOf(row', D, Epoch)
  <2>1. InEpoch(D, currentEpoch) # {} => etaV = ChainNonce(Through(D, currentEpoch))
    <3>1. InEpoch(D, currentEpoch) # {} => D # {}
      BY DEF InEpoch
    <3> HIDE DEF D
    <3> QED BY <1>3, <1>5, <1>6, <3>1, OneLastEpoch
  <2>2. RowsOf(row, D, Epoch \ {currentEpoch})
    BY <1>5 DEF BehindIn
  <2>3. RowsOf(row', D, (Epoch \ {currentEpoch}) \cup {currentEpoch})
    <3> HIDE DEF D
    <3> QED BY <1>1, <1>5, <1>6, <2>1, <2>2, RowsUpsert
  <2>4. (Epoch \ {currentEpoch}) \cup {currentEpoch} = Epoch
    BY <1>6
  <2> QED BY <2>3, <2>4
<1>8. \A c \in D : EpochOf[c.slot] < e
  <2> SUFFICES ASSUME NEW c \in D PROVE EpochOf[c.slot] < e
    OBVIOUS
  <2>1. PICK d \in D : EpochOf[d.slot] = currentEpoch /\ EpochOf[c.slot] <= currentEpoch
    BY <1>5 DEF LastEpoch
  <2>2. d.slot < b.slot /\ d \in Block /\ c \in Block
    BY <1>3, <1>4, <2>1
  <2>3. currentEpoch <= e
    BY <1>4, <2>1, <2>2, EpochMonotone, BlockSlot
  <2> QED BY <1>1, <1>4, <1>6, <2>1, <2>2, <2>3, EpochIsInt, BlockSlot
<1>9. InEpoch(D, e) = {}
  BY <1>3, <1>4, <1>8, EpochIsInt DEF InEpoch
<1>10. BehindIn(row', D, e)
  <2>1. \A c \in D : EpochOf[c.slot] <= e
    BY <1>3, <1>4, <1>8, EpochIsInt, BlockSlot
  <2> HIDE DEF D
  <2> QED BY <1>3, <1>4, <1>7, <2>1, RowsAreBehind
<1>11. BatchInv'
  <2>1. blockCount' = Cardinality(InEpoch(D, e))
    BY <1>1, <1>9, FS_EmptySet
  <2>2. writer' = "batch" /\ \A c \in Evolved', d \in In(todo') : c.slot < d.slot
    BY <1>1, <1>3
  <2>3. etaV' = ChainNonce(D)
    BY <1>1, <1>5
  <2>4. todo' # <<>> /\ EpochOf[Head(todo').slot] = currentEpoch'
    BY <1>1
  <2> QED BY <1>1, <1>3, <1>10, <2>1, <2>2, <2>3, <2>4 DEF BatchInv
<1>12. row' \in [Epoch -> StoredRow] /\ candidateFroze' \in BOOLEAN /\ blockCount' \in Nat
  <2>1. etaV \in Nonce /\ blockCount \in Nat
    BY <1>2 DEF TrackerType
  <2> QED BY <1>1, <1>6, <2>1, StatementTypes
<1>13. TrackerType' /\ HolderInv' /\ AgainInv'
  BY <1>1, <1>2, <1>4, <1>12 DEF TrackerType, HolderInv, AgainInv, Ahead, InEpoch
<1> QED BY <1>1, <1>11, <1>13 DEF TrackInv, RestInv, ProcessInv, StoppedInv, RepairInv

LEMMA TrackBatchEvolves ==
  ASSUME SyncInv, TrackInv, disturbed = {}, BatchEvolves
  PROVE  TrackInv'
<1> DEFINE b == Head(todo)
           e == currentEpoch
           D == Evolved
           E == D \cup {b}
<1>1. /\ writer = "batch" /\ pc = "batch" /\ todo # <<>> /\ EpochOf[b.slot] = e
      /\ row' \in {SetCandidateNonce(row, e, etaV), row}
      /\ etaV' = Evolve(etaV, b) /\ blockCount' = blockCount + 1 /\ todo' = Tail(todo)
      /\ candidateFroze' = (candidateFroze \/ (~candidateFroze /\ b.slot \in Stable))
      /\ UNCHANGED <<blocks, currentEpoch, pc, work, chain, clock, phase, unrewound, cursor,
                     session, channel, writer, batch>>
  BY DEF BatchEvolves, InBatch, stream, syncer
<1>2. /\ TrackerType /\ HolderInv /\ AgainInv /\ BatchInv
  BY DEF TrackInv
<1>3. /\ D \in SUBSET Block /\ IsFiniteSet(D) /\ D \subseteq blocks
      /\ blocks = D \cup In(todo)
      /\ \A c \in D, d \in In(todo) : c.slot < d.slot
  BY <1>1, EvolvedType
<1>4. /\ b \in Block /\ In(todo) = {b} \cup In(todo') /\ \A c \in In(todo') : b.slot < c.slot
  BY <1>1, TailBlock, Calm DEF PipeType, OrderInv
<1>5. /\ e \in Epoch /\ row \in [Epoch -> StoredRow] /\ etaV \in Nonce /\ blockCount \in Nat
  BY <1>2 DEF TrackerType
<1>6. /\ \A c \in D : c.slot < b.slot /\ c.slot \in Int /\ b.slot \in Int /\ b \notin D
  BY <1>3, <1>4, BlockSlot
<1>7. Evolved' = E
  <2>1. Evolved' = blocks \ In(todo')
    BY <1>1 DEF Evolved
  <2>2. b \notin In(todo')
    BY <1>4, BlockSlot
  <2>3. D = blocks \ In(todo)
    BY <1>1 DEF Evolved
  <2> QED BY <1>3, <1>4, <2>1, <2>2, <2>3
<1>8. /\ etaV = ChainNonce(D) /\ blockCount = Cardinality(InEpoch(D, e)) /\ BehindIn(row, D, e)
  BY <1>1, <1>2 DEF BatchInv
<1>9. etaV' = ChainNonce(E)
  <2> HIDE DEF D
  <2> QED BY <1>1, <1>3, <1>4, <1>6, <1>8, EvolveLast
<1>10. /\ E \in SUBSET Block /\ IsFiniteSet(E)
       /\ InEpoch(E, e) = InEpoch(D, e) \cup {b} /\ b \notin InEpoch(D, e)
  BY <1>1, <1>3, <1>4, <1>6, FS_AddElement DEF InEpoch
<1>11. /\ IsFiniteSet(InEpoch(D, e)) /\ Cardinality(InEpoch(D, e)) \in Nat
       /\ Cardinality(InEpoch(E, e)) = Cardinality(InEpoch(D, e)) + 1
  <2>1. IsFiniteSet(InEpoch(D, e)) /\ Cardinality(InEpoch(D, e)) \in Nat
    <3> HIDE DEF D
    <3> QED BY <1>3, CardinalityIn
  <2> HIDE DEF D, E
  <2> QED BY <1>10, <2>1, FS_AddElement
<1>12. BehindIn(row', E, e)
  <2>1. BehindIn(row, E, e)
    <3>1. \A c \in E \ D : EpochOf[c.slot] = e
      BY <1>1
    <3>2. D \in SUBSET E
      OBVIOUS
    <3> HIDE DEF D, E
    <3> QED BY <1>5, <1>8, <1>10, <3>1, <3>2, BehindGrows
  <2>2. \A f \in Epoch : /\ row'[f].count = row[f].count
                         /\ row[f].evolving # NoNonce => row'[f].evolving = row[f].evolving
    BY <1>1, <1>5, StatementsKeep
  <2> HIDE DEF D, E
  <2> QED BY <1>5, <1>10, <2>1, <2>2, BehindKept
<1>13. LastEpoch(E, e)
  BY <1>1, <1>12 DEF LastEpoch, BehindIn
<1>14. BatchInv'
  <2>1. blockCount' = Cardinality(InEpoch(E, e))
    BY <1>1, <1>8, <1>11
  <2>2. \A c \in E, d \in In(todo') : c.slot < d.slot
    BY <1>3, <1>4
  <2> HIDE DEF D, E
  <2> QED BY <1>1, <1>7, <1>9, <1>12, <1>13, <2>1, <2>2 DEF BatchInv
<1>15. /\ row' \in [Epoch -> StoredRow] /\ candidateFroze' \in BOOLEAN /\ blockCount' \in Nat
       /\ etaV' \in Nonce
  <2>1. row' \in [Epoch -> StoredRow]
    BY <1>1, <1>5, StatementTypes
  <2>2. candidateFroze' \in BOOLEAN
    BY <1>1, <1>2 DEF TrackerType
  <2> QED BY <1>1, <1>4, <1>5, <2>1, <2>2, EvolveType
<1>16. TrackerType' /\ HolderInv' /\ AgainInv'
  <2>1. AgainInv'
    BY <1>1, <1>2 DEF AgainInv, Ahead
  <2>2. blocks # {}
    BY <1>1, <1>2 DEF HolderInv
  <2>3. HolderInv'
    BY <1>1, <1>2, <2>2 DEF HolderInv, InEpoch
  <2> QED BY <1>1, <1>2, <1>15, <2>1, <2>3 DEF TrackerType
<1> QED BY <1>1, <1>14, <1>16 DEF TrackInv, RestInv, ProcessInv, StoppedInv, RepairInv

LEMMA TrackBatchPersists ==
  ASSUME KeepsRows, SyncInv, TrackInv, disturbed = {}, BatchPersists
  PROVE  TrackInv'
<1> DEFINE e == currentEpoch
<1>1. /\ writer = "batch" /\ pc = "batch" /\ todo = <<>> /\ pc' = "idle" /\ writer' = "collect"
      /\ row' = UpsertEvolvingNonce(row, e, etaV, blockCount)
      /\ UNCHANGED <<blocks, etaV, currentEpoch, blockCount, candidateFroze, work, chain,
                     clock, phase, unrewound, cursor, session, channel, batch, todo>>
  BY RowsAreKept DEF BatchPersists, InBatch, tracker, stream, syncer
<1>2. /\ TrackerType /\ HolderInv /\ AgainInv /\ BatchInv
  BY DEF TrackInv
<1>3. /\ Evolved = blocks /\ Evolved' = blocks /\ blocks \in SUBSET Block
  BY <1>1, EmptySequence, Calm DEF Evolved
<1>4. /\ e \in Epoch /\ row \in [Epoch -> StoredRow] /\ etaV \in Nonce /\ blockCount \in Nat
  BY <1>2 DEF TrackerType
<1>5. /\ etaV = ChainNonce(blocks) /\ blockCount = Cardinality(InEpoch(blocks, e))
      /\ BehindIn(row, blocks, e) /\ (blocks # {} => LastEpoch(blocks, e))
  BY <1>1, <1>2, <1>3 DEF BatchInv
<1>6. RowsOf(row', blocks, Epoch)
  <2>1. InEpoch(blocks, e) # {} => etaV = ChainNonce(Through(blocks, e))
    <3>1. InEpoch(blocks, e) # {} => blocks # {}
      BY DEF InEpoch
    <3> QED BY <1>3, <1>4, <1>5, <3>1, OneLastEpoch
  <2>2. RowsOf(row', blocks, (Epoch \ {e}) \cup {e})
    BY <1>1, <1>4, <1>5, <2>1, RowsUpsert DEF BehindIn
  <2>3. (Epoch \ {e}) \cup {e} = Epoch
    BY <1>4
  <2> QED BY <2>2, <2>3
<1>7. RestInv'
  <2>1. row'[e].count = blockCount
    BY <1>4, <1>5, <1>6 DEF RowsOf
  <2> QED BY <1>1, <1>3, <1>5, <1>6, <2>1 DEF RestInv, LastEpoch
<1>8. TrackerType' /\ HolderInv' /\ AgainInv'
  <2>1. AgainInv'
    BY <1>1, <1>2 DEF AgainInv, Ahead
  <2>2. blocks # {}
    BY <1>1, <1>2 DEF HolderInv
  <2>3. HolderInv'
    BY <1>1, <1>2, <2>2 DEF HolderInv, InEpoch
  <2>4. row' \in [Epoch -> StoredRow]
    BY <1>1, <1>4, StatementTypes
  <2> QED BY <1>1, <1>2, <2>1, <2>3, <2>4 DEF TrackerType
<1> QED BY <1>1, <1>7, <1>8 DEF TrackInv, ProcessInv, BatchInv, StoppedInv, RepairInv

(* A cached final nonce may create a row, but never changes a nonce or a   *)
(* count.                                                                  *)
LEMMA TrackCacheFinalNonce ==
  ASSUME KeepsRows, SyncInv, TrackInv, NEW e \in FinalEpochs, CacheFinalNonce(e),
         UNCHANGED <<syncer, pipe>>
  PROVE  TrackInv'
<1>1. /\ pc # "down" /\ blocks # {} /\ row' = SetFinalNonce(row, e, FinalNonce)
      /\ UNCHANGED <<blocks, etaV, currentEpoch, blockCount, candidateFroze, pc, work, chain,
                     clock, phase, unrewound, cursor, session, channel, writer, batch, todo>>
  BY RowsAreKept DEF CacheFinalNonce, tracker, stream, syncer, pipe
<1>2. /\ TrackerType /\ HolderInv /\ AgainInv /\ RestInv /\ ProcessInv /\ BatchInv /\ StoppedInv
      /\ RepairInv /\ blocks \in SUBSET Block
  BY DEF TrackInv, SyncInv, PipeType
<1>3. e \in Epoch /\ row \in [Epoch -> StoredRow] /\ currentEpoch \in Epoch
  BY <1>2, BoundAssumption DEF TrackerType
<1>4. /\ row' \in [Epoch -> StoredRow]
      /\ \A f \in Epoch : /\ row'[f].count = row[f].count
                          /\ row[f].evolving # NoNonce => row'[f].evolving = row[f].evolving
  <2>1. FinalNonce \in Nonce /\ 0 \in Nat
    BY GenesisType
  <2>2. row' \in [Epoch -> StoredRow]
    BY <1>1, <1>3, <2>1, StatementTypes
  <2>3. row' \in {SetCandidateNonce(row, e, FinalNonce), DeleteCandidateNonce(row, e),
                  SetFinalNonce(row, e, FinalNonce)}
    BY <1>1
  <2> QED BY <1>3, <2>1, <2>2, <2>3, StatementsKeep
<1>5. Evolved' = Evolved /\ Evolved \in SUBSET Block
  BY <1>1, <1>2 DEF Evolved
<1>6. TrackerType' /\ HolderInv' /\ AgainInv'
  BY <1>1, <1>2, <1>4 DEF TrackerType, HolderInv, AgainInv, Ahead, InEpoch
<1>7. RestInv'
  <2>1. RowsOf(row, Evolved, Epoch) => RowsOf(row', Evolved, Epoch)
    BY <1>4, <1>5, RowsKept
  <2>2. row'[currentEpoch].count = row[currentEpoch].count
    BY <1>3, <1>4
  <2> QED BY <1>1, <1>2, <1>5, <2>1, <2>2 DEF RestInv, LastEpoch
<1>8. ProcessInv' /\ RepairInv'
  <2>1. CASE pc \in {"freeze", "evolve", "restore", "candidate"}
    <3>1. TypeInv
      BY <1>2, <2>1, TrackType DEF SyncInv
    <3>2. ProcessInv'
      BY <1>2, <3>1, CacheKeeps
    <3>3. RewindInv => RewindInv'
      BY <3>1, CacheKeeps
    <3> QED BY <1>1, <1>2, <3>2, <3>3 DEF RepairInv, LastEpoch
  <2>2. CASE pc \notin {"freeze", "evolve", "restore", "candidate"}
    BY <1>1, <2>2 DEF ProcessInv, RepairInv
  <2> QED BY <2>1, <2>2
<1>9. BatchInv'
  <2>1. BehindIn(row, Evolved, currentEpoch) => BehindIn(row', Evolved, currentEpoch)
    BY <1>3, <1>4, <1>5, BehindKept
  <2> QED BY <1>1, <1>2, <1>5, <2>1 DEF BatchInv, LastEpoch, InEpoch
<1>10. StoppedInv'
  <2>1. \A f \in Epoch : BehindIn(row, blocks, f) => BehindIn(row', blocks, f)
    BY <1>2, <1>4, BehindKept
  <2>2. row'[currentEpoch].count = row[currentEpoch].count
    BY <1>3, <1>4
  <2>3. BlocksOf(currentEpoch)' = BlocksOf(currentEpoch)
    BY <1>1 DEF BlocksOf
  <2> QED BY <1>1, <1>2, <2>1, <2>2, <2>3 DEF StoppedInv, LastEpoch
<1> QED BY <1>6, <1>7, <1>8, <1>9, <1>10 DEF TrackInv

----------------------------------------------------------------------------
(* Stops and restarts.                                                     *)

(* What a stop has left unhashed belongs to the tracker's epoch.           *)
LEMMA StopsInLastEpoch ==
  ASSUME TrackerType, blocks \in SUBSET Block, IsFiniteSet(blocks), blocks # {},
         NEW D \in SUBSET blocks, BehindIn(row, D, currentEpoch),
         \A b \in blocks \ D : EpochOf[b.slot] = currentEpoch,
         D = blocks => LastEpoch(D, currentEpoch)
  PROVE  LastEpoch(blocks, currentEpoch) /\ BehindIn(row, blocks, currentEpoch)
<1>1. BehindIn(row, blocks, currentEpoch)
  BY BehindGrows DEF TrackerType
<1>2. \E b \in blocks : EpochOf[b.slot] = currentEpoch
  BY DEF LastEpoch
<1> QED BY <1>1, <1>2 DEF LastEpoch, BehindIn

(* A batch of one epoch leaves the rows of the other epochs right.         *)
LEMMA NotSplit ==
  ASSUME NEW q \in Seq(Block), NEW e, ~(Cardinality(Epochs(q) \cup {e}) > 1)
  PROVE  \A b \in In(q) : EpochOf[b.slot] = e
<1> SUFFICES ASSUME NEW b \in In(q), EpochOf[b.slot] # e PROVE FALSE
  OBVIOUS
<1> DEFINE f == EpochOf[b.slot]
           S == Epochs(q) \cup {e}
<1>1. Len(q) \in Nat /\ DOMAIN q = 1..Len(q)
  BY LenProperties
<1>2. Epochs(q) = {EpochOf[q[i].slot] : i \in 1..Len(q)}
  BY <1>1 DEF Epochs
<1>3. IsFiniteSet(Epochs(q))
  <2>1. IsFiniteSet(1..Len(q))
    BY <1>1, FS_Interval
  <2> DEFINE g == [i \in 1..Len(q) |-> EpochOf[q[i].slot]]
  <2>2. g \in [1..Len(q) -> Epochs(q)]
    BY <1>2
  <2>3. \A y \in Epochs(q) : \E i \in 1..Len(q) : g[i] = y
    BY <1>2
  <2>4. g \in Surjection(1..Len(q), Epochs(q))
    <3> HIDE DEF g
    <3> QED BY <2>2, <2>3 DEF Surjection
  <2> HIDE DEF g
  <2> QED BY <2>1, <2>4, FS_Surjection
<1>4. f \in S /\ e \in S
  BY <1>2 DEF In
<1>5. IsFiniteSet(S)
  BY <1>3, FS_AddElement
<1>6. IsFiniteSet(S \ {f}) /\ Cardinality(S \ {f}) = Cardinality(S) - 1
  <2> HIDE DEF S, f
  <2> QED BY <1>4, <1>5, FS_RemoveElement
<1>7. Cardinality(S \ {f}) # 0 /\ Cardinality(S \ {f}) \in Nat /\ Cardinality(S) \in Nat
  <2>1. e \in S \ {f}
    BY <1>4
  <2> HIDE DEF S, f
  <2> QED BY <1>5, <1>6, <2>1, FS_EmptySet, FS_CardinalityType
<1> QED BY <1>6, <1>7

LEMMA TrackStop ==
  ASSUME KeepsRows, SyncInv, TrackInv, disturbed = {}, disturbed' = {}, Stop
  PROVE  TrackInv'
<1> DEFINE e == currentEpoch
           D == Evolved
<1>1. /\ pc \notin {"down", "restore", "candidate"} /\ pc' = "down" /\ work' = NoWork
      /\ etaV' = GenesisNonce /\ currentEpoch' = 0 /\ blockCount' = 0 /\ candidateFroze' = FALSE
      /\ UNCHANGED <<blocks, row, chain, clock, phase, unrewound, cursor>>
      /\ session' = "start" /\ channel' = <<>> /\ writer' = "collect" /\ batch' = <<>>
      /\ todo' = <<>>
      /\ writer = "batch" => ~(Cardinality(Epochs(todo) \cup {currentEpoch}) > 1)
  BY RowsAreKept DEF Stop, Crash, Rewinding, db, stream
<1>2. /\ PipeType /\ blocks \in SUBSET Block /\ IsFiniteSet(blocks)
  BY Calm
<1>3. /\ TrackerType /\ HolderInv /\ RestInv /\ ProcessInv /\ BatchInv /\ StoppedInv
  BY DEF TrackInv
<1>4. /\ D \in SUBSET Block /\ IsFiniteSet(D) /\ D \in SUBSET blocks
      /\ writer = "batch" => blocks = D \cup In(todo)
      /\ writer # "batch" => D = blocks
  BY EvolvedType DEF Evolved
<1>5. \A b \in blocks \ D : EpochOf[b.slot] = e
  <2>1. writer = "batch" => \A b \in In(todo) : EpochOf[b.slot] = e
    BY <1>1, <1>2, NotSplit DEF PipeType
  <2> QED BY <1>4, <2>1
<1>6. e \in Epoch
  BY <1>3 DEF TrackerType
<1>7. ASSUME blocks # {}
      PROVE  \E f \in Epoch : LastEpoch(blocks, f) /\ BehindIn(row, blocks, f)
  <2>1. CASE pc = "idle"
    <3>1. /\ RowsOf(row, D, Epoch) /\ (D # {} => LastEpoch(D, e))
      BY <1>3, <2>1 DEF RestInv
    <3>2. \A c \in D : EpochOf[c.slot] <= e
      BY <3>1 DEF LastEpoch
    <3>3. BehindIn(row, D, e)
      <4> HIDE DEF D, e
      <4> QED BY <1>4, <1>6, <3>1, <3>2, RowsAreBehind
    <3> HIDE DEF D
    <3> QED BY <1>2, <1>3, <1>4, <1>5, <1>6, <1>7, <3>1, <3>3, StopsInLastEpoch
  <2>2. CASE pc = "batch"
    <3>1. /\ BehindIn(row, D, e) /\ writer = "batch"
          /\ \/ D # {} => LastEpoch(D, e)
             \/ todo # <<>> /\ EpochOf[Head(todo).slot] = e
      BY <1>3, <2>2 DEF BatchInv, HolderInv
    <3>2. todo # <<>> => D # blocks
      <4>1. todo # <<>> => Head(todo) \in In(todo)
        BY <1>2, TailBlock DEF PipeType
      <4>2. In(todo) \cap D = {}
        BY <3>1 DEF Evolved
      <4> QED BY <1>4, <3>1, <4>1, <4>2
    <3> HIDE DEF D
    <3> QED BY <1>2, <1>3, <1>4, <1>5, <1>6, <1>7, <3>1, <3>2, StopsInLastEpoch
  <2>3. CASE pc \in {"freeze", "evolve"}
    <3>1. /\ work.block \in blocks /\ \A b \in Settled : b.slot < work.block.slot
          /\ e = EpochOf[work.block.slot] /\ RowsOf(row, Settled, Epoch)
      BY <1>3, <2>3 DEF ProcessInv
    <3>2. /\ Settled \in SUBSET blocks /\ IsFiniteSet(Settled) /\ Settled # blocks
          /\ Settled \in SUBSET Block
          /\ \A b \in blocks \ Settled : EpochOf[b.slot] = e
      BY <1>2, <3>1, FS_Subset DEF Settled
    <3>3. \A c \in Settled : EpochOf[c.slot] <= e
      BY <1>2, <3>1, <3>2, EpochMonotone, BlockSlot
    <3>4. BehindIn(row, Settled, e)
      BY <1>6, <3>1, <3>2, <3>3, RowsAreBehind
    <3> QED BY <1>2, <1>3, <1>6, <1>7, <3>2, <3>4, StopsInLastEpoch
  <2>4. CASE pc = "validate"
    BY <1>3, <1>7, <2>4 DEF StoppedInv
  <2> QED BY <1>1, <1>3, <2>1, <2>2, <2>3, <2>4 DEF HolderInv
<1>8. StoppedInv'
  BY <1>1, <1>7 DEF StoppedInv
<1>9. TrackerType'
  <2>1. 0 \in Epoch
    BY EpochAssumption DEF Epoch
  <2> QED BY <1>1, <1>3, <2>1, GenesisType, NoWorkType DEF TrackerType
<1>10. HolderInv' /\ AgainInv'
  <2>1. HolderInv'
    BY <1>1, <1>3 DEF HolderInv, InEpoch
  <2> QED BY <1>1, <2>1, EmptySequence DEF AgainInv, Ahead
<1> QED BY <1>1, <1>8, <1>9, <1>10 DEF TrackInv, RestInv, ProcessInv, BatchInv, RepairInv

(* A restart that is not late is in the epoch of the last stored block.    *)
LEMMA TrackRestart ==
  ASSUME KeepsRows, SyncInv, TrackInv, disturbed = {}, disturbed' = {}, RestartSync
  PROVE  TrackInv'
<1>1. PICK w \in Epoch : w >= clock /\ clock' = w /\ NewNonceTracker(row, w)
  BY DEF RestartSync, Restart
<1>2. /\ pc = "down" /\ pc' = "validate" /\ phase' = "sync"
      /\ UNCHANGED <<blocks, row, work, chain, cursor, unrewound, session, channel, writer, batch,
                     todo>>
      /\ ~(blocks # {} /\ currentEpoch' > EpochAt(LastSlot(blocks)))
  BY DEF RestartSync, Restart, db, pipe
<1>3. /\ PipeType /\ PlacesInv /\ blocks \in SUBSET Block /\ IsFiniteSet(blocks)
      /\ blocks \subseteq chain
  BY Calm
<1>4. TrackerType /\ HolderInv /\ StoppedInv
  BY DEF TrackInv
<1>5. /\ session = "start" /\ In(todo) = {} /\ In(batch) = {} /\ In(channel) = {}
      /\ writer = "collect"
  BY <1>2, <1>3, <1>4, PipeEmpty DEF HolderInv
<1>6. /\ currentEpoch' = w
      /\ LET prev == IF w - 1 \in Epoch THEN row[w - 1] ELSE NoRow
         IN  IF row[w].count > 0
             THEN etaV' = row[w].evolving /\ blockCount' = row[w].count
             ELSE /\ etaV' = IF prev.evolving # NoNonce THEN prev.evolving ELSE GenesisNonce
                  /\ blockCount' = 0
  BY <1>1, RowsAreKept, ReadOf DEF NewNonceTracker
<1>7. row[w].count \in Nat
  <2>1. row[w] \in StoredRow
    BY <1>4 DEF TrackerType
  <2> QED BY <2>1 DEF StoredRow, Row
<1>8. blockCount' = row[w].count
  BY <1>6, <1>7
<1>9. blocks = {} => etaV' = GenesisNonce
  <2> SUFFICES ASSUME blocks = {} PROVE etaV' = GenesisNonce
    OBVIOUS
  <2>1. row = [f \in Epoch |-> NoRow]
    BY <1>4 DEF HolderInv
  <2>2. row[w].count = 0 /\ \A f \in Epoch : row[f].evolving = NoNonce
    BY <2>1 DEF NoRow
  <2> QED BY <1>6, <2>2 DEF NoRow
<1>10. ASSUME blocks # {} PROVE LastEpoch(blocks, w) /\ BehindIn(row, blocks, w)
  <2>1. PICK f \in Epoch : LastEpoch(blocks, f) /\ BehindIn(row, blocks, f)
    BY <1>2, <1>4, <1>10 DEF StoppedInv
  <2>2. f = EpochAt(LastSlot(blocks))
    BY <1>3, <1>10, <2>1, LastOf, OneLastEpoch
  <2>3. f <= clock
    BY <1>3, <1>4, <2>1 DEF LastEpoch, HolderInv
  <2>4. w = f
    BY <1>1, <1>2, <1>4, <1>6, <1>10, <2>2, <2>3, EpochIsInt DEF TrackerType
  <2> QED BY <2>1, <2>4
<1>11. ASSUME blocks # {}, row[w].count = Cardinality(BlocksOf(w)) PROVE etaV' = ChainNonce(blocks)
  <2>1. InEpoch(blocks, w) # {} /\ Through(blocks, w) = blocks
    <3>1. InEpoch(blocks, w) # {}
      BY <1>10, <1>11 DEF LastEpoch, InEpoch
    <3> QED BY <1>3, <1>10, <1>11, <3>1, OneLastEpoch
  <2>2. row[w].count > 0
    BY <1>3, <1>7, <1>11, <2>1, CardinalityIn DEF BlocksOf
  <2>3. row[w].evolving = ChainNonce(blocks)
    BY <1>10, <1>11, <2>1 DEF BehindIn, Behind, BlocksOf
  <2> QED BY <1>6, <2>2, <2>3
<1>12. StoppedInv'
  <2>1. BlocksOf(currentEpoch)' = BlocksOf(w)
    BY <1>2, <1>6 DEF BlocksOf
  <2> QED BY <1>2, <1>6, <1>8, <1>9, <1>10, <1>11, <2>1 DEF StoppedInv, LastEpoch
<1>13. TrackerType'
  BY <1>1, <1>2, <1>4, NewTrackerType DEF TrackerType
<1>14. HolderInv'
  <2>1. \A b \in chain : EpochOf[b.slot] <= w
    <3>1. \A b \in chain : EpochOf[b.slot] \in Epoch /\ EpochOf[b.slot] <= clock
      BY <1>3, <1>4, BlockSlot DEF HolderInv, PipeType
    <3> QED BY <1>1, <1>4, <3>1, EpochIsInt DEF TrackerType
  <2> QED BY <1>1, <1>2, <1>4, <2>1 DEF HolderInv, InEpoch
<1>15. AgainInv'
  BY <1>2, <1>5 DEF AgainInv, Ahead
<1> QED BY <1>2, <1>5, <1>12, <1>13, <1>14, <1>15
        DEF TrackInv, RestInv, ProcessInv, BatchInv, RepairInv

(* The start-up check: a row that lags is computed again, and a tracker    *)
(* started from one that does not has the nonce of the stored chain.       *)
LEMMA TrackValidate ==
  ASSUME KeepsRows, SyncInv, TrackInv, disturbed = {}, ValidateDBIntegrity,
         UNCHANGED <<syncer, pipe>>
  PROVE  TrackInv'
<1> DEFINE L == EpochAt(LastSlot(blocks))
<1>1. /\ pc = "validate"
      /\ UNCHANGED <<clock, unrewound, session, channel, writer, batch, todo>>
  BY DEF ValidateDBIntegrity, syncer, pipe
<1>2. /\ PipeType /\ PlacesInv /\ StoredInv /\ blocks \in SUBSET Block /\ IsFiniteSet(blocks)
      /\ blocks \subseteq chain
  BY Calm
<1>3. TrackerType /\ HolderInv /\ StoppedInv
  BY DEF TrackInv
<1>4. /\ session = "start" /\ In(todo) = {} /\ In(batch) = {} /\ In(channel) = {}
      /\ writer = "collect"
  BY <1>1, <1>2, <1>3, PipeEmpty DEF HolderInv
<1>5. /\ blockCount = row[currentEpoch].count /\ (blocks = {} => etaV = GenesisNonce)
      /\ currentEpoch \in Epoch
  BY <1>1, <1>3 DEF StoppedInv, TrackerType
<1>6. CASE blocks = {}
  <2>1. /\ cursor' = 0 /\ pc' = "idle" /\ work' = NoWork
        /\ UNCHANGED <<blocks, row, etaV, currentEpoch, blockCount, candidateFroze, chain, phase>>
    <3>1. ~(LastBlocks(Lookback) \cap chain # {})
      BY <1>6 DEF LastBlocks
    <3> QED BY <1>6, <3>1 DEF ValidateDBIntegrity, Finish, db, tracker
  <2>2. TrackerType' /\ HolderInv' /\ AgainInv'
    <3>1. TrackerType'
      BY <1>1, <1>3, <2>1, NoWorkType DEF TrackerType
    <3>2. HolderInv'
      BY <1>1, <1>3, <2>1 DEF HolderInv, InEpoch
    <3> QED BY <1>6, <2>1, <3>1, <3>2 DEF AgainInv
  <2>3. RestInv'
    <3>1. Evolved' = {}
      BY <1>6, <2>1 DEF Evolved
    <3>2. row = [f \in Epoch |-> NoRow]
      BY <1>3, <1>6 DEF HolderInv
    <3>3. RowsOf(row, {}, Epoch)
      <4>1. \A f \in Epoch : row[f].count = 0 /\ InEpoch({}, f) = {}
        BY <3>2 DEF NoRow, InEpoch
      <4> QED BY <4>1, FS_EmptySet DEF RowsOf
    <3>4. etaV' = ChainNonce({})
      BY <1>5, <1>6, <2>1, ChainNonceEmpty
    <3> QED BY <1>5, <2>1, <3>1, <3>3, <3>4 DEF RestInv
  <2> QED BY <1>1, <1>4, <2>1, <2>2, <2>3
          DEF TrackInv, ProcessInv, BatchInv, StoppedInv, RepairInv
<1>7. CASE blocks # {}
  <2>1. LastBlocks(Lookback) \cap chain # {}
    BY <1>2, <1>7, LastIsKnown
  <2>2. /\ \E G \in SUBSET GapEpochs :
              row' = [e \in Epoch |-> IF e \in G THEN [row[e] EXCEPT !.candidate = NoNonce]
                                      ELSE row[e]]
        /\ cursor' = ResumeSlot /\ phase' \in {"sync", "noIntersection"}
        /\ IF NonceStale THEN RecomputeCurrentEpochNonce(L) ELSE Finish
        /\ UNCHANGED <<blocks, etaV, currentEpoch, blockCount, candidateFroze, chain>>
    BY <1>7, <2>1, RowsAreKept DEF ValidateDBIntegrity, tracker, Resume
  <2>3. row' \in [Epoch -> StoredRow] /\ \A e \in Epoch : /\ row'[e].count = row[e].count
                                                         /\ row'[e].evolving = row[e].evolving
    <3>1. \A e \in Epoch : row[e] \in Row /\ row[e] \in StoredRow
      BY <1>3 DEF TrackerType, StoredRow
    <3>2. \A e \in Epoch : [row[e] EXCEPT !.candidate = NoNonce] \in StoredRow
      BY <3>1 DEF Row, StoredRow
    <3> QED BY <2>2, <3>1, <3>2 DEF Row
  <2>4. L \in Epoch /\ LastEpoch(blocks, L)
    BY <1>2, <1>7, LastOf
  <2>5. currentEpoch = L /\ Through(blocks, L) = blocks
    <3>1. LastEpoch(blocks, currentEpoch)
      BY <1>1, <1>3, <1>7 DEF StoppedInv
    <3> HIDE DEF L
    <3> QED BY <1>2, <1>5, <2>4, <3>1, OneLastEpoch
  <2>6. BehindIn(row', blocks, L) /\ BehindIn(row, blocks, L)
    <3>1. PICK f \in Epoch : LastEpoch(blocks, f) /\ BehindIn(row, blocks, f)
      BY <1>1, <1>3, <1>7 DEF StoppedInv
    <3> HIDE DEF L
    <3>2. f = L
      BY <1>2, <2>4, <3>1, OneLastEpoch
    <3> QED BY <1>2, <2>3, <3>1, <3>2, BehindKept
  <2>7. InEpoch(blocks, L) # {} /\ BlocksOf(L) = InEpoch(blocks, L)
    BY <2>4 DEF LastEpoch, InEpoch, BlocksOf
  <2>8. cursor' \in Slot \cup {0} /\ \E b \in blocks : b.slot = ResumeSlot
    BY <1>2, <1>7, <2>2, ResumeSlotOf
  <2>9. AgainInv'
    BY <1>1, <1>4 DEF AgainInv, Ahead
  <2>10. CASE ~NonceStale
    <3>1. pc' = "idle" /\ work' = NoWork
      BY <2>2, <2>10 DEF Finish
    <3>2. row[L].count = Cardinality(BlocksOf(L))
      BY <2>10 DEF NonceStale
    <3>3. RowsOf(row', blocks, Epoch)
      <4> HIDE DEF L
      <4> QED BY <2>3, <2>4, <2>6, <2>7, <3>2, BehindExact
    <3>4. etaV' = ChainNonce(blocks)
      BY <1>1, <1>3, <1>7, <2>2, <2>5, <3>2 DEF StoppedInv
    <3>5. blockCount' = row'[currentEpoch'].count
      BY <1>5, <2>2, <2>3
    <3>6. RestInv'
      <4>1. Evolved' = blocks
        BY <1>1, <1>4, <2>2 DEF Evolved
      <4> QED BY <2>2, <2>4, <2>5, <3>3, <3>4, <3>5, <4>1 DEF RestInv, LastEpoch
    <3>7. TrackerType'
      BY <1>1, <1>3, <2>2, <2>3, <2>8, <3>1, NoWorkType DEF TrackerType
    <3>8. HolderInv'
      BY <1>1, <1>3, <1>7, <2>2, <3>1 DEF HolderInv, InEpoch
    <3> QED BY <1>1, <1>4, <2>9, <3>1, <3>6, <3>7, <3>8
            DEF TrackInv, ProcessInv, BatchInv, StoppedInv, RepairInv
  <2>11. CASE NonceStale
    <3>1. pc' = "restore" /\ work' = [NoWork EXCEPT !.epoch = L, !.through = L]
      BY <2>2, <2>11 DEF RecomputeCurrentEpochNonce
    <3>2. /\ work' \in [block : Block \cup {NoBlock}, epoch : Epoch, through : Epoch,
                        eta : Nonce, candidate : Nonce \cup {NoNonce}]
          /\ work'.epoch = L /\ work'.through = L
      BY <2>4, <3>1, NoWorkType DEF NoWork
    <3>3. TrackerType'
      BY <1>1, <1>3, <2>2, <2>3, <2>8, <3>1, <3>2 DEF TrackerType
    <3>4. HolderInv'
      BY <1>1, <1>3, <1>4, <1>7, <2>2, <3>1 DEF HolderInv, InEpoch
    <3>5. RepairInv'
      <4>1. EpochAt(cursor') <= L
        <5>1. PICK b \in blocks : b.slot = ResumeSlot
          BY <2>8
        <5> QED BY <1>2, <2>2, <2>4, <5>1, BlockSlot DEF EpochAt, LastEpoch
      <4>2. EpochAt(cursor)' = EpochAt(cursor')
        BY DEF EpochAt
      <4>3. \A f \in Epoch : f < L => InEpoch(blocks, f) # {}
        <5> SUFFICES ASSUME NEW f \in Epoch, f < L PROVE InEpoch(blocks, f) # {}
          OBVIOUS
        <5>1. PICK b \in blocks : EpochOf[b.slot] = L
          BY <2>4 DEF LastEpoch
        <5>2. InEpoch(chain, f) # {}
          BY <1>2, <1>3, <5>1 DEF HolderInv
        <5>3. PICK c \in chain : EpochOf[c.slot] = f
          BY <5>2 DEF InEpoch
        <5>4. c.slot <= b.slot
          BY <1>2, <5>1, <5>3, EpochMonotone, BlockSlot DEF PipeType
        <5>5. c \in blocks
          BY <1>2, <5>4 DEF StoredInv
        <5> QED BY <5>3, <5>5 DEF InEpoch
      <4>4. RowsOf(row', blocks, {f \in Epoch : f < L \/ f > L})
        <5>1. {f \in Epoch : f < L \/ f > L} \subseteq Epoch \ {L}
          BY <2>4, EpochIsInt
        <5> QED BY <2>6, <5>1 DEF BehindIn, RowsOf
      <4>5. Lo' = L
        BY <3>1, <3>2 DEF Lo
      <4>6. \A b \in blocks : EpochOf[b.slot] <= L
        BY <2>4 DEF LastEpoch
      <4>7. RewindInv'
        <5> HIDE DEF L
        <5> QED BY <2>2, <3>1, <3>2, <4>1, <4>2, <4>3, <4>4, <4>5, <4>6 DEF RewindInv, BlocksOf
      <4>8. LastEpoch(blocks, work.epoch)'
        BY <2>2, <2>4, <3>2 DEF LastEpoch
      <4> QED BY <3>2, <4>7, <4>8 DEF RepairInv
    <3> QED BY <1>1, <1>4, <2>9, <3>1, <3>3, <3>4, <3>5
            DEF TrackInv, ProcessInv, RestInv, BatchInv, StoppedInv
  <2> QED BY <2>10, <2>11
<1> QED BY <1>6, <1>7

LEMMA TrackRestoreEvolving ==
  ASSUME KeepsRows, SyncInv, TrackInv, RestoreEvolving, UNCHANGED <<syncer, pipe>>
  PROVE  TrackInv'
<1>1. /\ pc = "restore" /\ UNCHANGED <<etaV, currentEpoch, blockCount, candidateFroze>>
      /\ UNCHANGED <<blocks, chain, clock, phase, unrewound, cursor, session, channel, writer,
                     batch, todo>>
      /\ \E x, y : work' = [work EXCEPT !.eta = x, !.candidate = y]
  BY RowsAreKept DEF RestoreEvolving, tracker, stream, syncer, pipe
<1>2. TrackerType /\ HolderInv /\ AgainInv /\ RepairInv /\ PipeType /\ PlacesInv /\ TypeInv
  BY <1>1, TrackType DEF TrackInv, SyncInv
<1>3. RewindInv /\ work.through = work.epoch /\ LastEpoch(blocks, work.epoch)
  BY <1>1, <1>2 DEF RepairInv
<1>4. RewindInv' /\ pc' = "candidate" /\ TypeInv'
  BY <1>2, <1>3, RowsAreKept, RestoresEvolving, TypeRestoreEvolving
<1>5. work'.through = work.through /\ work'.epoch = work.epoch
  BY <1>1, <1>2 DEF TrackerType
<1>6. RepairInv'
  BY <1>1, <1>3, <1>4, <1>5 DEF RepairInv, LastEpoch
<1>7. TrackerType'
  BY <1>1, <1>2, <1>4 DEF TrackerType, TypeInv, TypeOK
<1>8. blocks # {}
  BY <1>3 DEF LastEpoch
<1>9. HolderInv' /\ AgainInv'
  BY <1>1, <1>2, <1>4, <1>8 DEF HolderInv, AgainInv, Ahead, InEpoch
<1>10. writer' # "batch"
  BY <1>1, <1>2, PipeEmpty DEF HolderInv
<1> QED BY <1>4, <1>6, <1>7, <1>9, <1>10 DEF TrackInv, RestInv, ProcessInv, BatchInv, StoppedInv

LEMMA TrackRestoreCandidate ==
  ASSUME KeepsRows, SyncInv, TrackInv, RestoreCandidate, UNCHANGED <<syncer, pipe>>
  PROVE  TrackInv'
<1>1. /\ pc = "candidate"
      /\ UNCHANGED <<blocks, chain, clock, phase, unrewound, cursor, session, channel, writer,
                     batch, todo>>
      /\ IF work.epoch < work.through
         THEN pc' = "resetEvolving" /\ work' = [work EXCEPT !.epoch = work.epoch + 1]
         ELSE Finish
  BY RowsAreKept DEF RestoreCandidate, stream, syncer, pipe
<1>2. TrackerType /\ HolderInv /\ AgainInv /\ RepairInv /\ PipeType /\ PlacesInv /\ TypeInv
  BY <1>1, TrackType DEF TrackInv, SyncInv
<1>3. /\ RewindInv /\ work.through = work.epoch
      /\ LastEpoch(blocks, work.epoch) /\ work.epoch \in Epoch
  BY <1>1, <1>2 DEF RepairInv, TrackerType
<1>4. pc' = "idle" /\ work' = NoWork
  BY <1>1, <1>3, EpochIsInt DEF Finish
<1>5. /\ etaV' = ChainNonce(blocks) /\ currentEpoch' = work.epoch /\ IdleInv' /\ TypeInv'
  BY <1>2, <1>3, <1>4, RowsAreKept, RestoresTracker, TypeRestoreCandidate
<1>6. writer' = "collect" /\ Evolved' = blocks'
  BY <1>1, <1>2, PipeEmpty DEF HolderInv, Evolved
<1>7. RestInv'
  <2>1. LastEpoch(blocks, currentEpoch)'
    BY <1>1, <1>3, <1>5 DEF LastEpoch
  <2> QED BY <1>4, <1>5, <1>6, <2>1 DEF RestInv, IdleInv, Idle, LastEpoch
<1>8. TrackerType'
  BY <1>1, <1>2, <1>4, <1>5, NoWorkType DEF TrackerType, TypeInv, TypeOK
<1>9. blocks # {}
  BY <1>3 DEF LastEpoch
<1>10. HolderInv' /\ AgainInv'
  BY <1>1, <1>2, <1>4, <1>9 DEF HolderInv, AgainInv, Ahead, InEpoch
<1> QED BY <1>4, <1>6, <1>7, <1>8, <1>10
        DEF TrackInv, ProcessInv, BatchInv, StoppedInv, RepairInv

----------------------------------------------------------------------------
(* Every step.                                                             *)

(* Disturbed forever.                                                      *)
LEMMA StaysDisturbed ==
  ASSUME [SyncNext]_syncVars, disturbed' = {}
  PROVE  disturbed = {}
<1>1. disturbed' = disturbed => disturbed = {}
  OBVIOUS
<1>2. CASE UNCHANGED syncVars
  BY <1>1, <1>2 DEF syncVars, syncer
<1>3. CASE Connect
  BY <1>3 DEF Connect
<1>4. CASE \E b \in Block : HandleRollForward(b)
  BY <1>1, <1>4 DEF HandleRollForward
<1>5. CASE RollForwardReturns \/ ContextDone \/ Drain \/ CloseChannel \/ SyncDone
  BY <1>1, <1>5 DEF RollForwardReturns, ContextDone, Drain, CloseChannel, SyncDone
<1>6. CASE ResyncFromDB
  BY <1>1, <1>6 DEF ResyncFromDB
<1>7. CASE Receive \/ ChannelClosed \/ FlushBlockBatch \/ ProcessBlock \/ EachDone \/ Tick
  BY <1>1, <1>7 DEF Receive, ChannelClosed, FlushBlockBatch, ProcessBlock, EachDone, Tick, syncer
<1>8. CASE ProcessBatch \/ BatchEntersEpoch \/ BatchEvolves \/ BatchPersists
  BY <1>1, <1>8 DEF ProcessBatch, BatchEntersEpoch, BatchEvolves, BatchPersists, syncer
<1>9. CASE (FreezeCandidate \/ EvolveNonce) /\ UNCHANGED <<syncer, pipe>>
  BY <1>1, <1>9 DEF syncer
<1>10. CASE ConnectionFails
  BY <1>1, <1>10 DEF ConnectionFails
<1>11. CASE \E p \in Slot : HandleRollBackward(p)
  BY <1>11 DEF HandleRollBackward
<1>12. CASE Stop
  BY <1>12 DEF Stop
<1>13. CASE RestartSync
  BY <1>13 DEF RestartSync
<1>14. CASE StartUp
  BY <1>1, <1>14 DEF StartUp, syncer
<1>15. CASE \E e \in FinalEpochs : CacheFinalNonce(e) /\ UNCHANGED <<syncer, pipe>>
  BY <1>1, <1>15 DEF syncer
<1> QED BY <1>2, <1>3, <1>4, <1>5, <1>6, <1>7, <1>8, <1>9, <1>10, <1>11, <1>12, <1>13, <1>14,
           <1>15 DEF SyncNext, SyncerStep, WriterStep

LEMMA TrackStep ==
  ASSUME KeepsRows, SyncInv, TrackInv, disturbed = {}, disturbed' = {}, [SyncNext]_syncVars
  PROVE  TrackInv'
<1>1. CASE \/ UNCHANGED syncVars
           \/ RollForwardReturns \/ ContextDone \/ Drain \/ CloseChannel \/ SyncDone
           \/ ChannelClosed \/ EachDone \/ Tick \/ ConnectionFails
  BY <1>1, TrackRests
<1>2. CASE Connect
  BY <1>2, TrackConnect
<1>3. CASE \E b \in Block : HandleRollForward(b)
  BY <1>3, TrackHandleRollForward
<1>4. CASE ResyncFromDB
  BY <1>4, TrackResyncFromDB
<1>5. CASE Receive
  BY <1>5, TrackReceive
<1>6. CASE FlushBlockBatch
  BY <1>6, TrackFlush
<1>7. CASE ProcessBlock
  BY <1>7, TrackProcessBlock
<1>8. CASE (FreezeCandidate \/ EvolveNonce) /\ UNCHANGED <<syncer, pipe>>
  BY <1>8, TrackFreezeCandidate, TrackEvolveNonce
<1>9. CASE ProcessBatch
  BY <1>9, TrackProcessBatch
<1>10. CASE BatchEntersEpoch
  BY <1>10, TrackBatchEntersEpoch
<1>11. CASE BatchEvolves
  BY <1>11, TrackBatchEvolves
<1>12. CASE BatchPersists
  BY <1>12, TrackBatchPersists
<1>13. CASE \E p \in Slot : HandleRollBackward(p)
  BY <1>13 DEF HandleRollBackward
<1>14. CASE Stop
  BY <1>14, TrackStop
<1>15. CASE RestartSync
  BY <1>15, TrackRestart
<1>16. CASE StartUp
  BY <1>16, TrackValidate, TrackRestoreEvolving, TrackRestoreCandidate DEF StartUp
<1>17. CASE \E e \in FinalEpochs : CacheFinalNonce(e) /\ UNCHANGED <<syncer, pipe>>
  BY <1>17, TrackCacheFinalNonce
<1> QED BY <1>1, <1>2, <1>3, <1>4, <1>5, <1>6, <1>7, <1>8, <1>9, <1>10, <1>11, <1>12, <1>13,
           <1>14, <1>15, <1>16, <1>17 DEF SyncNext, SyncerStep, WriterStep

(* As long as only candidates are lost, batch inserts fail and the process *)
(* stops anywhere but in a rewind, and none of Disturbances has happened:  *)
(* the nonce in memory is that of the blocks the writer has hashed, every  *)
(* row counts and hashes the blocks of its epoch but that of the last      *)
(* epoch, which a batch or a stop leaves behind, and what is delivered     *)
(* again is of the last stored epoch only (ProcessBlock, ProcessBatch,     *)
(* ResyncFromDB and ValidateDBIntegrity rely on each of these).            *)
THEOREM StoreInvariant ==
  ASSUME KeepsRows
  PROVE  SyncSpec => []StoreInv
<1>1. SyncInit => StoreInv
  BY SyncTypeInit, GapInit, TrackInit DEF SyncInv, StoreInv
<1>2. StoreInv /\ [SyncNext]_syncVars => StoreInv'
  <2> SUFFICES ASSUME StoreInv, [SyncNext]_syncVars
               PROVE  SyncInv' /\ (disturbed' = {} => TrackInv')
    BY DEF StoreInv
  <2>1. SyncInv'
    BY RowsAreKept, SyncTypeStep, GapStep DEF StoreInv, SyncInv
  <2>2. ASSUME disturbed' = {} PROVE TrackInv'
    BY <2>2, StaysDisturbed, TrackStep DEF StoreInv
  <2> QED BY <2>1, <2>2
<1> QED BY <1>1, <1>2, PTL DEF SyncSpec

(* Under the same assumptions, between two flushes the tracker and every   *)
(* row agree with the blocks table, whatever blocks the dead connections,  *)
(* the channel and the overlap delivered twice (flushBlockBatch's suffix,  *)
(* ResyncFromDB, the start-up check).                                      *)
THEOREM SyncFollowsStoreAlways ==
  ASSUME KeepsRows
  PROVE  SyncSpec => []SyncFollowsStore
<1>1. StoreInv => SyncFollowsStore
  <2> SUFFICES ASSUME StoreInv, Quiet, disturbed = {}
               PROVE  FollowsStore
    BY DEF SyncFollowsStore
  <2>1. blocks \in SUBSET Block
    BY Calm DEF StoreInv
  <2>2. Evolved = blocks
    BY DEF Quiet, Evolved
  <2>3. /\ etaV = ChainNonce(blocks) /\ RowsOf(row, blocks, Epoch)
        /\ blocks # {} => LastEpoch(blocks, currentEpoch)
    BY <2>2 DEF StoreInv, TrackInv, RestInv, Quiet, Idle
  <2>4. ASSUME Current PROVE etaV = ChainNonce(UpTo(currentEpoch))
    <3>1. blocks # {}
      BY <2>4 DEF Current
    <3>2. UpTo(currentEpoch) = blocks
      BY <2>3, <3>1 DEF LastEpoch, UpTo, Through
    <3> QED BY <2>3, <3>2
  <2>5. ASSUME NEW e \in Epoch, BlocksOf(e) # {}
        PROVE  /\ row[e].evolving = ChainNonce(UpTo(e))
               /\ row[e].count = Cardinality(BlocksOf(e))
    BY <2>3, <2>5 DEF RowsOf, BlocksOf, UpTo
  <2> QED BY <2>4, <2>5 DEF FollowsStore
<1> QED BY <1>1, StoreInvariant, PTL

=============================================================================
