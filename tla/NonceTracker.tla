---------------------------- MODULE NonceTracker ----------------------------
(***************************************************************************)
(* NonceTracker (nonce.go) on top of its Store (store.go, db.go): how the  *)
(* evolving nonce eta_v and the candidate nonce eta_c of an epoch follow   *)
(* the blocks table through new blocks, duplicates, rollbacks, failing     *)
(* store calls, crashes and the start-up integrity check.                  *)
(*                                                                         *)
(* ProcessBlock and RewindToSlot hold nt.mu, but the store calls they make *)
(* commit one by one, so each is a step of its own here: the process may   *)
(* stop, and a goroutine that computes a final nonce without holding nt.mu *)
(* may write the same row, between any two of them.                        *)
(***************************************************************************)
EXTENDS EvolvingNonce, FiniteSets

CONSTANTS
  MaxEpoch,   \* epochs are 0..MaxEpoch, 0 is the first Shelley epoch
  EpochOf,    \* SlotToEpoch on Slot
  Stable,     \* the slots at or past the stability window of their epoch
  Overlap,    \* blocks re-delivered after a restart (100 in the code)
  Lookback,   \* blocks offered to FindIntersect (50 in the code)
  FinalEpochs,\* the epochs whose final nonce may be asked for
  MaxCount,   \* bound on the blocks hashed into a nonce (more than there are
              \* slots only after rewinds failed again and again)
  Faults,     \* the faults that may happen, see FaultKinds
  NoNonce,    \* SQL NULL, or no row
  NoBlock

Epoch == 0..MaxEpoch

FaultKinds ==
  { "insert",           \* InsertBlock fails
    "freeze",           \* SetCandidateNonce of ProcessBlock fails
    "upsert",           \* UpsertEvolvingNonce of ProcessBlock fails
    "read",             \* GetEvolvingNonce fails: its callers then see no row
    "delete",           \* DeleteBlocksAfterSlot of a rollback fails
    "rewind",           \* a store call of restoreEpochFromDB/RewindToSlot fails
    "crash",            \* the process stops outside of a rewind
    "crashInRewind",    \* the process stops during a rewind
    "node",             \* the node is unreachable during the integrity check
    "earlyFinal" }      \* a final nonce is cached before any block is stored

ASSUME EpochAssumption ==
  /\ MaxEpoch \in Nat
  /\ EpochOf \in [Slot -> Epoch]
  /\ \A s, t \in Slot : s <= t => EpochOf[s] <= EpochOf[t]

ASSUME StableAssumption == Stable \subseteq Slot

ASSUME AbsentAssumption == NoNonce \notin Nonce /\ NoBlock \notin Block

ASSUME BoundAssumption ==
  /\ Overlap \in Nat \ {0, 1}
  /\ Lookback \in Nat \ {0}
  /\ FinalEpochs \subseteq Epoch
  /\ MaxCount \in Nat
  /\ Faults \subseteq FaultKinds

VARIABLES
  \* the database
  blocks,         \* the blocks table, primary key slot
  row,            \* the epoch_nonces table
  \* NonceTracker
  etaV, currentEpoch, blockCount, candidateFroze,
  \* the handler that holds nt.mu, or the start-up sequence
  pc, work,
  \* the chain-sync stream
  phase,          \* historical sync or live tail
  chain,          \* the node's chain as announced so far
  cursor,         \* the slot of the last event
  clock,          \* the epoch of the wall clock
  unrewound       \* history: the epochs a rollback has returned to from a
                  \* later one without deleting a block

db      == <<blocks, row>>
tracker == <<etaV, currentEpoch, blockCount, candidateFroze>>
stream  == <<phase, chain, cursor, clock, unrewound>>
vars    == <<db, tracker, pc, work, stream>>

----------------------------------------------------------------------------
(* Slots and epochs.                                                       *)

EpochAt(s) == IF s = 0 THEN 0 ELSE EpochOf[s]

InEpoch(S, e) == {b \in S : EpochOf[b.slot] = e}

Through(S, e) == {b \in S : EpochOf[b.slot] <= e}

BlocksOf(e) == InEpoch(blocks, e)

(* The stored blocks of epoch e and of every epoch before it.              *)
UpTo(e) == Through(blocks, e)

IsLast(b, T) == \A c \in T : c.slot <= b.slot

(* GetLastSyncedSlot: 0 when the table is empty.                           *)
LastSlot(T) == IF T = {} THEN 0 ELSE (CHOOSE b \in T : IsLast(b, T)).slot

(* GetLastNBlocks.                                                         *)
LastBlocks(n) ==
  {b \in blocks : Cardinality({c \in blocks : c.slot > b.slot}) < n}

(* The oldest of the last Overlap blocks: where a stream resumes.          *)
ResumeSlot ==
  IF blocks = {} THEN 0
  ELSE (CHOOSE b \in LastBlocks(Overlap) :
          \A c \in LastBlocks(Overlap) : b.slot <= c.slot).slot

(* The node finds the point a stream resumes from on its chain.            *)
Intersects == \E b \in blocks \cap chain : b.slot = ResumeSlot

----------------------------------------------------------------------------
(* The statements on epoch_nonces.  evolving_nonce is NOT NULL, so a row   *)
(* exists exactly when it is set.                                          *)

Row == [evolving : Nonce \cup {NoNonce}, count : Nat,
        candidate : Nonce \cup {NoNonce}, final : Nonce \cup {NoNonce}]

NoRow == [evolving |-> NoNonce, count |-> 0, candidate |-> NoNonce, final |-> NoNonce]

HasRow(e) == row[e].evolving # NoNonce

OrCreate(r, e, n) == IF r[e].evolving = NoNonce THEN n ELSE r[e].evolving

UpsertEvolvingNonce(r, e, n, c) ==
  [r EXCEPT ![e].evolving = n, ![e].count = c]

SetCandidateNonce(r, e, n) ==
  [r EXCEPT ![e].candidate = n, ![e].evolving = OrCreate(r, e, n)]

DeleteCandidateNonce(r, e) == [r EXCEPT ![e].candidate = NoNonce]

SetFinalNonce(r, e, n) ==
  [r EXCEPT ![e].final = n, ![e].evolving = OrCreate(r, e, n)]

----------------------------------------------------------------------------
NoWork == [block |-> NoBlock, epoch |-> 0, through |-> 0,
           eta |-> GenesisNonce, candidate |-> NoNonce]

Idle == pc = "idle"

Finish == pc' = "idle" /\ work' = NoWork

Fails(f) == f \in Faults

(* GetEvolvingNonce as every caller but one uses it: an error is no row.   *)
GetEvolvingNonce(r, e) ==
  (IF e \in Epoch THEN {r[e]} ELSE {NoRow}) \cup (IF Fails("read") THEN {NoRow} ELSE {})

(* NewNonceTracker for the epoch w of the wall clock.                      *)
NewNonceTracker(r, w) ==
  /\ \E own \in GetEvolvingNonce(r, w), prev \in GetEvolvingNonce(r, w - 1) :
       IF own.count > 0
       THEN etaV' = own.evolving /\ blockCount' = own.count
       ELSE /\ etaV' = IF prev.evolving # NoNonce THEN prev.evolving ELSE GenesisNonce
            /\ blockCount' = 0
  /\ currentEpoch' = w
  /\ candidateFroze' = FALSE

Init ==
  /\ blocks = {}
  /\ row = [e \in Epoch |-> NoRow]
  /\ etaV = GenesisNonce
  /\ clock \in Epoch
  /\ currentEpoch = clock
  /\ blockCount = 0
  /\ candidateFroze = FALSE
  /\ pc = "idle"
  /\ work = NoWork
  /\ phase = "sync"
  /\ chain = {}
  /\ cursor = 0
  /\ unrewound = {}

----------------------------------------------------------------------------
(* ProcessBlock, first part: the epoch transition, then InsertBlock.       *)

EnterEpochAnyRow(e) ==   \* restores a placeholder row too
  IF e = currentEpoch
  THEN UNCHANGED tracker
  ELSE /\ currentEpoch' = e
       /\ candidateFroze' = FALSE
       /\ \E found \in GetEvolvingNonce(row, e) :
            /\ etaV' = IF found.evolving # NoNonce THEN found.evolving ELSE etaV
            /\ blockCount' = found.count

EnterEpoch(e) ==
  IF e = currentEpoch
  THEN UNCHANGED tracker
  ELSE /\ currentEpoch' = e
       /\ candidateFroze' = FALSE
       /\ \E found \in GetEvolvingNonce(row, e) :
            /\ etaV' = IF found.count > 0 THEN found.evolving ELSE etaV
            /\ blockCount' = found.count

(* An epoch of the chain has thousands of blocks: the database holds at    *)
(* least two blocks of an epoch before the next epoch begins.              *)
EpochMayBegin(e) == e = 0 \/ Cardinality(BlocksOf(e - 1)) >= 2

(* The next block of the chain: one the node has announced before, when    *)
(* the stream resumed behind its tip, or a new one.                        *)
NextBlock(b) ==
  /\ b.slot > cursor
  /\ phase # "noIntersection"
  /\ \A c \in chain : c.slot > cursor => c.slot >= b.slot
  /\ (\E c \in chain : c.slot > cursor) => b \in chain
  /\ EpochMayBegin(EpochOf[b.slot])

BlockArrivesAgain(b) ==   \* evolves whatever InsertBlock returned
  /\ Idle
  /\ NextBlock(b)
  /\ chain' = chain \cup {b}
  /\ cursor' = b.slot
  /\ clock' = IF EpochOf[b.slot] > clock THEN EpochOf[b.slot] ELSE clock
  /\ EnterEpoch(EpochOf[b.slot])
  /\ blocks' = IF \E c \in blocks : c.slot = b.slot THEN blocks ELSE blocks \cup {b}
  /\ pc' = "freeze"
  /\ work' = [NoWork EXCEPT !.block = b]
  /\ UNCHANGED <<row, phase, unrewound>>

BlockArrives(b) ==
  /\ Idle
  /\ NextBlock(b)
  /\ chain' = chain \cup {b}
  /\ cursor' = b.slot
  /\ clock' = IF EpochOf[b.slot] > clock THEN EpochOf[b.slot] ELSE clock
  /\ EnterEpoch(EpochOf[b.slot])
  /\ blockCount' < MaxCount /\ Cardinality(etaV'.links) < MaxCount
  /\ \/ /\ \A c \in blocks : c.slot # b.slot
        /\ blocks' = blocks \cup {b}
        /\ pc' = "freeze"
        /\ work' = [NoWork EXCEPT !.block = b]
     \/ /\ \E c \in blocks : c.slot = b.slot
        /\ UNCHANGED <<blocks, pc, work>>
     \/ /\ Fails("insert")
        /\ UNCHANGED <<blocks, pc, work>>
  /\ UNCHANGED <<row, phase, unrewound>>

FreezeEvolved ==   \* freezes after evolving
  /\ pc = "freeze"
  /\ IF ~candidateFroze /\ work.block.slot \in Stable
     THEN /\ candidateFroze' = TRUE
          /\ row' = SetCandidateNonce(row, currentEpoch, Evolve(etaV, work.block))
     ELSE UNCHANGED <<candidateFroze, row>>
  /\ pc' = "evolve"
  /\ UNCHANGED <<blocks, etaV, currentEpoch, blockCount, work, stream>>

(* ProcessBlock, second part: freeze the candidate before evolving.        *)
FreezeCandidate ==
  /\ pc = "freeze"
  /\ IF ~candidateFroze /\ work.block.slot \in Stable
     THEN /\ candidateFroze' = TRUE
          /\ \/ row' = SetCandidateNonce(row, currentEpoch, etaV)
             \/ Fails("freeze") /\ row' = row
     ELSE UNCHANGED <<candidateFroze, row>>
  /\ pc' = "evolve"
  /\ UNCHANGED <<blocks, etaV, currentEpoch, blockCount, work, stream>>

EvolveBeforeCounting ==   \* persists the count before this block
  /\ pc = "evolve"
  /\ etaV' = Evolve(etaV, work.block)
  /\ blockCount' = blockCount + 1
  /\ row' = UpsertEvolvingNonce(row, currentEpoch, etaV', blockCount)
  /\ Finish
  /\ UNCHANGED <<blocks, currentEpoch, candidateFroze, stream>>

(* ProcessBlock, last part: evolve and persist.                            *)
EvolveNonce ==
  /\ pc = "evolve"
  /\ etaV' = Evolve(etaV, work.block)
  /\ blockCount' = blockCount + 1
  /\ \/ row' = UpsertEvolvingNonce(row, currentEpoch, etaV', blockCount')
     \/ Fails("upsert") /\ row' = row
  /\ Finish
  /\ UNCHANGED <<blocks, currentEpoch, candidateFroze, stream>>

----------------------------------------------------------------------------
(* A rollback event: handleEvent deletes the blocks after slot p and, if   *)
(* it deleted any, rewinds the tracker.                                    *)

DeleteOnly(p) ==   \* deletes the blocks, leaves the tracker alone
  /\ chain' = Prefix(chain, p)
  /\ cursor' = p
  /\ blocks' = Prefix(blocks, p)
  /\ UNCHANGED <<pc, work, row, tracker, clock, unrewound>>

RollbackTo(p) ==
  /\ chain' = Prefix(chain, p)
  /\ cursor' = p
  /\ \/ /\ blocks' = Prefix(blocks, p)
        /\ IF blocks' = blocks
           THEN UNCHANGED <<pc, work>>
           ELSE /\ pc' = "restore"
                /\ work' = [NoWork EXCEPT !.epoch = EpochAt(p), !.through = currentEpoch]
     \/ /\ Fails("delete")
        /\ UNCHANGED <<blocks, pc, work>>
  /\ unrewound' = IF blocks' = blocks /\ EpochAt(p) < currentEpoch
                  THEN unrewound \cup {EpochAt(p)} ELSE unrewound
  /\ UNCHANGED <<row, tracker, clock>>

RollbackArrives(p) ==
  /\ Idle
  /\ phase = "live"
  /\ p < cursor
  /\ \E b \in chain : b.slot = p
  /\ RollbackTo(p)
  /\ UNCHANGED phase

(* Historical sync is done: the live tail restarts from the database and   *)
(* the node first rolls the stream back to the intersection.               *)
GoLive ==
  /\ Idle
  /\ phase = "sync"
  /\ blocks # {}
  /\ \A b \in blocks : b.slot <= cursor
  /\ Intersects
  /\ phase' = "live"
  /\ RollbackTo(ResumeSlot)

(* restoreEpochFromDB: rebuild eta_v and eta_c of work.epoch from the row  *)
(* of the epoch before it and the stored blocks, and persist eta_v.        *)
RewindFails ==
  /\ Fails("rewind")
  /\ Finish
  /\ UNCHANGED <<row, tracker>>

GenesisSeed(prev) == GenesisNonce   \* starts every epoch afresh

Seed(prev) == IF prev.evolving # NoNonce THEN prev.evolving ELSE GenesisNonce

FirstStable(T) == {b \in T : b.slot \in Stable /\ \A c \in T : c.slot \in Stable => b.slot <= c.slot}

(* eta_v just before the first block of T at or past the stability slot,   *)
(* when n is eta_v at the start of the epoch.                              *)
CandidateOf(n, T) ==
  IF FirstStable(T) = {} THEN NoNonce
  ELSE EvolveAll(n, Before(T, CHOOSE b \in FirstStable(T) : TRUE))

RestoreEvolving ==
  LET e == work.epoch
      T == BlocksOf(e)
  IN /\ pc = "restore"
     /\ \/ /\ \E prev \in GetEvolvingNonce(row, e - 1) :
                work' = [work EXCEPT !.eta = EvolveAll(Seed(prev), T),
                                     !.candidate = CandidateOf(Seed(prev), T)]
           /\ row' = UpsertEvolvingNonce(row, e, work'.eta, Cardinality(T))
           /\ pc' = "candidate"
           /\ UNCHANGED tracker
        \/ RewindFails
     /\ UNCHANGED <<blocks, stream>>

RestoreEpochOnly ==   \* leaves the rows of the later epochs alone
  /\ pc = "candidate"
  /\ row' = IF work.candidate = NoNonce
            THEN DeleteCandidateNonce(row, work.epoch)
            ELSE SetCandidateNonce(row, work.epoch, work.candidate)
  /\ etaV' = work.eta
  /\ currentEpoch' = work.epoch
  /\ blockCount' = Cardinality(BlocksOf(work.epoch))
  /\ candidateFroze' = (work.candidate # NoNonce)
  /\ Finish
  /\ UNCHANGED <<blocks, stream>>

RestoreCandidate ==
  LET e == work.epoch
  IN /\ pc = "candidate"
     /\ \/ /\ row' = IF work.candidate = NoNonce
                     THEN DeleteCandidateNonce(row, e)
                     ELSE SetCandidateNonce(row, e, work.candidate)
           /\ etaV' = work.eta
           /\ currentEpoch' = e
           /\ blockCount' = Cardinality(BlocksOf(e))
           /\ candidateFroze' = (work.candidate # NoNonce)
           /\ IF e < work.through
              THEN pc' = "resetEvolving" /\ work' = [work EXCEPT !.epoch = e + 1]
              ELSE Finish
        \/ RewindFails
     /\ UNCHANGED <<blocks, stream>>

(* RewindToSlot: the rows of the later epochs no longer count any block.   *)
ResetEvolving ==
  /\ pc = "resetEvolving"
  /\ \/ /\ row' = UpsertEvolvingNonce(row, work.epoch, etaV, 0)
        /\ pc' = "resetCandidate"
        /\ UNCHANGED <<work, tracker>>
     \/ RewindFails
  /\ UNCHANGED <<blocks, stream>>

ResetTooFar ==   \* <= for <
  /\ pc = "resetCandidate"
  /\ row' = DeleteCandidateNonce(row, work.epoch)
  /\ IF work.epoch <= work.through
     THEN pc' = "resetEvolving" /\ work' = [work EXCEPT !.epoch = @ + 1]
     ELSE Finish
  /\ UNCHANGED <<blocks, tracker, stream>>

ResetCandidate ==
  /\ pc = "resetCandidate"
  /\ \/ /\ row' = DeleteCandidateNonce(row, work.epoch)
        /\ IF work.epoch < work.through
           THEN pc' = "resetEvolving" /\ work' = [work EXCEPT !.epoch = @ + 1]
           ELSE Finish
        /\ UNCHANGED tracker
     \/ RewindFails
  /\ UNCHANGED <<blocks, stream>>

----------------------------------------------------------------------------
(* GetNonceForEpoch called by the leaderlog trigger or a command caches a  *)
(* final nonce without holding nt.mu, in a row it may have to create.      *)
CacheFinalNonce(e) ==
  /\ pc # "down"
  /\ blocks # {} \/ Fails("earlyFinal")
  /\ row[e].final = NoNonce
  /\ row' = SetFinalNonce(row, e, FinalNonce)
  /\ UNCHANGED <<blocks, tracker, pc, work, stream>>

----------------------------------------------------------------------------
(* The process stops and is started again.                                 *)

Rewinding == pc \in {"restore", "candidate", "resetEvolving", "resetCandidate"}

Crash ==
  /\ pc # "down"
  /\ Fails(IF Rewinding THEN "crashInRewind" ELSE "crash")
  /\ pc' = "down"
  /\ work' = NoWork
  /\ etaV' = GenesisNonce
  /\ currentEpoch' = 0
  /\ blockCount' = 0
  /\ candidateFroze' = FALSE
  /\ UNCHANGED <<db, stream>>

(* NewNonceTracker, at a wall clock that may have entered later epochs.    *)
Restart ==
  /\ pc = "down"
  /\ \E w \in Epoch :
       /\ w >= clock
       /\ clock' = w
       /\ NewNonceTracker(row, w)
  /\ pc' = "validate"
  /\ phase' = "sync"
  /\ UNCHANGED <<db, work, chain, cursor, unrewound>>

(* Layer 1 of ValidateDBIntegrity: does the row of the last epoch count    *)
(* the blocks that are stored for it?                                      *)
StaleIfMissing == ~HasRow(EpochAt(LastSlot(blocks)))   \* does not compare counts

NonceStale ==
  LET e == EpochAt(LastSlot(blocks))
  IN \/ ~HasRow(e)
     \/ row[e].count # Cardinality(BlocksOf(e))
     \/ Fails("read")

(* Layer 3: the recent epochs with fewer blocks than the chain has.        *)
GapEpochs ==
  LET last == EpochAt(LastSlot(blocks))
  IN {e \in Epoch : /\ e <= last /\ e >= last - 4
                    /\ BlocksOf(e) # {}
                    /\ Cardinality(BlocksOf(e)) <
                         Cardinality(InEpoch(chain, e))}

(* The historical sync resumes Overlap blocks behind the last stored block;*)
(* it keeps retrying when the node does not know that block.               *)
Resume ==
  /\ cursor' = ResumeSlot
  /\ phase' = IF Intersects THEN "sync" ELSE "noIntersection"

RecomputeClockEpoch(e) ==   \* repairs the epoch of the wall clock
  /\ pc' = "restore"
  /\ work' = [NoWork EXCEPT !.epoch = clock, !.through = clock]

RecomputeCurrentEpochNonce(e) ==
  /\ pc' = "restore"
  /\ work' = [NoWork EXCEPT !.epoch = e, !.through = e]

(* ValidateDBIntegrity.  Koios may fail for any epoch.                     *)
ValidateDBIntegrity ==
  /\ pc = "validate"
  /\ \/ \* empty database
        /\ blocks = {}
        /\ cursor' = 0
        /\ Finish
        /\ UNCHANGED <<db, tracker, chain, phase>>
     \/ \* node unreachable: start-up proceeds without the repair
        /\ blocks # {} /\ Fails("node")
        /\ Resume
        /\ Finish
        /\ UNCHANGED <<db, tracker, chain>>
     \/ \* no intersection: truncate and start over
        /\ blocks # {}
        /\ LastBlocks(Lookback) \cap chain = {}
        /\ blocks' = {}
        /\ row' = [e \in Epoch |-> NoRow]
        /\ NewNonceTracker(row', clock)
        /\ chain' = {}
        /\ cursor' = 0
        /\ phase' = phase
        /\ Finish
     \/ \* intersection found: invalidate candidates, repair a stale nonce
        /\ LastBlocks(Lookback) \cap chain # {}
        /\ \E G \in SUBSET GapEpochs :
             row' = [e \in Epoch |-> IF e \in G THEN [row[e] EXCEPT !.candidate = NoNonce]
                                     ELSE row[e]]
        /\ Resume
        /\ IF NonceStale
           THEN RecomputeCurrentEpochNonce(EpochAt(LastSlot(blocks)))
           ELSE Finish
        /\ UNCHANGED <<blocks, tracker, chain>>
  /\ UNCHANGED <<clock, unrewound>>

----------------------------------------------------------------------------
Next ==
  \/ \E b \in Block : BlockArrives(b)
  \/ FreezeCandidate
  \/ EvolveNonce
  \/ \E p \in Slot : RollbackArrives(p)
  \/ GoLive
  \/ RestoreEvolving
  \/ RestoreCandidate
  \/ ResetEvolving
  \/ ResetCandidate
  \/ \E e \in FinalEpochs : CacheFinalNonce(e)
  \/ Crash
  \/ Restart
  \/ ValidateDBIntegrity

Spec == Init /\ [][Next]_vars

----------------------------------------------------------------------------
(* Properties.                                                             *)

(* Every variable has its type; in particular a rewind never leaves the    *)
(* epochs it was started for (RewindToSlot's loop over the later epochs).  *)
TypeOK ==
  /\ blocks \subseteq Block
  /\ row \in [Epoch -> Row]
  /\ etaV \in Nonce
  /\ currentEpoch \in Epoch
  /\ blockCount \in Nat
  /\ candidateFroze \in BOOLEAN
  /\ pc \in {"idle", "freeze", "evolve", "restore", "candidate",
             "resetEvolving", "resetCandidate", "down", "validate"}
  /\ work \in [block : Block \cup {NoBlock}, epoch : Epoch, through : Epoch,
               eta : Nonce, candidate : Nonce \cup {NoNonce}]
  /\ phase \in {"sync", "live", "noIntersection"}
  /\ chain \subseteq Block
  /\ cursor \in Slot \cup {0}
  /\ clock \in Epoch
  /\ unrewound \subseteq Epoch

(* The tracker is in an epoch the database has reached.                    *)
Current == \E b \in blocks : EpochOf[b.slot] >= currentEpoch

(* Between two events the evolving nonce in memory is the one obtained by  *)
(* hashing the stored blocks from genesis on, once each and in slot order: *)
(* ProcessBlock, RewindToSlot and NewNonceTracker together never lose,     *)
(* repeat or reorder a contribution, whatever rows SetFinalNonce creates.  *)
MemoryFollowsStore ==
  Idle /\ Current => etaV = ChainNonce(UpTo(currentEpoch))

(* The persisted nonce and block count of every epoch with blocks agree    *)
(* with the blocks table, so that a restart, a rewind and the next epoch   *)
(* may continue from any of these rows.                                    *)
RowsFollowStore ==
  Idle => \A e \in Epoch : BlocksOf(e) # {} =>
            /\ row[e].evolving = ChainNonce(UpTo(e))
            /\ row[e].count = Cardinality(BlocksOf(e))

CandidateRight(e) ==
  FirstStable(BlocksOf(e)) # {} =>
    row[e].candidate = CandidateOf(ChainNonce(UpTo(e - 1)), BlocksOf(e))

(* The stored candidate of an epoch past its stability slot is "the        *)
(* evolving nonce just before the first post-stability block"              *)
(* (ProcessBlock, nonce.go:221), across rollbacks that unfreeze it and     *)
(* lost inserts, unless the node has returned to the epoch when all blocks *)
(* of the next one were lost: handleEvent rewinds only when blocks are     *)
(* deleted, and the next block enters the epoch with candidateFroze reset  *)
(* (nonce.go:177), so that the candidate is frozen a second time.          *)
CandidatesFollowStore == Idle => \A e \in Epoch \ unrewound : CandidateRight(e)

(* Once a rollback has been handled, no block the node has dropped counts  *)
(* in the evolving nonce (the comment on RewindToSlot, nonce.go:386-387).  *)
NoForkedContribution ==
  Idle /\ Current => Hashed(etaV) \subseteq chain

(* No block is hashed twice into one evolving nonce, wherever between two  *)
(* store calls of ProcessBlock the process stops, whichever candidates are *)
(* lost and whatever the node re-delivers ("to prevent corrupting the      *)
(* evolving nonce on restart", nonce.go:204).  Not so when RewindToSlot    *)
(* fails, which is only logged (main.go:1010), or the process stops in it: *)
(* the rolled-back blocks are gone from the table, so that the duplicate   *)
(* check takes them for new when the node delivers them again, while the   *)
(* nonce still has them.                                                   *)
NoBlockTwice == \A l \in etaV.links : l[1] \notin l[2]

(* When the start-up check is done and the node answered, the row of the   *)
(* last epoch counts the stored blocks, whatever a crash, a rewind cut     *)
(* short or a lost upsert left there (RecomputeCurrentEpochNonce's comment,*)
(* nonce.go:368-372).                                                      *)
CheckedOnStart ==
  [][ /\ pc = "validate" \/ (pc = "candidate" /\ phase = "sync")
      /\ pc' = "idle" /\ blocks' # {}
      => ~NonceStale' ]_vars

(* The tracker implements the rolling nonce of a single chain: each step   *)
(* extends it by a block, truncates it to an earlier block, or leaves it.  *)
Abstract == INSTANCE RollingNonce WITH hashed <- Hashed(etaV), eta <- etaV
AbstractSpec == Abstract!Spec

----------------------------------------------------------------------------
(* The inductive invariant of the tracker while the process keeps running  *)
(* and the store loses nothing but inserts and candidates.                 *)

(* The rows r of the epochs in E agree with the blocks of S.               *)
RowsOf(r, S, E) ==
  \A e \in E : /\ r[e].count = Cardinality(InEpoch(S, e))
               /\ InEpoch(S, e) # {} => r[e].evolving = ChainNonce(Through(S, e))

StreamInv ==
  /\ pc \notin {"down", "validate"}
  /\ phase # "noIntersection"
  /\ blocks \subseteq chain
  /\ OnePerSlot(chain)
  /\ \A b \in chain : b.slot <= cursor
  /\ \A b \in chain : \A e \in Epoch : e < EpochOf[b.slot] => BlocksOf(e) # {}

EpochInv == EpochAt(cursor) <= currentEpoch

IdleInv ==
  Idle => /\ etaV = ChainNonce(blocks)
          /\ blockCount = row[currentEpoch].count
          /\ RowsOf(row, blocks, Epoch)

(* InsertBlock has stored work.block, which is not evolved yet.            *)
Settled == blocks \ {work.block}

ProcessInv ==
  pc \in {"freeze", "evolve"} =>
    /\ work.block \in blocks
    /\ \A b \in Settled : b.slot < work.block.slot
    /\ currentEpoch = EpochOf[work.block.slot]
    /\ blockCount = row[currentEpoch].count
    /\ etaV = ChainNonce(Settled)
    /\ RowsOf(row, Settled, Epoch)

(* The first epoch whose row a rewind has still to write.                  *)
Lo == IF pc \in {"restore", "resetEvolving"} THEN work.epoch ELSE work.epoch + 1

RewindInv ==
  Rewinding =>
    /\ RowsOf(row, blocks, {e \in Epoch : e < Lo \/ e > work.through})
    /\ \A b \in blocks : EpochOf[b.slot] <= work.epoch
    /\ pc \in {"restore", "candidate"} =>
         /\ EpochAt(cursor) <= work.epoch
         /\ \A e \in Epoch : e < work.epoch => BlocksOf(e) # {}
    /\ pc = "candidate" => work.eta = ChainNonce(blocks)
    /\ pc \in {"resetEvolving", "resetCandidate"} =>
         /\ etaV = ChainNonce(blocks)
         /\ blockCount = row[currentEpoch].count
         /\ BlocksOf(work.epoch) = {}
         /\ currentEpoch < work.epoch

IInv ==
  /\ TypeOK
  /\ StreamInv
  /\ EpochInv
  /\ IdleInv
  /\ ProcessInv
  /\ RewindInv
=============================================================================
