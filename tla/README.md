# goduckbot: specification and verification

goduckbot follows the Cardano chain for a stake pool. It rolls the epoch nonce forward block by
block, computes the pool's leader schedule of the next epoch as soon as that epoch's nonce is
determined, posts the schedule and the minted blocks, and answers Telegram commands.

This directory holds TLA+ models of the parts where concurrency, restarts, re-delivery and partial
failure decide whether the nonces and schedules are right, the TLC runs that check them and the
TLAPS proofs of the properties that matter most. Line numbers are those of the Go source.

## 1. The system

| Component | Source | State | Operations | What makes it correct |
|---|---|---|---|---|
| Nonce tracker | `nonce.go` | `evolvingNonce`, `currentEpoch`, `blockCount`, `candidateFroze`, under `mu` | `ProcessBlock`, `ProcessBatch`, `RewindToSlot`, `RecomputeCurrentEpochNonce`, `ResyncFromDB`, `GetNonceForEpoch`, `BackfillNonces` | eta_v is the hash of the stored chain, once each block, in order; eta_c is eta_v before the first post-stability block |
| Store | `store.go` (SQLite), `db.go` (PostgreSQL) | `blocks`, `epoch_nonces`, `leader_schedules`, `slot_outcomes` | single statements that commit one by one, `TruncateAll` as a transaction | rows agree with the blocks table whenever another operation starts |
| Start-up check | `integrity.go` | none | `ValidateDBIntegrity` | after it a stale row of the last epoch is repaired, a foreign database is emptied |
| Gap repair | `gaprepair.go` | none | `RepairBlockGaps`, `RecomputeEpochRange` | missing blocks are inserted and every epoch from the first gap is rebuilt |
| Historical sync | `sync.go`, `main.go:532-713` | channel of 2000 blocks, batch, `caughtUp` | roll forward, flush, retry with `ResyncFromDB` | no block lost or hashed twice across reconnects |
| Live tail | `main.go:775-1243` | pipeline, `replayFenceSlot`, `liveTailSlot`, `i.epoch` | `handleEvent`, restarts, stall detection | blocks announced once; rollbacks undo the nonce |
| Leader schedule trigger | `main.go:1594-1970` | `leaderlogCalcing`, `scheduleExists`, `leaderlogFailed`, `nonceVerified`, `nonceVerifyAt` under `leaderlogMu` | `checkLeaderlogTrigger`, worker goroutines, `verifyScheduleNonce` | the schedule of the next epoch is stored and posted, and replaced when Koios publishes another nonce |
| History builder | `main.go:1975-2251` | `history_classified` | resumable classification | no assigned slot misclassified because an answer was empty |
| WebSocket hub | `main.go:1236-1320` | `clients`, `broadcast` | broadcast, add, remove | the live tail sends to it without waiting |
| Leader check | `leaderlog.go` | none | threshold, VRF, `CalculateLeaderSchedule` | equals the protocol's check |
| Commands and CLI | `commands.go`, `cli.go` | none | request-response; may compute and store nonces and schedules | never overwrite a newer result |
| Node queries, notifications, key memory | `localquery.go`, `blocknotify.go`, `securekey.go` | none | I/O | - |

How they interact: the node delivers headers to the historical sync and events to the live tail.
Both call `ProcessBlock`; the live tail does so only once the historical sync is done
(`historicalSyncDone`). A rollback event deletes blocks and calls `RewindToSlot`. After every block
the live tail calls `checkLeaderlogTrigger`, which starts goroutines that call `GetNonceForEpoch`;
this and the commands write `final_nonce` into rows of `epoch_nonces` without holding `nt.mu`. The
start-up check and the gap repair run before the first block is processed, the backfill after the
historical sync, next to the live tail.

What is hard: the store calls of one operation commit one by one, so a stop or a failing call leaves
half an operation behind; the node re-delivers up to 100 blocks after every reconnect; rollbacks
cross epoch boundaries; `SetFinalNonce` creates rows before their epoch begins; results of slow
computations are stored after the state they were computed from has changed; errors are mostly
logged and dropped. `PROJECT.json` lists each of these hazards at its line.

## 2. Modules

| Part | Modules | Proofs | Run |
|---|---|---|---|
| Nonce tracker, store, start-up check | `EvolvingNonce`, `NonceTracker`, abstract `RollingNonce`; `MCNonceTracker` | `NonceTrackerProofs` | `tracker_live`, `tracker_crash` |
| Historical sync | `SyncPipeline` (extends `NonceTracker`); `MCSyncPipeline` | `SyncPipelineProofs` | `sync_retry` |
| Gap repair, backfill | `Repair` (extends `NonceTracker`); `MCRepair` | `RepairProofs` | `repair`, `backfill_one_connection` |
| Live tail | `LiveTail`; `MCLiveTail` | `LiveTailProofs` | `live_tail` |
| Nonce of an epoch | `EpochNonce` (over `EvolvingNonce`); `MCNonceValues` | `NonceValuesProofs`, over `FoldProofs` | `nonce_values`, `tickn_late_loss` |
| Leader schedule trigger | `LeaderlogTrigger` | `LeaderlogTriggerProofs` | `trigger_announced`, `trigger_koios`, `trigger_live` |
| Epoch arithmetic, schedule loop | `EpochSlots`, `LeaderSchedule` (extends it) | `LeaderlogProofs` | `leaderlog` |
| History of schedules | `LeaderlogHistory`; `MCLeaderlog` puts it next to `LeaderSchedule` | `LeaderlogProofs` | `leaderlog` |

The tracker is the core: `SyncPipeline` and `Repair` compose its actions with those of the jobs that
feed or correct it. `LiveTail` reduces the tracker to the block it stores, `EpochNonce` to the
candidates it leaves, `LeaderlogTrigger` and `LeaderlogHistory` to the nonces they read. `MCLeaderlog` checks two
modules in one run; a behaviour is one of the one or of the other.

Every mutant under `mutants` in `PROJECT.json` is a change of one definition that a plausible bug
would make; the definitions are in the modules, each with a comment that says what it does.

What is proved and what is not. A theorem holds for every value of the constants that its module's
assumptions and its own ASSUME admit; each section names them. Every invariant and action property of a
passing run has its theorem. Left to TLC, everywhere: liveness and ENABLED, which the provers cannot do
(`NextPosted`, `CurrentCorrected`, `TailStoresAll`, `SyncCompletes`, `JobEnds`).

What a fold computes for every input takes an induction over data. Its theorems need an operator as a
parameter, and no prover can instantiate one in a theorem; but a module can take it as a constant.
**FoldProofs** has `CONSTANT op(_,_)` and proves, once for every operator, that the fold over the empty
sequence is its base (`FoldEmpty`) and over one more element is `op` of the fold so far and that element
(`FoldOneMore`), by way of the least-number principle (`LeastNatural`). `NonceValuesProofs` instantiates it
with `ReadBlock` (section 7).

## 3. The nonce tracker

### Modules

- **EvolvingNonce**. An evolving nonce is a seed and a set of links `<<b, S>>`: block `b` was hashed
  when exactly the blocks of `S` had been hashed. `Evolve` is `evolveNonce` with the block's nonce
  value; `EvolveAll(n, T)` the loop over the stored blocks of `T` in slot order; `ChainNonce(T)` that
  loop from the genesis seed. Hashes are assumed collision-free. Genesis and Final distinguish a
  nonce rolled on from genesis and an epoch nonce that was put into `evolving_nonce`. An order, an omission or
  a repetition shows in the links, as it does in a hash chain; that is a convention of the models and no property
  of the code.
- **NonceTracker**. `blocks` and `row` are the tables (a row exists when its `evolving` field is
  set, the column being NOT NULL); `etaV`, `currentEpoch`, `blockCount` and `candidateFroze` the
  struct; `pc` and `work` the handler that holds `nt.mu` with its local variables; `phase`, `chain`,
  `cursor` and `clock` the stream and the wall clock. Every store call is a step:

| Code | Actions |
|---|---|
| `ProcessBlock` | `BlockArrives` (transition and `InsertBlock`), `FreezeCandidate`, `EvolveNonce` |
| rollback branch of `handleEvent` | `RollbackArrives`; then `RewindToSlot`: `RestoreEvolving`, `RestoreCandidate`, `ResetEvolving`, `ResetCandidate` |
| `restartLiveTailFromDB` and the node's first rollback to the intersection | `GoLive` |
| `GetNonceForEpoch` ending in `SetFinalNonce` | `CacheFinalNonce`, at any moment |
| process stop, `NewNonceTracker`, `ValidateDBIntegrity` | `Crash`, `Restart`, `ValidateDBIntegrity` |

  The constant `Faults` selects the failures of a run; the module lists them. A rewind that
  fails returns early with what it had committed, as the code does.
- **RollingNonce** is the abstract specification: a set of blocks of one chain and the nonce of that
  chain; a step adds a block behind the others or truncates.
- **MCNonceTracker** gives the epochs of TLC's instances: `EpochLen` slots, the stability slot
  `StableOffset` slots into the epoch.

### What is assumed

- `EpochMayBegin`: the database holds two blocks of an epoch before the next begins (the real
  number is about 21,600). It matters: `NewNonceTracker` looks one epoch back, no further.
- `Overlap` is at least 2 (100 in the code): the block that a stop left uncounted is re-delivered.
- During historical sync the stream has no rollbacks and blocks are processed one by one. What the
  sync really does is `SyncPipeline`'s.
- The live tail's rollbacks during the historical sync are not modelled here. The tail stores nothing then,
  but a rollback of the tip that reaches below what the sync has just stored deletes those blocks and rewinds
  the tracker while the writer's batch may be pending (main.go:999).
- Events are handled one at a time: `handleEvent` is called from one goroutine.
- No fairness: every property of this component is a safety property.

### Runs

All runs use two competing blocks per slot, symmetric, so that a slot can be re-minted after a
rollback. `tracker_live` has epochs of two, three and one slots: two later epochs to reset, a row that
is two epochs away, blocks before, at and after the stability slot of one epoch, and a last epoch all of
whose blocks can be lost. `tracker_crash` has two epochs of two and three slots. `MaxCount` exceeds the number
of slots, so that
hashing a block twice is not cut off.

| Run | Faults | Shows |
|---|---|---|
| `tracker_live` | inserts fail | `MemoryFollowsStore`, `RowsFollowStore`, `CandidatesFollowStore`, the inductive invariant `IInv`, and `AbstractSpec`: RollingNonce is implemented |
| `tracker_crash` | stop between any two store calls of ProcessBlock, lost candidates | memory and rows are right again after the restart; no block is hashed twice (`NoBlockTwice`) as long as no rewind fails or is stopped, no rolled-back one counts (`NoForkedContribution`), and a start repairs the last row (`CheckedOnStart`) |

Failing deletes, rewind steps and upserts and an unreachable node are enabled in run `repair`, which extends
this component.

Known divergences, each of which a run with the fault named shows; the passing runs leave it out:

- `crash` with `CandidatesFollowStore`: `candidateFroze` is not restored (nonce.go:79), so the first
  block inserted after a restart past the stability slot freezes the candidate again, from a nonce that
  hashes post-stability blocks; the comment at nonce.go:219 promises the nonce before them. The
  live tail's first rewind repairs the epoch it lands in, the backfill the others.
- `crashInRewind` with `NoForkedContribution`: `RewindToSlot` commits the rewound epoch before it
  resets the later ones (nonce.go:398-412); after a stop in between, a later row keeps rolled-back state
  and is restored when that epoch begins again.
- `rewind` or `crashInRewind` with `NoBlockTwice`: the failure is only logged (main.go:1010), after the rolled-back
  blocks have been deleted; the nonce keeps them, and `InsertBlock` takes them for new when they come again.
- `earlyFinal` with `MemoryFollowsStore`: `NewNonceTracker` (nonce.go:97) continues from a row that
  `SetFinalNonce` created, and so from an epoch nonce.
- `insert` together with `crash`: a block lost before the last stored one is not seen by the start-up
  check; the gap repair finds it by its count.

- `insert` with `CandidatesFollowStore` for every epoch: when all blocks of an epoch were lost and the node
  rolls back into the epoch before it, nothing is deleted and nothing rewound (`handleEvent` rewinds only
  when `DeleteBlocksAfterSlot` reports blocks), and the next block is taken for a transition that resets
  `candidateFroze` (nonce.go:177): the candidate is frozen again, past the window. The history variable
  `unrewound` collects the epochs re-entered this way, and the property excepts them. The instance must have
  room for it; the third epoch of `tracker_live` is there for this.

Deadlock is not checked in any run of this component: the slots run out.

### Proofs

All of it is for every slot set, fork set, monotone `EpochOf`, stability set, number of epochs and overlap
of at least two. Three assumptions on `Faults` select the theorem:

| Module | Assumption | Theorems |
|---|---|---|
| `NonceTrackerProofs` | none | `TypeCorrect` |
| `NonceTrackerProofs` | `LosesOnlyInserts`: only inserts and candidates are lost | `InvCorrect` (`IInv`), `MemoryCorrect`, `RowsCorrect`, `ForksCorrect` |
| `NonceTrackerProofs` | `LosesOnlyBlocks`: only inserts are lost | `CandidatesCorrect` |
| `NonceTrackerProofs` | `LosesOnlyInserts` | `TrackerImplementsRollingNonce` |
| `NonceTrackerProofs` | `OnlyStops`: candidates are lost, and the process stops anywhere but within a rewind | `StopInvariant`, `MemorySurvivesStops`, `RowsSurviveStops`, `NoBlockTwiceAlways`, `NoForkSurvivesStops`, `CheckedOnStartAlways` |

The runs `tracker_live` and `tracker_crash` have the faults of the second to fourth and of the last line.

The argument. `MemoryFollowsStore` is not inductive: whether memory is right after an epoch
transition depends on the row that is found, and whether the row is right depends on every rewind
since. `IInv` therefore says, for each control state, which rows agree with which blocks. Idle:
all rows count exactly the stored blocks of their epoch, so a row with a count of zero (a
placeholder of `SetFinalNonce`, or a reset row) is told from a real one, and memory is the nonce of
all blocks (`IdleInv`). Within `ProcessBlock`: the same for the blocks without the one just
inserted, which lies after all others (`ProcessInv`). Within a rewind: rows below `Lo` and above
`work.through` are right, and no block lies beyond the epoch being written (`RewindInv`). `StreamInv`
adds that stored blocks are on the announced chain, at most one per slot, none beyond the cursor, and
that no epoch before a stored block is empty, so that `GetEvolvingNonce(e - 1)` has a row to return.
The hash-chain lemmas on `Evolve`, `EvolveAll` and `ChainNonce` (appending a last block, splitting at
an epoch) carry the values.

`CandidatesCorrect` strengthens this by `CandidateInv`: the candidates of all epochs that are not in
`unrewound` are right, `candidateFroze` says whether the current epoch has a stable block, within a rewind
the epochs before the rewound one are right and `work.candidate` is what will be stored, and the tracker is
ahead of the cursor's epoch only where `unrewound` says so (`BehindInv`).

`TrackerImplementsRollingNonce` shows that under `LosesOnlyInserts` `EvolveNonce` maps to `Extend`,
`RestoreCandidate` to `Truncate` and every other step to a stutter.

The theorems under `OnlyStops` need another invariant, as with stops `IInv` is false: rows lag, memory is that of the
epoch the clock was in, and the node delivers blocks below the tip again. `StopInv` says:

- at any time that is not within a handler the rows agree with the table (`Exact`), or, after a stop and
  until the check, with the table without its last block (`Lagging`). A lagging row always shows in the
  count of the last epoch, so `NonceStale` sees it (`LaggingStale`) and the recomputation starts from rows
  that are right below that epoch. This is where the stop between `InsertBlock` and `UpsertEvolvingNonce` heals;
- memory is right in an epoch that the table has reached (`RightWhenCurrent`), whatever epoch it was
  started in; when the next block is a new one it is the nonce of the whole table, unless the table has one
  block only (`ReadyInv`). With two blocks the stream resumes behind the last one (`ResumesBehind`,
  where `Overlap` of at least 2 is needed) and the transitions of the blocks delivered again bring memory up
  to date (`DeliveredAgain`); with one block the second one of its epoch enters it by a transition
  (`EpochMayBegin` excludes a next epoch);
- the table is the node's chain (`StopChainInv`), as no insert fails: so the check always finds an intersection
  and never truncates;
- no link of memory, of the handler's variables or of a row hashes a block on top of itself (`CleanInv`).

Failing upserts, deletes and rewinds are outside these assumptions, but for `TypeCorrect`; what repairs the
rows they leave is in section 6.

## 4. The leader schedule trigger

**LeaderlogTrigger** models what happens to the schedule of an epoch. `schedule`, `posted` and `final`
are the database columns; `channel` is what the Telegram channel shows; `exists`, `failed`,
`verified` and `recent` are the maps under `leaderlogMu`. `leaderlogCalcing` is not a variable: an
epoch is in it exactly while its worker runs. The state of the chain is reduced to the epoch and to
whether the last block is past the stability window. A nonce is the one Koios publishes, or a wrong
one computed from a gap in the local blocks.

| Code | Actions |
|---|---|
| `checkLeaderlogTrigger` after a block | `BlockArrives`, `CheckNext`, `CompareNext`, `CheckCurrent`, `CompareCurrent` |
| a worker: `GetNonceForEpoch`, `calculateAndPostLeaderlog`, its deferred bookkeeping | `ReadNonce`, `ComputeNonce`, `CacheNonce`, `StoreSchedule`, `PostSchedule`, `MarkSchedulePosted`, `Finish` |
| `verifyScheduleNonce` | `FetchKoiosNonce`, `CompareWithKoios`, `CorrectNonce`, `Confirm` |
| `correctNextEpochNonce`, then `clear(scheduleExists)` | `CorrectNextEpochNonce` or `BackfillWithoutCorrection`, `ClearScheduleExists` |
| `/leaderlog` | `CommandArrives`, then the job steps up to `StoreSchedule` |
| time, Koios, stop | `CooldownExpires`, `VerifyIntervalExpires`, `Arm`, `Publish`, `Restart` |

The handler holds `leaderlogMu` from its database reads to their evaluation (`nextNonce`,
`curNonce`); the other critical sections are single steps. Stake query and VRF computation read no
modelled state and are part of `StoreSchedule`.

Assumed: Koios publishes the nonce of an epoch only once the epoch has begun, and publishes the right
one; a verification (30 s) ends within its interval (10 min); posting is enabled; a Telegram message
whose first chunk was sent and whose second failed counts as not sent. `backfillSchedules` is
LeaderlogHistory's; the worker's panic recovery is not modelled. Faults come from the budget `MaxFaults`.

Fairness (`FairSpec`): blocks keep arriving - the stall detector restarts a silent pipeline -, the
handler, the workers and the checks make progress, cooldowns and intervals end, the grace period
ends. No fairness on `Publish`, on the chain entering the next epoch, on faults or on the backfill.
Failures happen finitely often.

| Run | Bounds and faults | Shows |
|---|---|---|
| `trigger_announced` | 3 epochs, one of: read of the cached nonce (`cached`), read of the stored schedule (`read`), Koios, caching the nonce, stake, Telegram, backfill, command | `CorrectionAnnounced`; `TypeOK`, with a nonce wherever a worker needs one |
| `trigger_koios` | 3 epochs, two of: untrusted local nonce, Koios, stake, Telegram, mark, read of the posted column (`posted`), writing the final nonce, restart, rollback | `KoiosWins`, its inductive form `OneAtATime`, `NoDuplicatePost` |
| `trigger_live` | 3 epochs, one of: untrusted local nonce, Koios, stake, the three reads, insert, mark | `NextPosted`, `CurrentCorrected` |

Three epochs are a running epoch without local candidate, its successor, which is scheduled in
advance, becomes the running one and is verified, and the successor's successor. The local nonce is the wrong
one, which is the case that needs the correction. Two faults are enough for a failure and the failure of
its retry, or for a restart after either. Deadlock is not checked: without fairness a run may end
after its last fault.

`LeaderlogTriggerProofs` proves for any number of epochs and faults:

| Assumption | Theorems |
|---|---|
| none | `TypeCorrect` |
| `Fenced`: no failing insert, no failing read of the cached nonce, no backfill, no command | `OneAtATimeAlways`, `KoiosWinsAlways` |
| `Fenced`, no failing `GetLeaderSchedule` | `PostsWhatIsNewAlways`, `NeverPostedTwice` |
| `Lasting`: no failing insert or mark, no failing read of the posted column, no restart | `PostsAreMarkedAlways`, `CorrectionsAnnounced` |

`KoiosWins` follows from `OneAtATime`, its inductive form: `leaderlogCalcing`, the guard of
`nonceVerifyAt` and the read under `leaderlogMu` together keep an epoch's worker, its verification and the
handler's comparison of a stored schedule apart, so that what each of them has read still holds when it
acts, and `clear(scheduleExists)` never leaves a confirmed epoch with another nonce. The excluded faults
are those with which two of them do meet (below). `NeverPostedTwice` needs on top that a worker past its
nonce has one the channel does not show (`PostsWhatIsNew`); `CorrectionsAnnounced` that a shown schedule is
marked as posted or its worker is about to mark it (`PostsAreMarked`). `NextPosted` and
`CurrentCorrected` are liveness and stay with TLC.

Faults a run leaves out are those one of its properties does not survive:

- `insert` with `KoiosWins` and `CorrectionAnnounced`: a failed `InsertLeaderSchedule` is only logged and the
  worker reports success (main.go:1921), so the old schedule counts as the corrected one and is confirmed,
  although main.go:1770 says "Once Koios publishes, its nonce wins".
- `telegram` with `NextPosted`: the schedule is stored before it is sent; after a failed send the next
  check finds it in the database (main.go:1639) and never looks at `posted`. A restart between the two
  has the same effect.
- a failed `SetFinalNonce` with `CurrentCorrected`.
- `cached` with `KoiosWins`, `OneAtATime` and `NoDuplicatePost`: `GetNonceForEpoch` takes a failing read of the
  cached nonce for none (nonce.go:481-485). In the worker that recomputes a corrected schedule it then computes the
  wrong nonce again and stores it over the one of Koios; the epoch is verified, so nothing looks at it again, and
  the schedule the channel already shows is posted once more. TLC finds `KoiosWins`
  violated as soon as the fault is enabled; `CurrentCorrected` excepts such an epoch (`Overwritten`). Elsewhere
  a failing read of the cached nonce only delays.
- `read` with `NoDuplicatePost`: a schedule that cannot be read is computed and posted again.
- `posted` with `CorrectionAnnounced`: `IsSchedulePosted` says "not posted" when it cannot read (store.go:303).
- `backfill` and `command` with `KoiosWins`: a worker or command that read the nonce earlier leaves a stale
  schedule.
- `mark` or `restart` with `CorrectionAnnounced`: a later correction looks like a first post.

## 5. The historical sync

**SyncPipeline** extends NonceTracker with the two goroutines of the sync. `session` is where the retry
loop of `runChainTail` is, `channel` is `blockCh` with the block of a blocked sender behind it, `writer`,
`batch` and `todo` are the writer goroutine, `cursor` the last header delivered.

| Code | Actions |
|---|---|
| `ChainSyncer.Start`, `getIntersectPoints` | `Connect` |
| `handleRollForward`, the block callback, `onCaughtUp` | `HandleRollForward`, `RollForwardReturns`, `ContextDone` |
| `handleRollBackward`, which only logs | `HandleRollBackward` |
| retry loop: drain, wait, `ResyncFromDB` | `ConnectionFails`, `Drain`, `ResyncFromDB` |
| end of the sync | `CloseChannel`, `SyncDone` |
| writer goroutine, `flushBlockBatch` | `Receive`, `Tick`, `ChannelClosed`, `FlushBlockBatch` |
| `ProcessBlock` for a small or failed batch | `ProcessBlock`, then NonceTracker's `FreezeCandidate`, `EvolveNonce`; `EachDone` |
| `ProcessBatch` | `ProcessBatch`, `BatchEntersEpoch`, `BatchEvolves`, `BatchPersists` |
| stop and start | `Stop`, `RestartSync`, `StartUp` |

Run `sync_retry`: five slots, two epochs of three slots, one connection error, rollback or stop, a channel of
one block, batches of up to three, small ones below two, failing batch inserts. The caps keep the order of
the code (channel and batch smaller than the chain, small batch below large), so a full channel, a blocked
sender, a batch of each kind and one that spans two epochs all happen. One error is enough for the
overlap to be delivered twice; two were too many for the time limit.

- `SyncFollowsStore`: between two flushes tracker and rows agree with the blocks table.
- `NoStoredGap`: nothing is missing below the last stored block.
- `NothingLeftBehind`: the last partial batch is stored when the sync is declared done.
- `SyncCompletes` (liveness): the sync ends. Fairness: both goroutines run, the two-second ticker ticks,
  a stopped process is started again. Errors are bounded, as the node must be reachable at some time.

What the code does not cope with is recorded in `disturbed`, and no nonce is promised after it: a rollback
(sync.go:308), a replay that starts in an earlier epoch than it ends (`straddle`), a stop between insert and
`ProcessBatch` of a batch of two epochs (`split`), a restart a later epoch on (`late`; two epochs on,
the nonce starts at genesis). Assumed: a flush ends within the three seconds of main.go:691, otherwise
`ResyncFromDB` recounts blocks that `ProcessBatch` hashes again; no callback of a dead connection is still
blocked when the channel is closed (it would panic); single inserts do not fail next to the overlap,
since main.go:556 would evolve the wrong suffix - for this the comment at nonce.go:295-297 does not hold.

`SyncPipelineProofs` proves `NoStoredGapAlways` and `NothingLeftBehindAlways` for every chain, overlap of at
least two, channel capacity, batch sizes, window and number of errors, and all faults but a failing single insert
(`StoresBlocks`). The inductive invariant `SyncInv`: the flush, the batch and the channel hold, in this
order, ascending blocks of the chain up to the cursor; what is stored has no gap; what lies below the
cursor is stored or in the pipe, and the pipe is only emptied into the table or when the session ends and the next
one resumes below the last stored block (`GapInv`, as long as no rollback has happened); and which
places of the retry loop and the writer go together (`PlacesInv`).

`SyncFollowsStoreAlways` is proved for the same constants when only candidates are lost, batch inserts fail and
the process stops, but not within a rewind (`KeepsRows`: the faults of the run); like the property it promises
nothing after a Disturbance. That the nonces agree with the table between two flushes is not inductive: within
a flush, and after a stop, they do not. `TrackInv` says by how much, and its parts need each other:

- `RestInv`, `BatchInv`: the nonce in memory is that of the blocks the writer has hashed (`Evolved`: all that are
  stored but the rest of a batch), and all rows agree with those, that of the current epoch at rest only.
- `StoppedInv`: after a stop the row of the last stored epoch may count fewer blocks than are stored, all
  other rows are right; if it counts all of them its nonce is theirs. So the comparison of counts that
  `ValidateDBIntegrity` makes is enough, and the rewind of one epoch that follows repairs what there is to repair
  (`RepairInv`). A batch of two epochs breaks this (`split`).
- `AgainInv`: of the stored blocks, only those of the last epoch are delivered again. `ProcessBlock` enters the
  epoch of a duplicate before it sees that it is one, so an earlier epoch would throw the tracker
  back (`straddle`).
- `HolderInv`: who may hold `nt.mu` when, and that no epoch between the first and the last is empty on the chain,
  so that the epoch that is entered is always the next one.

The liveness property is model-checked only.

## 6. Gap repair and backfill

**Repair** extends NonceTracker with the job that runs: `RepairBlockGaps` at start-up, before anything
else writes, or `BackfillNonces` next to the live tail. `job.stage` is where it is, `job.rows` the blocks its
stream reads, as they were when it was opened.

| Code | Actions |
|---|---|
| `RepairBlockGaps`, `repairEpochGaps` | `GapRepairStarts`, `EpochToRepair`, `InsertMissing`, `EpochRepaired`, `GapsRepaired`, `GapRepairFails` |
| `RecomputeEpochRange`, `reseedFromBackfill` | `RestoreNext`, `RestoreStep` (with `RestoreEvolving`, `RestoreCandidate`), `RangeRestored`, `RestoreFails` |
| `BackfillNonces` | `BackfillStarts`, `StreamFreezes`, `StreamInvalidates`, `StreamCachesFinal`, `StreamStoresEvolving`, `StreamCancelled`, `ReseedStarts` |
| the tracker meanwhile | `TrackerStep`, `ProcessStops`, `ProcessStarts` |

Run `repair`: four slots, two epochs, inserts, deletes, rewinds and upserts that fail and stops, two of them
in a behaviour; any failure of a job. That is enough for a lost block in the first epoch that the second one
has rolled over, and for a stop in the middle of its repair.

- `GapRepairHeals`: once a repair is done no epoch behind the tip has a gap, and rows and candidates from
  the first repaired epoch on follow the blocks, if the row before it did.
- `BackfillHeals`: after a backfill of which no store call failed, memory, all rows and all candidates follow the
  blocks table, whatever arrived meanwhile, unless a rollback changed or rewound to an epoch before the last
  streamed one.
- `TypeOK`: rewinds and restores stay within their epochs.

Run `backfill_one_connection` (**violation** of `BackfillStreamsAll`): with SQLite the first store call made
while the stream is open waits for the connection the stream holds. With PostgreSQL, `OneConnection =
FALSE`, the property holds. Fairness there: the job's goroutine runs, its context is done at some time.

Limits of what heals: an error in a later epoch skips the recomputation of the repaired ones, whose counts are
then complete, until the next backfill; a missing first block of an epoch is never repaired
(gaprepair.go:107-114); a forked block can make up the count. `BackfillHeals` excepts (`clean`) a stream of
blocks some of which the node has dropped, and a rollback that changes epochs before the last streamed
one, whose rows are not looked at again, or only rewinds to one of them. The candidate that is invalidated after
a mismatch (nonce.go:813)
is stored again later in the same pass. The model starts the backfill once the tail has rolled back to
its intersection; in the code both begin at the same time. Final nonces are left out: only the rows they
create matter. `correctNextEpochNonce` is LeaderlogTrigger's.

`RepairProofs` proves, for every slot set, fork set, number of epochs and choice of faults, `RepairTypeCorrect`,
and, as long as reads of the evolving nonce succeed (`ReadsSucceed`; restoreEpochFromDB takes an error for a
missing row and starts from the genesis seed), `GapRepairHealsAlways` and `BackfillHealsAlways`. The other faults may
all happen, in any number; so may stops. Neither property is inductive: they speak of the moment a job is done.
`RepairInv` says what holds on the way there:

- `GapsInv`: the epochs `RepairBlockGaps` has passed have no gap. That an epoch none of whose canonical blocks
  is missing has none is a counting argument: the chain has one block per slot (`RepairedHasNoGap`).
- `RestoreInv`: if the row before the first epoch of a range is right, so are rows and candidates of all epochs
  restored so far, and memory is the nonce of the last. This is the induction that the chain of
  `GetEvolvingNonce(e - 1)` makes.
- `ReplayInv`: the stream has left the rows and candidates of the epochs behind it as its blocks say
  (`StreamRight`), which for the epochs before the last streamed one are the stored blocks; next to it the tracker
  writes no row before that epoch, and stores no block in an epoch that the reseed will not reach (`BesideInv`).
- `HandlerInv`, `StageInv`, `ChainInv`: what the handler works on, and which handler may run next to which job.

The attempt found that `BackfillHeals` was false with three epochs. The stream takes no lock, so a rewind to
epoch e while the stream is still in an earlier one reads the wrong row of e-1, the stream corrects that
row, passes e and freezes its candidate, and then restoreEpochFromDB stores the candidate it had computed
(nonce.go:455-459). It takes three epochs, the last of them to begin the reseed after e; the run has two. Such a
rewind now ends `clean`; TLC agrees on instances of five slots in three epochs.
`BackfillStreamsAll` is a liveness property and is left to TLC.

## 7. The nonce of an epoch

**EpochNonce** has what `GetNonceForEpoch` answers: `FromChain`, `FromCandidate` and `FromKoios` are its ways,
`Replay` the loop that `ComputeEpochNonce`, `BackfillNonces` and `NonceIntegrityCheck` share, `Tickn` the rule applied
to the stored candidate, `TicknNonce` its count check and `VerifyTICKN`, `KoiosNonce` the fallback. `LedgerNonce` is
the reference: the nonce the ledger gives the epoch of the whole chain. The call is one step, its reads do not
interleave with blocks. Any read of the store may fail: that of the cached nonce makes the call compute again and
overwrite, one of another way leads to the next. Koios' count of the epoch (`counted`) is any number up to the true
one, 0 if no comparison is made because the request or `GetBlockCountForEpoch` failed (nonce.go:531-534); its
nonces are published when their epoch begins, and `answered` says whether the verification gets one.

Run `nonce_values`: three epochs of three slots and the first slot of a fourth, up to two lost blocks, every chain
with two blocks per epoch. That is what it takes for a loss to pass through candidate, previous hash and
verification, and for the replay to enter the last epoch that is asked for; a second slot in the fourth would only
add a candidate that no epoch uses.

- `GaplessNonceTrue`: without losses every answer is the ledger's, whichever way it was found.
- `LossNoticed`: while Koios answers with the published nonces, a loss before the freeze of epoch e-2, or one in the
  candidate epoch e-1 that shows in Koios' count, never yields a wrong nonce for the epoch e to come. A loss
  in the candidate epoch that Koios has not counted yet does, and so does one when the local count cannot be read.
- `NoFalseAlarm`: `NonceIntegrityCheck` agrees with what was cached.

Run `tickn_late_loss` (**violation** of `EveryLossNoticed`): a block lost after the freeze of epoch e-2, or its
last block but one, passes both checks even when Koios is up to date, against nonce.go:588-589.

### Proofs

`NonceValuesProofs` proves all three properties of `nonce_values`, for any slots, forks, number of epochs,
monotone `EpochOf`, set of stable slots and number of lost blocks, with the same failing reads and answers of Koios.
Assumed: `EpochAssumption` (slots to epochs is typed and monotone) and `AbsentAssumption` (NULL is not a nonce, no
hash is not a block). `InOrderLists` and `InOrderAppends` say that the store's order lists a finite set by slot and
that a later block goes to the end.

`GaplessNonceTrue` is not inductive: that what was cached is the ledger's nonce
survives the next block only if that block cannot change it, and the answers depend on a replay that starts anew
every time. `NonceInv` adds

- that the stored candidates are those of the stored blocks (`Candidates`; `FrozenNow`, `FrozenStays` and
  `NotFrozenYet` are the three things a later block can do to one);
- that each epoch before the one of a block has two blocks (`Contiguous`), without which the hash of the last block
  but one would not exist;
- while nothing is lost, that the replay of the chain is `Right`: its nonce and candidate are the chain's, lab and
  prev are the last two blocks, the lagged hash is the one of the epoch before, and every epoch up to the
  current one was entered with the nonce of the ledger rule. One more block is one more `ReadBlock`
  (`ReplayContinues`, from `ReplayFold!FoldOneMore`), which keeps it `Right` (`ReadRight`); this is where the
  order in `Transition` matters: the lagged hash is combined before labNonce replaces it, and labNonce is then
  the last block but one of the ended epoch (`EpochAdvances`);
- while nothing is lost, that a cached nonce is the ledger's and `Settled`: its epoch has begun, or the candidate
  before it is frozen, so that no later block changes it (`NonceStays`).

`LossNoticedAlways` needs no replay: a TICKN answer has no fewer blocks of the candidate epoch than Koios counted,
so none that `NoticedLoss` puts there, and its verification has the candidate of the epoch before that equal to
the published one, which by
`CandidateTells` was made of the same blocks (`CheckedComplete`): nothing is lost then. TLC checked `NonceInv` on the
instance of `nonce_values` before it was proved.

Not covered: the entry of `NonceIntegrityCheck` for the epoch after the last block, which combines
without the one-epoch lag (nonce.go:1095-1108) and differs from what is cached, and the same at the end of
`ComputeEpochNonce`, which no caller reaches; the replay of a database with gaps, which nothing verifies;
`knownEpochNonces`. The comment at nonce.go:515 names the hash of the wrong epoch; the code is right.

## 8. The live tail

**LiveTail**: `main` is the goroutine of `runChainTail` at the end of the historical sync, `sup` the supervisor
of `startAdderPipeline`, `restart` the buffered `liveTailRestart`, `cursor` and `rollback` the connected
pipeline, `handler` the event being handled in it and in one that was abandoned, `fence` and `seen` the
atomics `replayFenceSlot` and `liveTailSlot`.

| Code | Actions |
|---|---|
| `flushBlockBatch`, reduced to what it stores; end of the sync | `SyncStores`, `HistoricalSyncDone` |
| `restartLiveTailFromDB` | `RestartLiveTailFromDB` |
| `startPipelineFunc` | `RaiseFence`, `ConnectAtTip`, `ConnectFromDB` |
| error, stall, requested restart, `pipeline.Stop` with its time-out | `PipelineFails`, `RestartRequested`, `StopPipeline` |
| `handleEvent` | `HandleRollback`; `HandleBlock`, `ProcessBlock`, `Mint` |

Run `live_tail`: four slots, of which the chain may leave any but the first empty, in epochs of two; one of the
blocks is the
pool's; one failure, of the pipeline or of a call (below), and one switch; an overlap of two. The failure, the switch
and the hand-over can each fall between any two steps of the others. With four slots and that overlap the tail can
pass a block, before the sync ends, that lies below the point it resumes from. Several blocks of the pool, two
blocks of one slot, more switches and a longer overlap are left to the proofs below.

- `AnnouncedOnce`: a block of the pool that the tail has passed was announced exactly once.
- `CountFollowsChain`: `epochBlocks` is the number of the pool's blocks of the epoch on the chain.
- `NoTailGap`: a pipeline resumed from the DB has stored every block it has passed and no forked one, unless a
  pipeline was abandoned or a deletion failed.
- `TailStoresAll` (liveness): in the end every block of the chain is stored, but for a `gap` and the other
  disturbances it names; without that exception the run finds it violated. Fairness: goroutines run, the
  connected node answers; failures are bounded.

`disturbed` records what the code does not cope with: an own block skipped by a reconnection at the tip
(`outage`), stored by the sync before the tail sees it (`overtaken`), in an abandoned handler (`abandoned`) or
in one whose fence was raised under it (`raised`); a reconnection between `historicalSyncDone` and the raised
fence (`early`); an own block on a new fork at or below the slot of a dropped one (`contested`); a replay across an
epoch boundary, which resets the count (`boundary`); a count from Koios that is ahead of the tail (`ahead`);
a rollback that deletes nothing but drops a counted block (`unstored`); a switch before the tail has
resumed, after which the oldest of the last blocks may be unknown to the node for good (`forked`); an overlap
that does not reach back to the blocks the tail has passed before the sync ended, so that they are
never stored (`gap`). Four are failing calls, which the code only logs: `GetLastSyncedSlot` before a connection, so
that the fence is not raised (`unfenced`, main.go:838); `GetLastNBlocks`, so that a resumption takes the tip
(`skipped`, main.go:868); `DeleteBlocksAfterSlot`, after which the forked blocks and the old count stay
(`undeleted`, main.go:1001), with no rewind; `GetPoolBlocks`, after which the count of the left epoch or fork stays
(`uncounted`, main.go:1029). Each property names those it does not survive. Inserts do not fail and the process does
not stop: the fence is in memory only.

`LiveTailProofs` proves for every set of blocks, every overlap and any number of failures, of pipelines and of these
calls, and switches:

- `NoTailGapAlways`, from `TailInv`: a resumed pipeline has stored exactly the chain between the point it
  resumed from and its position, but for the block in hand, and up to the rollback that is still to come;
- `AnnouncedOnceAlways`, from `AnnouncementInv`: a block of the pool that is still to be announced lies
  beyond everything the fence can be raised to (the cursor, the last block seen, the last one stored), one that
  was announced lies behind the fence whenever a pipeline can deliver it again.

- `CountFollowsChainAlways`, from `CountInv`: the count is the number of the pool's blocks of its epoch that are
  on the chain and have been announced, and no announced block lies in a later epoch than the count's; or a
  rollback is to come that will find a stored block to delete, and with it a block of the pool has been dropped or
  the epoch may go back. Only then is the count taken from Koios anew (`main.go:1016`), so the proof must show that
  nothing counted is dropped by a rollback that deletes nothing: a resumed pipeline has stored all of the chain
  up to its position (`NothingMissing`).

All are promised under the same history conditions as the run's properties. The attempt at the last one found
that it needs another: with seven slots, an overlap of three and three switches, a rollback to a block in a
`gap` and a second one out of it delete nothing, the tail stays in the later epoch, and the next block, of
the earlier one, resets the count. `EpochOf` is assumed monotone. Liveness is model-checked only.

## 9. Schedules of past and present epochs

**EpochSlots** holds the arithmetic with the constants of the code, **LeaderSchedule** the loop of
`CalculateLeaderSchedule`: a step finds the next leader slot, so epochs have their real length. **LeaderlogHistory**
models `backfillSchedules` and `buildLeaderlogHistory` call by call, every request with its retries,
`/leaderlog` next to them, stops and up to two starts. A schedule is known by what went into it:
the right nonce and stake, a wrong nonce, or the stake of an adjacent epoch.

Run `leaderlog` checks both modules. The loop runs over the epochs at the era boundaries of the networks and
offsets at the
boundaries of an epoch and its windows.

- `EpochsPartitionSlots`: `SlotToEpoch` inverts `GetEpochStartSlot`, time does not jump at the
  Byron/Shelley boundary, the candidate freezes within the epoch.
- `AssignedInEpoch`: an assigned slot lies in its epoch by each of the program's four ways to tell.
- `NumberedInOrder`: slots are numbered from 1 in the order of their times.
- `ClassifiedRight`: an epoch marked as classified, and so skipped by every later start, has the outcomes that are
  true of its schedule.
- `JobEnds` (liveness): the job ends, and once it is at an epoch it comes past this and every later one, whatever
  failed on the way. Fairness: its goroutine runs while the process does.

`LeaderlogProofs` proves the arithmetic for every network, epoch and slot (`SlotToEpochInverts`,
`EverySlotHasItsEpoch`, `ClockAgreesWithSlots`, `EpochsPartition`), and `AssignedSlotsInEpoch` and
`ScheduleIsNumbered` for every epoch and every choice of leader slots, from the loop's invariant
`ScheduleInv`: assigned slots ascend, lie below the loop's slot and carry their number, offset and time.
It proves `ClassifiedRightAlways` for any number of epochs, slots and
starts, from `HistoryInv`: for every epoch that no failed read and no replaced schedule has put in doubt, the
outcomes stored so far are true of its schedule, all of them are stored once it is marked or about to be, and the
schedule and forged slots the job works with are the stored ones.

Of the history `leaderlog` checks two epochs to classify over two starts. The last one varies in everything and has a
slot to classify; the one before has the right nonce and no slot, unless it is scheduled by the stake of an adjacent
epoch. What is stored of one epoch does not depend on another. The clean-up of epochs before the first to
classify (`DeleteOutcomes`, `Unmark`) has nothing to remove there; the proof covers it.

Not promised: `ClassifiedRight` excepts an epoch of which a read, a request or `InsertLeaderSchedule` failed
(main.go:2189: a failed request for forged slots counts as none forged; main.go:2210: a failed
`HasBlockAtSlot` as no block) and one whose schedule was replaced, which keeps its mark and old outcomes.
On a network that is none of the three named, `calcCurrentEpoch` counts from 208 and `SlotToEpoch` from 0; on
preview the history starts at the mainnet epoch 365. Performance figures are left out.

## 10. Not modelled

- VRF, threshold, KES and key files (`leaderlog.go`, `securekey.go`): cryptography and big numbers; what it
  decides is nondeterministic in LeaderSchedule.
- WebSocket hub, node queries, message texts, tweets and pictures: I/O without state another part reads.
- Commands and CLI beyond what they write: they run functions modelled above. The CLI's `history` command is the
  history job with other arguments in a process of its own.
- Connection set-up, migrations and read-only queries of the stores.
- Failures of single calls a module lists as assumed not to fail.
