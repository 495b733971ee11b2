------------------------------ MODULE LiveTail ------------------------------
(***************************************************************************)
(* The live tail in full mode (main.go): a supervisor keeps one pipeline   *)
(* connected to the node, the pipeline calls handleEvent for every block   *)
(* and rollback, and the goroutine of runChainTail brings the historical   *)
(* sync to its end and hands over.  Reconnections replay blocks the tail   *)
(* has handled before; the replay fence keeps it from announcing the       *)
(* pool's own blocks, and counting them, a second time.                    *)
(*                                                                         *)
(* The historical sync is reduced to what the hand-over needs              *)
(* (SyncPipeline has its inside), the nonce tracker to the block it stores *)
(* or the blocks it deletes (see NonceTracker).                            *)
(***************************************************************************)
EXTENDS Integers, FiniteSets

CONSTANTS
  Block,       \* the blocks that may be minted, records with a slot
  Root,        \* the tip when the tail first connects
  Own,         \* the blocks minted by this pool
  EpochOf,     \* SlotToEpoch on Slot
  Overlap,     \* blocks replayed after a restart (100 in the code)
  Window,      \* slots from the tip at which the historical sync ends (120)
  MaxFailures, \* bound on pipeline errors, stalls and failing calls
  MaxSwitches  \* bound on fork switches

Slot == {b.slot : b \in Block}

ASSUME TailAssumption ==
  /\ \A b \in Block : b.slot \in Nat \ {0}
  /\ Root \in Block
  /\ Own \subseteq Block
  /\ EpochOf \in [Slot -> Nat]
  /\ \A s, t \in Slot : s <= t => EpochOf[s] <= EpochOf[t]
  /\ Overlap \in Nat \ {0}
  /\ Window \in Nat
  /\ MaxFailures \in Nat /\ MaxSwitches \in Nat

NoRollback == -1

(* What the announcements, the count or the replay do not cope with.       *)
Disturbances ==
  { "outage",     \* a reconnection at the tip skips a block of the pool
    "overtaken",  \* the historical sync stores a block before the tail sees it
    "abandoned",  \* a pipeline is left behind in the middle of a block
    "raised",     \* the fence is raised between the two halves of a handler
    "early",      \* a reconnection from the DB before the fence is raised
    "contested",  \* a fork has a block of the pool where another was dropped
    "boundary",   \* a replay starts in an earlier epoch than it ends
    "ahead",      \* Koios counts a block that the tail has yet to see
    "unstored",   \* the node drops a block of the pool that is seen, not stored
    "gap",        \* the overlap does not reach what the tail passed before
    "forked",     \* the node switches before the tail has resumed from the DB
    "unfenced",   \* GetLastSyncedSlot fails: the fence is not raised
    "skipped",    \* GetLastNBlocks fails: a resumption at the tip instead
    "undeleted",  \* DeleteBlocksAfterSlot fails: the forked blocks stay
    "uncounted" } \* GetPoolBlocks fails: the count of another epoch or fork

VARIABLES
  chain,          \* the node's chain
  dropped,        \* history: the blocks it has switched away from
  \* the goroutine of runChainTail
  main, synced,
  done,           \* historicalSyncDone
  \* the supervisor
  sup,            \* from the first connection on (firstStart is FALSE)
  restart,        \* a signal waits in liveTailRestart
  \* the connected pipeline
  cursor,         \* the slot of its last event
  rollback,       \* the rollback event to come, or NoRollback
  resumed,        \* the slot it was resumed at from the DB, or NoRollback
  handler,        \* handleEvent in the current and in an abandoned pipeline
  \* shared
  fence,          \* replayFenceSlot
  seen,           \* liveTailSlot
  stored,         \* the blocks table
  epoch, epochBlocks,
  \* history
  announced,      \* how often each block of the pool has been announced
  failures, switches, disturbed

node     == <<chain, dropped>>
runChain == <<main, synced, done>>
pipeline == <<cursor, rollback, resumed, handler>>
counter  == <<epoch, epochBlocks>>
history  == <<announced, failures, switches>>
vars     == <<node, runChain, sup, restart, pipeline, fence, seen, stored,
              counter, history, disturbed>>

----------------------------------------------------------------------------
LastSlot(T) == IF T = {} THEN 0 ELSE (CHOOSE b \in T : \A c \in T : c.slot <= b.slot).slot

Tip == LastSlot(chain)

Prefix(T, p) == {b \in T : b.slot <= p}

AtMost(a, b) == IF a < b THEN a ELSE b

AtLeast(a, b) == IF a < b THEN b ELSE a

EpochAt(s) == IF s = 0 THEN 0 ELSE EpochOf[s]

OwnIn(T, e) == {b \in T \cap Own : EpochOf[b.slot] = e}

LastNBlocks == {b \in stored : Cardinality({c \in stored : c.slot > b.slot}) < Overlap}

(* adderIntersectFromDB: the oldest of the last Overlap blocks.            *)
IntersectFromDB ==
  CHOOSE b \in LastNBlocks : \A c \in LastNBlocks : b.slot <= c.slot

Disturb(D) == disturbed' = disturbed \cup D

(* A call fails, which is only logged.                                     *)
Fails(D) ==
  /\ failures < MaxFailures
  /\ failures' = failures + 1
  /\ UNCHANGED <<announced, switches>>
  /\ Disturb(D)

If(cond, d) == IF cond THEN {d} ELSE {}

Idle == [pc |-> "idle"]

Next1(p) == {b \in chain : b.slot > p /\ \A c \in chain : c.slot > p => b.slot <= c.slot}

(* The tail has connected at the tip; the historical sync is behind it.    *)
Init ==
  /\ chain = {Root}
  /\ dropped = {}
  /\ main = "sync" /\ synced = 0 /\ done = FALSE
  /\ sup = "wait" /\ restart = FALSE
  /\ cursor = Tip /\ rollback = NoRollback /\ resumed = NoRollback
  /\ handler = [h \in {"current", "abandoned"} |-> Idle]
  /\ fence = 0 /\ seen = 0 /\ stored = {}
  /\ epoch = EpochAt(Tip) /\ epochBlocks = Cardinality(OwnIn(chain, epoch))
  /\ announced = [b \in Own |-> 0]
  /\ failures = 0 /\ switches = 0 /\ disturbed = {}

----------------------------------------------------------------------------
(* The node.                                                               *)

Contested(b, D) == b \in Own /\ \E c \in D : c.slot >= b.slot

NodeExtends(b) ==
  /\ b.slot > Tip
  /\ chain' = chain \cup {b}
  /\ Disturb(If(Contested(b, dropped), "contested"))
  /\ UNCHANGED <<dropped, runChain, sup, restart, pipeline, fence, seen, stored,
                 counter, history>>

(* The node switches to a fork that is shorter than the overlap.           *)
NodeSwitches(p, b) ==
  LET lost == chain \ Prefix(chain, p)
  IN /\ switches < MaxSwitches
     /\ switches' = switches + 1
     /\ \E c \in chain : c.slot = p
     /\ lost # {} /\ Cardinality(lost) < Overlap
     /\ b.slot > p /\ b \notin chain
     /\ chain' = Prefix(chain, p) \cup {b}
     /\ dropped' = dropped \cup lost
     /\ rollback' = IF sup = "wait" /\ p < cursor
                    THEN IF rollback = NoRollback THEN p ELSE AtMost(p, rollback)
                    ELSE rollback
     /\ synced' = AtMost(synced, p)
     /\ Disturb(If(Contested(b, dropped'), "contested")
                  \cup If(\E c \in lost \cap Own : c.slot <= seen /\ c \notin stored, "unstored")
                  \cup If(resumed = NoRollback, "forked"))
     /\ UNCHANGED <<main, done, sup, restart, cursor, resumed, handler, fence, seen,
                    stored, counter, announced, failures>>

----------------------------------------------------------------------------
(* The end of the historical sync (runChainTail), which stores what comes  *)
(* next on the chain until it is within Window of the tip.                 *)

SyncStores(b) ==
  /\ main = "sync"
  /\ b \in Next1(synced)
  /\ synced' = b.slot
  /\ stored' = IF \E c \in stored : c.slot = b.slot THEN stored ELSE stored \cup {b}
  /\ Disturb(If(b.slot > cursor, "overtaken"))
  /\ UNCHANGED <<node, main, done, sup, restart, pipeline, fence, seen, counter, history>>

HistoricalSyncDone ==
  /\ main = "sync"
  /\ synced > 0 /\ synced + Window >= Tip
  /\ main' = "fence"
  /\ done' = TRUE
  /\ UNCHANGED <<node, synced, sup, restart, pipeline, fence, seen, stored, counter,
                 history, disturbed>>

RestartOnly ==   \* leaves the fence alone
  /\ main = "fence"
  /\ main' = "done"
  /\ restart' = TRUE
  /\ UNCHANGED <<node, synced, done, sup, pipeline, fence, seen, stored, counter,
                 history, disturbed>>

RestartIfWaiting ==   \* the signal is not buffered
  /\ main = "fence"
  /\ main' = "done"
  /\ fence' = AtLeast(fence, seen)
  /\ restart' = (sup = "wait")
  /\ UNCHANGED <<node, synced, done, sup, pipeline, seen, stored, counter, history, disturbed>>

(* restartLiveTailFromDB: raise the fence, signal the supervisor.          *)
RestartLiveTailFromDB ==
  /\ main = "fence"
  /\ main' = "done"
  /\ fence' = AtLeast(fence, seen)
  /\ restart' = TRUE
  /\ Disturb(If(handler["current"] # Idle, "raised"))
  /\ UNCHANGED <<node, synced, done, sup, pipeline, seen, stored, counter, history>>

----------------------------------------------------------------------------
(* startAdderPipeline: the supervisor's loop.                              *)

(* startPipelineFunc, first part: raise the fence to the last stored slot, *)
(* if it can be read; intersect at the tip, or from the DB once the        *)
(* historical sync is done.                                                *)
RaiseFence ==
  /\ sup = "start"
  /\ sup' = IF done /\ stored # {} THEN "connectFromDB" ELSE "connectAtTip"
  /\ \/ fence' = AtLeast(fence, LastSlot(stored)) /\ UNCHANGED <<history, disturbed>>
     \/ fence' = fence /\ Fails({"unfenced"})
  /\ UNCHANGED <<node, runChain, restart, pipeline, seen, stored, counter>>

(* The node first announces the intersection as a rollback.                *)
Intersect(p) ==
  /\ cursor' = p
  /\ rollback' = p
  /\ sup' = "wait"

(* Also when adderIntersectFromDB cannot read the table.                   *)
ConnectAtTip ==
  LET outage == If(\E b \in Own \cap chain : b.slot > cursor, "outage")
  IN /\ \/ sup = "connectAtTip" /\ Disturb(outage) /\ UNCHANGED history
        \/ sup = "connectFromDB" /\ Fails(outage \cup {"skipped"})
     /\ Intersect(Tip)
     /\ resumed' = NoRollback
     /\ UNCHANGED <<node, runChain, restart, handler, fence, seen, stored, counter>>

(* Overlap blocks behind the last stored block, when the node has that     *)
(* block; otherwise the pipeline does not start and is retried.            *)
ConnectFromDB ==
  /\ sup = "connectFromDB"
  /\ stored # {} /\ IntersectFromDB \in chain
  /\ Intersect(IntersectFromDB.slot)
  /\ resumed' = IntersectFromDB.slot
  /\ Disturb(If(main = "fence", "early")
               \cup If(\E c \in chain : c.slot < IntersectFromDB.slot /\ c \notin stored, "gap")
               \cup If(EpochAt(IntersectFromDB.slot) < EpochAt(AtLeast(fence, seen)), "boundary"))
  /\ UNCHANGED <<node, runChain, restart, handler, fence, seen, stored, counter, history>>

(* pipeline.Stop lets the handler finish, for five seconds at most; the    *)
(* supervisor then leaves the pipeline behind.                             *)
StopPipeline ==
  /\ sup = "wait"
  /\ sup' = "start"
  /\ rollback' = NoRollback
  /\ \/ /\ handler["current"] = Idle
        /\ UNCHANGED <<handler, disturbed>>
     \/ /\ handler["current"] # Idle /\ handler["abandoned"] = Idle
        /\ handler' = [current |-> Idle, abandoned |-> handler["current"]]
        /\ Disturb({"abandoned"})
  /\ UNCHANGED <<node, runChain, cursor, resumed, fence, seen, stored, counter, announced>>

(* An error of the pipeline, or two minutes without a block.               *)
PipelineFails ==
  /\ failures < MaxFailures
  /\ failures' = failures + 1
  /\ StopPipeline
  /\ UNCHANGED <<restart, switches>>

RestartRequested ==
  /\ restart
  /\ restart' = FALSE
  /\ StopPipeline
  /\ UNCHANGED <<failures, switches>>

----------------------------------------------------------------------------
(* handleEvent.                                                            *)

Ready == sup = "wait" /\ handler["current"] = Idle

KeepForked ==   \* resynchronises the count, deletes nothing
  /\ Ready /\ rollback # NoRollback
  /\ cursor' = rollback
  /\ rollback' = NoRollback
  /\ IF Prefix(stored, cursor') # stored
     THEN /\ epoch' = EpochAt(cursor')
          /\ epochBlocks' = Cardinality(OwnIn(chain, epoch'))
     ELSE UNCHANGED counter
  /\ UNCHANGED <<node, runChain, sup, restart, resumed, handler, fence, seen, stored,
                 history, disturbed>>

CountUnchanged ==   \* no resynchronisation with Koios
  /\ Ready /\ rollback # NoRollback
  /\ cursor' = rollback
  /\ rollback' = NoRollback
  /\ stored' = Prefix(stored, cursor')
  /\ UNCHANGED <<node, runChain, sup, restart, resumed, handler, fence, seen, counter,
                 history, disturbed>>

(* The rollback branch: delete the blocks after the slot; if there were    *)
(* any, enter its epoch and take the count of its blocks from Koios.  When *)
(* the deletion fails, nothing follows; when Koios does, the count stays.  *)
HandleRollback ==
  LET p == rollback
      kept == Prefix(stored, p)
      ahead == {b \in OwnIn(chain, EpochAt(p)) : b.slot > AtLeast(p, fence)}
  IN /\ Ready /\ p # NoRollback
     /\ cursor' = p
     /\ rollback' = NoRollback
     /\ \/ /\ kept # stored /\ stored' = kept
           /\ epoch' = EpochAt(p)
           /\ \/ /\ epochBlocks' = Cardinality(OwnIn(chain, epoch'))
                 /\ Disturb(If(ahead # {}, "ahead")) /\ UNCHANGED history
              \/ UNCHANGED epochBlocks /\ Fails({"uncounted"})
        \/ /\ kept = stored
           /\ UNCHANGED <<stored, counter, history, disturbed>>
        \/ /\ kept # stored
           /\ UNCHANGED <<stored, counter>> /\ Fails({"undeleted"})
     /\ UNCHANGED <<node, runChain, sup, restart, resumed, handler, fence, seen>>

(* Nothing is left to do for a block of another pool.                      *)
ToMint(b) == IF b \in Own THEN [pc |-> "mint", block |-> b] ELSE Idle

(* A block: note its slot, enter its epoch, look whether the historical    *)
(* sync is done.                                                           *)
HandleBlock(b) ==
  /\ Ready /\ rollback = NoRollback
  /\ b \in Next1(cursor)
  /\ cursor' = b.slot
  /\ seen' = AtLeast(seen, b.slot)
  /\ IF EpochOf[b.slot] # epoch
     THEN epoch' = EpochOf[b.slot] /\ epochBlocks' = 0
     ELSE UNCHANGED counter
  /\ handler' = [handler EXCEPT !["current"] =
                   IF done THEN [pc |-> "store", block |-> b] ELSE ToMint(b)]
  /\ UNCHANGED <<node, runChain, sup, restart, rollback, resumed, fence, stored,
                 history, disturbed>>

At(h, pc) == handler[h] # Idle /\ handler[h].pc = pc

(* ProcessBlock, as far as the blocks table goes.                          *)
ProcessBlock(h) ==
  LET b == handler[h].block
  IN /\ At(h, "store")
     /\ stored' = IF \E c \in stored : c.slot = b.slot THEN stored ELSE stored \cup {b}
     /\ handler' = [handler EXCEPT ![h] = ToMint(b)]
     /\ UNCHANGED <<node, runChain, sup, restart, cursor, rollback, resumed, fence, seen,
                    counter, history, disturbed>>

(* A block of the pool beyond the fence is counted and announced.          *)
Mint(h) ==
  LET b == handler[h].block
      new == fence = 0 \/ b.slot > fence
  IN /\ At(h, "mint")
     /\ handler' = [handler EXCEPT ![h] = Idle]
     /\ announced' = IF new THEN [announced EXCEPT ![b] = @ + 1] ELSE announced
     /\ epochBlocks' = IF new THEN epochBlocks + 1 ELSE epochBlocks
     /\ UNCHANGED <<node, runChain, sup, restart, cursor, rollback, resumed, fence, seen,
                    stored, epoch, failures, switches, disturbed>>

----------------------------------------------------------------------------
SyncStep ==
  \/ \E b \in Block : SyncStores(b)
  \/ HistoricalSyncDone
  \/ RestartLiveTailFromDB

SupervisorStep ==
  RaiseFence \/ ConnectAtTip \/ ConnectFromDB \/ RestartRequested

EventStep == HandleRollback \/ \E b \in Block : HandleBlock(b)

HandlerStep(h) == ProcessBlock(h) \/ Mint(h)

Next ==
  \/ \E b \in Block : NodeExtends(b)
  \/ \E p \in Slot, b \in Block : NodeSwitches(p, b)
  \/ PipelineFails
  \/ SyncStep
  \/ SupervisorStep
  \/ EventStep
  \/ \E h \in DOMAIN handler : HandlerStep(h)

Spec == Init /\ [][Next]_vars

(* The goroutines run and the node answers; blocks, forks and errors may   *)
(* come or not.                                                            *)
Fairness ==
  /\ WF_vars(SyncStep)
  /\ WF_vars(SupervisorStep)
  /\ WF_vars(EventStep)
  /\ \A h \in {"current", "abandoned"} : WF_vars(HandlerStep(h))

FairSpec == Spec /\ Fairness

----------------------------------------------------------------------------
(* Properties.                                                             *)

AtRest == Ready /\ rollback = NoRollback

Undisturbed(D) == disturbed \cap D = {}

AnnouncementHazards ==
  {"outage", "overtaken", "abandoned", "raised", "early", "contested", "unfenced"}

(* "Any block already in the DB was already counted and notified"          *)
(* (main.go:832): however often the pipeline fails, is replayed from the   *)
(* DB or handed over, a block of the pool that the tail has passed has     *)
(* been announced exactly once, and a replayed one not again.              *)
AnnouncedOnce ==
  Undisturbed(AnnouncementHazards) =>
    \A b \in Own :
      /\ announced[b] <= 1
      /\ AtRest /\ b \in chain /\ b.slot \in Root.slot + 1..cursor => announced[b] = 1

(* The count shown in a notification is that of the pool's blocks of the   *)
(* epoch: neither the replay after a reconnection nor a rollback that drops*)
(* one makes it drift (handleEvent, main.go:1016-1022 and 1136), as long as*)
(* nothing it does not cope with has happened: see Disturbances.           *)
CountFollowsChain ==
  AtRest /\ disturbed = {} =>
    epochBlocks = Cardinality(OwnIn(Prefix(chain, AtLeast(cursor, fence)), epoch))

(* "Replays any blocks missed during a restart instead of skipping ahead to*)
(* the tip and leaving permanent gaps" (main.go:790): a pipeline resumed   *)
(* from the DB has stored all blocks of the chain it has passed, the ones  *)
(* between the historical sync's last block and the tip included, and no   *)
(* forked one, unless handleEvent was abandoned or could not delete it.    *)
NoTailGap ==
  AtRest /\ resumed # NoRollback /\ Undisturbed({"abandoned", "undeleted"}) =>
    {b \in stored : b.slot \in resumed..cursor} = {b \in chain : b.slot \in resumed..cursor}

(* After the hand-over every block of the chain is stored in the end: the  *)
(* restart request is not lost while the supervisor is busy reconnecting   *)
(* (liveTailRestart's buffer), and the tail is not stuck.  A block that the*)
(* tail passed before the hand-over stays out if the overlap does not reach*)
(* it ("gap"), as do those that a resumption at the tip skips.             *)
TailStoresAll ==
  <>[](Undisturbed({"forked", "abandoned", "gap", "skipped", "undeleted"})
         => chain \subseteq stored)
=============================================================================
