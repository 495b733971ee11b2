--------------------------- MODULE LiveTailProofs ---------------------------
(***************************************************************************)
(* The live tail (LiveTail): the inductive invariants behind NoTailGap,    *)
(* AnnouncedOnce and CountFollowsChain, for every set of blocks, every     *)
(* overlap and any number of fork switches, failures and reconnections.    *)
(***************************************************************************)
EXTENDS LiveTail, WellFoundedInduction, FiniteSetTheorems, TLAPS

Handled == [pc : {"store", "mint"}, block : Block]

TailType ==
  /\ chain \in SUBSET Block /\ chain # {}
  /\ stored \in SUBSET Block
  /\ main \in {"sync", "fence", "done"}
  /\ done \in BOOLEAN
  /\ sup \in {"start", "connectAtTip", "connectFromDB", "wait"}
  /\ cursor \in Nat
  /\ rollback \in Nat \cup {NoRollback}
  /\ resumed \in Nat \cup {NoRollback}
  /\ handler \in [{"current", "abandoned"} -> Handled \cup {Idle}]
  /\ fence \in Nat /\ seen \in Nat /\ synced \in Nat

OnePerSlot(T) == \A b, c \in T : b.slot = c.slot => b = c

Bounded(T) == \E n \in Nat : \A c \in T : c.slot <= n

(* As far as the pipeline's position on the chain is certain.              *)
Upto == IF rollback = NoRollback THEN cursor ELSE rollback

(* The node's chain and the pipeline that follows it.                      *)
ChainInv ==
  /\ OnePerSlot(chain) /\ OnePerSlot(stored)
  /\ Bounded(chain) /\ Bounded(stored)
  /\ sup = "wait" => Upto <= Tip
  /\ rollback # NoRollback => sup = "wait" /\ rollback <= cursor
  /\ handler["current"] # Idle =>
       /\ sup = "wait"
       /\ handler["current"].block.slot = cursor
       /\ rollback # NoRollback => rollback < cursor
  /\ "abandoned" \notin disturbed => handler["abandoned"] = Idle

(* A pipeline is resumed from the DB only after the historical sync.       *)
HandedOver ==
  /\ done <=> (main # "sync")
  /\ resumed # NoRollback \/ sup = "connectFromDB" => done

ToStore(c) == handler["current"].pc = "store" /\ handler["current"].block = c

(* A resumed pipeline has stored what it has passed, but for the block it  *)
(* has in hand, and nothing beyond unless a rollback is to come.           *)
Stores ==
  /\ rollback = NoRollback =>
       \A c \in stored : c.slot <= cursor /\ (handler["current"].pc = "store" => c.slot < cursor)
  /\ \A c \in Block : c.slot \in resumed..Upto =>
       ((c \in chain) <=> (c \in stored \/ (rollback = NoRollback /\ ToStore(c))))

StoresWhatItPasses ==
  sup = "wait" /\ resumed # NoRollback /\ Undisturbed({"abandoned", "undeleted"}) => Stores

TailInv == TailType /\ ChainInv /\ HandedOver /\ StoresWhatItPasses

----------------------------------------------------------------------------
(* Sets of blocks.                                                         *)

LEMMA SlotNat == \A b \in Block : b.slot \in Nat /\ b.slot > 0
BY TailAssumption

(* Every set of natural numbers that is not empty has a smallest element.  *)
LEMMA SmallestOf ==
  ASSUME NEW S \in SUBSET Nat, S # {}
  PROVE  \E m \in S : \A n \in S : m <= n
<1> DEFINE Less == {ss \in Nat \X Nat : ss[1] < ss[2]}
<1>1. IsWellFoundedOn(Less, Nat)
  BY NatLessThanWellFounded DEF OpToRel
<1>2. PICK m \in S : \A n \in S : ~ (<<n, m>> \in Less)
  BY <1>1, WFMin
<1>3. ASSUME NEW n \in S PROVE m <= n
  <2>1. m \in Nat /\ n \in Nat
    OBVIOUS
  <2>2. ~ (n < m)
    BY <1>2, <2>1
  <2> QED  BY <2>1, <2>2
<1> QED  BY <1>3

(* A set of blocks that is not empty has a first one.                      *)
LEMMA FirstBlock ==
  ASSUME NEW T \in SUBSET Block, T # {}
  PROVE  \E b \in T : \A c \in T : b.slot <= c.slot
<1> DEFINE S == {b.slot : b \in T}
<1>1. S \in SUBSET Nat /\ S # {}
  BY SlotNat
<1>2. PICK m \in S : \A n \in S : m <= n
  BY <1>1, SmallestOf
<1> QED  BY <1>2

(* If its slots are bounded it has a last one as well.                     *)
LEMMA LastBlock ==
  ASSUME NEW T \in SUBSET Block, T # {}, Bounded(T)
  PROVE  \E b \in T : \A c \in T : c.slot <= b.slot
<1> DEFINE S == {n \in Nat : \A c \in T : c.slot <= n}
<1>1. S \in SUBSET Nat /\ S # {}
  BY DEF Bounded
<1>2. PICK m \in S : \A n \in S : m <= n
  BY <1>1, SmallestOf
<1>3. SUFFICES ASSUME \A b \in T : b.slot # m PROVE FALSE
  BY <1>2
<1>4. PICK d \in T : TRUE
  OBVIOUS
<1>5. \A c \in T : c.slot \in Nat /\ c.slot > 0 /\ c.slot <= m /\ c.slot # m
  BY <1>2, <1>3, SlotNat
<1>6. m - 1 \in Nat
  BY <1>2, <1>4, <1>5
<1>7. \A c \in T : c.slot <= m - 1
  BY <1>2, <1>5
<1>8. m - 1 \in S
  BY <1>6, <1>7
<1>9. m <= m - 1
  BY <1>2, <1>8
<1> QED  BY <1>2, <1>9

(* The tip is the slot of the last block of the chain.                     *)
LEMMA LastSlotOf ==
  ASSUME NEW T \in SUBSET Block, Bounded(T)
  PROVE  /\ LastSlot(T) \in Nat
         /\ T # {} => \E b \in T : LastSlot(T) = b.slot
         /\ \A c \in T : c.slot <= LastSlot(T)
<1>1. CASE T = {}
  BY <1>1 DEF LastSlot
<1>2. CASE T # {}
  <2> DEFINE b == CHOOSE b \in T : \A c \in T : c.slot <= b.slot
  <2>1. b \in T /\ \A c \in T : c.slot <= b.slot
    BY <1>2, LastBlock
  <2>2. LastSlot(T) = b.slot
    BY <1>2 DEF LastSlot
  <2> HIDE DEF b
  <2> QED  BY <2>1, <2>2, SlotNat
<1> QED  BY <1>1, <1>2

(* What the database intersects at is a stored block.                      *)
LEMMA IntersectionStored ==
  ASSUME stored \in SUBSET Block, stored # {}, Bounded(stored)
  PROVE  IntersectFromDB \in stored
<1>1. PICK b \in stored : \A c \in stored : c.slot <= b.slot
  BY LastBlock
<1>2. {c \in stored : c.slot > b.slot} = {}
  BY <1>1, SlotNat
<1>3. b \in LastNBlocks
  <2>1. Cardinality({c \in stored : c.slot > b.slot}) = 0
    BY <1>2, FS_EmptySet
  <2> QED  BY <2>1, TailAssumption DEF LastNBlocks
<1>4. LastNBlocks \in SUBSET Block /\ LastNBlocks # {}
  BY <1>3 DEF LastNBlocks
<1>5. \E d \in LastNBlocks : \A c \in LastNBlocks : d.slot <= c.slot
  BY <1>4, FirstBlock
<1>6. IntersectFromDB \in LastNBlocks
  BY <1>5 DEF IntersectFromDB
<1> QED  BY <1>6 DEF LastNBlocks

----------------------------------------------------------------------------
(* Types.                                                                  *)

LEMMA IdleIs == Idle \notin Handled /\ Idle.pc = "idle" /\ \A x \in Handled : x # Idle
BY DEF Idle, Handled

LEMMA ToMintType ==
  ASSUME NEW b \in Block
  PROVE  /\ ToMint(b) \in Handled \cup {Idle}
         /\ ToMint(b).pc # "store"
         /\ ToMint(b) # Idle => ToMint(b).block = b
BY DEF ToMint, Handled, Idle

LEMMA EffectOfAtMost ==
  ASSUME NEW a \in Nat, NEW b \in Nat
  PROVE  /\ AtMost(a, b) \in Nat /\ AtMost(a, b) <= a /\ AtMost(a, b) <= b
         /\ AtLeast(a, b) \in Nat /\ AtLeast(a, b) >= a /\ AtLeast(a, b) >= b
         /\ AtMost(a, b) \in {a, b} /\ AtLeast(a, b) \in {a, b}
BY DEF AtMost, AtLeast

LEMMA TipType ==
  ASSUME TailType, ChainInv
  PROVE  /\ Tip \in Nat /\ LastSlot(stored) \in Nat
         /\ \A c \in chain : c.slot <= Tip
         /\ \E b \in chain : Tip = b.slot
BY LastSlotOf DEF TailType, ChainInv, Tip

LEMMA InitTail == Init => TailInv
<1> SUFFICES ASSUME Init PROVE TailInv
  OBVIOUS
<1>1. Root \in Block /\ Root.slot \in Nat
  BY TailAssumption
<1>2. chain \in SUBSET Block /\ Bounded(chain) /\ chain # {} /\ OnePerSlot(chain)
  BY <1>1 DEF Init, Bounded, OnePerSlot
<1>3. Tip \in Nat
  BY <1>2, LastSlotOf DEF Tip
<1>4. TailType
  BY <1>2, <1>3 DEF Init, TailType, Idle
<1>5. ChainInv
  BY <1>2, <1>3 DEF Init, ChainInv, Upto, OnePerSlot, Bounded
<1>6. HandedOver /\ StoresWhatItPasses
  BY DEF Init, HandedOver, StoresWhatItPasses, NoRollback
<1> QED  BY <1>4, <1>5, <1>6 DEF TailInv

LEMMA TypeNext ==
  ASSUME TailType, ChainInv, [Next]_vars
  PROVE  TailType'
<1> USE DEF TailType, node, runChain, pipeline, counter, history, Fails
<1>1. ASSUME NEW b \in Block, NodeExtends(b) PROVE TailType'
  BY <1>1 DEF NodeExtends
<1>2. ASSUME NEW p \in Slot, NEW b \in Block, NodeSwitches(p, b) PROVE TailType'
  <2>1. p \in Nat
    BY SlotNat DEF Slot
  <2>2. rollback # NoRollback => AtMost(p, rollback) \in Nat
    BY <2>1, EffectOfAtMost
  <2>3. AtMost(synced, p) \in Nat
    BY <2>1, EffectOfAtMost
  <2> QED  BY <1>2, <2>1, <2>2, <2>3 DEF NodeSwitches, Prefix
<1>3. ASSUME NEW b \in Block, SyncStores(b) PROVE TailType'
  BY <1>3, SlotNat DEF SyncStores
<1>4. CASE HistoricalSyncDone
  BY <1>4 DEF HistoricalSyncDone
<1>5. CASE RestartLiveTailFromDB
  BY <1>5, EffectOfAtMost DEF RestartLiveTailFromDB
<1>6. CASE RaiseFence
  BY <1>6, TipType, EffectOfAtMost DEF RaiseFence
<1>7. CASE ConnectAtTip
  BY <1>7, TipType DEF ConnectAtTip, Intersect
<1>8. CASE ConnectFromDB
  BY <1>8, SlotNat DEF ConnectFromDB, Intersect
<1>9. CASE StopPipeline /\ UNCHANGED <<seen, main, done, synced>>
  <2>1. handler' \in [{"current", "abandoned"} -> Handled \cup {Idle}]
    <3>1. CASE UNCHANGED handler
      BY <3>1
    <3>2. CASE handler' = [current |-> Idle, abandoned |-> handler["current"]]
      BY <3>2
    <3> QED  BY <1>9, <3>1, <3>2 DEF StopPipeline
  <2> QED  BY <1>9, <2>1 DEF StopPipeline
<1>10. CASE HandleRollback
  BY <1>10 DEF HandleRollback, Ready, Prefix
<1>11. ASSUME NEW b \in Block, HandleBlock(b) PROVE TailType'
  <2>1. b.slot \in Nat /\ AtLeast(seen, b.slot) \in Nat
    BY SlotNat, EffectOfAtMost
  <2>2. [pc |-> "store", block |-> b] \in Handled
    BY DEF Handled
  <2> QED  BY <1>11, <2>1, <2>2, ToMintType DEF HandleBlock
<1>12. ASSUME NEW h \in DOMAIN handler, HandlerStep(h) PROVE TailType'
  <2>1. CASE ProcessBlock(h)
    <3>1. handler[h].block \in Block
      BY <2>1 DEF ProcessBlock, At, Handled
    <3> QED  BY <2>1, <3>1, ToMintType DEF ProcessBlock
  <2>2. CASE Mint(h)
    BY <2>2 DEF Mint
  <2> QED  BY <1>12, <2>1, <2>2 DEF HandlerStep
<1>13. CASE UNCHANGED vars
  BY <1>13 DEF vars
<1> QED
  BY <1>1, <1>2, <1>3, <1>4, <1>5, <1>6, <1>7, <1>8, <1>9, <1>10, <1>11, <1>12, <1>13
     DEF Next, SyncStep, SupervisorStep, EventStep, PipelineFails, RestartRequested, StopPipeline

----------------------------------------------------------------------------
(* The invariant.                                                          *)

(* The new chain and its tip after the node has moved on.                  *)
LEMMA ChainGrows ==
  ASSUME TailType, ChainInv, NEW b \in Block,
         \/ NodeExtends(b)
         \/ \E p \in Slot : NodeSwitches(p, b)
  PROVE  /\ OnePerSlot(chain') /\ Bounded(chain') /\ Tip' \in Nat
         /\ chain' \in SUBSET Block
         /\ b.slot <= Tip'
<1>1. \A c \in chain : c.slot <= Tip
  BY TipType
<1>2. chain' \in SUBSET Block /\ b \in chain'
  BY DEF NodeExtends, NodeSwitches, Prefix, TailType
<1>3. \A c \in chain' : c = b \/ (c \in chain /\ c.slot < b.slot)
  <2>1. CASE NodeExtends(b)
    BY <1>1, <2>1, TipType, SlotNat DEF NodeExtends, TailType
  <2>2. ASSUME NEW p \in Slot, NodeSwitches(p, b)
        PROVE  \A c \in chain' : c = b \/ (c \in chain /\ c.slot < b.slot)
    BY <2>2, SlotNat DEF NodeSwitches, Prefix, TailType, Slot
  <2> QED  BY <2>1, <2>2
<1>4. OnePerSlot(chain')
  BY <1>2, <1>3, SlotNat DEF OnePerSlot, ChainInv
<1>5. \A c \in chain' : c.slot <= b.slot
  BY <1>2, <1>3, SlotNat
<1>6. Bounded(chain')
  BY <1>5, SlotNat DEF Bounded
<1>7. LastSlot(chain') \in Nat /\ \A c \in chain' : c.slot <= LastSlot(chain')
  BY <1>2, <1>6, LastSlotOf
<1> QED  BY <1>2, <1>4, <1>6, <1>7 DEF Tip

(* Where a switch leaves the pipeline: no further than the fork.           *)
LEMMA SwitchKeeps ==
  ASSUME TailType, ChainInv, sup = "wait", NEW p \in Slot, NEW b \in Block, NodeSwitches(p, b)
  PROVE  /\ Upto' \in Nat /\ Upto' <= p /\ Upto' <= Upto /\ p < b.slot
         /\ Upto' \in {p, Upto}
         /\ rollback # NoRollback => rollback' # NoRollback
         /\ p < cursor => rollback' = Upto'
         /\ p >= cursor => rollback' = rollback
         /\ \A c \in Block : c.slot <= p => (c \in chain' <=> c \in chain)
<1>1. p \in Nat /\ b.slot \in Nat /\ p < b.slot /\ cursor' = cursor
  BY SlotNat DEF NodeSwitches, Slot
<1>2. \A c \in Block : c.slot <= p => (c \in chain' <=> c \in chain)
  BY <1>1, SlotNat DEF NodeSwitches, Prefix
<1>3. CASE p < cursor
  <2>1. rollback' = IF rollback = NoRollback THEN p ELSE AtMost(p, rollback)
    BY <1>3 DEF NodeSwitches
  <2>2. CASE rollback = NoRollback
    BY <1>1, <1>2, <1>3, <2>1, <2>2 DEF Upto, TailType, NoRollback
  <2>3. CASE rollback # NoRollback
    <3>1. rollback \in Nat
      BY <2>3 DEF TailType
    <3>2. rollback' = AtMost(p, rollback)
      BY <2>1, <2>3
    <3>3. /\ rollback' \in {p, rollback}
        /\ rollback' <= p /\ rollback' <= rollback /\ rollback' \in Nat
      BY <1>1, <3>1, <3>2, EffectOfAtMost
    <3>4. Upto' = rollback' /\ Upto = rollback
      BY <2>3, <3>3 DEF Upto, NoRollback
    <3> QED  BY <1>1, <1>2, <1>3, <2>3, <3>1, <3>3, <3>4 DEF NoRollback, TailType
  <2> QED  BY <2>2, <2>3
<1>4. CASE p >= cursor
  <2>1. rollback' = rollback
    BY <1>1, <1>4 DEF NodeSwitches, TailType
  <2>2. Upto' = Upto /\ Upto \in Nat /\ Upto <= cursor
    BY <1>1, <2>1 DEF Upto, TailType, ChainInv
  <2> QED  BY <1>1, <1>2, <1>4, <2>1, <2>2 DEF TailType
<1> QED  BY <1>1, <1>3, <1>4 DEF TailType

(* Storing a block whose slot is free.                                     *)
LEMMA StoreKeeps ==
  ASSUME stored \in SUBSET Block, OnePerSlot(stored), Bounded(stored), NEW b \in Block,
         stored' = IF \E c \in stored : c.slot = b.slot THEN stored ELSE stored \cup {b}
  PROVE  OnePerSlot(stored') /\ Bounded(stored')
<1>1. OnePerSlot(stored')
  BY DEF OnePerSlot
<1>2. PICK n \in Nat : \A c \in stored : c.slot <= n
  BY DEF Bounded
<1>3. n + b.slot \in Nat /\ \A c \in stored \cup {b} : c.slot <= n + b.slot
  BY <1>2, SlotNat
<1>4. Bounded(stored')
  BY <1>3 DEF Bounded
<1> QED  BY <1>1, <1>4

LEMMA ChainNext ==
  ASSUME TailType, TailType', ChainInv, [Next]_vars
  PROVE  ChainInv'
<1> USE DEF node, runChain, pipeline, counter, history, Fails
<1>1. ASSUME NEW b \in Block, NodeExtends(b) PROVE ChainInv'
  <2>1. OnePerSlot(chain') /\ Bounded(chain') /\ Tip' \in Nat /\ b.slot <= Tip' /\ Tip < b.slot
    BY <1>1, ChainGrows DEF NodeExtends
  <2>2. UNCHANGED <<stored, sup, cursor, rollback, handler, Upto>> /\ disturbed \subseteq disturbed'
    BY <1>1 DEF NodeExtends, Disturb, Upto
  <2>3. Upto \in Nat /\ b.slot \in Nat /\ Tip \in Nat
    BY SlotNat, TipType DEF Upto, TailType
  <2> QED  BY <2>1, <2>2, <2>3 DEF ChainInv
<1>2. ASSUME NEW p \in Slot, NEW b \in Block, NodeSwitches(p, b) PROVE ChainInv'
  <2>1. OnePerSlot(chain') /\ Bounded(chain') /\ Tip' \in Nat /\ b.slot <= Tip'
    BY <1>2, ChainGrows
  <2>2. UNCHANGED <<stored, sup, cursor, handler>> /\ disturbed \subseteq disturbed'
    BY <1>2 DEF NodeSwitches, Disturb
  <2>3. b.slot \in Nat /\ p \in Nat
    BY SlotNat DEF Slot
  <2>4. CASE sup # "wait"
    <3>1. rollback' = rollback
      BY <1>2, <2>4 DEF NodeSwitches
    <3> QED  BY <2>1, <2>2, <2>4, <3>1 DEF ChainInv
  <2>5. CASE sup = "wait"
    <3>1. /\ Upto' \in Nat /\ Upto' <= p /\ Upto' <= Upto /\ p < b.slot
          /\ p < cursor => rollback' = Upto'
          /\ p >= cursor => rollback' = rollback
      BY <1>2, <2>5, SwitchKeeps
    <3>2. Upto' <= Tip'
      BY <2>1, <2>3, <3>1
    <3>3. rollback' # NoRollback =>
            /\ rollback' <= cursor
            /\ handler["current"] # Idle => rollback' < cursor
      BY <2>3, <3>1 DEF ChainInv, TailType
    <3> QED  BY <2>1, <2>2, <2>5, <3>2, <3>3 DEF ChainInv
  <2> QED  BY <2>4, <2>5
<1>3. ASSUME NEW b \in Block, SyncStores(b) PROVE ChainInv'
  <2>1. OnePerSlot(stored') /\ Bounded(stored')
    BY <1>3, StoreKeeps DEF SyncStores, TailType, ChainInv
  <2>2. UNCHANGED <<chain, sup, cursor, rollback, handler, Upto, Tip>>
        /\ disturbed \subseteq disturbed'
    BY <1>3 DEF SyncStores, Disturb, Upto, Tip
  <2> QED  BY <2>1, <2>2 DEF ChainInv
<1>4. CASE HistoricalSyncDone \/ RestartLiveTailFromDB \/ UNCHANGED vars
  <2>1. UNCHANGED <<chain, stored, sup, cursor, rollback, handler, Upto, Tip>>
        /\ disturbed \subseteq disturbed'
    BY <1>4 DEF HistoricalSyncDone, RestartLiveTailFromDB, Disturb, Upto, Tip, vars
  <2> QED  BY <2>1 DEF ChainInv
<1>5. CASE RaiseFence
  <2>1. /\ UNCHANGED <<chain, stored, cursor, rollback, handler>> /\ disturbed \subseteq disturbed'
        /\ sup = "start" /\ sup' # "wait"
    BY <1>5 DEF RaiseFence, Disturb
  <2> QED  BY <2>1 DEF ChainInv
<1>6. CASE ConnectAtTip
  <2>1. /\ UNCHANGED <<chain, stored, handler, Tip>> /\ disturbed \subseteq disturbed'
        /\ cursor' = Tip /\ rollback' = Tip /\ sup' = "wait" /\ sup # "wait"
    BY <1>6 DEF ConnectAtTip, Intersect, Disturb, Tip
  <2> QED  BY <2>1, TipType DEF ChainInv, Upto
<1>7. CASE ConnectFromDB
  <2>1. /\ UNCHANGED <<chain, stored, handler, Tip>> /\ disturbed \subseteq disturbed'
        /\ cursor' = IntersectFromDB.slot /\ rollback' = IntersectFromDB.slot
        /\ sup' = "wait" /\ sup # "wait"
        /\ IntersectFromDB \in chain
    BY <1>7 DEF ConnectFromDB, Intersect, Disturb, Tip
  <2>2. IntersectFromDB.slot <= Tip /\ IntersectFromDB.slot \in Nat
    BY <2>1, TipType, SlotNat DEF TailType
  <2> QED  BY <2>1, <2>2 DEF ChainInv, Upto
<1>8. CASE StopPipeline /\ UNCHANGED chain
  <2>1. /\ UNCHANGED <<chain, stored, cursor>>
        /\ rollback' = NoRollback /\ sup' = "start"
        /\ handler'["current"] = Idle
        /\ "abandoned" \notin disturbed' =>
             handler'["abandoned"] = Idle
    BY <1>8 DEF StopPipeline, ChainInv, Disturb, TailType
  <2> QED  BY <2>1 DEF ChainInv
<1>9. CASE HandleRollback
  <2>1. /\ UNCHANGED <<chain, sup, handler, Tip>> /\ disturbed \subseteq disturbed'
        /\ cursor' = rollback /\ rollback' = NoRollback
        /\ rollback # NoRollback /\ handler["current"] = Idle
        /\ stored' \subseteq stored
    BY <1>9 DEF HandleRollback, Disturb, Prefix, Ready, Tip
  <2>2. OnePerSlot(stored') /\ Bounded(stored')
    BY <2>1 DEF OnePerSlot, Bounded, ChainInv
  <2> QED  BY <2>1, <2>2 DEF ChainInv, Upto
<1>10. ASSUME NEW b \in Block, HandleBlock(b) PROVE ChainInv'
  <2>1. /\ UNCHANGED <<chain, stored, sup, rollback, disturbed, Tip>>
        /\ sup = "wait" /\ rollback = NoRollback /\ b \in chain
        /\ cursor' = b.slot
        /\ handler'["abandoned"] = handler["abandoned"]
        /\ handler'["current"] = IF done THEN [pc |-> "store", block |-> b] ELSE ToMint(b)
    BY <1>10 DEF HandleBlock, Ready, Next1, TailType, Tip
  <2>2. handler'["current"] # Idle => handler'["current"].block = b
    BY <2>1, ToMintType
  <2>3. b.slot <= Tip
    BY <2>1, TipType
  <2> QED  BY <2>1, <2>2, <2>3 DEF ChainInv, Upto
<1>11. ASSUME NEW h \in {"current", "abandoned"}, HandlerStep(h) PROVE ChainInv'
  <2>1. /\ UNCHANGED <<chain, sup, cursor, rollback, disturbed, Tip, Upto>>
        /\ handler[h] # Idle /\ handler[h].block \in Block
    BY <1>11 DEF HandlerStep, ProcessBlock, Mint, At, TailType, Handled, Tip, Upto
  <2>2. OnePerSlot(stored') /\ Bounded(stored')
    <3>1. CASE ProcessBlock(h)
      BY <2>1, <3>1, StoreKeeps DEF ProcessBlock, ChainInv, TailType
    <3>2. CASE Mint(h)
      BY <3>2 DEF Mint, ChainInv
    <3> QED  BY <1>11, <3>1, <3>2 DEF HandlerStep
  <2>3. /\ \A g \in {"current", "abandoned"} : g # h => handler'[g] = handler[g]
        /\ handler'[h] # Idle => handler'[h].block = handler[h].block
    <3>1. CASE ProcessBlock(h)
      BY <2>1, <3>1, ToMintType DEF ProcessBlock, TailType
    <3>2. CASE Mint(h)
      BY <3>2 DEF Mint, TailType
    <3> QED  BY <1>11, <3>1, <3>2 DEF HandlerStep
  <2> QED  BY <2>1, <2>2, <2>3 DEF ChainInv
<1>12. DOMAIN handler = {"current", "abandoned"}
  BY DEF TailType
<1> QED
  BY <1>1, <1>2, <1>3, <1>4, <1>5, <1>6, <1>7, <1>8, <1>9, <1>10, <1>11, <1>12
     DEF Next, SyncStep, SupervisorStep, EventStep, PipelineFails, RestartRequested, StopPipeline

LEMMA HandedOverNext ==
  ASSUME TailType, HandedOver, [Next]_vars
  PROVE  HandedOver'
<1> USE DEF HandedOver, node, runChain, pipeline, counter, history
<1>1. ASSUME NEW b \in Block, SyncStores(b) PROVE HandedOver'
  BY <1>1 DEF SyncStores
<1>2. CASE UNCHANGED <<main, done, resumed, sup>>
  BY <1>2
<1>3. CASE HistoricalSyncDone \/ RestartLiveTailFromDB \/ RaiseFence
  BY <1>3 DEF HistoricalSyncDone, RestartLiveTailFromDB, RaiseFence, TailType
<1>4. ASSUME NEW b \in Block, NodeExtends(b) \/ HandleBlock(b) PROVE HandedOver'
  BY <1>2, <1>4 DEF NodeExtends, HandleBlock
<1>5. ASSUME NEW b \in Block, NEW p \in Slot, NodeSwitches(p, b) PROVE HandedOver'
  BY <1>2, <1>5 DEF NodeSwitches
<1>6. CASE HandleRollback \/ UNCHANGED vars
  <2>1. HandleRollback => UNCHANGED <<main, done, resumed, sup>>
    BY DEF HandleRollback
  <2>2. UNCHANGED vars => UNCHANGED <<main, done, resumed, sup>>
    BY DEF vars
  <2> QED  BY <1>2, <1>6, <2>1, <2>2
<1>7. CASE ConnectAtTip \/ ConnectFromDB
  <2>1. UNCHANGED <<main, done>> /\ sup' = "wait"
    BY <1>7 DEF ConnectAtTip, ConnectFromDB, Intersect
  <2>2. ConnectAtTip => resumed' = NoRollback
    BY DEF ConnectAtTip
  <2>3. ConnectFromDB => sup = "connectFromDB"
    BY DEF ConnectFromDB
  <2> QED  BY <1>7, <2>1, <2>2, <2>3
<1>8. CASE StopPipeline /\ UNCHANGED <<main, done>>
  BY <1>8 DEF StopPipeline
<1>9. ASSUME NEW h \in DOMAIN handler, HandlerStep(h) PROVE HandedOver'
  BY <1>9 DEF HandlerStep, ProcessBlock, Mint
<1> QED
  BY <1>1, <1>3, <1>4, <1>5, <1>6, <1>7, <1>8, <1>9
     DEF Next, SyncStep, SupervisorStep, EventStep, PipelineFails, RestartRequested, StopPipeline

LEMMA StoresNext ==
  ASSUME TailInv, TailType', ChainInv', HandedOver', [Next]_vars
  PROVE  StoresWhatItPasses'
<1> SUFFICES ASSUME sup' = "wait", resumed' # NoRollback,
                    "abandoned" \notin disturbed', "undeleted" \notin disturbed'
             PROVE  Stores'
  BY DEF StoresWhatItPasses, Undisturbed
<1>0. TailType /\ ChainInv /\ HandedOver /\ StoresWhatItPasses
  BY DEF TailInv
<1>1. /\ sup = "wait" /\ resumed # NoRollback
      /\ "abandoned" \notin disturbed /\ "undeleted" \notin disturbed
      => Stores /\ done
  BY <1>0 DEF StoresWhatItPasses, HandedOver, Undisturbed
<1>2. done' /\ main' # "sync" /\ resumed' \in Nat
  BY DEF HandedOver, TailType
<1> USE DEF node, runChain, pipeline, counter, history
<1>3. ASSUME NEW b \in Block, NodeExtends(b) PROVE Stores'
  <2>1. /\ UNCHANGED <<stored, sup, resumed, cursor, rollback, handler, Upto>>
        /\ disturbed \subseteq disturbed'
        /\ chain' = chain \cup {b} /\ b.slot > Tip
    BY <1>3 DEF NodeExtends, Disturb, Upto
  <2>2. Stores
    BY <1>1, <2>1
  <2>3. Upto < b.slot /\ Upto \in Nat /\ b.slot \in Nat
    BY <1>0, <2>1, TipType, SlotNat DEF ChainInv, Upto, TailType
  <2>4. \A c \in Block : c.slot \in resumed..Upto => (c \in chain' <=> c \in chain)
    BY <2>1, <2>3
  <2> QED  BY <2>1, <2>2, <2>4 DEF Stores, ToStore
<1>4. ASSUME NEW p \in Slot, NEW b \in Block, NodeSwitches(p, b) PROVE Stores'
  <2>1. /\ UNCHANGED <<stored, sup, resumed, cursor, handler>>
        /\ disturbed \subseteq disturbed'
    BY <1>4 DEF NodeSwitches, Disturb
  <2>2. Stores
    BY <1>1, <2>1
  <2>3. /\ Upto' \in Nat /\ Upto' <= p /\ Upto' <= Upto
        /\ rollback # NoRollback => rollback' # NoRollback
        /\ p < cursor => rollback' = Upto'
        /\ p >= cursor => rollback' = rollback
        /\ \A c \in Block : c.slot <= p => (c \in chain' <=> c \in chain)
    BY <1>0, <1>4, <2>1, SwitchKeeps
  <2>4. p \in Nat /\ cursor \in Nat /\ Upto \in Nat /\ resumed \in Nat
    BY <1>0, <1>2, <2>1, SlotNat DEF Slot, TailType, Upto
  <2>5. CASE rollback' = NoRollback
    <3>1. rollback = NoRollback
      BY <2>3, <2>5
    <3> QED  BY <2>1, <2>2, <2>3, <2>4, <2>5, <3>1, SlotNat DEF Stores, ToStore
  <2>6. CASE rollback' # NoRollback
    <3> SUFFICES ASSUME NEW c \in Block, c.slot \in resumed..Upto'
                 PROVE  c \in chain' <=> c \in stored'
      BY <2>1, <2>6 DEF Stores
    <3>1. c.slot \in resumed..Upto /\ (c \in chain' <=> c \in chain)
      BY <2>3, <2>4, SlotNat
    <3>2. ~ (rollback = NoRollback /\ ToStore(c))
      <4> SUFFICES ASSUME rollback = NoRollback, ToStore(c) PROVE FALSE
        OBVIOUS
      <4>1. handler["current"] # Idle
        BY IdleIs DEF ToStore
      <4>2. c.slot = cursor
        BY <1>0, <4>1 DEF ChainInv, ToStore
      <4>3. p < cursor
        BY <2>3, <2>4, <2>6
      <4> QED  BY <2>3, <2>4, <4>2, <4>3
    <3> QED  BY <2>1, <2>2, <3>1, <3>2 DEF Stores
  <2> QED  BY <2>5, <2>6
<1>5. ASSUME NEW b \in Block, SyncStores(b) PROVE Stores'
  BY <1>2, <1>5 DEF SyncStores
<1>6. CASE HistoricalSyncDone
  BY <1>0, <1>1, <1>6 DEF HistoricalSyncDone, HandedOver
<1>7. CASE RestartLiveTailFromDB \/ UNCHANGED vars
  <2>1. /\ UNCHANGED <<chain, stored, sup, resumed, cursor, rollback, handler, Upto>>
        /\ disturbed \subseteq disturbed'
    BY <1>7 DEF RestartLiveTailFromDB, Disturb, vars, Upto
  <2> QED  BY <1>1, <2>1 DEF Stores, ToStore
<1>8. CASE RaiseFence \/ StopPipeline
  BY <1>8 DEF RaiseFence, StopPipeline
<1>9. CASE ConnectAtTip
  BY <1>9 DEF ConnectAtTip, Intersect
<1>10. CASE ConnectFromDB
  <2> DEFINE d == IntersectFromDB
  <2>1. /\ UNCHANGED <<chain, stored, handler>> /\ sup # "wait"
        /\ cursor' = d.slot /\ rollback' = d.slot /\ resumed' = d.slot
        /\ d \in chain /\ stored # {}
    BY <1>10 DEF ConnectFromDB, Intersect, Disturb
  <2>2. d \in stored /\ d \in Block
    BY <1>0, <2>1, IntersectionStored DEF TailType, ChainInv
  <2> HIDE DEF d
  <2>3. rollback' # NoRollback /\ Upto' = d.slot /\ d.slot \in Nat
    BY <2>1, <2>2, SlotNat DEF NoRollback, Upto
  <2>4. \A c \in Block : c.slot \in resumed'..Upto' => (c \in chain <=> c \in stored)
    BY <1>0, <2>1, <2>2, <2>3, SlotNat DEF ChainInv, OnePerSlot
  <2> QED  BY <2>1, <2>3, <2>4 DEF Stores
<1>11. CASE HandleRollback
  <2>1. /\ UNCHANGED <<chain, sup, resumed, handler>> /\ disturbed \subseteq disturbed'
        /\ cursor' = rollback /\ rollback' = NoRollback
        /\ rollback # NoRollback /\ handler["current"] = Idle
        /\ stored' = {b \in stored : b.slot <= rollback}
    BY <1>11 DEF HandleRollback, Fails, Disturb, Prefix, Ready
  <2>2. Stores
    BY <1>1, <2>1
  <2>3. Upto' = Upto /\ Upto = rollback /\ rollback \in Nat /\ resumed \in Nat
    BY <1>0, <1>2, <2>1 DEF Upto, TailType
  <2>4. handler'["current"].pc = "idle"
    BY <2>1, IdleIs
  <2> QED  BY <2>1, <2>2, <2>3, <2>4, SlotNat DEF Stores, ToStore
<1>12. ASSUME NEW b \in Block, HandleBlock(b) PROVE Stores'
  <2>1. /\ UNCHANGED <<chain, stored, sup, resumed, rollback, disturbed, done>>
        /\ rollback = NoRollback /\ handler["current"] = Idle
        /\ b \in chain /\ b.slot > cursor
        /\ \A c \in chain : c.slot > cursor => b.slot <= c.slot
        /\ cursor' = b.slot
        /\ handler'["current"] = [pc |-> "store", block |-> b]
    BY <1>0, <1>2, <1>12 DEF HandleBlock, Ready, Next1, TailType
  <2>2. Stores
    BY <1>1, <2>1
  <2>3. \A c \in stored : c.slot <= cursor
    BY <2>1, <2>2 DEF Stores
  <2>4. /\ cursor \in Nat /\ b.slot \in Nat /\ resumed \in Nat
        /\ Upto = cursor /\ Upto' = b.slot
    BY <1>0, <1>2, <2>1, SlotNat DEF Upto, TailType
  <2>5. \A c \in Block : ToStore(c)' <=> c = b
    BY <2>1 DEF ToStore
  <2>6. \A c \in stored' : c.slot < cursor'
    BY <1>0, <2>1, <2>3, <2>4, SlotNat DEF TailType
  <2>7. \A c \in Block : ~ ToStore(c)
    BY <2>1, IdleIs DEF ToStore
  <2>8. ASSUME NEW c \in Block, c.slot \in resumed..b.slot
        PROVE  c \in chain <=> (c \in stored \/ c = b)
    <3>1. CASE c.slot <= cursor
      BY <2>1, <2>2, <2>4, <2>7, <2>8, <3>1, SlotNat DEF Stores
    <3>2. CASE c.slot > cursor
      <4>1. c \notin stored
        BY <2>3, <2>4, <3>2, SlotNat
      <4>2. c \in chain => c = b
        BY <1>0, <2>1, <2>4, <2>8, <3>2, SlotNat DEF ChainInv, OnePerSlot
      <4> QED  BY <2>1, <4>1, <4>2
    <3> QED  BY <2>4, <3>1, <3>2, SlotNat
  <2> QED  BY <1>0, <2>1, <2>4, <2>5, <2>6, <2>8, SlotNat DEF Stores, TailType
<1>13. ASSUME NEW h \in DOMAIN handler, HandlerStep(h) PROVE Stores'
  <2>1. /\ UNCHANGED <<chain, sup, resumed, cursor, rollback, disturbed, Upto>>
        /\ handler[h] # Idle /\ h \in {"current", "abandoned"}
    BY <1>0, <1>13 DEF HandlerStep, ProcessBlock, Mint, At, Upto, TailType
  <2>2. h = "current" /\ Stores
    BY <1>0, <1>1, <2>1 DEF ChainInv
  <2>3. CASE Mint(h)
    <3>1. UNCHANGED stored /\ handler["current"].pc = "mint" /\ handler'["current"].pc = "idle"
      BY <1>0, <2>2, <2>3, IdleIs DEF Mint, At, TailType
    <3> QED  BY <2>1, <2>2, <3>1 DEF Stores, ToStore
  <2>4. CASE ProcessBlock(h)
    <3> DEFINE b == handler["current"].block
    <3>1. /\ handler["current"].pc = "store" /\ b \in Block /\ b.slot = cursor
          /\ stored' = IF \E c \in stored : c.slot = b.slot THEN stored ELSE stored \cup {b}
          /\ rollback # NoRollback => rollback < cursor
      BY <1>0, <2>1, <2>2, <2>4 DEF ProcessBlock, At, TailType, Handled, ChainInv
    <3>2. handler'["current"].pc # "store"
      BY <1>0, <2>2, <2>4, <3>1, ToMintType DEF ProcessBlock, TailType
    <3>3. cursor \in Nat /\ Upto \in Nat /\ resumed \in Nat
      BY <1>0, <1>2, <2>1 DEF Upto, TailType
    <3>4. CASE rollback = NoRollback
      <4>1. \A c \in stored : c.slot < cursor
        BY <2>2, <3>1, <3>4 DEF Stores
      <4>2. stored' = stored \cup {b}
        BY <1>0, <3>1, <3>3, <4>1, SlotNat DEF TailType
      <4>3. \A c \in stored' : c.slot <= cursor
        BY <1>0, <3>1, <3>3, <4>1, <4>2, SlotNat DEF TailType
      <4>4. \A c \in Block : ToStore(c) <=> c = b
        BY <3>1 DEF ToStore
      <4> QED  BY <2>1, <2>2, <3>2, <3>4, <4>2, <4>3, <4>4 DEF Stores, ToStore
    <3>5. CASE rollback # NoRollback
      <4>1. \A c \in Block : c.slot \in resumed..Upto => (c \in stored' <=> c \in stored)
        BY <3>1, <3>3, <3>5, SlotNat DEF Upto
      <4> QED  BY <2>1, <2>2, <3>5, <4>1 DEF Stores
    <3> QED  BY <3>4, <3>5
  <2> QED  BY <1>13, <2>3, <2>4 DEF HandlerStep
<1> QED
  BY <1>3, <1>4, <1>5, <1>6, <1>7, <1>8, <1>9, <1>10, <1>11, <1>12, <1>13
     DEF Next, SyncStep, SupervisorStep, EventStep, PipelineFails, RestartRequested

(* The inductive invariant of the tail, for every set of blocks, overlap   *)
(* and number of switches and failures: a pipeline resumed from the DB has *)
(* stored the chain it has passed since, up to the rollback to come and    *)
(* but for the block in hand.                                              *)
THEOREM TailInvariant == Spec => []TailInv
<1>1. Init => TailInv
  BY InitTail
<1>2. TailInv /\ [Next]_vars => TailInv'
  BY TypeNext, ChainNext, HandedOverNext, StoresNext DEF TailInv
<1> QED  BY <1>1, <1>2, PTL DEF Spec

(* However often the pipeline fails, the node switches forks or the sync   *)
(* hands over: a pipeline that adderIntersectFromDB has resumed leaves no  *)
(* gap and no forked block behind, unless handleEvent was abandoned or     *)
(* could not delete the blocks of the fork.                                *)
THEOREM NoTailGapAlways == Spec => []NoTailGap
<1>1. TailInv => NoTailGap
  <2> SUFFICES ASSUME TailInv, AtRest, resumed # NoRollback,
                      Undisturbed({"abandoned", "undeleted"})
               PROVE  {b \in stored : b.slot \in resumed..cursor} =
                      {b \in chain : b.slot \in resumed..cursor}
    BY DEF NoTailGap
  <2>1. Stores
    BY DEF TailInv, StoresWhatItPasses, AtRest, Ready
  <2>2. Upto = cursor /\ \A c : ~ ToStore(c)
    BY IdleIs DEF AtRest, Ready, Upto, ToStore
  <2>3. \A c \in Block : c.slot \in resumed..cursor => (c \in chain <=> c \in stored)
    BY <2>1, <2>2 DEF Stores
  <2> QED  BY <2>3 DEF TailInv, TailType
<1> QED  BY <1>1, TailInvariant, PTL

----------------------------------------------------------------------------
(* What has been announced.                                                *)

Known == chain \cup dropped

InHand(b) == handler["current"] # Idle /\ handler["current"].block = b

Within(s, T) == \E c \in T : s <= c.slot

(* Everything the tail knows of was on the node's chain at some time.      *)
KnownInv ==
  /\ dropped \in SUBSET Block
  /\ announced \in [Own -> Nat]
  /\ stored \subseteq Known
  /\ Within(seen, Known) /\ Within(fence, Known) /\ Within(cursor, Known)
  /\ \A h \in {"current", "abandoned"} : handler[h] # Idle =>
       handler[h].block \in Known /\ handler[h].block.slot <= seen
  /\ \A b \in Own : announced[b] > 0 => b \in Known /\ b.slot <= seen

(* A block of the pool that is to be announced lies beyond everything the  *)
(* fence may be raised to, unless it is the one in hand.                   *)
AwaitsTail(b) ==
  /\ fence < b.slot
  /\ InHand(b) \/ (cursor < b.slot /\ seen < b.slot /\ \A c \in stored : c.slot < b.slot)

Occupied(s) == \E c \in stored : c.slot = s

(* An announced one is behind the fence when the tail can meet it again.   *)
Once(b) ==
  /\ announced[b] <= 1
  /\ announced[b] > 0 /\ InHand(b) => b.slot <= fence
  /\ b \in dropped => b \notin chain
  /\ b \in chain /\ announced[b] = 0 /\ Root.slot < b.slot => AwaitsTail(b)
  /\ b \in chain /\ announced[b] > 0 /\ sup = "wait" /\ Upto < b.slot => b.slot <= fence
  /\ b \in chain /\ announced[b] > 0 /\ main = "done" =>
       b.slot <= fence \/ (sup \in {"start", "wait"} /\ Occupied(b.slot))

HandInv ==
  /\ handler["current"] # Idle /\ rollback # NoRollback => handler["current"].block \in dropped
  /\ main = "done" /\ handler["current"].pc = "mint" =>
       cursor <= fence \/ Occupied(cursor)

AnnouncementInv == Undisturbed(AnnouncementHazards) => HandInv /\ \A b \in Own : Once(b)

LEMMA KnownGrows ==
  ASSUME [Next]_vars
  PROVE  Known \subseteq Known' /\ disturbed \subseteq disturbed'
<1> USE DEF node, runChain, pipeline, counter, history, Disturb, Fails
<1>1. ASSUME NEW b \in Block, NodeExtends(b)
      PROVE  Known \subseteq Known' /\ disturbed \subseteq disturbed'
  BY <1>1 DEF NodeExtends, Known
<1>2. ASSUME NEW b \in Block, NEW p \in Slot, NodeSwitches(p, b)
      PROVE  Known \subseteq Known' /\ disturbed \subseteq disturbed'
  BY <1>2 DEF NodeSwitches, Known, Prefix
<1>3. UNCHANGED <<chain, dropped>> => Known' = Known
  BY DEF Known
<1>4. ASSUME NEW b \in Block, SyncStores(b) \/ HandleBlock(b)
      PROVE  UNCHANGED <<chain, dropped>> /\ disturbed \subseteq disturbed'
  BY <1>4 DEF SyncStores, HandleBlock
<1>5. ASSUME \/ HistoricalSyncDone \/ RestartLiveTailFromDB
             \/ RaiseFence \/ ConnectAtTip \/ ConnectFromDB
      PROVE  UNCHANGED <<chain, dropped>> /\ disturbed \subseteq disturbed'
  BY <1>5 DEF HistoricalSyncDone, RestartLiveTailFromDB, RaiseFence, ConnectAtTip, ConnectFromDB
<1>6. ASSUME StopPipeline PROVE UNCHANGED <<chain, dropped>> /\ disturbed \subseteq disturbed'
  BY <1>6 DEF StopPipeline
<1>7. ASSUME HandleRollback PROVE UNCHANGED <<chain, dropped>> /\ disturbed \subseteq disturbed'
  BY <1>7 DEF HandleRollback
<1>8. ASSUME NEW h \in DOMAIN handler, HandlerStep(h)
      PROVE  UNCHANGED <<chain, dropped>> /\ disturbed \subseteq disturbed'
  BY <1>8 DEF HandlerStep, ProcessBlock, Mint
<1>9. ASSUME UNCHANGED vars PROVE UNCHANGED <<chain, dropped>> /\ disturbed \subseteq disturbed'
  BY <1>9 DEF vars
<1> QED
  BY <1>1, <1>2, <1>3, <1>4, <1>5, <1>6, <1>7, <1>8, <1>9
     DEF Next, SyncStep, SupervisorStep, EventStep, PipelineFails, RestartRequested

LEMMA InitKnown == Init => KnownInv /\ AnnouncementInv
<1> SUFFICES ASSUME Init PROVE KnownInv /\ AnnouncementInv
  OBVIOUS
<1>1. TailInv
  BY InitTail
<1>2. Tip = Root.slot /\ Root.slot \in Nat
  BY <1>1, TipType, TailAssumption DEF TailInv, Init
<1>3. KnownInv
  BY <1>2 DEF Init, KnownInv, Known, Within
<1>4. ASSUME NEW b \in Own PROVE Once(b)
  BY <1>2, <1>4 DEF Init, Once, InHand, Upto
<1> QED  BY <1>3, <1>4, IdleIs DEF AnnouncementInv, HandInv, Init

LEMMA KnownNext ==
  ASSUME TailInv, TailInv', KnownInv, [Next]_vars
  PROVE  KnownInv'
<1>0. /\ TailType /\ TailType' /\ ChainInv
      /\ Known \subseteq Known' /\ Own \subseteq Block
  BY KnownGrows, TailAssumption DEF TailInv
<1>1. \A s : Within(s, Known) => Within(s, Known')
  BY <1>0 DEF Within
<1>2. \A c \in Known : Within(c.slot, Known')
  BY <1>0, SlotNat DEF Within, Known, KnownInv, TailType
<1>3. ASSUME NEW s \in Nat, NEW t \in Nat, Within(s, Known'), Within(t, Known')
      PROVE  Within(AtLeast(s, t), Known')
  BY <1>3, EffectOfAtMost
<1>4. dropped' \in SUBSET Block
  <2>1. UNCHANGED dropped \/ \E b \in Block, p \in Slot : NodeSwitches(p, b)
    BY DEF Next, NodeExtends, SyncStep, SyncStores, HistoricalSyncDone, RestartLiveTailFromDB,
       SupervisorStep, RaiseFence, ConnectAtTip, ConnectFromDB, RestartRequested, PipelineFails,
       StopPipeline, EventStep, HandleRollback, HandleBlock, HandlerStep, ProcessBlock, Mint,
       vars, node
  <2> QED  BY <1>0, <2>1 DEF NodeSwitches, TailType, KnownInv
<1> USE DEF node, runChain, pipeline, counter, history
<1>5. CASE UNCHANGED <<announced, stored, seen, fence, cursor, handler>>
  BY <1>0, <1>1, <1>4, <1>5 DEF KnownInv
<1>6. ASSUME NEW b \in Block, SyncStores(b) PROVE KnownInv'
  BY <1>0, <1>1, <1>4, <1>6 DEF KnownInv, SyncStores, Next1, Known
<1>7. CASE RestartLiveTailFromDB
  <2>1. Within(fence', Known')
    BY <1>0, <1>1, <1>3, <1>7 DEF RestartLiveTailFromDB, KnownInv, TailType
  <2> QED  BY <1>0, <1>1, <1>4, <1>7, <2>1 DEF KnownInv, RestartLiveTailFromDB
<1>8. CASE RaiseFence
  <2>1. Within(LastSlot(stored), Known')
    <3>1. LastSlot(stored) \in Nat /\ (stored # {} => \E b \in stored : LastSlot(stored) = b.slot)
      BY <1>0, LastSlotOf DEF TailType, ChainInv
    <3>2. stored = {} => LastSlot(stored) = 0
      BY DEF LastSlot
    <3>3. \E c \in Known' : 0 <= c.slot
      BY <1>0, SlotNat DEF TailType, Known
    <3> QED  BY <1>2, <3>1, <3>2, <3>3 DEF KnownInv, Within
  <2>2. fence' \in {fence, AtLeast(fence, LastSlot(stored))}
        /\ UNCHANGED <<announced, stored, seen, cursor, handler>>
    BY <1>8 DEF RaiseFence, Fails
  <2>3. Within(fence', Known')
    BY <1>0, <1>1, <1>3, <2>1, <2>2, TipType DEF KnownInv, TailType
  <2> QED  BY <1>0, <1>1, <1>4, <2>2, <2>3 DEF KnownInv
<1>9. CASE ConnectAtTip \/ ConnectFromDB
  <2>1. Within(cursor', Known')
    <3>1. \E c \in chain : cursor' = c.slot
      <4>1. CASE ConnectAtTip
        BY <1>0, <4>1, TipType DEF ConnectAtTip, Intersect
      <4>2. CASE ConnectFromDB
        BY <4>2 DEF ConnectFromDB, Intersect
      <4> QED  BY <1>9, <4>1, <4>2
    <3> QED  BY <1>2, <3>1 DEF Known
  <2>2. UNCHANGED <<announced, stored, seen, fence, handler>>
    BY <1>9 DEF ConnectAtTip, ConnectFromDB, Fails
  <2> QED  BY <1>0, <1>1, <1>4, <2>1, <2>2 DEF KnownInv
<1>10. CASE StopPipeline
  <2>1. /\ handler' = handler \/ handler' = [current |-> Idle, abandoned |-> handler["current"]]
        /\ UNCHANGED <<announced, stored, seen, fence, cursor>>
    BY <1>10 DEF StopPipeline
  <2>2. \A h \in {"current", "abandoned"} :
          handler'[h] \in {Idle, handler["current"], handler["abandoned"]}
    BY <2>1
  <2> QED  BY <1>0, <1>1, <1>4, <2>1, <2>2 DEF KnownInv
<1>11. CASE HandleRollback
  <2>1. /\ UNCHANGED <<announced, seen, fence, handler>> /\ stored' \subseteq stored
        /\ cursor' = rollback /\ rollback \in Nat /\ rollback <= cursor
    BY <1>0, <1>11 DEF HandleRollback, Fails, Prefix, TailType, ChainInv
  <2>2. Within(cursor', Known')
    <3>1. PICK c \in Known : cursor <= c.slot
      BY DEF KnownInv, Within
    <3>2. c.slot \in Nat
      BY SlotNat, <1>0 DEF Known, KnownInv, TailType
    <3> QED  BY <1>0, <2>1, <3>1, <3>2 DEF Within, TailType
  <2> QED  BY <1>0, <1>1, <1>4, <2>1, <2>2 DEF KnownInv
<1>12. ASSUME NEW b \in Block, HandleBlock(b) PROVE KnownInv'
  <2>1. /\ UNCHANGED <<announced, stored, fence>> /\ b \in Known
        /\ cursor' = b.slot /\ seen' = AtLeast(seen, b.slot)
        /\ handler'["current"] = IF done THEN [pc |-> "store", block |-> b] ELSE ToMint(b)
        /\ handler'["abandoned"] = handler["abandoned"]
    BY <1>0, <1>12 DEF HandleBlock, Next1, Known, TailType
  <2>2. b.slot \in Nat /\ seen \in Nat
    BY <1>0, SlotNat DEF TailType
  <2>3. seen' \in Nat /\ seen <= seen' /\ b.slot <= seen'
    BY <2>1, <2>2, EffectOfAtMost
  <2>4. Within(cursor', Known') /\ Within(seen', Known')
    BY <1>1, <1>2, <1>3, <2>1, <2>2 DEF KnownInv
  <2>5. \A h \in {"current", "abandoned"} : handler'[h] # Idle =>
          handler'[h].block \in Known /\ handler'[h].block.slot <= seen'
    <3>1. handler'["current"] # Idle => handler'["current"].block = b
      BY <2>1, ToMintType
    <3>2. handler["abandoned"] # Idle =>
            /\ handler["abandoned"].block \in Known /\ handler["abandoned"].block.slot <= seen
            /\ handler["abandoned"].block.slot \in Nat
      BY <1>0, SlotNat DEF KnownInv, TailType, Handled
    <3> QED  BY <2>1, <2>2, <2>3, <3>1, <3>2
  <2>6. \A d \in Own : announced'[d] > 0 => d \in Known' /\ d.slot <= seen'
    BY <1>0, <2>1, <2>2, <2>3, SlotNat DEF KnownInv
  <2> QED  BY <1>0, <1>1, <1>4, <2>1, <2>3, <2>4, <2>5, <2>6 DEF KnownInv
<1>13. ASSUME NEW h \in {"current", "abandoned"}, HandlerStep(h) PROVE KnownInv'
  <2> DEFINE b == handler[h].block
  <2>1. handler[h] # Idle /\ b \in Known /\ b \in Block /\ b.slot <= seen
    BY <1>0, <1>13 DEF HandlerStep, ProcessBlock, Mint, At, KnownInv, TailType, Handled
  <2>2. UNCHANGED <<seen, fence, cursor>>
    BY <1>13 DEF HandlerStep, ProcessBlock, Mint
  <2>3. \A g \in {"current", "abandoned"} :
          handler'[g] # Idle => handler'[g].block = handler[g].block
    <3>1. CASE ProcessBlock(h)
      BY <1>0, <2>1, <3>1, ToMintType DEF ProcessBlock, TailType
    <3>2. CASE Mint(h)
      BY <1>0, <3>2 DEF Mint, TailType
    <3> QED  BY <1>13, <3>1, <3>2 DEF HandlerStep
  <2>4. stored' \subseteq stored \cup {b}
    BY <1>13 DEF HandlerStep, ProcessBlock, Mint
  <2>5. announced' \in [Own -> Nat] /\ \A d \in Own : announced'[d] > 0 => announced[d] > 0 \/ d = b
    <3>1. CASE ProcessBlock(h)
      BY <3>1 DEF ProcessBlock, KnownInv
    <3>2. CASE Mint(h)
      <4>1. announced' = announced \/ announced' = [announced EXCEPT ![b] = announced[b] + 1]
        BY <3>2 DEF Mint
      <4> HIDE DEF b
      <4>2. announced \in [Own -> Nat]
        BY DEF KnownInv
      <4>3. [announced EXCEPT ![b] = announced[b] + 1] =
              [d \in Own |-> IF d = b THEN announced[b] + 1 ELSE announced[d]]
        BY <4>2
      <4> QED  BY <4>1, <4>2, <4>3
    <3> QED  BY <1>13, <3>1, <3>2 DEF HandlerStep
  <2> HIDE DEF b
  <2>6. \A g \in {"current", "abandoned"} : handler'[g] # Idle => handler[g] # Idle
    <3>1. \A g \in {"current", "abandoned"} : g # h => handler'[g] = handler[g]
      BY <1>0, <1>13 DEF HandlerStep, ProcessBlock, Mint, TailType
    <3> QED  BY <2>1, <3>1
  <2> QED  BY <1>0, <1>1, <1>4, <2>1, <2>2, <2>3, <2>4, <2>5, <2>6 DEF KnownInv
<1>14. CASE \E b \in Block : NodeExtends(b) \/ \E p \in Slot : NodeSwitches(p, b)
  BY <1>5, <1>14 DEF NodeExtends, NodeSwitches
<1>15. CASE HistoricalSyncDone
  BY <1>5, <1>15 DEF HistoricalSyncDone
<1>16. CASE UNCHANGED vars
  BY <1>5, <1>16 DEF vars
<1>17. DOMAIN handler = {"current", "abandoned"}
  BY <1>0 DEF TailType
<1> QED
  BY <1>6, <1>7, <1>8, <1>9, <1>10, <1>11, <1>12, <1>13, <1>14, <1>15, <1>16, <1>17
     DEF Next, SyncStep, SupervisorStep, EventStep, PipelineFails, RestartRequested

(* A block that comes new to the chain is beyond everything known.         *)
LEMMA NewBlock ==
  ASSUME TailInv, KnownInv, NEW b \in Own, \A c \in Known : c.slot < b.slot
  PROVE  /\ announced[b] = 0 /\ b \notin Known
         /\ fence < b.slot /\ cursor < b.slot /\ seen < b.slot
         /\ \A c \in stored : c.slot < b.slot
<1>1. b \in Block /\ b.slot \in Nat /\ \A c \in Known : c.slot \in Nat
  BY SlotNat, TailAssumption DEF TailInv, TailType, Known, KnownInv
<1>2. ASSUME NEW s \in Nat, Within(s, Known) PROVE s < b.slot
  BY <1>1, <1>2 DEF Within
<1>3. fence < b.slot /\ cursor < b.slot /\ seen < b.slot
  BY <1>2 DEF KnownInv, TailInv, TailType
<1>4. b \notin Known
  BY <1>1
<1> QED  BY <1>1, <1>3, <1>4 DEF KnownInv

HazardFree == Undisturbed(AnnouncementHazards)

(* What is known of a state in which nothing of the hazards has happened.  *)
Announcing ==
  /\ TailInv /\ KnownInv /\ HazardFree
  /\ HandInv
  /\ \A b \in Own : Once(b)

LEMMA AnnouncingFacts ==
  ASSUME Announcing
  PROVE  /\ TailType /\ ChainInv /\ HandedOver /\ KnownInv /\ HandInv
         /\ handler["abandoned"] = Idle
         /\ Own \subseteq Block
         /\ cursor \in Nat /\ seen \in Nat /\ fence \in Nat /\ Upto \in Nat
         /\ \A c \in Block : c.slot \in Nat /\ c.slot > 0
         /\ Root.slot \in Nat
         /\ \A c \in Own : announced[c] \in Nat
         /\ handler["current"] # Idle =>
              /\ handler["current"] \in Handled /\ handler["current"].block \in Known
              /\ handler["current"].block.slot = cursor /\ handler["current"].block \in Block
              /\ sup = "wait"
<1>1. TailType /\ ChainInv /\ HandedOver /\ KnownInv /\ HandInv
  BY DEF Announcing, TailInv
<1>2. "abandoned" \notin disturbed
  BY DEF Announcing, HazardFree, Undisturbed, AnnouncementHazards
<1>3. Upto \in Nat
  BY <1>1 DEF TailType, Upto
<1> QED  BY <1>1, <1>2, <1>3, SlotNat, TailAssumption DEF TailType, ChainInv, KnownInv, Handled

LEMMA OnceNodeExtends ==
  ASSUME Announcing, HazardFree', NEW b \in Own, NEW d \in Block, NodeExtends(d)
  PROVE  Once(b)'
<1>0. Once(b) /\ b \in Block /\ b.slot \in Nat /\ b.slot > 0
  BY AnnouncingFacts DEF Announcing
<1> USE AnnouncingFacts DEF node, runChain, pipeline, counter, history
<1>1. /\ UNCHANGED <<dropped, handler, cursor, rollback, sup, main, fence, seen, stored, announced>>
      /\ chain' = chain \cup {d} /\ d.slot > Tip /\ ~ Contested(d, dropped)
  BY DEF NodeExtends, HazardFree, Undisturbed, AnnouncementHazards, Disturb, If
<1>2. UNCHANGED <<Upto, InHand(b), Occupied(b.slot)>>
  BY <1>1 DEF Upto, InHand, Occupied
<1>3. CASE b = d
  <2>1. \A c \in chain : c.slot < b.slot
    BY <1>0, <1>1, <1>3, TipType DEF TailType
  <2>2. \A c \in dropped : c.slot < b.slot
    BY <1>0, <1>1, <1>3 DEF Contested, KnownInv
  <2>3. \A c \in Known : c.slot < b.slot
    BY <2>1, <2>2 DEF Known
  <2>4. TailInv
    BY DEF Announcing
  <2> QED  BY <1>1, <1>3, <2>3, <2>4, NewBlock DEF Once, AwaitsTail, Known
<1>4. CASE b # d
  BY <1>0, <1>1, <1>2, <1>4 DEF Once, AwaitsTail
<1> QED  BY <1>3, <1>4

LEMMA OnceNodeSwitches ==
  ASSUME Announcing, HazardFree', NEW b \in Own, NEW d \in Block, NEW p \in Slot, NodeSwitches(p, d)
  PROVE  Once(b)'
<1>0. Once(b) /\ b \in Block /\ b.slot \in Nat /\ b.slot > 0
  BY AnnouncingFacts DEF Announcing
<1> USE AnnouncingFacts DEF node, runChain, pipeline, counter, history
<1> DEFINE lost == chain \ Prefix(chain, p)
<1>1. /\ UNCHANGED <<handler, cursor, sup, main, fence, seen, stored, announced>>
      /\ chain' = Prefix(chain, p) \cup {d} /\ dropped' = dropped \cup lost
      /\ d.slot > p /\ ~ Contested(d, dropped') /\ p \in Nat /\ d \notin chain
  BY DEF NodeSwitches, HazardFree, Undisturbed, AnnouncementHazards, Disturb, If, Slot
<1>2. UNCHANGED <<InHand(b), Occupied(b.slot)>>
  BY <1>1 DEF InHand, Occupied
<1>3. CASE b = d
  <2>1. \A c \in Prefix(chain, p) : c.slot < b.slot
    BY <1>0, <1>1, <1>3 DEF Prefix, TailType
  <2>2. dropped' \in SUBSET Block
    BY <1>1 DEF TailType, KnownInv
  <2>3. \A c \in dropped' : c.slot < b.slot
    BY <1>0, <1>1, <1>3, <2>2 DEF Contested
  <2>4. Known \subseteq Prefix(chain, p) \cup dropped'
    BY <1>1 DEF Known
  <2>5. \A c \in Known : c.slot < b.slot
    BY <2>1, <2>3, <2>4
  <2>6. TailInv
    BY DEF Announcing
  <2>7. b \notin dropped'
    BY <1>0, <2>3
  <2>8. /\ announced[b] = 0 /\ fence < b.slot /\ cursor < b.slot /\ seen < b.slot
        /\ \A c \in stored : c.slot < b.slot
    BY <2>5, <2>6, NewBlock
  <2> QED  BY <1>1, <2>7, <2>8 DEF Once, AwaitsTail
<1>4. CASE b # d
  <2>1. /\ b \in chain' => b \in chain /\ b.slot <= p
        /\ b \in dropped' => b \notin chain'
    BY <1>0, <1>1, <1>4 DEF Prefix, Once
  <2>2. sup = "wait" /\ Upto' < b.slot /\ b \in chain' => Upto < b.slot
    <3>1. sup = "wait" => Upto' \in {p, Upto}
      BY SwitchKeeps
    <3> QED  BY <1>0, <1>1, <2>1, <3>1
  <2> QED  BY <1>0, <1>1, <1>2, <2>1, <2>2 DEF Once, AwaitsTail
<1> QED  BY <1>3, <1>4

LEMMA OnceSyncStores ==
  ASSUME Announcing, HazardFree', NEW b \in Own, NEW d \in Block, SyncStores(d)
  PROVE  Once(b)'
<1>0. Once(b) /\ b \in Block /\ b.slot \in Nat /\ b.slot > 0
  BY AnnouncingFacts DEF Announcing
<1> USE AnnouncingFacts DEF node, runChain, pipeline, counter, history
<1>1. /\ UNCHANGED <<chain, dropped, handler, cursor, rollback, sup, main, fence, seen, announced>>
      /\ main = "sync" /\ d.slot <= cursor /\ stored' \subseteq stored \cup {d}
  BY DEF SyncStores, HazardFree, Undisturbed, AnnouncementHazards, Disturb, If
<1>2. UNCHANGED <<Upto, InHand(b)>>
  BY <1>1 DEF Upto, InHand
<1>3. AwaitsTail(b) => AwaitsTail(b)'
  BY <1>0, <1>1, <1>2 DEF AwaitsTail
<1> QED  BY <1>0, <1>1, <1>2, <1>3 DEF Once

LEMMA OnceHandOver ==
  ASSUME Announcing, HazardFree', NEW b \in Own, HistoricalSyncDone \/ RestartLiveTailFromDB
  PROVE  Once(b)'
<1>0. Once(b) /\ b \in Block /\ b.slot \in Nat /\ b.slot > 0
  BY AnnouncingFacts DEF Announcing
<1> USE AnnouncingFacts DEF node, runChain, pipeline, counter, history
<1>1. /\ UNCHANGED <<chain, dropped, handler, cursor, rollback, sup, seen, stored, announced>>
      /\ UNCHANGED <<Upto, InHand(b), Occupied(b.slot)>>
  BY DEF HistoricalSyncDone, RestartLiveTailFromDB, Upto, InHand, Occupied
<1>2. CASE HistoricalSyncDone
  BY <1>0, <1>1, <1>2 DEF HistoricalSyncDone, Once, AwaitsTail
<1>3. CASE RestartLiveTailFromDB
  <2>1. /\ handler["current"] = Idle
        /\ fence' = AtLeast(fence, seen)
    BY <1>3 DEF RestartLiveTailFromDB, HazardFree, Undisturbed, AnnouncementHazards, Disturb, If
  <2>2. fence' \in {fence, seen} /\ fence <= fence' /\ seen <= fence'
    BY <2>1, EffectOfAtMost
  <2>3. announced[b] > 0 => b.slot <= fence'
    BY <1>0, <2>2 DEF KnownInv
  <2>4. AwaitsTail(b) => AwaitsTail(b)'
    BY <1>1, <2>1, <2>2 DEF AwaitsTail, InHand
  <2> QED  BY <1>0, <1>1, <2>3, <2>4 DEF Once
<1> QED  BY <1>2, <1>3

LEMMA OnceRaiseFence ==
  ASSUME Announcing, HazardFree', NEW b \in Own, RaiseFence
  PROVE  Once(b)'
<1>0. Once(b) /\ b \in Block /\ b.slot \in Nat /\ b.slot > 0
  BY AnnouncingFacts DEF Announcing
<1> USE AnnouncingFacts DEF node, runChain, pipeline, counter, history
<1>1. /\ UNCHANGED <<chain, dropped, handler, cursor, rollback, main, seen, stored, announced>>
      /\ UNCHANGED <<Upto, InHand(b), Occupied(b.slot)>>
      /\ fence' = AtLeast(fence, LastSlot(stored)) /\ sup = "start" /\ sup' # "wait"
  BY DEF RaiseFence, Upto, InHand, Occupied, HazardFree, Undisturbed, AnnouncementHazards,
     Fails, Disturb
<1>2. handler["current"] = Idle
  BY <1>1
<1>3. /\ LastSlot(stored) \in Nat
      /\ stored # {} => \E c \in stored : LastSlot(stored) = c.slot
      /\ \A c \in stored : c.slot <= LastSlot(stored)
  BY LastSlotOf DEF TailType, ChainInv
<1>4. stored = {} => LastSlot(stored) = 0
  BY DEF LastSlot
<1>5. /\ fence' \in {fence, LastSlot(stored)}
      /\ fence <= fence' /\ LastSlot(stored) <= fence' /\ fence' \in Nat
  BY <1>1, <1>3, EffectOfAtMost
<1>6. AwaitsTail(b) => AwaitsTail(b)'
  BY <1>0, <1>1, <1>2, <1>3, <1>4, <1>5 DEF AwaitsTail, InHand
<1>7. b.slot <= fence \/ Occupied(b.slot) => b.slot <= fence'
  BY <1>0, <1>3, <1>5 DEF Occupied
<1> QED  BY <1>0, <1>1, <1>2, <1>5, <1>6, <1>7 DEF Once, InHand

LEMMA OnceConnectAtTip ==
  ASSUME Announcing, HazardFree', NEW b \in Own, ConnectAtTip
  PROVE  Once(b)'
<1>0. Once(b) /\ b \in Block /\ b.slot \in Nat /\ b.slot > 0
  BY AnnouncingFacts DEF Announcing
<1> USE AnnouncingFacts DEF node, runChain, pipeline, counter, history
<1>1. /\ UNCHANGED <<chain, dropped, handler, main, fence, seen, stored, announced>>
      /\ UNCHANGED <<InHand(b), Occupied(b.slot)>>
      /\ sup \in {"connectAtTip", "connectFromDB"} /\ cursor' = Tip /\ rollback' = Tip
      /\ sup' = "wait"
      /\ ~ \E d \in Own \cap chain : d.slot > cursor
  BY DEF ConnectAtTip, Intersect, InHand, Occupied, HazardFree, Undisturbed, AnnouncementHazards,
     Fails, Disturb, If
<1>2. Tip \in Nat /\ \A c \in chain : c.slot <= Tip
  BY TipType
<1>3. Upto' = Tip
  BY <1>1 DEF Upto
<1>4. b \in chain => ~ AwaitsTail(b)
  BY <1>0, <1>1 DEF AwaitsTail, InHand
<1> QED  BY <1>0, <1>1, <1>2, <1>3, <1>4 DEF Once

LEMMA OnceConnectFromDB ==
  ASSUME Announcing, HazardFree', NEW b \in Own, ConnectFromDB
  PROVE  Once(b)'
<1>0. Once(b) /\ b \in Block /\ b.slot \in Nat /\ b.slot > 0
  BY AnnouncingFacts DEF Announcing
<1> USE AnnouncingFacts DEF node, runChain, pipeline, counter, history
<1> DEFINE d == IntersectFromDB
<1>1. /\ UNCHANGED <<chain, dropped, handler, main, fence, seen, stored, announced>>
      /\ UNCHANGED <<InHand(b), Occupied(b.slot)>>
      /\ sup = "connectFromDB" /\ sup' = "wait" /\ cursor' = d.slot /\ rollback' = d.slot
      /\ main # "fence" /\ stored # {}
  BY DEF ConnectFromDB, Intersect, InHand, Occupied, HazardFree, Undisturbed, AnnouncementHazards,
     Disturb, If
<1>2. d \in stored
  BY <1>1, IntersectionStored DEF TailType, ChainInv
<1>3. main = "done"
  BY <1>1 DEF HandedOver, TailType
<1>4. AwaitsTail(b) => AwaitsTail(b)'
  BY <1>1, <1>2 DEF AwaitsTail, InHand
<1>5. b \in chain /\ announced[b] > 0 => b.slot <= fence
  BY <1>0, <1>1, <1>3 DEF Once
<1> QED  BY <1>0, <1>1, <1>3, <1>4, <1>5 DEF Once

LEMMA OnceStopPipeline ==
  ASSUME Announcing, HazardFree', NEW b \in Own, UNCHANGED main, StopPipeline
  PROVE  Once(b)'
<1>0. Once(b) /\ b \in Block /\ b.slot \in Nat /\ b.slot > 0
  BY AnnouncingFacts DEF Announcing
<1> USE AnnouncingFacts DEF node, runChain, pipeline, counter, history
<1>1. /\ UNCHANGED <<chain, dropped, cursor, fence, seen, stored, announced>>
      /\ sup = "wait" /\ sup' = "start" /\ handler["current"] = Idle /\ UNCHANGED handler
  BY DEF StopPipeline, HazardFree, Undisturbed, AnnouncementHazards, Disturb
<1>2. UNCHANGED <<InHand(b), Occupied(b.slot)>>
  BY <1>1 DEF InHand, Occupied
<1> QED  BY <1>0, <1>1, <1>2 DEF Once, AwaitsTail

LEMMA OnceHandleRollback ==
  ASSUME Announcing, HazardFree', NEW b \in Own, HandleRollback
  PROVE  Once(b)'
<1>0. Once(b) /\ b \in Block /\ b.slot \in Nat /\ b.slot > 0
  BY AnnouncingFacts DEF Announcing
<1> USE AnnouncingFacts DEF node, runChain, pipeline, counter, history
<1>1. /\ UNCHANGED <<chain, dropped, handler, sup, main, fence, seen, announced>>
      /\ cursor' = rollback /\ rollback' = NoRollback /\ rollback \in Nat /\ rollback <= cursor
      /\ handler["current"] = Idle /\ sup = "wait"
      /\ stored' \in {stored, {c \in stored : c.slot <= rollback}}
  BY DEF HandleRollback, Fails, Ready, Prefix, TailType, ChainInv
<1>2. Upto' = Upto /\ Upto = rollback /\ UNCHANGED InHand(b)
  BY <1>1 DEF Upto, InHand, TailType, NoRollback
<1>3. AwaitsTail(b) => AwaitsTail(b)'
  BY <1>0, <1>1, <1>2 DEF AwaitsTail
<1>4. Occupied(b.slot) => Occupied(b.slot)' \/ Upto < b.slot
  BY <1>0, <1>1, <1>2 DEF Occupied, TailType
<1> QED  BY <1>0, <1>1, <1>2, <1>3, <1>4 DEF Once

LEMMA OnceHandleBlock ==
  ASSUME Announcing, HazardFree', NEW b \in Own, NEW d \in Block, HandleBlock(d)
  PROVE  Once(b)'
<1>0. Once(b) /\ b \in Block /\ b.slot \in Nat /\ b.slot > 0
  BY AnnouncingFacts DEF Announcing
<1> USE AnnouncingFacts DEF node, runChain, pipeline, counter, history
<1>1. /\ UNCHANGED <<chain, dropped, rollback, sup, main, fence, stored, announced>>
      /\ rollback = NoRollback /\ handler["current"] = Idle /\ d \in chain /\ sup = "wait"
      /\ d.slot > cursor /\ \A c \in chain : c.slot > cursor => d.slot <= c.slot
      /\ cursor' = d.slot /\ seen' = AtLeast(seen, d.slot)
      /\ handler'["current"] = IF done THEN [pc |-> "store", block |-> d] ELSE ToMint(d)
  BY DEF HandleBlock, Ready, Next1, TailType
<1>2. d.slot \in Nat /\ Upto' = d.slot /\ Upto = cursor /\ ~ InHand(b) /\ UNCHANGED Occupied(b.slot)
  BY <1>1 DEF Upto, InHand, Occupied
<1>3. handler'["current"] # Idle => handler'["current"].block = d
  BY <1>1, ToMintType
<1>4. CASE b = d
  <2>1. InHand(b)'
    BY <1>0, <1>1, <1>4 DEF InHand, ToMint, Idle
  <2> QED  BY <1>0, <1>1, <1>2, <1>4, <2>1 DEF Once, AwaitsTail
<1>5. CASE b # d
  <2>1. ~ InHand(b)'
    BY <1>3, <1>5 DEF InHand
  <2>2. b \in chain /\ cursor < b.slot => d.slot < b.slot
    BY <1>0, <1>1, <1>2, <1>5 DEF ChainInv, OnePerSlot
  <2>3. seen < b.slot /\ d.slot < b.slot => seen' < b.slot
    BY <1>1, <1>2, EffectOfAtMost
  <2>4. b \in chain /\ AwaitsTail(b) => AwaitsTail(b)'
    BY <1>1, <1>2, <2>1, <2>2, <2>3 DEF AwaitsTail
  <2>5. Upto' < b.slot => Upto < b.slot
    BY <1>0, <1>1, <1>2
  <2> QED  BY <1>0, <1>1, <1>2, <2>1, <2>4, <2>5 DEF Once
<1> QED  BY <1>4, <1>5

LEMMA OnceProcessBlock ==
  ASSUME Announcing, HazardFree', NEW b \in Own, ProcessBlock("current")
  PROVE  Once(b)'
<1>0. Once(b) /\ b \in Block /\ b.slot \in Nat /\ b.slot > 0
  BY AnnouncingFacts DEF Announcing
<1> USE AnnouncingFacts DEF node, runChain, pipeline, counter, history
<1> DEFINE d == handler["current"].block
<1>1. /\ UNCHANGED <<chain, dropped, cursor, rollback, sup, main, fence, seen, announced, Upto>>
      /\ handler["current"] # Idle
      /\ stored \subseteq stored' /\ stored' \subseteq stored \cup {d}
      /\ handler'["current"] = ToMint(d)
  BY DEF ProcessBlock, At, Upto, TailType
<1>2. d \in Block /\ d.slot = cursor
  BY <1>1
<1>3. InHand(b) <=> b = d
  BY <1>1 DEF InHand
<1>4. InHand(b)' <=> b = d
  BY <1>1, <1>2, ToMintType DEF InHand, ToMint, Idle
<1> HIDE DEF d
<1>5. AwaitsTail(b) => AwaitsTail(b)'
  BY <1>0, <1>1, <1>2, <1>3, <1>4 DEF AwaitsTail
<1>6. Occupied(b.slot) => Occupied(b.slot)'
  BY <1>1 DEF Occupied
<1> QED  BY <1>0, <1>1, <1>3, <1>4, <1>5, <1>6 DEF Once

LEMMA OnceMint ==
  ASSUME Announcing, HazardFree', NEW b \in Own, Mint("current")
  PROVE  Once(b)'
<1>0. Once(b) /\ b \in Block /\ b.slot \in Nat /\ b.slot > 0
  BY AnnouncingFacts DEF Announcing
<1> USE AnnouncingFacts DEF node, runChain, pipeline, counter, history
<1> DEFINE d == handler["current"].block
           new == fence = 0 \/ d.slot > fence
<1>1. /\ UNCHANGED <<chain, dropped, cursor, rollback, sup, main, fence, seen, stored, Upto>>
      /\ handler["current"] # Idle /\ handler["current"].pc = "mint"
      /\ announced' = IF new THEN [announced EXCEPT ![d] = announced[d] + 1] ELSE announced
      /\ handler'["current"] = Idle
  BY DEF Mint, At, Upto, TailType
<1>2. d \in Block /\ d.slot = cursor /\ sup = "wait"
  BY <1>1
<1>3. (InHand(b) <=> b = d) /\ ~ InHand(b)' /\ UNCHANGED Occupied(b.slot)
  BY <1>1 DEF InHand, Occupied
<1>4. rollback # NoRollback => d \in dropped
  BY <1>1 DEF HandInv
<1>5. main = "done" => cursor <= fence \/ Occupied(cursor)
  BY <1>1 DEF HandInv
<1>6. b # d => announced'[b] = announced[b]
  BY <1>1 DEF KnownInv
<1>7. b = d => announced'[b] = IF fence = 0 \/ b.slot > fence THEN announced[b] + 1
                               ELSE announced[b]
  BY <1>1 DEF KnownInv
<1> HIDE DEF d, new
<1>8. CASE b # d
  BY <1>0, <1>1, <1>3, <1>6, <1>8 DEF Once, AwaitsTail
<1>9. CASE b = d /\ announced[b] > 0
  <2>1. b.slot <= fence
    BY <1>0, <1>3, <1>9 DEF Once
  <2>2. announced'[b] = announced[b]
    BY <1>0, <1>7, <1>9, <2>1
  <2> QED  BY <1>0, <1>1, <1>3, <1>9, <2>2 DEF Once
<1>10. CASE b = d /\ announced[b] = 0
  <2>1. b \in chain => rollback = NoRollback
    BY <1>0, <1>4, <1>10 DEF Once
  <2>2. b \in chain => Upto = b.slot
    BY <1>2, <1>10, <2>1 DEF Upto
  <2>3. CASE fence = 0 \/ b.slot > fence
    <3>1. announced'[b] = 1
      BY <1>7, <1>10, <2>3
    <3> QED  BY <1>0, <1>1, <1>2, <1>3, <1>5, <1>10, <2>2, <3>1 DEF Once
  <2>4. CASE fence # 0 /\ ~ (b.slot > fence)
    <3>1. announced'[b] = 0
      BY <1>7, <1>10, <2>4
    <3>2. ~ AwaitsTail(b)
      BY <1>0, <2>4 DEF AwaitsTail
    <3> QED  BY <1>0, <1>1, <1>3, <1>10, <3>1, <3>2 DEF Once
  <2> QED  BY <2>3, <2>4
<1>11. announced[b] \in Nat
  OBVIOUS
<1> QED  BY <1>8, <1>9, <1>10, <1>11

LEMMA HandNext ==
  ASSUME Announcing, HazardFree', TailInv', KnownInv', [Next]_vars
  PROVE  HandInv'
<1> DEFINE d == handler["current"].block
<1> USE AnnouncingFacts DEF node, runChain, pipeline, counter, history
<1>0. HandInv
  OBVIOUS
<1>1. ASSUME NEW c \in Block, NEW p \in Slot, NodeSwitches(p, c) PROVE HandInv'
  <2>1. /\ UNCHANGED <<handler, cursor, sup, main, fence, stored, Occupied(cursor)>>
        /\ dropped' = dropped \cup (chain \ Prefix(chain, p)) /\ p \in Nat
    BY <1>1 DEF NodeSwitches, Occupied, Slot
  <2>2. ASSUME handler["current"] # Idle, rollback' # NoRollback PROVE d \in dropped'
    <3>1. CASE rollback # NoRollback
      BY <1>0, <2>1, <2>2, <3>1 DEF HandInv
    <3>2. CASE rollback = NoRollback
      <4>1. p < cursor
        BY <1>1, <2>2, <3>2 DEF NodeSwitches
      <4>2. d \in Block /\ d.slot = cursor /\ d \in Known
        BY <2>2
      <4>3. d \notin Prefix(chain, p)
        BY <2>1, <4>1, <4>2 DEF Prefix
      <4> QED  BY <2>1, <4>2, <4>3 DEF Known
    <3> QED  BY <3>1, <3>2
  <2> QED  BY <1>0, <2>1, <2>2 DEF HandInv
<1>2. ASSUME UNCHANGED <<handler, rollback, dropped, main, cursor, fence, stored>> PROVE HandInv'
  BY <1>0, <1>2 DEF HandInv, Occupied
<1>3. ASSUME NEW c \in Block, SyncStores(c) PROVE HandInv'
  BY <1>0, <1>3 DEF HandInv, SyncStores
<1>4. ASSUME NEW c \in Block, NodeExtends(c) PROVE HandInv'
  BY <1>2, <1>4 DEF NodeExtends
<1>5. CASE HistoricalSyncDone
  BY <1>0, <1>5 DEF HandInv, HistoricalSyncDone
<1>6. CASE RestartLiveTailFromDB
  <2>1. handler'["current"] = Idle
    BY <1>6 DEF RestartLiveTailFromDB, HazardFree, Undisturbed, AnnouncementHazards, Disturb, If
  <2> QED  BY <2>1, IdleIs DEF HandInv
<1>7. CASE RaiseFence \/ ConnectAtTip \/ ConnectFromDB
  <2>1. handler'["current"] = Idle
    BY <1>7 DEF RaiseFence, ConnectAtTip, ConnectFromDB
  <2> QED  BY <2>1, IdleIs DEF HandInv
<1>8. CASE StopPipeline
  <2>1. handler'["current"] = Idle
    BY <1>8 DEF StopPipeline
  <2> QED  BY <2>1, IdleIs DEF HandInv
<1>9. CASE HandleRollback
  <2>1. handler'["current"] = Idle
    BY <1>9 DEF HandleRollback, Ready
  <2> QED  BY <2>1, IdleIs DEF HandInv
<1>10. ASSUME NEW c \in Block, HandleBlock(c) PROVE HandInv'
  <2>1. /\ rollback' = NoRollback /\ UNCHANGED main
        /\ handler'["current"] = IF done THEN [pc |-> "store", block |-> c] ELSE ToMint(c)
    BY <1>10 DEF HandleBlock, TailType
  <2>2. main = "done" => handler'["current"].pc = "store"
    BY <2>1 DEF HandedOver
  <2> QED  BY <2>1, <2>2 DEF HandInv
<1>11. ASSUME NEW h \in {"current", "abandoned"}, HandlerStep(h) PROVE HandInv'
  <2>1. /\ h = "current" /\ handler["current"] # Idle /\ d \in Block /\ d.slot = cursor
        /\ UNCHANGED <<dropped, rollback, cursor, main, fence>>
    BY <1>11 DEF HandlerStep, ProcessBlock, Mint, At
  <2>2. CASE Mint(h)
    <3>1. handler'["current"] = Idle
      BY <2>1, <2>2 DEF Mint, TailType
    <3> QED  BY <3>1, IdleIs DEF HandInv
  <2>3. CASE ProcessBlock(h)
    <3>1. /\ handler'["current"] = ToMint(d)
          /\ \E c \in stored' : c.slot = d.slot
      BY <2>1, <2>3 DEF ProcessBlock, TailType
    <3>2. Occupied(cursor)'
      BY <2>1, <3>1 DEF Occupied
    <3> QED  BY <1>0, <2>1, <3>1, <3>2, ToMintType DEF HandInv
  <2> QED  BY <1>11, <2>2, <2>3 DEF HandlerStep
<1>12. CASE UNCHANGED vars
  BY <1>2, <1>12 DEF vars
<1>13. DOMAIN handler = {"current", "abandoned"}
  BY DEF TailType
<1> QED
  BY <1>1, <1>3, <1>4, <1>5, <1>6, <1>7, <1>8, <1>9, <1>10, <1>11, <1>12, <1>13
     DEF Next, SyncStep, SupervisorStep, EventStep, PipelineFails, RestartRequested

LEMMA OnceNext ==
  ASSUME Announcing, HazardFree', [Next]_vars, NEW b \in Own
  PROVE  Once(b)'
<1>1. handler["abandoned"] = Idle /\ DOMAIN handler = {"current", "abandoned"}
  BY AnnouncingFacts DEF TailType
<1>2. ASSUME NEW h \in DOMAIN handler, HandlerStep(h) PROVE Once(b)'
  <2>1. h = "current"
    BY <1>1, <1>2 DEF HandlerStep, ProcessBlock, Mint, At
  <2> QED  BY <1>2, <2>1, OnceProcessBlock, OnceMint DEF HandlerStep
<1>3. CASE PipelineFails \/ RestartRequested
  BY <1>3, OnceStopPipeline DEF PipelineFails, RestartRequested, StopPipeline, runChain
<1>4. ASSUME UNCHANGED vars PROVE Once(b)'
  BY <1>4 DEF Announcing, vars, node, runChain, pipeline, history, Once, AwaitsTail, InHand,
     Occupied, Upto
<1>5. ASSUME NEW d \in Block, NodeExtends(d) PROVE Once(b)'
  BY <1>5, OnceNodeExtends
<1>6. ASSUME NEW d \in Block, NEW p \in Slot, NodeSwitches(p, d) PROVE Once(b)'
  BY <1>6, OnceNodeSwitches
<1>7. CASE SyncStep
  BY <1>7, OnceSyncStores, OnceHandOver DEF SyncStep
<1>8. CASE RaiseFence \/ ConnectAtTip \/ ConnectFromDB
  BY <1>8, OnceRaiseFence, OnceConnectAtTip, OnceConnectFromDB
<1>9. CASE EventStep
  BY <1>9, OnceHandleRollback, OnceHandleBlock DEF EventStep
<1> QED
  BY <1>2, <1>3, <1>4, <1>5, <1>6, <1>7, <1>8, <1>9 DEF Next, SupervisorStep

(* The inductive invariant of the announcements: as long as none of the    *)
(* hazards has happened, a block of the pool is announced at most once,    *)
(* lies beyond whatever the fence may be raised to until it is, and behind *)
(* the fence when the tail can meet it again.                              *)
THEOREM AnnouncementInvariant == Spec => [](KnownInv /\ AnnouncementInv)
<1>1. Init => KnownInv /\ AnnouncementInv
  BY InitKnown
<1>2. TailInv /\ TailInv' /\ KnownInv /\ AnnouncementInv /\ [Next]_vars
        => (KnownInv /\ AnnouncementInv)'
  <2> SUFFICES ASSUME TailInv, TailInv', KnownInv, AnnouncementInv, [Next]_vars
               PROVE  KnownInv' /\ AnnouncementInv'
    OBVIOUS
  <2>1. KnownInv'
    BY KnownNext
  <2>2. HazardFree' => HazardFree
    BY KnownGrows DEF HazardFree, Undisturbed
  <2>3. HazardFree' => HandInv' /\ \A b \in Own : Once(b)'
    BY <2>1, <2>2, HandNext, OnceNext DEF Announcing, AnnouncementInv, HazardFree
  <2> QED  BY <2>1, <2>3 DEF AnnouncementInv, HazardFree
<1> QED  BY <1>1, <1>2, TailInvariant, PTL DEF Spec

(* However often the pipeline fails, is replayed from the DB or handed     *)
(* over and whatever fork the node switches to: the replay fence keeps a   *)
(* block of the pool from being announced twice, and lets every one that   *)
(* the tail has passed be announced, unless one of the hazards happened.   *)
THEOREM AnnouncedOnceAlways == Spec => []AnnouncedOnce
<1>1. TailInv /\ KnownInv /\ AnnouncementInv => AnnouncedOnce
  <2> SUFFICES ASSUME Announcing, NEW b \in Own
               PROVE  /\ announced[b] <= 1
                      /\ AtRest /\ b \in chain /\ b.slot \in Root.slot + 1..cursor =>
                           announced[b] = 1
    BY DEF AnnouncedOnce, Announcing, HazardFree, AnnouncementInv
  <2>1. Once(b) /\ b \in Block /\ b.slot \in Nat /\ announced[b] \in Nat
    BY AnnouncingFacts DEF Announcing
  <2>2. AtRest => ~ InHand(b)
    BY DEF AtRest, Ready, InHand
  <2>3. b.slot \in Root.slot + 1..cursor => Root.slot < b.slot /\ ~ (cursor < b.slot)
    BY <2>1, AnnouncingFacts
  <2> QED  BY <2>1, <2>2, <2>3 DEF Once, AwaitsTail
<1> QED  BY <1>1, TailInvariant, AnnouncementInvariant, PTL

----------------------------------------------------------------------------
(* What has been counted.                                                  *)

(* The blocks of the pool that the count stands for.                       *)
Counted == {b \in chain \cap Own : announced[b] > 0 \/ b = Root}

CountedIn(e) == {b \in Counted : EpochOf[b.slot] = e}

CountIsRight ==
  /\ epochBlocks = Cardinality(CountedIn(epoch))
  /\ \A b \in Counted : EpochOf[b.slot] <= epoch

(* A block of the pool that is stored is no longer on the chain.           *)
OwnLost == \E b \in stored \cap Own : b \notin chain

(* The rollback to come will find a block to delete.                       *)
Resync == (\E c \in stored : c.slot > rollback) \/ handler["current"].pc = "store"

Furthest == AtLeast(AtLeast(seen, fence), Root.slot)

(* Where the tail can be.                                                  *)
Position ==
  /\ Root \in chain /\ IsFiniteSet(chain)
  /\ dropped # {} => Overlap > 1
  /\ \A c \in Known : Root.slot <= c.slot
  /\ cursor \in Slot /\ Root.slot <= cursor
  /\ rollback = NoRollback \/ (rollback \in Slot /\ Root.slot <= rollback)
  /\ seen \in Slot \cup {0} /\ fence \in Slot \cup {0}
  /\ epoch \in Nat /\ epoch <= EpochAt(Furthest)
  /\ handler["current"] # Idle =>
       LET b == handler["current"].block
       IN /\ epoch = EpochOf[b.slot] /\ Root.slot < b.slot
          /\ rollback = NoRollback => b \in chain
          /\ b \in Own => b \in chain \cup stored
          /\ handler["current"].pc = "mint" => b \in Own
  /\ sup = "connectFromDB" => \A c \in stored : c.slot <= fence

(* Before the tail is first resumed from the DB it is ahead of everything. *)
AtTheTip ==
  /\ dropped = {} /\ CountIsRight /\ epoch <= EpochAt(cursor)
  /\ cursor <= Tip /\ fence <= cursor /\ seen <= cursor
  /\ \A c \in stored : c.slot <= cursor
  /\ rollback # NoRollback => rollback = cursor

(* What a resumed pipeline has stored on its way.                          *)
NothingMissing ==
  /\ \A c \in chain : c.slot <= Upto => c \in stored \/ (rollback = NoRollback /\ ToStore(c))
  /\ Occupied(Upto) \/ (rollback = NoRollback /\ handler["current"].pc = "store")

(* A resumed one has the right count, unless it is about to take a new one.*)
CountOrResync ==
  /\ rollback = NoRollback => CountIsRight /\ epoch <= EpochAt(cursor)
  /\ rollback # NoRollback =>
       /\ CountIsRight \/ OwnLost
       /\ Resync \/ (CountIsRight /\ epoch <= EpochAt(rollback))

FromDB ==
  /\ stored # {} /\ sup # "connectAtTip"
  /\ sup # "wait" => CountIsRight \/ OwnLost
  /\ sup = "wait" =>
       /\ cursor <= Furthest
       /\ NothingMissing
       /\ \A c \in Counted : Upto < c.slot => EpochOf[c.slot] <= EpochAt(Upto)
       /\ CountOrResync

Counts ==
  /\ Position
  /\ resumed = NoRollback => AtTheTip
  /\ resumed # NoRollback => FromDB

CountInv == disturbed = {} => Counts

LEMMA EpochGrows ==
  /\ \A s \in Slot \cup {0} : EpochAt(s) \in Nat
  /\ \A s, t \in Slot \cup {0} : s <= t => EpochAt(s) <= EpochAt(t)
  /\ \A b \in Block : b.slot \in Slot /\ EpochAt(b.slot) = EpochOf[b.slot] /\ EpochOf[b.slot] \in Nat
  /\ Slot \subseteq Nat
<1>1. \A s \in Slot : s \in Nat /\ s > 0
  BY SlotNat DEF Slot
<1>2. \A s \in Slot : EpochOf[s] \in Nat /\ EpochAt(s) = EpochOf[s]
  BY <1>1, TailAssumption DEF EpochAt
<1>3. EpochAt(0) = 0
  BY DEF EpochAt
<1>4. \A s, t \in Slot : s <= t => EpochOf[s] <= EpochOf[t]
  BY TailAssumption
<1>5. \A b \in Block : b.slot \in Slot
  BY DEF Slot
<1>6. ASSUME NEW s \in Slot \cup {0}, NEW t \in Slot \cup {0}, s <= t
      PROVE  EpochAt(s) <= EpochAt(t)
  <2>1. CASE s = 0
    <3>1. EpochAt(t) \in Nat
      BY <1>2, <1>3
    <3> QED  BY <1>3, <2>1, <3>1
  <2>2. CASE s \in Slot
    <3>1. t \in Slot
      BY <1>1, <1>6, <2>2
    <3> QED  BY <1>2, <1>4, <1>6, <2>2, <3>1
  <2> QED  BY <2>1, <2>2
<1> QED  BY <1>1, <1>2, <1>3, <1>5, <1>6

(* What is known of a state in which nothing at all has happened.          *)
Counting == Announcing /\ StoresWhatItPasses /\ disturbed = {} /\ Counts

LEMMA CountingFacts ==
  ASSUME Counting
  PROVE  /\ Announcing /\ Position
         /\ resumed = NoRollback => AtTheTip
         /\ resumed # NoRollback => FromDB
         /\ resumed # NoRollback /\ sup = "wait" => Stores
         /\ \A b \in Own : Once(b)
         /\ Furthest \in Slot \cup {0} /\ Furthest \in Nat
         /\ seen <= Furthest /\ fence <= Furthest /\ Root.slot <= Furthest
         /\ Root \in Block /\ Root.slot \in Slot /\ Root.slot \in Nat
<1>1. Announcing /\ Position /\ \A b \in Own : Once(b)
  BY DEF Counting, Counts, Announcing
<1>2. seen \in Slot \cup {0} /\ fence \in Slot \cup {0} /\ Root \in Block
  BY <1>1, TailAssumption DEF Position
<1>3. seen \in Nat /\ fence \in Nat /\ Root.slot \in Nat /\ Root.slot \in Slot
  BY <1>1, <1>2, AnnouncingFacts, EpochGrows
<1>4. AtLeast(seen, fence) \in {seen, fence}
      /\ AtLeast(seen, fence) >= seen /\ AtLeast(seen, fence) >= fence
  BY <1>3, EffectOfAtMost
<1>5. AtLeast(seen, fence) \in Nat /\ AtLeast(seen, fence) \in Slot \cup {0}
  BY <1>2, <1>3, <1>4
<1>6. Furthest \in {AtLeast(seen, fence), Root.slot}
      /\ Furthest >= AtLeast(seen, fence) /\ Furthest >= Root.slot
  BY <1>3, <1>5, EffectOfAtMost DEF Furthest
<1>7. Furthest \in Nat /\ Furthest \in Slot \cup {0}
  BY <1>3, <1>5, <1>6
<1>8. resumed # NoRollback /\ sup = "wait" => Stores
  BY DEF Counting, StoresWhatItPasses, Undisturbed
<1> QED  BY <1>1, <1>2, <1>3, <1>4, <1>5, <1>6, <1>7, <1>8 DEF Counting, Counts

(* The count stays right when what it counts stays the same.               *)
LEMMA SameCount ==
  ASSUME Counted' = Counted, UNCHANGED counter
  PROVE  CountIsRight' <=> CountIsRight
<1>1. CountedIn(epoch)' = CountedIn(epoch)
  BY DEF CountedIn, counter
<1> QED  BY <1>1 DEF CountIsRight, counter

LEMMA CountNodeExtends ==
  ASSUME Counting, disturbed' = {}, NEW d \in Block, NodeExtends(d)
  PROVE  Counts'
<1> USE AnnouncingFacts, CountingFacts DEF node, runChain, pipeline, history
<1>1. /\ UNCHANGED <<dropped, handler, cursor, rollback, resumed, sup, fence, seen, stored, announced>>
      /\ UNCHANGED counter /\ chain' = chain \cup {d} /\ d.slot > Tip
      /\ ~ Contested(d, dropped)
  BY DEF NodeExtends, Disturb, If, Counting
<1>2. /\ UNCHANGED <<Upto, Resync, Furthest, Occupied(Upto)>>
      /\ UNCHANGED <<epoch, epochBlocks, EpochAt(cursor), EpochAt(rollback)>>
      /\ \A c : ToStore(c)' <=> ToStore(c)
  BY <1>1 DEF Upto, Resync, Furthest, Occupied, ToStore, counter, EpochAt
<1>3. \A c \in chain : c.slot <= Tip /\ c.slot \in Nat
  BY TipType DEF TailType
<1>4. Tip \in Nat /\ d.slot \in Nat /\ Root.slot <= Tip
  BY <1>3, TipType DEF Position
<1>5. d \notin chain /\ (d \in Own => d \notin dropped)
  BY <1>1, <1>3, <1>4 DEF Contested
<1>6. Counted' = Counted
  BY <1>1, <1>5 DEF Counted, KnownInv, Known, Position
<1>7. CountIsRight' <=> CountIsRight
  BY <1>1, <1>6, SameCount
<1>8. OwnLost => OwnLost'
  BY <1>1, <1>5 DEF OwnLost, KnownInv, Known
<1>9. Position'
  <2>1. IsFiniteSet(chain')
    BY <1>1, FS_AddElement DEF Position
  <2>2. Known' = Known \cup {d}
    BY <1>1 DEF Known
  <2>3. Root.slot <= d.slot
    BY <1>1, <1>4
  <2>4. EpochAt(Furthest)' = EpochAt(Furthest)
    BY <1>2 DEF EpochAt
  <2> QED  BY <1>1, <1>2, <2>1, <2>2, <2>3, <2>4 DEF Position
<1>10. resumed = NoRollback => AtTheTip'
  <2>1. chain' \in SUBSET Block /\ Bounded(chain')
    BY <1>1, ChainGrows
  <2>2. Tip' \in Nat /\ d.slot <= Tip'
    BY <1>1, ChainGrows
  <2>3. AtTheTip => cursor <= Tip'
    BY <1>1, <1>4, <2>2 DEF AtTheTip
  <2> QED  BY <1>1, <1>2, <1>7, <2>3 DEF AtTheTip
<1>11. resumed # NoRollback => FromDB'
  <2> SUFFICES ASSUME resumed # NoRollback PROVE FromDB'
    OBVIOUS
  <2>1. FromDB
    OBVIOUS
  <2>2. sup = "wait" => Upto < d.slot
    BY <1>1, <1>4 DEF ChainInv
  <2>3. sup = "wait" => NothingMissing'
    BY <1>1, <1>2, <1>4, <2>1, <2>2 DEF FromDB, NothingMissing
  <2>4. sup = "wait" => CountOrResync'
    BY <1>1, <1>2, <1>7, <1>8, <2>1 DEF FromDB, CountOrResync
  <2>5. EpochAt(Upto)' = EpochAt(Upto)
    BY <1>2 DEF EpochAt
  <2> QED  BY <1>1, <1>2, <1>6, <1>7, <1>8, <2>1, <2>3, <2>4, <2>5 DEF FromDB
<1> QED  BY <1>1, <1>9, <1>10, <1>11 DEF Counts

(* Everything that leaves the tail where it is and what it has counted.    *)
LEMMA CountKeeps ==
  ASSUME Counting,
         UNCHANGED <<chain, dropped, handler, cursor, rollback, resumed, announced, epoch, epochBlocks>>,
         UNCHANGED seen, fence' \in Nat, fence <= fence', fence' \in Slot \cup {0},
         stored \subseteq stored',
         resumed = NoRollback => fence' <= cursor /\ \A c \in stored' : c.slot <= cursor,
         resumed # NoRollback => stored' = stored,
         sup' = "wait" <=> sup = "wait",
         sup' = "connectAtTip" => sup = "connectAtTip" \/ resumed = NoRollback,
         sup' = "connectFromDB" => \A c \in stored' : c.slot <= fence'
  PROVE  Counts'
<1> USE AnnouncingFacts, CountingFacts
<1>1. Counted' = Counted /\ UNCHANGED counter
  BY DEF Counted, counter
<1>2. CountIsRight' <=> CountIsRight
  BY <1>1, SameCount
<1>3. /\ UNCHANGED <<Upto, Tip, Known, EpochAt(cursor), EpochAt(rollback), EpochAt(Upto)>>
      /\ \A c : ToStore(c)' <=> ToStore(c)
  BY DEF Upto, Known, EpochAt, Tip, ToStore
<1>4. /\ Furthest \in Slot \cup {0} /\ Furthest' \in Slot \cup {0} /\ Furthest <= Furthest'
      /\ Furthest \in Nat /\ Furthest' \in Nat
  <2>1. seen \in Slot \cup {0}
    BY DEF Position
  <2>2. /\ AtLeast(seen, fence) \in {seen, fence} /\ AtLeast(seen, fence) \in Nat
        /\ AtLeast(seen, fence') \in {seen, fence'} /\ AtLeast(seen, fence') \in Nat
        /\ AtLeast(seen, fence') >= seen /\ AtLeast(seen, fence') >= fence'
    BY EffectOfAtMost
  <2>3. AtLeast(seen, fence) <= AtLeast(seen, fence')
    BY <2>2
  <2>4. /\ Furthest' = AtLeast(AtLeast(seen, fence'), Root.slot)
        /\ Furthest' \in {AtLeast(seen, fence'), Root.slot}
        /\ Furthest' >= AtLeast(seen, fence') /\ Furthest' >= Root.slot
    BY <2>2, EffectOfAtMost DEF Furthest
  <2>5. Furthest \in {AtLeast(seen, fence), Root.slot}
    BY <2>2, EffectOfAtMost DEF Furthest
  <2> QED  BY <2>1, <2>2, <2>3, <2>4, <2>5
<1>5. EpochAt(Furthest) \in Nat /\ EpochAt(Furthest') \in Nat
      /\ EpochAt(Furthest) <= EpochAt(Furthest')
  BY <1>4, EpochGrows
<1>6. Position'
  <2>1. Position /\ epoch <= EpochAt(Furthest)'
    <3>1. EpochAt(Furthest)' = EpochAt(Furthest')
      BY DEF EpochAt
    <3> QED  BY <1>5, <3>1 DEF Position
  <2> QED  BY <1>3, <2>1 DEF Position
<1>7. resumed = NoRollback => AtTheTip'
  BY <1>2, <1>3 DEF AtTheTip
<1>8. resumed # NoRollback => FromDB'
  <2> SUFFICES ASSUME resumed # NoRollback PROVE FromDB'
    OBVIOUS
  <2>1. FromDB /\ stored' = stored
    OBVIOUS
  <2>2. UNCHANGED <<OwnLost, Resync, Occupied(Upto)>>
    BY <1>3, <2>1 DEF OwnLost, Resync, Occupied
  <2>3. sup = "wait" => NothingMissing' /\ CountOrResync'
    BY <1>2, <1>3, <2>1, <2>2 DEF FromDB, NothingMissing, CountOrResync
  <2>4. cursor <= Furthest => cursor <= Furthest'
    BY <1>4
  <2>5. sup' # "connectAtTip"
    BY <2>1 DEF FromDB
  <2> QED  BY <1>1, <1>2, <1>3, <2>1, <2>2, <2>3, <2>4, <2>5 DEF FromDB
<1> QED  BY <1>6, <1>7, <1>8 DEF Counts

LEMMA CountSyncStep ==
  ASSUME Counting, disturbed' = {}, SyncStep
  PROVE  Counts'
<1> USE AnnouncingFacts, CountingFacts DEF node, runChain, pipeline, counter, history
<1>0. fence \in Slot \cup {0} /\ seen \in Slot \cup {0}
  BY DEF Position
<1>1. ASSUME NEW b \in Block, SyncStores(b) PROVE Counts'
  <2>1. /\ UNCHANGED <<chain, dropped, handler, cursor, rollback, resumed, announced, epoch,
                       epochBlocks, seen, fence, sup>>
        /\ stored \subseteq stored' /\ stored' \subseteq stored \cup {b}
        /\ main = "sync" /\ ~ (b.slot > cursor)
    BY <1>1 DEF SyncStores, Disturb, If
  <2>2. resumed = NoRollback /\ sup # "connectFromDB"
    BY <2>1 DEF HandedOver
  <2>3. b.slot <= cursor
    BY <2>1
  <2>4. \A c \in stored' : c.slot <= cursor
    BY <2>1, <2>2, <2>3 DEF AtTheTip
  <2>5. fence <= cursor
    BY <2>2 DEF AtTheTip
  <2> QED  BY <1>0, <2>1, <2>2, <2>4, <2>5, CountKeeps
<1>2. CASE HistoricalSyncDone
  <2>1. /\ UNCHANGED <<chain, dropped, handler, cursor, rollback, resumed, announced, epoch,
                       epochBlocks, seen, fence, sup, stored>>
    BY <1>2 DEF HistoricalSyncDone
  <2>2. fence <= fence
    OBVIOUS
  <2> QED  BY <1>0, <2>1, <2>2, CountKeeps DEF AtTheTip, Position
<1>3. CASE RestartLiveTailFromDB
  <2>1. /\ UNCHANGED <<chain, dropped, handler, cursor, rollback, resumed, announced, epoch,
                       epochBlocks, seen, sup, stored>>
        /\ fence' = AtLeast(fence, seen)
    BY <1>3 DEF RestartLiveTailFromDB
  <2>2. fence' \in {fence, seen} /\ fence' >= fence
    BY <2>1, EffectOfAtMost
  <2>3. fence' \in Nat /\ fence' \in Slot \cup {0} /\ fence <= fence'
    BY <1>0, <2>2
  <2>4. sup = "connectFromDB" => \A c \in stored : c.slot <= fence'
    <3>1. \A c \in stored : c.slot \in Nat
      BY DEF TailType
    <3> QED  BY <2>3, <3>1 DEF Position
  <2> QED  BY <2>1, <2>2, <2>3, <2>4, CountKeeps DEF AtTheTip
<1> QED  BY <1>1, <1>2, <1>3 DEF SyncStep

LEMMA CountRaiseFence ==
  ASSUME Counting, disturbed' = {}, RaiseFence
  PROVE  Counts'
<1> USE AnnouncingFacts, CountingFacts DEF node, runChain, pipeline, counter, history
<1>1. /\ UNCHANGED <<chain, dropped, handler, cursor, rollback, resumed, announced, epoch,
                     epochBlocks, seen, stored>>
      /\ fence' = AtLeast(fence, LastSlot(stored)) /\ sup = "start"
      /\ sup' = IF done /\ stored # {} THEN "connectFromDB" ELSE "connectAtTip"
  BY DEF RaiseFence, Fails, Disturb
<1>2. /\ LastSlot(stored) \in Nat
      /\ stored # {} => \E b \in stored : LastSlot(stored) = b.slot
      /\ \A c \in stored : c.slot <= LastSlot(stored)
  BY LastSlotOf DEF TailType, ChainInv
<1>3. LastSlot(stored) \in Slot \cup {0}
  <2>1. stored = {} => LastSlot(stored) = 0
    BY DEF LastSlot
  <2>2. \A b \in stored : b.slot \in Slot
    BY EpochGrows DEF TailType
  <2> QED  BY <1>2, <2>1, <2>2
<1>4. fence' \in {fence, LastSlot(stored)} /\ fence' >= fence /\ fence' >= LastSlot(stored)
  BY <1>1, <1>2, EffectOfAtMost
<1>5. fence' \in Nat /\ fence' \in Slot \cup {0} /\ fence <= fence'
  BY <1>2, <1>3, <1>4 DEF Position
<1>6. \A c \in stored : c.slot <= fence'
  <2>1. \A c \in stored : c.slot \in Nat
    BY DEF TailType
  <2> QED  BY <1>2, <1>4, <1>5, <2>1
<1>7. resumed = NoRollback => fence' <= cursor
  <2>1. stored = {} => LastSlot(stored) = 0
    BY DEF LastSlot
  <2> QED  BY <1>2, <1>4, <2>1 DEF AtTheTip
<1>8. resumed # NoRollback => done /\ stored # {}
  BY DEF FromDB, HandedOver
<1>9. sup' # "wait" /\ (sup' = "connectAtTip" => resumed = NoRollback)
  BY <1>1, <1>8
<1> QED  BY <1>1, <1>5, <1>6, <1>7, <1>9, CountKeeps DEF AtTheTip

LEMMA CountConnectAtTip ==
  ASSUME Counting, disturbed' = {}, ConnectAtTip
  PROVE  Counts'
<1> USE AnnouncingFacts, CountingFacts DEF node, runChain, pipeline, counter, history
<1>1. /\ UNCHANGED <<chain, dropped, handler, announced, epoch, epochBlocks, seen, fence, stored>>
      /\ UNCHANGED <<Counted, counter, Tip, Known, Furthest>>
      /\ sup = "connectAtTip" /\ sup' = "wait"
      /\ cursor' = Tip /\ rollback' = Tip /\ resumed' = NoRollback
  BY DEF ConnectAtTip, Intersect, Fails, Disturb, Counted, Tip, Known, Furthest
<1>2. resumed = NoRollback /\ AtTheTip
  BY <1>1 DEF FromDB
<1>3. CountIsRight'
  BY <1>1, <1>2, SameCount DEF AtTheTip
<1>4. Tip \in Nat /\ Tip \in Slot /\ cursor <= Tip /\ cursor \in Slot
  BY <1>2, TipType, EpochGrows DEF AtTheTip, TailType, Position
<1>5. epoch <= EpochAt(Tip)
  <2>1. epoch <= EpochAt(cursor) /\ epoch \in Nat
    BY <1>2 DEF AtTheTip, Position
  <2>2. EpochAt(cursor) <= EpochAt(Tip) /\ EpochAt(cursor) \in Nat /\ EpochAt(Tip) \in Nat
    BY <1>4, EpochGrows
  <2> QED  BY <2>1, <2>2
<1>6. Position'
  <2>1. EpochAt(Furthest)' = EpochAt(Furthest)
    BY <1>1 DEF EpochAt
  <2>2. Root.slot <= Tip
    BY <1>4 DEF Position
  <2> QED  BY <1>1, <1>4, <2>1, <2>2 DEF Position
<1>7. AtTheTip'
  <2>1. EpochAt(cursor)' = EpochAt(Tip)
    BY <1>1 DEF EpochAt
  <2>2. \A c \in stored : c.slot <= Tip
    <3>1. \A c \in stored : c.slot \in Nat
      BY DEF TailType
    <3> QED  BY <1>2, <1>4, <3>1 DEF AtTheTip
  <2>3. fence <= Tip /\ seen <= Tip
    BY <1>2, <1>4 DEF AtTheTip
  <2>4. Tip' = Tip /\ Tip <= Tip
    BY <1>1, <1>4
  <2> QED  BY <1>1, <1>2, <1>3, <1>5, <2>1, <2>2, <2>3, <2>4 DEF AtTheTip
<1> QED  BY <1>1, <1>6, <1>7 DEF Counts

LEMMA CountStopPipeline ==
  ASSUME Counting, disturbed' = {}, StopPipeline
  PROVE  Counts'
<1> USE AnnouncingFacts, CountingFacts DEF node, runChain, pipeline, counter, history
<1>1. /\ UNCHANGED <<chain, dropped, handler, cursor, resumed, announced, epoch, epochBlocks,
                     seen, fence, stored>>
      /\ UNCHANGED <<Counted, counter, Tip, Known, Furthest>>
      /\ sup = "wait" /\ sup' = "start" /\ rollback' = NoRollback
  BY DEF StopPipeline, Disturb, Counted, Tip, Known, Furthest
<1>2. CountIsRight' <=> CountIsRight
  BY <1>1, SameCount
<1>3. /\ EpochAt(Furthest)' = EpochAt(Furthest)
      /\ EpochAt(cursor)' = EpochAt(cursor) /\ (OwnLost' <=> OwnLost)
  BY <1>1 DEF EpochAt, OwnLost
<1>4. Position'
  <2>1. handler'["current"] = Idle
    BY DEF StopPipeline, Disturb
  <2> QED  BY <1>1, <1>3, <2>1 DEF Position
<1>5. resumed = NoRollback => AtTheTip'
  BY <1>1, <1>2, <1>3 DEF AtTheTip
<1>6. resumed # NoRollback => CountIsRight \/ OwnLost
  BY <1>1 DEF FromDB, CountOrResync
<1>7. resumed # NoRollback => FromDB'
  BY <1>1, <1>2, <1>3, <1>6 DEF FromDB
<1> QED  BY <1>1, <1>4, <1>5, <1>7 DEF Counts

(* The count taken from Koios is that of the blocks the tail has met.      *)
LEMMA CountFromKoios ==
  ASSUME Counting, sup = "wait", handler["current"] = Idle, NEW p \in Slot, p <= cursor,
         Root.slot <= p, p = Upto,
         {b \in OwnIn(chain, EpochAt(p)) : b.slot > AtLeast(p, fence)} = {}
  PROVE  OwnIn(chain, EpochAt(p)) = CountedIn(EpochAt(p))
<1> USE AnnouncingFacts, CountingFacts
<1>1. p \in Nat
  BY EpochGrows
<1>2. CountedIn(EpochAt(p)) \subseteq OwnIn(chain, EpochAt(p))
  BY DEF CountedIn, Counted, OwnIn
<1>3. ASSUME NEW b \in OwnIn(chain, EpochAt(p)) PROVE b \in CountedIn(EpochAt(p))
  <2>1. b \in chain /\ b \in Own /\ EpochOf[b.slot] = EpochAt(p)
    BY DEF OwnIn
  <2>2. b \in Block /\ b.slot \in Nat /\ announced[b] \in Nat
    BY <2>1
  <2>3. AtLeast(p, fence) \in {p, fence}
    BY <1>1, EffectOfAtMost
  <2>4. b.slot <= p \/ b.slot <= fence
    BY <1>1, <1>3, <2>2, <2>3
  <2>5. ~ InHand(b)
    BY DEF InHand
  <2>6. ~ AwaitsTail(b)
    BY <1>1, <2>2, <2>4, <2>5 DEF AwaitsTail
  <2>7. announced[b] = 0 => ~ (Root.slot < b.slot)
    BY <2>1, <2>6 DEF Once
  <2>8. ~ (Root.slot < b.slot) => b = Root
    BY <2>1, <2>2 DEF Position, Known, ChainInv, OnePerSlot
  <2> QED  BY <2>1, <2>2, <2>7, <2>8 DEF CountedIn, Counted
<1> QED  BY <1>2, <1>3

LEMMA CountHandleRollback ==
  ASSUME Counting, disturbed' = {}, HandleRollback
  PROVE  Counts'
<1> USE AnnouncingFacts, CountingFacts DEF node, runChain, pipeline, history
<1> DEFINE p == rollback
<1>1. /\ UNCHANGED <<chain, dropped, handler, resumed, announced, seen, fence, sup>>
      /\ UNCHANGED <<Counted, Tip, Known, Furthest>>
      /\ sup = "wait" /\ handler["current"] = Idle
      /\ p # NoRollback /\ cursor' = p /\ rollback' = NoRollback
      /\ stored' = {c \in stored : c.slot <= p}
  BY DEF HandleRollback, Fails, Disturb, Ready, Prefix, Counted, Tip, Known, Furthest
<1>2. p \in Slot /\ p \in Nat /\ Root.slot <= p /\ p <= cursor /\ Upto = p /\ Upto' = p
  BY <1>1, EpochGrows DEF Position, ChainInv, Upto
<1>3. \A c \in stored : c.slot \in Nat /\ c \in Block
  BY DEF TailType
<1>4. \A s \in Slot \cup {0} : EpochAt(s)' = EpochAt(s)
  BY DEF EpochAt
<1>5. EpochAt(p) \in Nat
  BY <1>2, EpochGrows
<1>6. \/ /\ stored' # stored
         /\ epoch' = EpochAt(p)
         /\ epochBlocks' = Cardinality(OwnIn(chain, EpochAt(p)))
         /\ {b \in OwnIn(chain, EpochAt(p)) : b.slot > AtLeast(p, fence)} = {}
      \/ stored' = stored /\ UNCHANGED counter
  BY DEF HandleRollback, Fails, Disturb, Prefix, If, Counting
<1>7. CASE resumed = NoRollback
  <2>1. AtTheTip /\ p = cursor
    BY <1>1, <1>7 DEF AtTheTip
  <2>2. stored' = stored
    BY <1>1, <1>3, <2>1 DEF AtTheTip
  <2>3. UNCHANGED <<counter, cursor>> /\ CountIsRight'
    BY <1>1, <1>6, <2>1, <2>2, SameCount DEF AtTheTip
  <2>4. EpochAt(cursor)' = EpochAt(cursor) /\ EpochAt(Furthest)' = EpochAt(Furthest)
    BY <1>1, <2>3 DEF EpochAt
  <2>5. Position'
    BY <1>1, <1>2, <2>2, <2>3, <2>4, IdleIs DEF Position, counter
  <2>6. AtTheTip'
    BY <1>1, <2>1, <2>2, <2>3, <2>4 DEF AtTheTip, counter
  <2> QED  BY <1>1, <1>7, <2>5, <2>6 DEF Counts
<1>8. CASE resumed # NoRollback
  <2>1. FromDB /\ NothingMissing /\ CountOrResync /\ cursor <= Furthest
    BY <1>1, <1>8 DEF FromDB
  <2>2. handler["current"].pc # "store" /\ \A c : ~ ToStore(c)
    BY <1>1, IdleIs DEF ToStore
  <2>3. p <= Furthest
    BY <1>2, <2>1 DEF Position
  <2>4. EpochAt(p) <= EpochAt(Furthest) /\ EpochAt(Furthest) \in Nat
    BY <1>2, <2>3, EpochGrows
  <2>5. CountIsRight' /\ epoch' <= EpochAt(p) /\ epoch' \in Nat
    <3>1. CASE stored' # stored
      <4>1. /\ epoch' = EpochAt(p)
            /\ epochBlocks' = Cardinality(OwnIn(chain, EpochAt(p)))
            /\ OwnIn(chain, EpochAt(p)) = CountedIn(EpochAt(p))
        BY <1>1, <1>2, <1>6, <3>1, CountFromKoios
      <4>2. CountedIn(epoch)' = CountedIn(EpochAt(p))
        BY <1>1, <4>1 DEF CountedIn
      <4>3. ASSUME NEW b \in Counted PROVE EpochOf[b.slot] <= EpochAt(p)
        <5>1. b \in Block /\ b.slot \in Slot /\ b.slot \in Nat /\ EpochAt(b.slot) = EpochOf[b.slot]
          BY EpochGrows DEF Counted
        <5>2. CASE b.slot <= p
          BY <1>2, <5>1, <5>2, EpochGrows
        <5>3. CASE b.slot > p
          BY <1>1, <1>2, <2>1, <5>1, <5>3 DEF FromDB
        <5> QED  BY <1>2, <5>1, <5>2, <5>3
      <4> QED  BY <1>1, <1>5, <4>1, <4>2, <4>3 DEF CountIsRight
    <3>2. CASE stored' = stored
      <4>1. ~ Resync
        BY <1>1, <1>2, <1>3, <2>2, <3>2 DEF Resync
      <4>2. CountIsRight /\ epoch <= EpochAt(p) /\ epoch \in Nat
        BY <1>1, <2>1, <4>1 DEF CountOrResync, Position
      <4>3. UNCHANGED counter
        BY <1>6, <3>2
      <4> QED  BY <1>1, <4>2, <4>3, SameCount DEF counter
    <3> QED  BY <3>1, <3>2
  <2>6. Position'
    <3>1. epoch' <= EpochAt(Furthest)
      BY <1>5, <2>4, <2>5
    <3>2. EpochAt(Furthest)' = EpochAt(Furthest)
      BY <1>1 DEF EpochAt
    <3> QED  BY <1>1, <1>2, <2>5, <3>1, <3>2, IdleIs DEF Position
  <2>7. NothingMissing'
    <3>1. Occupied(p)
      BY <1>2, <2>1, <2>2 DEF NothingMissing
    <3>2. Occupied(Upto)'
      BY <1>1, <1>2, <3>1 DEF Occupied
    <3>3. \A c \in chain : c.slot <= p => c \in stored
      BY <1>2, <2>1, <2>2 DEF NothingMissing
    <3> QED  BY <1>1, <1>2, <3>2, <3>3 DEF NothingMissing
  <2>8. EpochAt(Upto)' = EpochAt(Upto) /\ EpochAt(cursor)' = EpochAt(p)
    BY <1>1, <1>2 DEF EpochAt
  <2>9. CountOrResync'
    BY <1>1, <2>5, <2>8 DEF CountOrResync
  <2>10. stored' # {}
    BY <1>1, <2>2, <2>7 DEF NothingMissing, Occupied
  <2>11. \A c \in Counted' : Upto' < c.slot => EpochOf[c.slot] <= EpochAt(Upto)'
    BY <1>1, <1>2, <2>1, <2>8 DEF FromDB
  <2> QED  BY <1>1, <1>8, <2>1, <2>3, <2>6, <2>7, <2>9, <2>10, <2>11 DEF Counts, FromDB
<1> QED  BY <1>7, <1>8

LEMMA CountHandleBlock ==
  ASSUME Counting, disturbed' = {}, NEW b \in Block, HandleBlock(b)
  PROVE  Counts'
<1> USE AnnouncingFacts, CountingFacts DEF node, runChain, pipeline, history
<1>1. /\ UNCHANGED <<chain, dropped, rollback, resumed, announced, fence, stored, sup>>
      /\ UNCHANGED <<Counted, Tip, Known>>
      /\ sup = "wait" /\ handler["current"] = Idle /\ rollback = NoRollback
      /\ b \in chain /\ b.slot > cursor /\ \A c \in chain : c.slot > cursor => b.slot <= c.slot
      /\ cursor' = b.slot /\ seen' = AtLeast(seen, b.slot)
      /\ handler'["current"] = IF done THEN [pc |-> "store", block |-> b] ELSE ToMint(b)
  BY DEF HandleBlock, Ready, Next1, Counted, Tip, Known, TailType
<1>2. /\ b.slot \in Nat /\ b.slot \in Slot /\ EpochAt(b.slot) = EpochOf[b.slot]
      /\ EpochOf[b.slot] \in Nat /\ Upto = cursor /\ Upto' = b.slot
  BY <1>1, EpochGrows DEF Upto
<1>3. \A c \in stored \cup chain : c.slot \in Nat /\ c \in Block
  BY DEF TailType
<1>4. \A s : EpochAt(s)' = EpochAt(s)
  BY DEF EpochAt
<1>5. CountIsRight /\ epoch <= EpochAt(cursor) /\ epoch \in Nat
  BY <1>1 DEF AtTheTip, FromDB, CountOrResync, Position
<1>6. EpochAt(cursor) \in Nat /\ EpochAt(cursor) <= EpochOf[b.slot] /\ epoch <= EpochOf[b.slot]
  <2>1. cursor \in Slot /\ cursor <= b.slot
    BY <1>1, <1>2 DEF Position
  <2> QED  BY <1>2, <1>5, <2>1, EpochGrows
<1>7. epoch' = EpochOf[b.slot] /\ CountIsRight'
  <2>1. CASE EpochOf[b.slot] = epoch
    <3>1. UNCHANGED counter
      BY <2>1 DEF HandleBlock
    <3> QED  BY <1>1, <1>5, <2>1, <3>1, SameCount DEF counter
  <2>2. CASE EpochOf[b.slot] # epoch
    <3>1. epoch' = EpochOf[b.slot] /\ epochBlocks' = 0
      BY <2>2 DEF HandleBlock
    <3>2. \A c \in Counted : EpochOf[c.slot] \in Nat /\ EpochOf[c.slot] <= epoch
      BY <1>5, EpochGrows DEF CountIsRight, Counted
    <3>3. epoch < EpochOf[b.slot]
      BY <1>2, <1>5, <1>6, <2>2
    <3>4. CountedIn(epoch)' = {}
      BY <1>1, <1>2, <1>5, <3>1, <3>2, <3>3 DEF CountedIn
    <3>5. \A c \in Counted' : EpochOf[c.slot] <= epoch'
      BY <1>1, <1>2, <1>5, <3>1, <3>2, <3>3
    <3> QED  BY <3>1, <3>4, <3>5, FS_EmptySet DEF CountIsRight
  <2> QED  BY <2>1, <2>2
<1>8. /\ seen' \in {seen, b.slot} /\ seen' >= b.slot /\ seen' >= seen
      /\ seen' \in Nat /\ seen' \in Slot \cup {0}
  <2>1. seen' \in {seen, b.slot} /\ seen' >= b.slot /\ seen' >= seen
    BY <1>1, <1>2, EffectOfAtMost
  <2> QED  BY <1>2, <2>1 DEF Position
<1>9. b.slot <= Furthest' /\ Furthest' \in Nat /\ Furthest' \in Slot \cup {0}
  <2>1. AtLeast(seen', fence) \in {seen', fence} /\ AtLeast(seen', fence) >= seen'
    BY <1>8, EffectOfAtMost
  <2>2. AtLeast(seen', fence) \in Nat
    BY <1>8, <2>1
  <2>3. /\ Furthest' = AtLeast(AtLeast(seen', fence), Root.slot)
        /\ Furthest' \in {AtLeast(seen', fence), Root.slot}
        /\ Furthest' >= AtLeast(seen', fence)
    BY <1>1, <2>2, EffectOfAtMost DEF Furthest
  <2> QED  BY <1>2, <1>8, <2>1, <2>2, <2>3 DEF Position
<1>10. Position'
  <2>1. EpochOf[b.slot] <= EpochAt(Furthest)'
    <3>1. EpochAt(b.slot) <= EpochAt(Furthest')
      BY <1>2, <1>9, EpochGrows
    <3>2. EpochAt(Furthest)' = EpochAt(Furthest')
      BY DEF EpochAt
    <3> QED  BY <1>2, <3>1, <3>2
  <2>2. handler'["current"] # Idle => handler'["current"].block = b
    BY <1>1, ToMintType
  <2>3. Root.slot < b.slot /\ Root.slot <= b.slot
    BY <1>1, <1>2 DEF Position
  <2>4. handler'["current"].pc = "mint" => b \in Own
    BY <1>1 DEF ToMint, Idle
  <2> QED  BY <1>1, <1>2, <1>7, <1>8, <2>1, <2>2, <2>3, <2>4 DEF Position
<1>11. resumed = NoRollback => AtTheTip'
  <2> SUFFICES ASSUME resumed = NoRollback PROVE AtTheTip'
    OBVIOUS
  <2>1. AtTheTip
    OBVIOUS
  <2>2. b.slot <= Tip /\ Tip' = Tip
    BY <1>1, TipType
  <2>3. fence <= b.slot /\ seen' <= b.slot
    BY <1>1, <1>2, <1>8, <2>1 DEF AtTheTip
  <2>4. \A c \in stored : c.slot <= b.slot
    BY <1>1, <1>2, <1>3, <2>1 DEF AtTheTip
  <2>5. epoch' <= EpochAt(cursor)'
    <3>1. EpochAt(cursor)' = EpochAt(b.slot)
      BY <1>1 DEF EpochAt
    <3> QED  BY <1>2, <1>7, <3>1
  <2> QED  BY <1>1, <1>7, <2>1, <2>2, <2>3, <2>4, <2>5 DEF AtTheTip
<1>12. resumed # NoRollback => FromDB'
  <2> SUFFICES ASSUME resumed # NoRollback PROVE FromDB'
    OBVIOUS
  <2>1. FromDB /\ NothingMissing /\ done
    BY <1>1 DEF FromDB, HandedOver
  <2>2. handler'["current"] = [pc |-> "store", block |-> b] /\ \A c : ~ ToStore(c)
    BY <1>1, <2>1, IdleIs DEF ToStore
  <2>3. ASSUME NEW c \in chain, c.slot <= b.slot PROVE c \in stored \/ ToStore(c)'
    <3>1. CASE c.slot <= cursor
      BY <1>2, <2>1, <2>2, <3>1 DEF NothingMissing
    <3>2. CASE c.slot > cursor
      <4>1. c.slot = b.slot
        BY <1>1, <1>2, <1>3, <2>3, <3>2
      <4>2. c = b
        BY <1>1, <4>1 DEF ChainInv, OnePerSlot
      <4> QED  BY <2>2, <4>2 DEF ToStore
    <3> QED  BY <1>3, <3>1, <3>2
  <2>4. NothingMissing'
    BY <1>1, <1>2, <2>2, <2>3 DEF NothingMissing
  <2>5. EpochAt(Upto)' = EpochOf[b.slot] /\ EpochAt(cursor)' = EpochOf[b.slot]
    <3>1. EpochAt(Upto)' = EpochAt(b.slot) /\ EpochAt(cursor)' = EpochAt(b.slot)
      BY <1>1, <1>2 DEF EpochAt
    <3> QED  BY <1>2, <3>1
  <2>6. ASSUME NEW c \in Counted, b.slot < c.slot PROVE EpochOf[c.slot] <= EpochOf[b.slot]
    <3>1. c.slot \in Nat /\ EpochOf[c.slot] \in Nat
      BY EpochGrows DEF Counted
    <3>2. EpochOf[c.slot] <= EpochAt(cursor)
      BY <1>1, <1>2, <2>1, <2>6, <3>1 DEF FromDB
    <3> QED  BY <1>2, <1>6, <3>1, <3>2
  <2>7. CountOrResync'
    BY <1>1, <1>2, <1>7, <2>5 DEF CountOrResync
  <2> QED  BY <1>1, <1>2, <1>9, <2>1, <2>4, <2>5, <2>6, <2>7 DEF FromDB
<1> QED  BY <1>1, <1>10, <1>11, <1>12 DEF Counts

(* When a block of the pool has been lost, the database is asked for a     *)
(* block that is not its last one.                                         *)
LEMMA IntersectsBefore ==
  ASSUME Counting, stored # {}, IntersectFromDB \in chain, OwnLost
  PROVE  \E c \in stored : c.slot > IntersectFromDB.slot
<1> USE AnnouncingFacts, CountingFacts
<1> DEFINE d == IntersectFromDB
<1>1. d \in stored
  BY IntersectionStored DEF TailType, ChainInv
<1>2. d \in LastNBlocks /\ \A m \in LastNBlocks : d.slot <= m.slot
  <2>1. PICK b \in stored : \A c \in stored : c.slot <= b.slot
    BY LastBlock DEF TailType, ChainInv
  <2>2. {c \in stored : c.slot > b.slot} = {}
    BY <2>1 DEF TailType
  <2>3. Cardinality({c \in stored : c.slot > b.slot}) = 0
    BY <2>2, FS_EmptySet
  <2>4. b \in LastNBlocks
    BY <2>3, TailAssumption DEF LastNBlocks
  <2>5. LastNBlocks \in SUBSET Block /\ LastNBlocks # {}
    BY <2>4 DEF LastNBlocks, TailType
  <2>6. \E m \in LastNBlocks : \A c \in LastNBlocks : m.slot <= c.slot
    BY <2>5, FirstBlock
  <2> QED  BY <2>6 DEF IntersectFromDB
<1> HIDE DEF d
<1>3. SUFFICES ASSUME \A c \in stored : ~ (c.slot > d.slot) PROVE FALSE
  BY DEF d
<1>4. \A c \in stored : c \in Block /\ c.slot \in Nat /\ c.slot <= d.slot
  BY <1>1, <1>3 DEF TailType
<1>5. PICK l \in stored \cap Own : l \notin chain
  BY DEF OwnLost
<1>6. l \in stored \ {d}
  BY <1>5 DEF d
<1>7. stored \ {d} \in SUBSET Block /\ stored \ {d} # {} /\ Bounded(stored \ {d})
  BY <1>6 DEF TailType, ChainInv, Bounded
<1>8. PICK m \in stored \ {d} : \A c \in stored \ {d} : c.slot <= m.slot
  BY <1>7, LastBlock
<1>9. m.slot < d.slot /\ m.slot \in Nat /\ d.slot \in Nat
  BY <1>1, <1>4, <1>8 DEF ChainInv, OnePerSlot
<1>10. {c \in stored : c.slot > m.slot} = {d}
  BY <1>1, <1>4, <1>8, <1>9
<1>11. Cardinality({c \in stored : c.slot > m.slot}) = 1
  BY <1>10, FS_Singleton
<1>12. Overlap > 1
  BY <1>5 DEF KnownInv, Known, Position
<1>13. m \in LastNBlocks
  BY <1>8, <1>11, <1>12, TailAssumption DEF LastNBlocks
<1> QED  BY <1>2, <1>9, <1>13

LEMMA CountConnectFromDB ==
  ASSUME Counting, disturbed' = {}, ConnectFromDB
  PROVE  Counts'
<1> USE AnnouncingFacts, CountingFacts DEF node, runChain, pipeline, counter, history
<1> DEFINE d == IntersectFromDB
<1>1. /\ UNCHANGED <<chain, dropped, handler, announced, epoch, epochBlocks, seen, fence, stored>>
      /\ UNCHANGED <<Counted, counter, Known, Furthest>>
      /\ sup = "connectFromDB" /\ sup' = "wait" /\ stored # {} /\ d \in chain
      /\ cursor' = d.slot /\ rollback' = d.slot /\ resumed' = d.slot
      /\ ~ (EpochAt(d.slot) < EpochAt(AtLeast(fence, seen)))
      /\ \A c \in chain : c.slot < d.slot => c \in stored
  BY DEF ConnectFromDB, Intersect, Disturb, If, Counting, Counted, Known, Furthest
<1>2. d \in stored /\ d \in Block
  BY <1>1, IntersectionStored DEF TailType, ChainInv
<1>3. OwnLost => \E c \in stored : c.slot > d.slot
  BY <1>1, IntersectsBefore
<1> HIDE DEF d
<1>4. /\ d.slot \in Nat /\ d.slot \in Slot /\ EpochAt(d.slot) \in Nat
      /\ Root.slot <= d.slot /\ d.slot <= fence
  BY <1>1, <1>2, EpochGrows DEF Position, Known
<1>5. rollback' # NoRollback /\ resumed' # NoRollback /\ Upto' = d.slot
  BY <1>1, <1>4 DEF NoRollback, Upto
<1>6. CountIsRight' <=> CountIsRight
  BY <1>1, SameCount
<1>7. CountIsRight \/ OwnLost
  BY <1>1 DEF AtTheTip, FromDB
<1>8. handler["current"] = Idle
  BY <1>1
<1>9. EpochAt(seen) <= EpochAt(d.slot) /\ EpochAt(fence) <= EpochAt(d.slot)
      /\ EpochAt(Root.slot) <= EpochAt(d.slot)
  <2>1. AtLeast(fence, seen) \in {fence, seen}
        /\ AtLeast(fence, seen) >= fence /\ AtLeast(fence, seen) >= seen
    BY EffectOfAtMost
  <2>2. seen \in Slot \cup {0} /\ fence \in Slot \cup {0}
    BY DEF Position
  <2> DEFINE a == AtLeast(fence, seen)
  <2>3. a \in Slot \cup {0} /\ a \in Nat /\ seen <= a /\ fence <= a
    BY <2>1, <2>2
  <2> HIDE DEF a
  <2>4. EpochAt(seen) <= EpochAt(a) /\ EpochAt(fence) <= EpochAt(a)
        /\ EpochAt(seen) \in Nat /\ EpochAt(fence) \in Nat /\ EpochAt(a) \in Nat
    BY <2>2, <2>3, EpochGrows
  <2>5. EpochAt(a) <= EpochAt(d.slot)
    BY <1>1, <1>4, <2>4 DEF a
  <2>6. EpochAt(Root.slot) <= EpochAt(d.slot)
    BY <1>4, EpochGrows
  <2> QED  BY <1>4, <2>4, <2>5, <2>6
<1>10. epoch <= EpochAt(d.slot)
  <2>1. AtLeast(seen, fence) \in {seen, fence}
    BY EffectOfAtMost
  <2>2. Furthest \in {seen, fence, Root.slot}
    BY <2>1, EffectOfAtMost DEF Furthest
  <2>3. EpochAt(Furthest) <= EpochAt(d.slot)
    BY <1>9, <2>2
  <2>4. epoch \in Nat /\ epoch <= EpochAt(Furthest) /\ EpochAt(Furthest) \in Nat
    BY EpochGrows DEF Position
  <2> QED  BY <1>4, <2>3, <2>4
<1>11. /\ EpochAt(Upto)' = EpochAt(d.slot) /\ EpochAt(rollback)' = EpochAt(d.slot)
       /\ EpochAt(Furthest)' = EpochAt(Furthest)
  BY <1>1, <1>5 DEF EpochAt
<1>12. Position'
  BY <1>1, <1>4, <1>8, <1>11 DEF Position
<1>13. NothingMissing'
  <2>1. Occupied(Upto)'
    BY <1>1, <1>2, <1>5 DEF Occupied
  <2>2. ASSUME NEW c \in chain, c.slot <= d.slot PROVE c \in stored
    <3>1. CASE c.slot < d.slot
      BY <1>1, <3>1
    <3>2. CASE c.slot = d.slot
      BY <1>1, <1>2, <3>2 DEF ChainInv, OnePerSlot
    <3>3. c.slot \in Nat
      BY DEF TailType
    <3> QED  BY <1>4, <2>2, <3>1, <3>2, <3>3
  <2> QED  BY <1>1, <1>5, <2>1, <2>2 DEF NothingMissing
<1>14. ASSUME NEW c \in Counted, d.slot < c.slot PROVE EpochOf[c.slot] <= EpochAt(d.slot)
  <2>1. /\ c \in Own /\ c \in Block /\ c.slot \in Nat /\ c.slot \in Slot
        /\ EpochOf[c.slot] \in Nat /\ EpochAt(c.slot) = EpochOf[c.slot]
    BY EpochGrows DEF Counted
  <2>2. c # Root
    BY <1>4, <1>14
  <2>3. c.slot <= seen
    BY <2>1, <2>2 DEF Counted, KnownInv
  <2>4. seen \in Slot \cup {0}
    BY DEF Position
  <2>5. EpochAt(c.slot) <= EpochAt(seen) /\ EpochAt(seen) \in Nat
    BY <2>1, <2>3, <2>4, EpochGrows
  <2> QED  BY <1>4, <1>9, <2>1, <2>5
<1>15. CountOrResync'
  <2>1. OwnLost => OwnLost' /\ Resync'
    BY <1>1, <1>3 DEF OwnLost, Resync
  <2> QED  BY <1>5, <1>6, <1>7, <1>10, <1>1, <1>11, <2>1 DEF CountOrResync
<1>16. cursor' <= Furthest'
  BY <1>1, <1>4
<1>17. FromDB'
  BY <1>1, <1>5, <1>11, <1>13, <1>14, <1>15, <1>16 DEF FromDB
<1> QED  BY <1>5, <1>12, <1>17 DEF Counts

LEMMA CountProcessBlock ==
  ASSUME Counting, disturbed' = {}, ProcessBlock("current")
  PROVE  Counts'
<1> USE AnnouncingFacts, CountingFacts DEF node, runChain, pipeline, history
<1> DEFINE b == handler["current"].block
<1>1. /\ UNCHANGED <<chain, dropped, cursor, rollback, resumed, sup, fence, seen, announced>>
      /\ UNCHANGED <<Upto, Counted, Tip, Known, Furthest, counter, epoch, epochBlocks>>
      /\ handler["current"] # Idle /\ handler["current"].pc = "store"
      /\ stored' = IF \E c \in stored : c.slot = b.slot THEN stored ELSE stored \cup {b}
      /\ handler'["current"] = ToMint(b)
  BY DEF ProcessBlock, At, Upto, Counted, Tip, Known, Furthest, TailType, counter
<1>2. b \in Block /\ b.slot = cursor /\ sup = "wait" /\ cursor \in Nat
  BY <1>1
<1>3. \A c \in Block : ToStore(c) <=> c = b
  BY <1>1 DEF ToStore
<1>4. /\ handler'["current"] # Idle => handler'["current"].block = b
      /\ handler'["current"].pc # "store"
      /\ handler'["current"].pc = "mint" => b \in Own
  BY <1>1, <1>2, ToMintType DEF ToMint, Idle
<1>5. stored \subseteq stored' /\ \E c \in stored' : c.slot = cursor
  BY <1>1, <1>2
<1>6. \A c \in stored' : c \in stored \/ c = b
  BY <1>1
<1>7. CountIsRight' <=> CountIsRight
  BY <1>1, SameCount
<1>8. /\ EpochAt(Furthest)' = EpochAt(Furthest) /\ EpochAt(cursor)' = EpochAt(cursor)
      /\ EpochAt(rollback)' = EpochAt(rollback) /\ EpochAt(Upto)' = EpochAt(Upto)
  BY <1>1 DEF EpochAt
<1>9. rollback # NoRollback => rollback < cursor /\ rollback \in Nat
  BY <1>1 DEF ChainInv, TailType
<1>10. Position'
  BY <1>1, <1>2, <1>4, <1>5, <1>8 DEF Position
<1>11. resumed = NoRollback => AtTheTip'
  BY <1>1, <1>2, <1>6, <1>7, <1>8 DEF AtTheTip
<1>12. resumed # NoRollback => FromDB'
  <2> SUFFICES ASSUME resumed # NoRollback PROVE FromDB'
    OBVIOUS
  <2>1. FromDB /\ NothingMissing /\ CountOrResync /\ Stores
    BY <1>2 DEF FromDB
  <2>2. rollback = NoRollback => b \in stored'
    <3>1. rollback = NoRollback => \A c \in stored : c.slot < cursor
      BY <1>1, <2>1 DEF Stores
    <3>2. rollback = NoRollback => ~ \E c \in stored : c.slot = b.slot
      BY <1>2, <3>1 DEF TailType
    <3> QED  BY <1>1, <3>2
  <2>3. Occupied(Upto)'
    <3>1. CASE rollback = NoRollback
      BY <1>1, <1>5, <3>1 DEF Occupied, Upto
    <3>2. CASE rollback # NoRollback
      BY <1>1, <1>5, <2>1, <3>2 DEF Occupied, NothingMissing
    <3> QED  BY <3>1, <3>2
  <2>4. \A c \in chain : c.slot <= Upto => c \in stored'
    BY <1>3, <1>5, <2>1, <2>2 DEF NothingMissing, TailType
  <2>5. NothingMissing'
    BY <1>1, <2>3, <2>4 DEF NothingMissing
  <2>6. OwnLost => OwnLost'
    BY <1>1, <1>5 DEF OwnLost
  <2>7. rollback # NoRollback => Resync'
    BY <1>1, <1>5, <1>9 DEF Resync
  <2>8. CountOrResync'
    BY <1>1, <1>7, <1>8, <2>1, <2>6, <2>7 DEF CountOrResync
  <2> QED  BY <1>1, <1>2, <1>5, <1>8, <2>1, <2>5, <2>8 DEF FromDB
<1> QED  BY <1>1, <1>10, <1>11, <1>12 DEF Counts

(* Only the block in hand is counted, and it is counted with the others.   *)
LEMMA CountsOneMore ==
  ASSUME Counting, NEW b \in Own, b \in chain, b \notin Counted, EpochOf[b.slot] = epoch,
         Counted' = Counted \cup {b}, epoch' = epoch, epochBlocks' = epochBlocks + 1,
         CountIsRight
  PROVE  CountIsRight'
<1> USE CountingFacts
<1>1. IsFiniteSet(CountedIn(epoch))
  <2>1. CountedIn(epoch) \subseteq chain /\ IsFiniteSet(chain)
    BY DEF CountedIn, Counted, Position
  <2> QED  BY <2>1, FS_Subset
<1>2. CountedIn(epoch)' = CountedIn(epoch) \cup {b} /\ b \notin CountedIn(epoch)
  BY DEF CountedIn
<1>3. Cardinality(CountedIn(epoch)') = Cardinality(CountedIn(epoch)) + 1
  BY <1>1, <1>2, FS_AddElement
<1>4. \A c \in Counted' : EpochOf[c.slot] <= epoch
  BY DEF CountIsRight, Position
<1> QED  BY <1>3, <1>4 DEF CountIsRight

LEMMA CountMint ==
  ASSUME Counting, disturbed' = {}, Mint("current")
  PROVE  Counts'
<1> USE AnnouncingFacts, CountingFacts DEF node, runChain, pipeline, counter, history
<1> DEFINE b == handler["current"].block
           new == fence = 0 \/ b.slot > fence
<1>1. /\ UNCHANGED <<chain, dropped, cursor, rollback, resumed, sup, fence, seen, stored, epoch>>
      /\ UNCHANGED <<Upto, Tip, Known, Furthest>>
      /\ handler["current"] # Idle /\ handler["current"].pc = "mint"
      /\ announced' = IF new THEN [announced EXCEPT ![b] = announced[b] + 1] ELSE announced
      /\ epochBlocks' = IF new THEN epochBlocks + 1 ELSE epochBlocks
      /\ handler'["current"] = Idle
  BY DEF Mint, At, Upto, Tip, Known, Furthest, TailType
<1>2. /\ b \in Block /\ b \in Own /\ b.slot = cursor /\ sup = "wait" /\ b \in Known
      /\ epoch = EpochOf[b.slot] /\ Root.slot < b.slot /\ b \in chain \cup stored
      /\ rollback = NoRollback => b \in chain
      /\ announced \in [Own -> Nat] /\ InHand(b) /\ b.slot \in Nat
  BY <1>1 DEF Position, KnownInv, InHand
<1>3. announced[b] > 0 => ~ new
  <2>1. announced[b] > 0 => b.slot <= fence
    BY <1>2 DEF Once
  <2> QED  BY <1>2, <2>1
<1>4. b \in chain /\ announced[b] = 0 => new
  BY <1>2 DEF Once, AwaitsTail
<1>5. b # Root
  BY <1>2
<1>6. /\ new => \A c \in Own : announced'[c] = IF c = b THEN announced[b] + 1 ELSE announced[c]
      /\ ~ new => announced' = announced
  BY <1>1, <1>2
<1>7. b \in dropped => b \notin chain
  BY <1>2 DEF Once
<1>8. rollback # NoRollback => b \notin chain
  BY <1>1, <1>7 DEF HandInv
<1> HIDE DEF b, new
<1>9. b \in chain /\ new => Counted' = Counted \cup {b} /\ b \notin Counted
  BY <1>1, <1>2, <1>3, <1>5, <1>6 DEF Counted
<1>10. b \notin chain \/ ~ new => Counted' = Counted
  BY <1>1, <1>2, <1>6 DEF Counted
<1>11. b \in chain \/ ~ new => (CountIsRight => CountIsRight')
  <2>1. CASE new /\ b \in chain
    BY <1>1, <1>2, <1>9, <2>1, CountsOneMore
  <2>2. CASE ~ new
    BY <1>1, <1>10, <2>2, SameCount
  <2> QED  BY <2>1, <2>2
<1>12. /\ EpochAt(Furthest)' = EpochAt(Furthest) /\ EpochAt(cursor)' = EpochAt(cursor)
       /\ EpochAt(rollback)' = EpochAt(rollback) /\ EpochAt(Upto)' = EpochAt(Upto)
       /\ UNCHANGED <<Occupied(Upto), OwnLost>>
       /\ handler["current"].pc # "store" /\ handler'["current"].pc # "store"
       /\ \A c : ~ ToStore(c) /\ ~ ToStore(c)'
  BY <1>1, IdleIs DEF EpochAt, Occupied, OwnLost, ToStore
<1>13. Position'
  BY <1>1, <1>2, <1>12 DEF Position
<1>14. resumed = NoRollback => AtTheTip'
  <2> SUFFICES ASSUME resumed = NoRollback PROVE AtTheTip'
    OBVIOUS
  <2>1. AtTheTip /\ b \in chain
    BY <1>2 DEF AtTheTip, Known
  <2>2. CountIsRight'
    BY <1>11, <2>1 DEF AtTheTip
  <2> QED  BY <1>1, <1>12, <2>1, <2>2 DEF AtTheTip
<1>15. resumed # NoRollback => FromDB'
  <2> SUFFICES ASSUME resumed # NoRollback PROVE FromDB'
    OBVIOUS
  <2>1. FromDB /\ NothingMissing /\ CountOrResync
    BY <1>2 DEF FromDB
  <2>2. NothingMissing'
    BY <1>1, <1>12, <2>1 DEF NothingMissing
  <2>3. \A c \in Counted' : Upto < c.slot => EpochOf[c.slot] <= EpochAt(Upto)
    <3>1. \A c \in Counted : Upto < c.slot => EpochOf[c.slot] <= EpochAt(Upto)
      BY <1>2, <2>1 DEF FromDB
    <3>2. b \in chain => Upto = b.slot
      BY <1>2, <1>8 DEF Upto
    <3> QED  BY <1>2, <1>9, <1>10, <3>1, <3>2
  <2>4. CountOrResync'
    <3>1. CASE b \in chain
      BY <1>1, <1>8, <1>11, <1>12, <2>1, <3>1 DEF CountOrResync
    <3>2. CASE b \notin chain
      <4>1. b \in stored /\ OwnLost' /\ rollback # NoRollback
        BY <1>1, <1>2, <3>2 DEF OwnLost
      <4>2. rollback < cursor
        BY <1>1, <4>1 DEF ChainInv
      <4>3. Resync'
        BY <1>1, <1>2, <4>1, <4>2 DEF Resync
      <4> QED  BY <1>1, <4>1, <4>3 DEF CountOrResync
    <3> QED  BY <3>1, <3>2
  <2> QED  BY <1>1, <1>2, <1>12, <2>1, <2>2, <2>3, <2>4 DEF FromDB
<1> QED  BY <1>1, <1>13, <1>14, <1>15 DEF Counts

(* A switch either leaves what has been counted, or a block of the pool    *)
(* beyond the fork is still stored.                                        *)
LEMMA SwitchCounted ==
  ASSUME Counting, disturbed' = {}, NEW p \in Slot, NEW d \in Block, NodeSwitches(p, d)
  PROVE  /\ \A c \in Counted' : c \in Counted /\ c.slot <= p
         /\ Counted' = Counted \/ (OwnLost' /\ \E c \in stored : c.slot > p)
         /\ OwnLost => OwnLost'
<1> USE AnnouncingFacts, CountingFacts DEF node, runChain, pipeline, counter, history
<1> DEFINE lost == chain \ Prefix(chain, p)
<1>1. /\ UNCHANGED <<announced, stored, seen>>
      /\ chain' = Prefix(chain, p) \cup {d} /\ d.slot > p /\ d \notin chain
      /\ dropped' = dropped \cup lost /\ \E c \in chain : c.slot = p
      /\ ~ Contested(d, dropped')
      /\ ~ \E c \in lost \cap Own : c.slot <= seen /\ c \notin stored
  BY DEF NodeSwitches, Disturb, If, Counting
<1>2. p \in Nat /\ Root.slot <= p /\ Root \in chain
  BY <1>1, EpochGrows DEF Position, Known
<1>3. \A c \in chain : c.slot \in Nat /\ c \in Block
  BY DEF TailType
<1>4. d \in Own => d \notin Known /\ announced[d] = 0
  <2>1. d \in Own => d \notin dropped
    BY <1>1 DEF Contested
  <2> QED  BY <1>1, <2>1 DEF Known, KnownInv
<1>5. d # Root
  BY <1>1, <1>2
<1>6. \A c \in Counted' : c \in Counted /\ c \in Prefix(chain, p)
  BY <1>1, <1>4, <1>5 DEF Counted, Prefix
<1>7. CASE \E c \in lost \cap Own : announced[c] > 0
  <2>1. PICK c \in lost \cap Own : announced[c] > 0
    BY <1>7
  <2>2. c.slot <= seen /\ c \in chain /\ c.slot > p
    BY <1>2, <1>3, <2>1 DEF KnownInv, Prefix
  <2>3. c \in stored
    BY <1>1, <2>1, <2>2
  <2>4. c \notin chain'
    BY <1>1, <2>1, <2>2
  <2>5. OwnLost'
    BY <1>1, <2>1, <2>3, <2>4 DEF OwnLost
  <2> QED  BY <1>6, <2>2, <2>3, <2>5 DEF OwnLost, Prefix
<1>8. CASE ~ \E c \in lost \cap Own : announced[c] > 0
  <2>1. \A c \in Counted : c \in Counted'
    BY <1>1, <1>2, <1>8 DEF Counted, Prefix
  <2>2. Counted' = Counted
    BY <1>6, <2>1
  <2>3. OwnLost => OwnLost'
    BY <1>1, <1>4 DEF OwnLost, KnownInv, Prefix
  <2> QED  BY <1>6, <2>2, <2>3 DEF Prefix
<1>9. OwnLost => OwnLost'
  BY <1>1, <1>4 DEF OwnLost, KnownInv, Prefix
<1> QED  BY <1>7, <1>8, <1>9

LEMMA PositionNodeSwitches ==
  ASSUME Counting, disturbed' = {}, NEW p \in Slot, NEW d \in Block, NodeSwitches(p, d)
  PROVE  Position'
<1> USE AnnouncingFacts, CountingFacts DEF node, runChain, pipeline, counter, history
<1> DEFINE lost == chain \ Prefix(chain, p)
           b == handler["current"].block
<1>1. /\ UNCHANGED <<handler, cursor, sup, seen, fence, stored, epoch, Furthest>>
      /\ chain' = Prefix(chain, p) \cup {d} /\ d.slot > p
      /\ dropped' = dropped \cup lost /\ \E c \in chain : c.slot = p
      /\ lost # {} /\ Cardinality(lost) < Overlap
      /\ ~ \E c \in lost \cap Own : c.slot <= seen /\ c \notin stored
      /\ rollback' = IF sup = "wait" /\ p < cursor
                     THEN IF rollback = NoRollback THEN p ELSE AtMost(p, rollback)
                     ELSE rollback
  BY DEF NodeSwitches, Disturb, If, Counting, Furthest
<1>2. p \in Nat /\ Root.slot <= p /\ Root \in chain' /\ d.slot \in Nat
  BY <1>1, EpochGrows DEF Position, Known, Prefix
<1>3. IsFiniteSet(chain') /\ IsFiniteSet(lost)
  <2>1. IsFiniteSet(Prefix(chain, p)) /\ IsFiniteSet(lost)
    BY FS_Subset DEF Prefix, Position
  <2> QED  BY <1>1, <2>1, FS_AddElement
<1>4. Overlap > 1
  <2>1. Cardinality(lost) \in Nat /\ Cardinality(lost) # 0
    BY <1>1, <1>3, FS_CardinalityType, FS_EmptySet
  <2> QED  BY <1>1, <2>1, TailAssumption
<1>5. \A c \in Known' : Root.slot <= c.slot
  <2>1. Known' \subseteq Known \cup {d}
    BY <1>1 DEF Known, Prefix
  <2>2. Root.slot <= d.slot
    BY <1>1, <1>2
  <2> QED  BY <2>1, <2>2 DEF Position
<1>6. rollback' = NoRollback \/ (rollback' \in Slot /\ Root.slot <= rollback')
  <2>1. CASE rollback = NoRollback
    BY <1>1, <1>2, <2>1 DEF Position
  <2>2. CASE rollback # NoRollback
    <3>1. rollback \in Nat
      BY <2>2 DEF TailType
    <3>2. AtMost(p, rollback) \in {p, rollback}
      BY <1>2, <3>1, EffectOfAtMost
    <3> QED  BY <1>1, <1>2, <2>2, <3>2 DEF Position
  <2> QED  BY <2>1, <2>2
<1>7. ASSUME handler["current"] # Idle
      PROVE  /\ rollback' = NoRollback => b \in chain'
             /\ b \in Own => b \in chain' \cup stored
  <2>1. /\ b \in Block /\ b.slot = cursor /\ sup = "wait" /\ b.slot <= seen
        /\ rollback = NoRollback => b \in chain
        /\ b \in Own => b \in chain \cup stored
    BY <1>7 DEF Position, KnownInv
  <2>2. rollback' = NoRollback => rollback = NoRollback /\ ~ (p < cursor)
    <3>1. rollback # NoRollback => rollback \in Nat
      BY DEF TailType
    <3>2. rollback # NoRollback => AtMost(p, rollback) \in Nat
      BY <1>2, <3>1, EffectOfAtMost
    <3> QED  BY <1>1, <1>2, <2>1, <3>2 DEF NoRollback
  <2>3. rollback' = NoRollback => b \in chain'
    BY <1>1, <1>2, <2>1, <2>2 DEF Prefix
  <2>4. b \in chain => b \in chain' \/ b \in lost
    BY <1>1
  <2> QED  BY <1>1, <2>1, <2>3, <2>4
<1>8. EpochAt(Furthest)' = EpochAt(Furthest)
  BY <1>1 DEF EpochAt
<1> QED  BY <1>1, <1>2, <1>3, <1>4, <1>5, <1>6, <1>7, <1>8 DEF Position

LEMMA CountNodeSwitches ==
  ASSUME Counting, disturbed' = {}, NEW p \in Slot, NEW d \in Block, NodeSwitches(p, d)
  PROVE  Counts'
<1> USE AnnouncingFacts, CountingFacts DEF node, runChain, pipeline, counter, history
<1>1. /\ UNCHANGED <<handler, cursor, resumed, sup, seen, fence, stored, epoch, epochBlocks>>
      /\ UNCHANGED <<Furthest, counter>>
      /\ chain' = Prefix(chain, p) \cup {d} /\ d.slot > p /\ \E c \in chain : c.slot = p
      /\ resumed # NoRollback
  BY DEF NodeSwitches, Disturb, If, Counting, Furthest
<1>2. FromDB /\ p \in Nat /\ d.slot \in Nat
  BY <1>1, EpochGrows
<1>3. Position'
  BY PositionNodeSwitches
<1>4. /\ \A c \in Counted' : c \in Counted /\ c.slot <= p
      /\ Counted' = Counted \/ (OwnLost' /\ \E c \in stored : c.slot > p)
      /\ OwnLost => OwnLost'
  BY SwitchCounted
<1>5. Counted' = Counted => (CountIsRight' <=> CountIsRight)
  BY <1>1, SameCount
<1>6. CountIsRight \/ OwnLost => CountIsRight' \/ OwnLost'
  BY <1>4, <1>5
<1>7. CASE sup # "wait"
  BY <1>1, <1>2, <1>3, <1>6, <1>7 DEF Counts, FromDB
<1>8. CASE sup = "wait"
  <2>1. /\ Upto' \in Nat /\ Upto' <= p /\ Upto' <= Upto /\ Upto' \in {p, Upto}
        /\ rollback # NoRollback => rollback' # NoRollback
        /\ p < cursor => rollback' = Upto'
        /\ p >= cursor => rollback' = rollback
        /\ \A c \in Block : c.slot <= p => (c \in chain' <=> c \in chain)
    BY <1>8, SwitchKeeps
  <2>2. NothingMissing /\ CountOrResync /\ Stores /\ cursor <= Furthest
    BY <1>1, <1>2, <1>8 DEF FromDB
  <2>3. /\ \A c \in chain \cup chain' \cup stored : c.slot \in Nat /\ c \in Block
        /\ rollback # NoRollback => rollback \in Nat /\ rollback <= cursor
    BY <1>1 DEF TailType, Prefix, ChainInv
  <2>4. \A c \in Block : ToStore(c) => c.slot = cursor
    BY IdleIs DEF ToStore, ChainInv
  <2>5. (\A c : ToStore(c)' <=> ToStore(c)) /\ (Occupied(Upto)' <=> \E c \in stored : c.slot = Upto')
    BY <1>1 DEF ToStore, Occupied
  <2>6. ASSUME NEW c \in chain', c.slot <= Upto'
        PROVE  c \in stored \/ (rollback' = NoRollback /\ ToStore(c))
    <3>1. c.slot <= p /\ c \in chain /\ c.slot <= Upto
      BY <1>2, <2>1, <2>3, <2>6
    <3>2. c \in stored \/ (rollback = NoRollback /\ ToStore(c))
      BY <2>2, <3>1 DEF NothingMissing
    <3>3. ToStore(c) => p >= cursor
      BY <2>3, <2>4, <3>1
    <3> QED  BY <2>1, <3>2, <3>3
  <2>7. Occupied(Upto)' \/ (rollback' = NoRollback /\ handler["current"].pc = "store")
    <3>1. CASE p >= cursor
      <4>1. rollback' = rollback /\ Upto' = Upto
        BY <1>1, <2>1, <3>1 DEF Upto
      <4> QED  BY <2>2, <2>5, <4>1 DEF NothingMissing, Occupied
    <3>2. CASE p < cursor /\ Upto' = p
      <4>1. PICK c \in chain : c.slot = p
        BY <1>1
      <4>2. ~ ToStore(c)
        BY <2>3, <2>4, <3>2, <4>1
      <4>3. c \in stored
        BY <2>1, <2>2, <3>2, <4>1, <4>2 DEF NothingMissing
      <4> QED  BY <2>5, <3>2, <4>1, <4>3
    <3>3. CASE p < cursor /\ Upto' = Upto
      <4>1. rollback # NoRollback
        BY <2>1, <3>3, <1>2 DEF Upto
      <4> QED  BY <2>2, <2>5, <3>3, <4>1 DEF NothingMissing, Occupied
    <3> QED  BY <1>2, <2>1, <3>1, <3>2, <3>3
  <2>8. NothingMissing'
    BY <1>1, <2>5, <2>6, <2>7 DEF NothingMissing
  <2>9. \A c \in Counted' : Upto' < c.slot => EpochOf[c.slot] <= EpochAt(Upto)'
    <3>1. \A c \in Counted : Upto < c.slot => EpochOf[c.slot] <= EpochAt(Upto)
      BY <1>2, <1>8 DEF FromDB
    <3>2. EpochAt(Upto)' = EpochAt(Upto')
      BY DEF EpochAt
    <3>3. \A c \in Counted' : Upto' < c.slot => Upto' = Upto
      BY <1>2, <1>4, <2>1, <2>3 DEF Counted
    <3> QED  BY <1>4, <3>1, <3>2, <3>3
  <2>10. \A c \in stored : c.slot > p /\ Counted' # Counted => c.slot > Upto'
    BY <1>2, <2>1, <2>3
  <2>11. rollback' = NoRollback => CountIsRight' /\ epoch' <= EpochAt(cursor)'
    <3> SUFFICES ASSUME rollback' = NoRollback PROVE CountIsRight' /\ epoch' <= EpochAt(cursor)'
      OBVIOUS
    <3>1. rollback = NoRollback /\ p >= cursor
      BY <1>2, <2>1 DEF NoRollback
    <3>2. ~ \E c \in stored : c.slot > p
      BY <1>2, <2>2, <2>3, <3>1 DEF Stores
    <3>3. CountIsRight' <=> CountIsRight
      BY <1>4, <1>5, <3>2
    <3>4. EpochAt(cursor)' = EpochAt(cursor)
      BY <1>1 DEF EpochAt
    <3> QED  BY <1>1, <2>2, <3>1, <3>3, <3>4 DEF CountOrResync
  <2>12. ASSUME rollback' # NoRollback
         PROVE  /\ CountIsRight' \/ OwnLost'
                /\ Resync' \/ (CountIsRight' /\ epoch' <= EpochAt(rollback)')
    <3>1. rollback' = Upto'
      BY <2>12 DEF Upto
    <3>2. (\E c \in stored : c.slot > Upto') \/ handler["current"].pc = "store" => Resync'
      BY <1>1, <3>1 DEF Resync
    <3>3. CASE rollback = NoRollback
      <4>1. p < cursor /\ Upto = cursor /\ Upto' < cursor
        BY <1>2, <2>1, <2>12, <3>3 DEF Upto
      <4>2. Resync'
        BY <2>2, <2>3, <3>2, <3>3, <4>1 DEF NothingMissing, Occupied
      <4>3. CountIsRight
        BY <2>2, <3>3 DEF CountOrResync
      <4> QED  BY <1>6, <4>2, <4>3
    <3>4. CASE rollback # NoRollback
      <4>1. Upto = rollback /\ Occupied(Upto)
        BY <2>2, <3>4 DEF Upto, NothingMissing
      <4>2. Resync => Resync'
        BY <2>1, <2>3, <3>2, <3>4, <4>1 DEF Resync
      <4>3. Upto' # Upto => Resync'
        BY <2>1, <2>3, <3>2, <3>4, <4>1 DEF Occupied
      <4>4. Counted' # Counted => Resync'
        BY <1>4, <2>10, <3>2
      <4>5. EpochAt(rollback)' = EpochAt(rollback) \/ Upto' # Upto
        BY <3>1, <4>1 DEF EpochAt
      <4>6. CountIsRight \/ OwnLost
        BY <2>2, <3>4 DEF CountOrResync
      <4>7. Resync \/ (CountIsRight /\ epoch <= EpochAt(rollback))
        BY <2>2, <3>4 DEF CountOrResync
      <4> QED  BY <1>1, <1>5, <1>6, <4>2, <4>3, <4>4, <4>5, <4>6, <4>7
    <3> QED  BY <3>3, <3>4
  <2>13. CountOrResync'
    BY <2>11, <2>12 DEF CountOrResync
  <2> QED  BY <1>1, <1>2, <1>3, <1>8, <2>2, <2>8, <2>9, <2>13 DEF Counts, FromDB
<1> QED  BY <1>7, <1>8

LEMMA CountNext ==
  ASSUME Counting, disturbed' = {}, [Next]_vars
  PROVE  Counts'
<1>1. handler["abandoned"] = Idle /\ DOMAIN handler = {"current", "abandoned"}
  BY AnnouncingFacts DEF TailType, Counting
<1>2. ASSUME NEW h \in DOMAIN handler, HandlerStep(h) PROVE Counts'
  <2>1. h = "current"
    BY <1>1, <1>2 DEF HandlerStep, ProcessBlock, Mint, At
  <2> QED  BY <1>2, <2>1, CountProcessBlock, CountMint DEF HandlerStep
<1>3. CASE PipelineFails \/ RestartRequested
  BY <1>3, CountStopPipeline DEF PipelineFails, RestartRequested
<1>4. CASE UNCHANGED vars
  <2>1. /\ UNCHANGED <<chain, dropped, handler, cursor, rollback, resumed, announced, epoch,
                       epochBlocks, seen, fence, sup, stored>>
    BY <1>4 DEF vars, node, pipeline, counter, history
  <2>2. fence \in Nat /\ fence <= fence /\ fence \in Slot \cup {0}
    BY CountingFacts, AnnouncingFacts DEF Position
  <2> QED  BY <2>1, <2>2, CountKeeps, CountingFacts DEF AtTheTip, Position
<1>5. ASSUME NEW d \in Block, NodeExtends(d) PROVE Counts'
  BY <1>5, CountNodeExtends
<1>6. ASSUME NEW d \in Block, NEW p \in Slot, NodeSwitches(p, d) PROVE Counts'
  BY <1>6, CountNodeSwitches
<1>7. CASE SyncStep
  BY <1>7, CountSyncStep
<1>8. CASE RaiseFence \/ ConnectAtTip \/ ConnectFromDB
  BY <1>8, CountRaiseFence, CountConnectAtTip, CountConnectFromDB
<1>9. CASE EventStep
  BY <1>9, CountHandleRollback, CountHandleBlock DEF EventStep
<1> QED
  BY <1>2, <1>3, <1>4, <1>5, <1>6, <1>7, <1>8, <1>9 DEF Next, SupervisorStep

LEMMA InitCount == Init => CountInv
<1> SUFFICES ASSUME Init PROVE Counts
  BY DEF CountInv
<1>1. /\ Root \in Block /\ Root.slot \in Slot /\ Root.slot \in Nat /\ Root.slot > 0
      /\ EpochAt(Root.slot) = EpochOf[Root.slot] /\ EpochOf[Root.slot] \in Nat
  BY TailAssumption, EpochGrows, SlotNat
<1>2. Tip = Root.slot
  <2>1. TailInv
    BY InitTail
  <2> QED  BY <2>1, TipType DEF TailInv, Init
<1>3. Furthest = Root.slot
  BY <1>1 DEF Init, Furthest, AtLeast
<1>4. Position
  <2>1. IsFiniteSet(chain)
    BY FS_Singleton DEF Init
  <2> QED  BY <1>1, <1>2, <1>3, <2>1, IdleIs DEF Init, Position, Known
<1>5. CountIsRight
  <2>1. CountedIn(epoch) = OwnIn(chain, epoch)
    BY DEF CountedIn, Counted, OwnIn, Init
  <2>2. \A b \in Counted : EpochOf[b.slot] <= epoch
    BY <1>1, <1>2 DEF Counted, Init
  <2> QED  BY <2>1, <2>2 DEF CountIsRight, Init
<1>6. AtTheTip
  BY <1>1, <1>2, <1>5 DEF AtTheTip, Init
<1> QED  BY <1>4, <1>6 DEF Counts, Init

(* The inductive invariant of the count, as long as nothing has happened   *)
(* that it does not cope with: it stands for the blocks of the pool on the *)
(* chain that have been announced, unless the rollback to come, which will *)
(* find a block to delete, has it taken anew.                              *)
THEOREM CountInvariant == Spec => []CountInv
<1>1. Init => CountInv
  BY InitCount
<1>2. /\ TailInv /\ TailInv' /\ KnownInv /\ AnnouncementInv /\ CountInv /\ [Next]_vars
      => CountInv'
  <2> SUFFICES ASSUME TailInv, KnownInv, AnnouncementInv, CountInv, [Next]_vars, disturbed' = {}
               PROVE  Counts'
    BY DEF CountInv
  <2>1. disturbed = {}
    BY KnownGrows
  <2>2. Announcing /\ StoresWhatItPasses
    BY <2>1 DEF Announcing, HazardFree, AnnouncementInv, Undisturbed, TailInv
  <2> QED  BY <2>1, <2>2, CountNext DEF Counting, CountInv
<1> QED  BY <1>1, <1>2, TailInvariant, AnnouncementInvariant, PTL DEF Spec

(* Neither the replay after a reconnection nor a rollback that drops one   *)
(* of the pool's blocks makes the count of a notification drift, however   *)
(* many reconnections and switches there are.                              *)
THEOREM CountFollowsChainAlways == Spec => []CountFollowsChain
<1>1. TailInv /\ KnownInv /\ AnnouncementInv /\ CountInv => CountFollowsChain
  <2> SUFFICES ASSUME Counting, AtRest
               PROVE  epochBlocks =
                        Cardinality(OwnIn(Prefix(chain, AtLeast(cursor, fence)), epoch))
    BY DEF CountFollowsChain, Counting, Announcing, HazardFree, AnnouncementInv, Undisturbed,
           TailInv, CountInv
  <2> USE AnnouncingFacts, CountingFacts
  <2>1. sup = "wait" /\ handler["current"] = Idle /\ rollback = NoRollback /\ Upto = cursor
    BY DEF AtRest, Ready, Upto
  <2>2. CountIsRight
    BY <2>1 DEF AtTheTip, FromDB, CountOrResync
  <2>3. AtLeast(cursor, fence) \in {cursor, fence} /\ AtLeast(cursor, fence) \in Nat
        /\ AtLeast(cursor, fence) >= cursor /\ AtLeast(cursor, fence) >= fence
    BY EffectOfAtMost
  <2>4. ASSUME NEW b \in chain \cap Own
        PROVE  b \in Counted <=> b.slot <= AtLeast(cursor, fence)
    <3>1. b \in Block /\ b.slot \in Nat /\ announced[b] \in Nat /\ Once(b) /\ ~ InHand(b)
      BY <2>1 DEF InHand
    <3>2. ASSUME b \in Counted PROVE b.slot <= AtLeast(cursor, fence)
      <4>1. CASE b = Root
        BY <2>3, <3>1, <4>1 DEF Position
      <4>2. CASE announced[b] > 0
        <5>1. ~ (cursor < b.slot) \/ b.slot <= fence
          BY <2>1, <3>1, <4>2 DEF Once
        <5> QED  BY <2>3, <3>1, <5>1
      <4> QED  BY <3>2, <4>1, <4>2 DEF Counted
    <3>3. ASSUME b.slot <= AtLeast(cursor, fence) PROVE b \in Counted
      <4>1. ~ AwaitsTail(b)
        BY <2>3, <3>1, <3>3 DEF AwaitsTail
      <4>2. announced[b] = 0 => ~ (Root.slot < b.slot)
        BY <3>1, <4>1 DEF Once
      <4>3. ~ (Root.slot < b.slot) => b = Root
        BY <3>1 DEF Position, Known, ChainInv, OnePerSlot
      <4> QED  BY <3>1, <4>2, <4>3 DEF Counted
    <3> QED  BY <3>2, <3>3
  <2>5. OwnIn(Prefix(chain, AtLeast(cursor, fence)), epoch) = CountedIn(epoch)
    BY <2>4 DEF OwnIn, Prefix, CountedIn, Counted
  <2> QED  BY <2>2, <2>5 DEF CountIsRight
<1> QED  BY <1>1, TailInvariant, AnnouncementInvariant, CountInvariant, PTL

=============================================================================
