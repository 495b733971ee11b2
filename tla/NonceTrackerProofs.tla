------------------------- MODULE NonceTrackerProofs -------------------------
(***************************************************************************)
(* Theorems about NonceTracker: its type invariant under every fault, and, *)
(* while the process keeps running and only inserts and candidates may be  *)
(* lost, that memory and rows follow the blocks table and that it          *)
(* implements RollingNonce; while only inserts are lost, that the          *)
(* candidates follow the blocks table, too; and when the process may stop  *)
(* between any two steps, that memory and rows survive it and no block is  *)
(* hashed twice.                                                           *)
(***************************************************************************)
EXTENDS NonceTracker, FiniteSetTheorems, WellFoundedInduction, TLAPS

----------------------------------------------------------------------------
(* Finite sets of blocks.                                                  *)

(* The slot of a block is a positive integer and determines its epoch.     *)
LEMMA BlockSlot ==
  ASSUME NEW b \in Block
  PROVE  /\ b.slot \in Slot /\ b.slot \in Int /\ b.slot > 0
         /\ EpochOf[b.slot] \in Epoch
<1>1. b.slot \in Slot
  BY DEF Block
<1>2. b.slot \in Nat \ {0}
  BY <1>1, SlotAssumption
<1>3. EpochOf[b.slot] \in Epoch
  BY <1>1, EpochAssumption
<1> QED BY <1>1, <1>2, <1>3

Later(S, b) == {c \in S : c.slot > b.slot}

(* A finite set of blocks has a last one, so GetLastSyncedSlot returns the *)
(* slot of a stored block.                                                 *)
LEMMA LastExists ==
  ASSUME NEW S \in SUBSET Block, IsFiniteSet(S), S # {}
  PROVE  \E b \in S : IsLast(b, S)
<1> DEFINE T == {Later(S, b) : b \in S}
<1>1. T \subseteq FiniteSubsetsOf(S) /\ T # {}
  <2>1. FiniteSubsetsOf(S) = SUBSET S
    BY FS_FiniteSubsetsOfFinite
  <2>2. \A b \in S : Later(S, b) \in SUBSET S
    BY DEF Later
  <2> QED BY <2>1, <2>2
<1>2. IsWellFoundedOn(StrictSubsetOrdering(S), FiniteSubsetsOf(S))
  BY FS_StrictSubsetOrderingWellFounded
<1> HIDE DEF T
<1>3. PICK X \in T : \A Y \in T : ~ (<<Y, X>> \in StrictSubsetOrdering(S))
  BY <1>1, <1>2, WFMin
<1>4. PICK b \in S : X = Later(S, b)
  BY <1>3 DEF T
<1>5. \A c \in S : c.slot \in Int
  BY BlockSlot
<1>6. ASSUME NEW c \in S, c.slot > b.slot PROVE FALSE
  <2>1. Later(S, c) \in T
    BY DEF T
  <2>2. Later(S, c) \subseteq Later(S, b) /\ c \in Later(S, b) /\ c \notin Later(S, c)
    BY <1>5, <1>6 DEF Later
  <2>3. Later(S, b) \subseteq S /\ Later(S, c) \subseteq S
    BY DEF Later
  <2>4. <<Later(S, c), Later(S, b)>> \in StrictSubsetOrdering(S)
    BY <2>2, <2>3 DEF StrictSubsetOrdering
  <2> QED BY <1>3, <1>4, <2>1, <2>4
<1> QED BY <1>5, <1>6 DEF IsLast

(* A finite set of blocks has a first one.                                 *)
LEMMA FirstExists ==
  ASSUME NEW S \in SUBSET Block, IsFiniteSet(S), S # {}
  PROVE  \E b \in S : \A c \in S : b.slot <= c.slot
<1> DEFINE T == {Before(S, b) : b \in S}
<1>1. T \subseteq FiniteSubsetsOf(S) /\ T # {}
  <2>1. FiniteSubsetsOf(S) = SUBSET S
    BY FS_FiniteSubsetsOfFinite
  <2>2. \A b \in S : Before(S, b) \in SUBSET S
    BY DEF Before
  <2> QED BY <2>1, <2>2
<1>2. IsWellFoundedOn(StrictSubsetOrdering(S), FiniteSubsetsOf(S))
  BY FS_StrictSubsetOrderingWellFounded
<1> HIDE DEF T
<1>3. PICK X \in T : \A Y \in T : ~ (<<Y, X>> \in StrictSubsetOrdering(S))
  BY <1>1, <1>2, WFMin
<1>4. PICK b \in S : X = Before(S, b)
  BY <1>3 DEF T
<1>5. \A c \in S : c.slot \in Int
  BY BlockSlot
<1>6. ASSUME NEW c \in S, c.slot < b.slot PROVE FALSE
  <2>1. Before(S, c) \in T
    BY DEF T
  <2>2. Before(S, c) \subseteq Before(S, b) /\ c \in Before(S, b) /\ c \notin Before(S, c)
    BY <1>5, <1>6 DEF Before
  <2>3. Before(S, b) \subseteq S /\ Before(S, c) \subseteq S
    BY DEF Before
  <2>4. <<Before(S, c), Before(S, b)>> \in StrictSubsetOrdering(S)
    BY <2>2, <2>3 DEF StrictSubsetOrdering
  <2> QED BY <1>3, <1>4, <2>1, <2>4
<1> QED BY <1>5, <1>6

----------------------------------------------------------------------------
(* Nonces.                                                                 *)

LEMMA HashedBlocks ==
  ASSUME NEW n \in Nonce
  PROVE  Hashed(n) \subseteq Block
BY DEF Nonce, Hashed

(* evolveNonce gives a nonce.                                              *)
LEMMA EvolveType ==
  ASSUME NEW n \in Nonce, NEW b \in Block
  PROVE  Evolve(n, b) \in Nonce
<1>1. n.links \cup {<<b, Hashed(n)>>} \in SUBSET (Block \X SUBSET Block)
  BY HashedBlocks DEF Nonce
<1> QED BY <1>1 DEF Evolve, Nonce

(* So does hashing a set of blocks.                                        *)
LEMMA EvolveAllType ==
  ASSUME NEW n \in Nonce, NEW T \in SUBSET Block
  PROVE  EvolveAll(n, T) \in Nonce
<1> DEFINE L == {<<b, Hashed(n) \cup Before(T, b)>> : b \in T}
<1>1. \A b \in T : Hashed(n) \cup Before(T, b) \in SUBSET Block
  BY HashedBlocks DEF Before
<1>2. n.links \cup L \in SUBSET (Block \X SUBSET Block)
  BY <1>1 DEF Nonce
<1>3. EvolveAll(n, T) = [n EXCEPT !.links = n.links \cup L]
  BY DEF EvolveAll, Nonce
<1> QED BY <1>2, <1>3 DEF Nonce

LEMMA GenesisType == GenesisNonce \in Nonce /\ FinalNonce \in Nonce
BY DEF GenesisNonce, FinalNonce, Nonce

(* The links of the nonce of a chain T.                                    *)
LEMMA ChainNonceLinks ==
  ASSUME NEW T \in SUBSET Block
  PROVE  /\ ChainNonce(T) = [seed |-> Genesis, links |-> {<<b, Before(T, b)>> : b \in T}]
         /\ Hashed(ChainNonce(T)) = T
<1> DEFINE L == {<<b, Before(T, b)>> : b \in T}
<1>1. Hashed(GenesisNonce) = {}
  BY DEF Hashed, GenesisNonce
<1>2. \A b \in T : Hashed(GenesisNonce) \cup Before(T, b) = Before(T, b)
  BY <1>1
<1>3. {<<b, Hashed(GenesisNonce) \cup Before(T, b)>> : b \in T} = L
  BY <1>2
<1>4. ChainNonce(T) = [GenesisNonce EXCEPT !.links = @ \cup L]
  BY <1>3 DEF ChainNonce, EvolveAll
<1>5. \A l \in L : l[1] \in T
  OBVIOUS
<1>6. ASSUME NEW b \in T PROVE \E l \in L : l[1] = b
  <2>1. <<b, Before(T, b)>> \in L
    OBVIOUS
  <2> QED BY <2>1
<1> HIDE DEF L
<1>7. [GenesisNonce EXCEPT !.links = @ \cup L] = [seed |-> Genesis, links |-> L]
  BY DEF GenesisNonce
<1>8. {l[1] : l \in L} = T
  BY <1>5, <1>6
<1>9. Hashed([seed |-> Genesis, links |-> L]) = T
  BY <1>8 DEF Hashed
<1> QED BY <1>4, <1>7, <1>9 DEF L

LEMMA ChainNonceEmpty == ChainNonce({}) = GenesisNonce
BY ChainNonceLinks DEF GenesisNonce

(* Evolving the nonce of a chain by a later block gives the nonce of the   *)
(* longer chain: what ProcessBlock relies on.                              *)
LEMMA EvolveLast ==
  ASSUME NEW T \in SUBSET Block, NEW b \in Block, \A c \in T : c.slot < b.slot
  PROVE  Evolve(ChainNonce(T), b) = ChainNonce(T \cup {b})
<1> DEFINE U == T \cup {b}
<1>1. Before(U, b) = T
  BY BlockSlot DEF Before
<1>2. \A c \in T : Before(U, c) = Before(T, c)
  BY BlockSlot DEF Before
<1>3. {<<c, Before(U, c)>> : c \in U} = {<<c, Before(T, c)>> : c \in T} \cup {<<b, T>>}
  BY <1>1, <1>2
<1> HIDE DEF U
<1>4. ChainNonce(U) = [seed |-> Genesis, links |-> {<<c, Before(U, c)>> : c \in U}]
  BY ChainNonceLinks DEF U
<1> DEFINE L == {<<c, Before(T, c)>> : c \in T}
<1>5. ChainNonce(T) = [seed |-> Genesis, links |-> L] /\ Hashed(ChainNonce(T)) = T
  BY ChainNonceLinks
<1> HIDE DEF L
<1>6. Evolve(ChainNonce(T), b) = [seed |-> Genesis, links |-> L \cup {<<b, T>>}]
  BY <1>5 DEF Evolve
<1> QED BY <1>3, <1>4, <1>6 DEF U, L

(* Hashing the blocks of T on top of the nonce of the blocks before them   *)
(* gives the nonce of all of them: what restoreEpochFromDB relies on.      *)
LEMMA EvolveAllLast ==
  ASSUME NEW A \in SUBSET Block, NEW T \in SUBSET Block,
         \A a \in A, b \in T : a.slot < b.slot
  PROVE  EvolveAll(ChainNonce(A), T) = ChainNonce(A \cup T)
<1> DEFINE U == A \cup T
<1>1. \A b \in T : Before(U, b) = A \cup Before(T, b)
  BY BlockSlot DEF Before
<1>2. \A a \in A : Before(U, a) = Before(A, a)
  BY BlockSlot DEF Before
<1>3. {<<c, Before(U, c)>> : c \in U}
        = {<<a, Before(A, a)>> : a \in A} \cup {<<b, A \cup Before(T, b)>> : b \in T}
  BY <1>1, <1>2
<1> HIDE DEF U
<1>4. ChainNonce(U) = [seed |-> Genesis, links |-> {<<c, Before(U, c)>> : c \in U}]
  BY ChainNonceLinks DEF U
<1> DEFINE L == {<<a, Before(A, a)>> : a \in A}
           M == {<<b, A \cup Before(T, b)>> : b \in T}
<1>5. ChainNonce(A) = [seed |-> Genesis, links |-> L] /\ Hashed(ChainNonce(A)) = A
  BY ChainNonceLinks
<1> HIDE DEF L
<1>6. EvolveAll(ChainNonce(A), T) = [[seed |-> Genesis, links |-> L] EXCEPT !.links = @ \cup M]
  BY <1>5 DEF EvolveAll
<1> HIDE DEF M
<1>7. EvolveAll(ChainNonce(A), T) = [seed |-> Genesis, links |-> L \cup M]
  BY <1>6
<1> QED BY <1>3, <1>4, <1>7 DEF U, L, M

----------------------------------------------------------------------------
(* Type correctness.                                                       *)

(* A row whose evolving nonce is missing is no row and counts no block.    *)
StoredRow == {r \in Row : r.evolving = NoNonce => r.count = 0}

TypeInv ==
  /\ TypeOK
  /\ IsFiniteSet(blocks)
  /\ row \in [Epoch -> StoredRow]
  /\ pc \in {"freeze", "evolve"} => work.block \in Block

(* The statements on epoch_nonces keep the rows well formed.               *)
LEMMA StatementTypes ==
  ASSUME NEW r \in [Epoch -> StoredRow], NEW e \in Epoch, NEW n \in Nonce, NEW c \in Nat
  PROVE  /\ UpsertEvolvingNonce(r, e, n, c) \in [Epoch -> StoredRow]
         /\ SetCandidateNonce(r, e, n) \in [Epoch -> StoredRow]
         /\ DeleteCandidateNonce(r, e) \in [Epoch -> StoredRow]
         /\ SetFinalNonce(r, e, n) \in [Epoch -> StoredRow]
<1>1. r[e] \in StoredRow /\ n # NoNonce
  BY AbsentAssumption
<1>2. [r[e] EXCEPT !.evolving = n, !.count = c] \in StoredRow
  BY <1>1 DEF StoredRow, Row
<1>3. OrCreate(r, e, n) \in Nonce
  BY <1>1 DEF OrCreate, StoredRow, Row
<1>4. [r[e] EXCEPT !.candidate = n, !.evolving = OrCreate(r, e, n)] \in StoredRow
  BY <1>1, <1>3, AbsentAssumption DEF StoredRow, Row
<1>5. [r[e] EXCEPT !.candidate = NoNonce] \in StoredRow
  BY <1>1 DEF StoredRow, Row
<1>6. [r[e] EXCEPT !.final = n, !.evolving = OrCreate(r, e, n)] \in StoredRow
  BY <1>1, <1>3, AbsentAssumption DEF StoredRow, Row
<1>7. UpsertEvolvingNonce(r, e, n, c) \in [Epoch -> StoredRow]
  BY <1>2 DEF UpsertEvolvingNonce
<1>8. SetCandidateNonce(r, e, n) \in [Epoch -> StoredRow]
  BY <1>4 DEF SetCandidateNonce
<1>9. DeleteCandidateNonce(r, e) \in [Epoch -> StoredRow]
  BY <1>5 DEF DeleteCandidateNonce
<1>10. SetFinalNonce(r, e, n) \in [Epoch -> StoredRow]
  BY <1>6 DEF SetFinalNonce
<1> QED BY <1>7, <1>8, <1>9, <1>10

LEMMA NoRowType == NoRow \in StoredRow
BY DEF NoRow, StoredRow, Row

(* A row read back is well formed, and counts blocks only if it has a nonce.*)
LEMMA ReadType ==
  ASSUME NEW r \in [Epoch -> StoredRow], NEW e \in Int, NEW x \in GetEvolvingNonce(r, e)
  PROVE  /\ x \in StoredRow
         /\ x.count \in Nat
         /\ x.evolving \in Nonce \cup {NoNonce}
         /\ x.count > 0 => x.evolving \in Nonce
<1>1. x \in StoredRow
  BY NoRowType DEF GetEvolvingNonce
<1> QED BY <1>1 DEF StoredRow, Row

(* NewNonceTracker leaves a tracker of the right type.                     *)
LEMMA NewTrackerType ==
  ASSUME NEW r \in [Epoch -> StoredRow], NEW w \in Epoch, NewNonceTracker(r, w)
  PROVE  /\ etaV' \in Nonce /\ currentEpoch' \in Epoch
         /\ blockCount' \in Nat /\ candidateFroze' \in BOOLEAN
<1>1. PICK own \in GetEvolvingNonce(r, w), prev \in GetEvolvingNonce(r, w - 1) :
        IF own.count > 0
        THEN etaV' = own.evolving /\ blockCount' = own.count
        ELSE /\ etaV' = IF prev.evolving # NoNonce THEN prev.evolving ELSE GenesisNonce
             /\ blockCount' = 0
  BY DEF NewNonceTracker
<1>2. w \in Int /\ w - 1 \in Int
  BY EpochAssumption DEF Epoch
<1>3. etaV' \in Nonce /\ blockCount' \in Nat
  BY <1>1, <1>2, ReadType, GenesisType
<1> QED BY <1>3 DEF NewNonceTracker

(* The stored blocks of an epoch, and their number.                        *)
LEMMA BlocksOfType ==
  ASSUME TypeInv, NEW e
  PROVE  /\ BlocksOf(e) \in SUBSET Block
         /\ IsFiniteSet(BlocksOf(e))
         /\ Cardinality(BlocksOf(e)) \in Nat
<1>1. BlocksOf(e) \subseteq blocks /\ blocks \subseteq Block
  BY DEF TypeInv, TypeOK, BlocksOf, InEpoch
<1> QED BY <1>1, FS_Subset, FS_CardinalityType DEF TypeInv

(* GetLastSyncedSlot returns the slot of the last of a set of blocks.       *)
LEMMA LastSlotOf ==
  ASSUME NEW S \in SUBSET Block, IsFiniteSet(S)
  PROVE  /\ LastSlot(S) \in Slot \cup {0}
         /\ S # {} => \E b \in S : IsLast(b, S) /\ LastSlot(S) = b.slot
<1>1. CASE S = {}
  BY <1>1 DEF LastSlot
<1>2. CASE S # {}
  <2> DEFINE l == CHOOSE b \in S : IsLast(b, S)
  <2>1. l \in S /\ IsLast(l, S)
    BY <1>2, LastExists
  <2>2. LastSlot(S) = l.slot
    BY <1>2 DEF LastSlot
  <2> QED BY <2>1, <2>2, BlockSlot
<1> QED BY <1>1, <1>2

LEMMA LastSlotType ==
  ASSUME TypeInv
  PROVE  LastSlot(blocks) \in Slot \cup {0} /\ EpochAt(LastSlot(blocks)) \in Epoch
<1>1. LastSlot(blocks) \in Slot \cup {0}
  BY LastSlotOf DEF TypeInv, TypeOK
<1>2. 0 \in Epoch /\ \A s \in Slot : EpochOf[s] \in Epoch
  BY EpochAssumption DEF Epoch
<1> QED BY <1>1, <1>2 DEF EpochAt

(* A stream resumes at the slot of a stored block.                         *)
LEMMA ResumeSlotOf ==
  ASSUME blocks \in SUBSET Block, IsFiniteSet(blocks)
  PROVE  /\ ResumeSlot \in Slot \cup {0}
         /\ blocks # {} => \E b \in blocks : b.slot = ResumeSlot
<1>1. CASE blocks = {}
  BY <1>1 DEF ResumeSlot
<1>2. CASE blocks # {}
  <2> DEFINE L == LastBlocks(Overlap)
  <2>1. L \in SUBSET Block /\ IsFiniteSet(L) /\ L \subseteq blocks
    BY FS_Subset DEF LastBlocks
  <2>2. PICK b \in blocks : IsLast(b, blocks)
    BY <1>2, LastExists
  <2>3. {c \in blocks : c.slot > b.slot} = {}
    BY <2>2, BlockSlot DEF IsLast
  <2>4. b \in L
    BY <2>3, FS_EmptySet, BoundAssumption DEF LastBlocks
  <2> HIDE DEF L
  <2>5. (CHOOSE d \in L : \A c \in L : d.slot <= c.slot) \in L
    BY <2>1, <2>4, FirstExists
  <2>6. ResumeSlot = (CHOOSE d \in L : \A c \in L : d.slot <= c.slot).slot
    BY <1>2 DEF ResumeSlot, L
  <2> QED BY <2>1, <2>5, <2>6, BlockSlot
<1> QED BY <1>1, <1>2

LEMMA ResumeSlotType ==
  ASSUME TypeInv
  PROVE  ResumeSlot \in Slot \cup {0}
BY ResumeSlotOf DEF TypeInv, TypeOK

LEMMA TypeInit == Init => TypeInv
<1> SUFFICES ASSUME Init PROVE TypeInv
  OBVIOUS
<1>1. 0 \in Epoch
  BY EpochAssumption DEF Epoch
<1>2. row \in [Epoch -> StoredRow]
  BY NoRowType DEF Init
<1>3. row \in [Epoch -> Row]
  BY <1>2 DEF StoredRow
<1> QED BY <1>1, <1>2, <1>3, GenesisType, FS_EmptySet
     DEF Init, TypeInv, TypeOK, NoWork

(* The variables a handler leaves alone, and the rows it may write.        *)
LEMMA TypeFrame ==
  ASSUME TypeInv,
         UNCHANGED blocks \/ blocks' \subseteq blocks,
         row' \in [Epoch -> StoredRow],
         etaV' \in Nonce, currentEpoch' \in Epoch, blockCount' \in Nat,
         candidateFroze' \in BOOLEAN,
         pc' \in {"idle", "restore", "candidate", "resetEvolving", "resetCandidate",
                  "down", "validate"},
         work' \in [block : Block \cup {NoBlock}, epoch : Epoch, through : Epoch,
                    eta : Nonce, candidate : Nonce \cup {NoNonce}],
         phase' \in {"sync", "live", "noIntersection"}, chain' \subseteq Block,
         cursor' \in Slot \cup {0}, clock' \in Epoch, unrewound' \subseteq Epoch
  PROVE  TypeInv'
<1>1. blocks' \subseteq Block /\ IsFiniteSet(blocks')
  BY FS_Subset DEF TypeInv, TypeOK
<1>2. row' \in [Epoch -> Row]
  BY DEF StoredRow
<1> QED BY <1>1, <1>2 DEF TypeInv, TypeOK

LEMMA NoWorkType ==
  NoWork \in [block : Block \cup {NoBlock}, epoch : Epoch, through : Epoch,
              eta : Nonce, candidate : Nonce \cup {NoNonce}]
BY EpochAssumption, GenesisType DEF NoWork, Epoch

LEMMA TypeBlockArrives ==
  ASSUME TypeInv, NEW b \in Block, BlockArrives(b)
  PROVE  TypeInv'
<1>1. EpochOf[b.slot] \in Epoch /\ b.slot \in Slot
  BY BlockSlot
<1>2. /\ etaV' \in Nonce /\ currentEpoch' \in Epoch
      /\ blockCount' \in Nat /\ candidateFroze' \in BOOLEAN
  <2>1. CASE EpochOf[b.slot] = currentEpoch
    BY <2>1 DEF BlockArrives, EnterEpoch, tracker, TypeInv, TypeOK
  <2>2. CASE EpochOf[b.slot] # currentEpoch
    <3>1. PICK found \in GetEvolvingNonce(row, EpochOf[b.slot]) :
            /\ etaV' = IF found.count > 0 THEN found.evolving ELSE etaV
            /\ blockCount' = found.count
      BY <2>2 DEF BlockArrives, EnterEpoch
    <3>2. EpochOf[b.slot] \in Int
      BY <1>1, EpochAssumption DEF Epoch
    <3>3. etaV' \in Nonce /\ blockCount' \in Nat
      BY <3>1, <3>2, ReadType DEF TypeInv, TypeOK
    <3> QED BY <1>1, <2>2, <3>3 DEF BlockArrives, EnterEpoch
  <2> QED BY <2>1, <2>2
<1>3. chain' \subseteq Block /\ cursor' \in Slot \cup {0} /\ clock' \in Epoch
  BY <1>1 DEF BlockArrives, TypeInv, TypeOK
<1>4. CASE blocks' = blocks \cup {b} /\ pc' = "freeze" /\ work' = [NoWork EXCEPT !.block = b]
  <2>1. blocks' \subseteq Block /\ IsFiniteSet(blocks')
    BY <1>4, FS_AddElement DEF TypeInv, TypeOK
  <2>2. /\ work' \in [block : Block \cup {NoBlock}, epoch : Epoch, through : Epoch,
                      eta : Nonce, candidate : Nonce \cup {NoNonce}]
        /\ work'.block \in Block
    BY <1>4, NoWorkType
  <2> QED BY <1>2, <1>3, <1>4, <2>1, <2>2 DEF BlockArrives, TypeInv, TypeOK
<1>5. CASE UNCHANGED <<blocks, pc, work>>
  BY <1>2, <1>3, <1>5 DEF BlockArrives, TypeInv, TypeOK
<1> QED BY <1>4, <1>5 DEF BlockArrives

LEMMA TypeFreezeCandidate ==
  ASSUME TypeInv, FreezeCandidate
  PROVE  TypeInv'
<1>1. row' \in [Epoch -> StoredRow] /\ row' \in [Epoch -> Row]
  <2>1. row' \in [Epoch -> StoredRow]
    BY StatementTypes DEF FreezeCandidate, TypeInv, TypeOK
  <2> QED BY <2>1 DEF StoredRow
<1> QED BY <1>1 DEF FreezeCandidate, TypeInv, TypeOK, stream

LEMMA TypeEvolveNonce ==
  ASSUME TypeInv, EvolveNonce
  PROVE  TypeInv'
<1>1. etaV' \in Nonce /\ blockCount' \in Nat
  BY EvolveType DEF EvolveNonce, TypeInv, TypeOK
<1>2. row' \in [Epoch -> StoredRow]
  BY <1>1, StatementTypes DEF EvolveNonce, TypeInv, TypeOK
<1> QED BY <1>1, <1>2, TypeFrame, NoWorkType
     DEF EvolveNonce, Finish, TypeInv, TypeOK, stream

(* A rollback to slot 0 or to the slot of a block.                         *)
LEMMA TypeRollbackTo ==
  ASSUME TypeInv, NEW p \in Slot \cup {0}, RollbackTo(p),
         phase' \in {"sync", "live", "noIntersection"}, Idle
  PROVE  TypeInv'
<1>1. EpochAt(p) \in Epoch
  BY EpochAssumption, SlotAssumption DEF EpochAt, Epoch
<1>2. chain' \subseteq Block /\ (UNCHANGED blocks \/ blocks' \subseteq blocks)
  BY DEF RollbackTo, Prefix, TypeInv, TypeOK
<1>3. pc' \in {"idle", "restore"}
  BY DEF RollbackTo, Idle
<1>4. work' \in [block : Block \cup {NoBlock}, epoch : Epoch, through : Epoch,
                 eta : Nonce, candidate : Nonce \cup {NoNonce}]
  BY <1>1, NoWorkType DEF RollbackTo, TypeInv, TypeOK
<1>5. /\ cursor' \in Slot \cup {0} /\ clock' \in Epoch /\ row' \in [Epoch -> StoredRow]
      /\ unrewound' \subseteq Epoch
  BY <1>1 DEF RollbackTo, TypeInv, TypeOK
<1>6. /\ etaV' \in Nonce /\ currentEpoch' \in Epoch
      /\ blockCount' \in Nat /\ candidateFroze' \in BOOLEAN
  BY DEF RollbackTo, TypeInv, TypeOK, tracker
<1> QED BY <1>2, <1>3, <1>4, <1>5, <1>6, TypeFrame

LEMMA TypeGoLive ==
  ASSUME TypeInv, GoLive
  PROVE  TypeInv'
BY ResumeSlotType, TypeRollbackTo DEF GoLive

LEMMA TypeRollbackArrives ==
  ASSUME TypeInv, NEW p \in Slot, RollbackArrives(p)
  PROVE  TypeInv'
<1>1. phase' \in {"sync", "live", "noIntersection"}
  BY DEF RollbackArrives, TypeInv, TypeOK
<1> QED BY <1>1, TypeRollbackTo DEF RollbackArrives

(* The candidate that restoreEpochFromDB computes is a nonce or none.      *)
LEMMA CandidateOfType ==
  ASSUME NEW n \in Nonce, NEW T \in SUBSET Block
  PROVE  CandidateOf(n, T) \in Nonce \cup {NoNonce}
<1>1. \A b : Before(T, b) \in SUBSET Block
  BY DEF Before
<1> QED BY <1>1, EvolveAllType DEF CandidateOf

LEMMA TypeRewindFails ==
  ASSUME TypeInv, RewindFails, UNCHANGED <<blocks, stream>>
  PROVE  TypeInv'
BY TypeFrame, NoWorkType DEF RewindFails, Finish, TypeInv, TypeOK, tracker, stream

LEMMA TypeRestoreEvolving ==
  ASSUME TypeInv, RestoreEvolving
  PROVE  TypeInv'
<1> DEFINE e == work.epoch
           T == BlocksOf(e)
<1>0. CASE RewindFails
  BY <1>0, TypeRewindFails DEF RestoreEvolving
<1>1. CASE /\ \E prev \in GetEvolvingNonce(row, e - 1) :
                work' = [work EXCEPT !.eta = EvolveAll(Seed(prev), T),
                                     !.candidate = CandidateOf(Seed(prev), T)]
           /\ row' = UpsertEvolvingNonce(row, e, work'.eta, Cardinality(T))
           /\ pc' = "candidate"
           /\ UNCHANGED tracker
  <2>1. PICK prev \in GetEvolvingNonce(row, e - 1) :
          work' = [work EXCEPT !.eta = EvolveAll(Seed(prev), T),
                               !.candidate = CandidateOf(Seed(prev), T)]
    BY <1>1
  <2>2. e \in Epoch /\ e - 1 \in Int
    BY EpochAssumption DEF TypeInv, TypeOK, Epoch
  <2>3. Seed(prev) \in Nonce
    <3>1. prev.evolving \in Nonce \cup {NoNonce}
      BY <2>2, ReadType DEF TypeInv
    <3> QED BY <3>1, GenesisType DEF Seed
  <2>4. T \in SUBSET Block /\ Cardinality(T) \in Nat
    BY BlocksOfType
  <2> HIDE DEF T
  <2>5. EvolveAll(Seed(prev), T) \in Nonce /\ CandidateOf(Seed(prev), T) \in Nonce \cup {NoNonce}
    BY <2>3, <2>4, EvolveAllType, CandidateOfType
  <2>6. /\ work' \in [block : Block \cup {NoBlock}, epoch : Epoch, through : Epoch,
                      eta : Nonce, candidate : Nonce \cup {NoNonce}]
        /\ work'.eta \in Nonce
    BY <2>1, <2>5 DEF TypeInv, TypeOK
  <2>7. row' \in [Epoch -> StoredRow]
    BY <1>1, <2>2, <2>4, <2>6, StatementTypes DEF TypeInv
  <2>8. /\ etaV' \in Nonce /\ currentEpoch' \in Epoch
        /\ blockCount' \in Nat /\ candidateFroze' \in BOOLEAN
    BY <1>1 DEF tracker, TypeInv, TypeOK
  <2>9. /\ UNCHANGED blocks
        /\ phase' \in {"sync", "live", "noIntersection"} /\ chain' \subseteq Block
        /\ cursor' \in Slot \cup {0} /\ clock' \in Epoch /\ unrewound' \subseteq Epoch
    BY DEF RestoreEvolving, stream, TypeInv, TypeOK
  <2> QED BY <1>1, <2>6, <2>7, <2>8, <2>9, TypeFrame
<1> QED BY <1>0, <1>1 DEF RestoreEvolving

LEMMA TypeRestoreCandidate ==
  ASSUME TypeInv, RestoreCandidate
  PROVE  TypeInv'
<1> DEFINE e == work.epoch
<1>0. CASE RewindFails
  BY <1>0, TypeRewindFails DEF RestoreCandidate
<1>1. CASE ~RewindFails
  <2>1. /\ row' = IF work.candidate = NoNonce
                  THEN DeleteCandidateNonce(row, e)
                  ELSE SetCandidateNonce(row, e, work.candidate)
        /\ etaV' = work.eta
        /\ currentEpoch' = e
        /\ blockCount' = Cardinality(BlocksOf(e))
        /\ candidateFroze' = (work.candidate # NoNonce)
        /\ IF e < work.through
           THEN pc' = "resetEvolving" /\ work' = [work EXCEPT !.epoch = e + 1]
           ELSE Finish
    BY <1>1 DEF RestoreCandidate
  <2>2. e \in Epoch /\ work.through \in Epoch
    BY DEF TypeInv, TypeOK
  <2>3. row' \in [Epoch -> StoredRow]
    BY <2>1, <2>2, StatementTypes DEF TypeInv, TypeOK
  <2>4. /\ etaV' \in Nonce /\ currentEpoch' \in Epoch
        /\ blockCount' \in Nat /\ candidateFroze' \in BOOLEAN
    BY <2>1, <2>2, BlocksOfType DEF TypeInv, TypeOK
  <2>5. /\ pc' \in {"idle", "resetEvolving"}
        /\ work' \in [block : Block \cup {NoBlock}, epoch : Epoch, through : Epoch,
                      eta : Nonce, candidate : Nonce \cup {NoNonce}]
    <3>1. CASE e < work.through
      <4>1. e + 1 \in Epoch
        BY <2>2, <3>1, EpochAssumption DEF Epoch
      <4> QED BY <2>1, <3>1, <4>1 DEF TypeInv, TypeOK
    <3>2. CASE ~(e < work.through)
      BY <2>1, <3>2, NoWorkType DEF Finish
    <3> QED BY <3>1, <3>2
  <2>6. /\ UNCHANGED blocks
        /\ phase' \in {"sync", "live", "noIntersection"} /\ chain' \subseteq Block
        /\ cursor' \in Slot \cup {0} /\ clock' \in Epoch /\ unrewound' \subseteq Epoch
    BY DEF RestoreCandidate, stream, TypeInv, TypeOK
  <2> QED BY <2>3, <2>4, <2>5, <2>6, TypeFrame
<1> QED BY <1>0, <1>1

LEMMA TypeResetEvolving ==
  ASSUME TypeInv, ResetEvolving
  PROVE  TypeInv'
<1>0. CASE RewindFails
  BY <1>0, TypeRewindFails DEF ResetEvolving
<1>1. CASE ~RewindFails
  <2>1. row' \in [Epoch -> StoredRow]
    BY <1>1, StatementTypes DEF ResetEvolving, TypeInv, TypeOK
  <2> QED BY <1>1, <2>1, TypeFrame DEF ResetEvolving, TypeInv, TypeOK, tracker, stream
<1> QED BY <1>0, <1>1

LEMMA TypeResetCandidate ==
  ASSUME TypeInv, ResetCandidate
  PROVE  TypeInv'
<1>0. CASE RewindFails
  BY <1>0, TypeRewindFails DEF ResetCandidate
<1>1. CASE ~RewindFails
  <2>1. row' \in [Epoch -> StoredRow]
    BY <1>1, StatementTypes, GenesisType DEF ResetCandidate, TypeInv, TypeOK
  <2>2. /\ pc' \in {"idle", "resetEvolving"}
        /\ work' \in [block : Block \cup {NoBlock}, epoch : Epoch, through : Epoch,
                      eta : Nonce, candidate : Nonce \cup {NoNonce}]
    <3>1. CASE work.epoch < work.through
      <4>1. work.epoch + 1 \in Epoch
        BY <3>1, EpochAssumption DEF Epoch, TypeInv, TypeOK
      <4> QED BY <1>1, <3>1, <4>1 DEF ResetCandidate, TypeInv, TypeOK
    <3>2. CASE ~(work.epoch < work.through)
      BY <1>1, <3>2, NoWorkType DEF ResetCandidate, Finish
    <3> QED BY <3>1, <3>2
  <2> QED BY <1>1, <2>1, <2>2, TypeFrame DEF ResetCandidate, TypeInv, TypeOK, tracker, stream
<1> QED BY <1>0, <1>1

LEMMA TypeCacheFinalNonce ==
  ASSUME TypeInv, NEW e \in FinalEpochs, CacheFinalNonce(e)
  PROVE  TypeInv'
<1>1. row' \in [Epoch -> StoredRow]
  BY StatementTypes, GenesisType, BoundAssumption DEF CacheFinalNonce, TypeInv
<1>2. row' \in [Epoch -> Row]
  BY <1>1 DEF StoredRow
<1> QED BY <1>1, <1>2 DEF CacheFinalNonce, TypeInv, TypeOK, tracker, stream

LEMMA TypeCrash ==
  ASSUME TypeInv, Crash
  PROVE  TypeInv'
<1>1. 0 \in Epoch
  BY EpochAssumption DEF Epoch
<1> QED BY <1>1, TypeFrame, NoWorkType, GenesisType
     DEF Crash, TypeInv, TypeOK, db, stream

LEMMA TypeRestart ==
  ASSUME TypeInv, Restart
  PROVE  TypeInv'
<1>1. PICK w \in Epoch : clock' = w /\ NewNonceTracker(row, w)
  BY DEF Restart
<1>2. /\ etaV' \in Nonce /\ currentEpoch' \in Epoch
      /\ blockCount' \in Nat /\ candidateFroze' \in BOOLEAN
  BY <1>1, NewTrackerType DEF TypeInv
<1> QED BY <1>1, <1>2, TypeFrame DEF Restart, TypeInv, TypeOK, db

LEMMA TypeValidate ==
  ASSUME TypeInv, ValidateDBIntegrity
  PROVE  TypeInv'
<1>1. clock' \in Epoch /\ unrewound' \subseteq Epoch
  BY DEF ValidateDBIntegrity, TypeInv, TypeOK
<1>2. CASE /\ blocks = {}
           /\ cursor' = 0
           /\ Finish
           /\ UNCHANGED <<db, tracker, chain, phase>>
  BY <1>1, <1>2, TypeFrame, NoWorkType DEF Finish, db, tracker, TypeInv, TypeOK
<1>3. CASE /\ Resume
           /\ Finish
           /\ UNCHANGED <<db, tracker, chain>>
  BY <1>1, <1>3, TypeFrame, NoWorkType, ResumeSlotType
     DEF Resume, Finish, db, tracker, TypeInv, TypeOK
<1>4. CASE /\ blocks' = {}
           /\ row' = [e \in Epoch |-> NoRow]
           /\ NewNonceTracker(row', clock)
           /\ chain' = {}
           /\ cursor' = 0
           /\ phase' = phase
           /\ Finish
  <2>1. row' \in [Epoch -> StoredRow]
    BY <1>4, NoRowType
  <2>2. clock \in Epoch
    BY DEF TypeInv, TypeOK
  <2>3. /\ etaV' \in Nonce /\ currentEpoch' \in Epoch
        /\ blockCount' \in Nat /\ candidateFroze' \in BOOLEAN
    BY <1>4, <2>1, <2>2, NewTrackerType
  <2> QED BY <1>1, <1>4, <2>1, <2>3, TypeFrame, NoWorkType DEF Finish, TypeInv, TypeOK
<1>5. CASE /\ \E G \in SUBSET GapEpochs :
                row' = [e \in Epoch |-> IF e \in G THEN [row[e] EXCEPT !.candidate = NoNonce]
                                        ELSE row[e]]
           /\ Resume
           /\ IF NonceStale
              THEN RecomputeCurrentEpochNonce(EpochAt(LastSlot(blocks)))
              ELSE Finish
           /\ UNCHANGED <<blocks, tracker, chain>>
  <2>1. row' \in [Epoch -> StoredRow]
    <3>1. \A e \in Epoch : /\ row[e] \in StoredRow
                           /\ [row[e] EXCEPT !.candidate = NoNonce] \in StoredRow
      BY DEF TypeInv, StoredRow, Row
    <3> QED BY <1>5, <3>1
  <2>2. /\ pc' \in {"idle", "restore"}
        /\ work' \in [block : Block \cup {NoBlock}, epoch : Epoch, through : Epoch,
                      eta : Nonce, candidate : Nonce \cup {NoNonce}]
    BY <1>5, LastSlotType, NoWorkType DEF RecomputeCurrentEpochNonce, Finish
  <2>3. cursor' \in Slot \cup {0} /\ phase' \in {"sync", "live", "noIntersection"}
    BY <1>5, ResumeSlotType DEF Resume
  <2> QED BY <1>1, <1>5, <2>1, <2>2, <2>3, TypeFrame DEF tracker, TypeInv, TypeOK
<1> QED BY <1>2, <1>3, <1>4, <1>5 DEF ValidateDBIntegrity

LEMMA TypeStep == TypeInv /\ [Next]_vars => TypeInv'
<1> SUFFICES ASSUME TypeInv, [Next]_vars PROVE TypeInv'
  OBVIOUS
<1>1. CASE UNCHANGED vars
  BY <1>1 DEF vars, db, tracker, stream, TypeInv, TypeOK
<1>2. CASE \E b \in Block : BlockArrives(b)
  BY <1>2, TypeBlockArrives
<1>3. CASE FreezeCandidate
  BY <1>3, TypeFreezeCandidate
<1>4. CASE EvolveNonce
  BY <1>4, TypeEvolveNonce
<1>5. CASE \E p \in Slot : RollbackArrives(p)
  BY <1>5, TypeRollbackArrives
<1>6. CASE GoLive
  BY <1>6, TypeGoLive
<1>7. CASE RestoreEvolving
  BY <1>7, TypeRestoreEvolving
<1>8. CASE RestoreCandidate
  BY <1>8, TypeRestoreCandidate
<1>9. CASE ResetEvolving
  BY <1>9, TypeResetEvolving
<1>10. CASE ResetCandidate
  BY <1>10, TypeResetCandidate
<1>11. CASE \E e \in FinalEpochs : CacheFinalNonce(e)
  BY <1>11, TypeCacheFinalNonce
<1>12. CASE Crash
  BY <1>12, TypeCrash
<1>13. CASE Restart
  BY <1>13, TypeRestart
<1>14. CASE ValidateDBIntegrity
  BY <1>14, TypeValidate
<1> QED BY <1>1, <1>2, <1>3, <1>4, <1>5, <1>6, <1>7, <1>8, <1>9, <1>10, <1>11, <1>12,
           <1>13, <1>14 DEF Next

THEOREM TypeInvariant == Spec => []TypeInv
BY TypeInit, TypeStep, PTL DEF Spec

(* Whatever store call fails and wherever the process stops, every variable *)
(* of the tracker and every row keep their types, and a rewind stays within *)
(* the epochs it was started for.                                           *)
THEOREM TypeCorrect == Spec => []TypeOK
<1>1. TypeInv => TypeOK
  BY DEF TypeInv
<1> QED BY <1>1, TypeInvariant, PTL

----------------------------------------------------------------------------
(* Slots, epochs and rows.                                                 *)

LEMMA EpochMonotone ==
  ASSUME NEW a \in Block, NEW b \in Block
  PROVE  /\ a.slot <= b.slot => EpochOf[a.slot] <= EpochOf[b.slot]
         /\ EpochOf[a.slot] < EpochOf[b.slot] => a.slot < b.slot
<1>1. a.slot \in Slot /\ b.slot \in Slot
  BY BlockSlot
<1>2. \A s, t \in Slot : s <= t => EpochOf[s] <= EpochOf[t]
  BY EpochAssumption
<1>3. a.slot <= b.slot => EpochOf[a.slot] <= EpochOf[b.slot]
  BY <1>1, <1>2
<1>4. b.slot <= a.slot => EpochOf[b.slot] <= EpochOf[a.slot]
  BY <1>1, <1>2
<1>5. /\ a.slot \in Int /\ b.slot \in Int
      /\ EpochOf[a.slot] \in Int /\ EpochOf[b.slot] \in Int
  BY BlockSlot, EpochAssumption DEF Epoch
<1> QED BY <1>3, <1>4, <1>5

(* The epoch of a rollback point is at most the one of a later slot.       *)
LEMMA EpochAtMonotone ==
  ASSUME NEW s \in Slot \cup {0}, NEW t \in Slot \cup {0}, s <= t
  PROVE  EpochAt(s) <= EpochAt(t)
<1>1. CASE s = 0
  <2>1. EpochAt(t) \in 0..MaxEpoch
    BY EpochAssumption, SlotAssumption DEF EpochAt, Epoch
  <2> QED BY <1>1, <2>1, EpochAssumption DEF EpochAt
<1>2. CASE s # 0
  <2>1. s \in Slot /\ t \in Slot /\ t # 0
    BY <1>2, SlotAssumption
  <2>2. EpochOf[s] <= EpochOf[t]
    BY <2>1, EpochAssumption
  <2> QED BY <1>2, <2>1, <2>2 DEF EpochAt
<1> QED BY <1>1, <1>2

LEMMA EpochIsInt == \A e \in Epoch : e \in Int /\ e >= 0
BY EpochAssumption DEF Epoch

LEMMA ChainNonceType ==
  ASSUME NEW T \in SUBSET Block
  PROVE  ChainNonce(T) \in Nonce /\ ChainNonce(T) # NoNonce
BY EvolveAllType, GenesisType, AbsentAssumption DEF ChainNonce

(* Statements that change no count and no existing evolving nonce leave    *)
(* the rows in agreement with the blocks.                                  *)
LEMMA RowsKept ==
  ASSUME NEW r, NEW q, NEW S \in SUBSET Block, NEW E \in SUBSET Epoch, RowsOf(r, S, E),
         \A e \in Epoch : /\ q[e].count = r[e].count
                          /\ r[e].evolving # NoNonce => q[e].evolving = r[e].evolving
  PROVE  RowsOf(q, S, E)
<1> SUFFICES ASSUME NEW e \in E
             PROVE  /\ q[e].count = Cardinality(InEpoch(S, e))
                    /\ InEpoch(S, e) # {} => q[e].evolving = ChainNonce(Through(S, e))
  BY DEF RowsOf
<1>1. /\ r[e].count = Cardinality(InEpoch(S, e))
      /\ InEpoch(S, e) # {} => r[e].evolving = ChainNonce(Through(S, e))
  BY DEF RowsOf
<1>2. ChainNonce(Through(S, e)) # NoNonce
  BY ChainNonceType DEF Through
<1> QED BY <1>1, <1>2

(* SetCandidateNonce, DeleteCandidateNonce and SetFinalNonce are such.     *)
LEMMA StatementsKeep ==
  ASSUME NEW r \in [Epoch -> StoredRow], NEW e \in Epoch, NEW n \in Nonce,
         NEW q \in {SetCandidateNonce(r, e, n), DeleteCandidateNonce(r, e), SetFinalNonce(r, e, n)}
  PROVE  \A f \in Epoch : /\ q[f].count = r[f].count
                          /\ r[f].evolving # NoNonce => q[f].evolving = r[f].evolving
<1> SUFFICES ASSUME NEW f \in Epoch
             PROVE  /\ q[f].count = r[f].count
                    /\ r[f].evolving # NoNonce => q[f].evolving = r[f].evolving
  OBVIOUS
<1>1. r[e] \in Row /\ r[f] \in Row
  BY DEF StoredRow
<1>2. CASE q = SetCandidateNonce(r, e, n)
  BY <1>1, <1>2 DEF SetCandidateNonce, OrCreate, Row
<1>3. CASE q = DeleteCandidateNonce(r, e)
  BY <1>1, <1>3 DEF DeleteCandidateNonce, Row
<1>4. CASE q = SetFinalNonce(r, e, n)
  BY <1>1, <1>4 DEF SetFinalNonce, OrCreate, Row
<1> QED BY <1>2, <1>3, <1>4

(* UpsertEvolvingNonce of the right nonce and count brings one more row    *)
(* into agreement.                                                         *)
LEMMA RowsUpsert ==
  ASSUME NEW r \in [Epoch -> StoredRow], NEW S, NEW E \in SUBSET Epoch, RowsOf(r, S, E),
         NEW e \in Epoch, NEW n, NEW c, c = Cardinality(InEpoch(S, e)),
         InEpoch(S, e) # {} => n = ChainNonce(Through(S, e))
  PROVE  RowsOf(UpsertEvolvingNonce(r, e, n, c), S, E \cup {e})
<1> DEFINE q == UpsertEvolvingNonce(r, e, n, c)
<1>1. q[e].evolving = n /\ q[e].count = c
  <2>1. r[e] \in Row
    BY DEF StoredRow
  <2> QED BY <2>1 DEF UpsertEvolvingNonce, Row
<1>2. \A f \in Epoch : f # e => q[f] = r[f]
  BY DEF UpsertEvolvingNonce
<1> HIDE DEF q
<1>3. \A f \in E \cup {e} : /\ q[f].count = Cardinality(InEpoch(S, f))
                            /\ InEpoch(S, f) # {} => q[f].evolving = ChainNonce(Through(S, f))
  BY <1>1, <1>2 DEF RowsOf
<1> QED BY <1>3 DEF RowsOf, q

(* Sets of blocks that do not differ up to the epochs of E are alike there.*)
LEMMA RowsAlike ==
  ASSUME NEW r, NEW S, NEW T, NEW E, RowsOf(r, S, E),
         \A e \in E : InEpoch(T, e) = InEpoch(S, e) /\ Through(T, e) = Through(S, e)
  PROVE  RowsOf(r, T, E)
BY DEF RowsOf

(* What restoreEpochFromDB computes for epoch e: from the row of the epoch *)
(* before it, or the genesis seed, and the blocks of e it obtains the      *)
(* nonce of the whole chain.                                               *)
LEMMA RestoredNonce ==
  ASSUME NEW e \in Epoch, blocks \in SUBSET Block,
         RowsOf(row, blocks, {f \in Epoch : f < e}),
         \A c \in blocks : EpochOf[c.slot] <= e,
         \A f \in Epoch : f < e => BlocksOf(f) # {},
         NEW prev, prev = IF e - 1 \in Epoch THEN row[e - 1] ELSE NoRow
  PROVE  /\ Seed(prev) = ChainNonce(Through(blocks, e - 1))
         /\ EvolveAll(Seed(prev), BlocksOf(e)) = ChainNonce(blocks)
         /\ Through(blocks, e) = blocks
<1>0. e \in Int
  BY EpochIsInt
<1>1. Seed(prev) = ChainNonce(Through(blocks, e - 1))
  <2>1. CASE e = 0
    <3>1. prev = NoRow
      <4>1. e - 1 \notin Epoch
        BY <2>1, EpochIsInt
      <4> QED BY <4>1
    <3>2. \A c \in blocks : EpochOf[c.slot] \in Int /\ EpochOf[c.slot] >= 0
      BY BlockSlot, EpochIsInt
    <3>3. Through(blocks, e - 1) = {}
      BY <2>1, <3>2 DEF Through
    <3>4. Seed(prev) = GenesisNonce
      BY <3>1 DEF Seed, NoRow
    <3> QED BY <3>3, <3>4, ChainNonceEmpty
  <2>2. CASE e # 0
    <3>1. e - 1 \in Epoch /\ e - 1 < e
      BY <1>0, <2>2, EpochAssumption DEF Epoch
    <3>2. row[e - 1].evolving = ChainNonce(Through(blocks, e - 1))
      BY <3>1 DEF RowsOf, BlocksOf
    <3>3. ChainNonce(Through(blocks, e - 1)) # NoNonce
      BY ChainNonceType DEF Through
    <3> QED BY <3>1, <3>2, <3>3 DEF Seed
  <2> QED BY <2>1, <2>2
<1>2. EvolveAll(Seed(prev), BlocksOf(e)) = ChainNonce(blocks)
  <2>1. Through(blocks, e - 1) \in SUBSET Block /\ InEpoch(blocks, e) \in SUBSET Block
    BY DEF Through, InEpoch
  <2>2. \A c \in blocks : EpochOf[c.slot] \in Int
    BY BlockSlot, EpochIsInt
  <2>3. blocks = Through(blocks, e - 1) \cup InEpoch(blocks, e)
    BY <1>0, <2>2 DEF Through, InEpoch
  <2>4. \A a \in Through(blocks, e - 1), b \in InEpoch(blocks, e) : a.slot < b.slot
    BY <1>0, <2>2, EpochMonotone DEF Through, InEpoch
  <2>5. EvolveAll(ChainNonce(Through(blocks, e - 1)), InEpoch(blocks, e))
          = ChainNonce(Through(blocks, e - 1) \cup InEpoch(blocks, e))
    BY <2>1, <2>4, EvolveAllLast
  <2> QED BY <1>1, <2>3, <2>5 DEF BlocksOf
<1> QED BY <1>1, <1>2 DEF Through

----------------------------------------------------------------------------
(* The inductive invariant while the process runs and the store loses      *)
(* nothing but inserts and candidates.                                     *)

LosesOnlyInserts == Faults \subseteq {"insert", "freeze"}

(* Every row is read and written as asked, and a rewind is carried through.*)
RowsWritten == Faults \cap {"upsert", "read", "delete", "rewind"} = {}

Inv == TypeInv /\ IInv

(* A read that does not fail returns the row.                              *)
LEMMA ReadOf ==
  ASSUME RowsWritten, NEW r, NEW e, NEW x \in GetEvolvingNonce(r, e)
  PROVE  x = IF e \in Epoch THEN r[e] ELSE NoRow
BY DEF RowsWritten, GetEvolvingNonce, Fails

LEMMA StatementsSucceed ==
  ASSUME RowsWritten
  PROVE  ~RewindFails /\ ~Fails("upsert") /\ ~Fails("delete")
BY DEF RowsWritten, RewindFails, Fails

LEMMA NothingElseFails ==
  ASSUME LosesOnlyInserts
  PROVE  RowsWritten /\ ~RewindFails /\ ~Crash
BY DEF LosesOnlyInserts, RowsWritten, RewindFails, Crash, Fails

LEMMA InvInit == Init => Inv
<1> SUFFICES ASSUME Init PROVE Inv
  OBVIOUS
<1>1. TypeInv
  BY TypeInit
<1>2. \A e \in Epoch : row[e].count = 0
  BY DEF Init, NoRow
<1>3. \A e : InEpoch(blocks, e) = {} /\ Cardinality(InEpoch(blocks, e)) = 0
  BY FS_EmptySet DEF Init, InEpoch
<1>4. RowsOf(row, blocks, Epoch)
  BY <1>2, <1>3 DEF RowsOf
<1>5. IdleInv
  BY <1>1, <1>2, <1>4, ChainNonceEmpty DEF IdleInv, Init, TypeInv, TypeOK
<1>6. EpochInv
  BY <1>1, EpochIsInt DEF EpochInv, EpochAt, Init, TypeInv, TypeOK
<1>7. StreamInv /\ ProcessInv /\ RewindInv
  BY DEF Init, StreamInv, OnePerSlot, ProcessInv, RewindInv, Rewinding
<1> QED BY <1>1, <1>5, <1>6, <1>7 DEF Inv, IInv, TypeInv

(* Every stored block is at or before the cursor, in an epoch the tracker  *)
(* has entered.                                                            *)
LEMMA StoredBeforeCursor ==
  ASSUME Inv, NEW c \in blocks
  PROVE  /\ c \in Block /\ c \in chain /\ c.slot <= cursor
         /\ EpochOf[c.slot] <= EpochAt(cursor)
         /\ EpochOf[c.slot] <= currentEpoch
<1>1. c \in Block /\ c \in chain /\ c.slot <= cursor
  BY DEF Inv, TypeInv, TypeOK, IInv, StreamInv
<1>2. c.slot \in Slot /\ c.slot # 0
  BY <1>1, BlockSlot
<1>3. cursor \in Slot \cup {0}
  BY DEF Inv, TypeInv, TypeOK
<1>4. EpochAt(c.slot) <= EpochAt(cursor)
  BY <1>1, <1>2, <1>3, EpochAtMonotone
<1>5. EpochAt(c.slot) = EpochOf[c.slot]
  BY <1>2 DEF EpochAt
<1>6. EpochAt(cursor) <= currentEpoch
  BY DEF Inv, IInv, EpochInv
<1>7. EpochAt(cursor) \in Epoch
  BY <1>3, EpochAssumption, SlotAssumption DEF EpochAt, Epoch
<1> QED BY <1>1, <1>4, <1>5, <1>6, <1>7, EpochIsInt, BlockSlot DEF Inv, TypeInv, TypeOK

(* A block that arrives is later than everything stored; entering its      *)
(* epoch leaves eta_v the nonce of the stored blocks, restored or rolled   *)
(* on, never a placeholder.                                                *)
LEMMA EnterNextEpoch ==
  ASSUME LosesOnlyInserts, Inv, NEW b \in Block, BlockArrives(b)
  PROVE  /\ \A c \in chain : c.slot < b.slot
         /\ \A c \in blocks : c \in Block /\ c.slot < b.slot /\ EpochOf[c.slot] <= EpochOf[b.slot]
         /\ etaV' = ChainNonce(blocks)
         /\ currentEpoch' = EpochOf[b.slot]
         /\ blockCount' = row[EpochOf[b.slot]].count
<1> DEFINE e == EpochOf[b.slot]
<1>0. b.slot > cursor /\ e \in Epoch
  BY BlockSlot DEF BlockArrives, NextBlock
<1>1. \A c \in chain : c.slot < b.slot
  BY <1>0, SlotAssumption, BlockSlot DEF Inv, IInv, TypeInv, TypeOK, StreamInv
<1>2. \A c \in blocks : c \in Block /\ c.slot < b.slot /\ EpochOf[c.slot] <= e
  BY <1>1, EpochMonotone, StoredBeforeCursor, BlockSlot
<1>3. /\ etaV = ChainNonce(blocks) /\ blockCount = row[currentEpoch].count
      /\ RowsOf(row, blocks, Epoch)
  BY DEF BlockArrives, Inv, IInv, IdleInv
<1>4. EnterEpoch(e)
  BY DEF BlockArrives
<1>5. CASE e = currentEpoch
  BY <1>1, <1>2, <1>3, <1>4, <1>5 DEF EnterEpoch, tracker
<1>6. CASE e # currentEpoch
  <2>1. PICK found \in GetEvolvingNonce(row, e) :
          /\ etaV' = IF found.count > 0 THEN found.evolving ELSE etaV
          /\ blockCount' = found.count
    BY <1>4, <1>6 DEF EnterEpoch
  <2>2. found = row[e]
    BY <1>0, <2>1, NothingElseFails, ReadOf
  <2>3. Through(blocks, e) = blocks
    BY <1>2 DEF Through
  <2>4. /\ row[e].count = Cardinality(InEpoch(blocks, e))
        /\ InEpoch(blocks, e) # {} => row[e].evolving = ChainNonce(blocks)
    BY <1>0, <1>3, <2>3 DEF RowsOf
  <2>5. row[e].count > 0 => InEpoch(blocks, e) # {}
    BY <2>4, FS_EmptySet
  <2>6. etaV' = ChainNonce(blocks)
    BY <1>3, <2>1, <2>2, <2>4, <2>5
  <2> QED BY <1>1, <1>2, <1>4, <1>6, <2>1, <2>2, <2>6 DEF EnterEpoch
<1> QED BY <1>5, <1>6

LEMMA InvBlockArrives ==
  ASSUME LosesOnlyInserts, Inv, NEW b \in Block, BlockArrives(b)
  PROVE  Inv'
<1> DEFINE e == EpochOf[b.slot]
<1>1. TypeInv'
  BY TypeBlockArrives DEF Inv
<1>2. /\ \A c \in chain : c.slot < b.slot
      /\ \A c \in blocks : c \in Block /\ c.slot < b.slot /\ EpochOf[c.slot] <= EpochOf[b.slot]
      /\ etaV' = ChainNonce(blocks)
      /\ currentEpoch' = EpochOf[b.slot]
      /\ blockCount' = row[EpochOf[b.slot]].count
  BY EnterNextEpoch
<1>3. RowsOf(row, blocks, Epoch)
  BY DEF BlockArrives, Inv, IInv, IdleInv
<1>4. e \in Epoch /\ b.slot \in Slot /\ b.slot # 0
  BY BlockSlot
<1>5. EpochInv'
  BY <1>2, <1>4, EpochIsInt DEF EpochInv, EpochAt, BlockArrives
<1>6. blocks \subseteq blocks' /\ blocks' \subseteq blocks \cup {b}
  BY DEF BlockArrives
<1>7. \A f \in Epoch : BlocksOf(f) # {} => BlocksOf(f)' # {}
  BY <1>6 DEF BlocksOf, InEpoch
<1>8. \A f \in Epoch : f < e => BlocksOf(f) # {}
  <2> SUFFICES ASSUME NEW f \in Epoch, f < e PROVE BlocksOf(f) # {}
    OBVIOUS
  <2>1. e # 0 /\ Cardinality(BlocksOf(e - 1)) >= 2
    BY <1>4, EpochIsInt DEF BlockArrives, NextBlock, EpochMayBegin
  <2>2. BlocksOf(e - 1) # {}
    BY <2>1, FS_EmptySet
  <2>3. CASE f = e - 1
    BY <2>2, <2>3
  <2>4. CASE f # e - 1
    <3>1. PICK c \in blocks : EpochOf[c.slot] = e - 1
      BY <2>2 DEF BlocksOf, InEpoch
    <3>2. c \in chain /\ f < EpochOf[c.slot]
      BY <1>4, <2>4, <3>1, EpochIsInt DEF Inv, IInv, StreamInv
    <3> QED BY <3>2 DEF Inv, IInv, StreamInv
  <2> QED BY <2>3, <2>4
<1>9. StreamInv'
  <2>1. pc' \notin {"down", "validate"} /\ phase' # "noIntersection"
    BY DEF BlockArrives, Idle, Inv, IInv, StreamInv
  <2>2. blocks' \subseteq chain'
    BY <1>6 DEF BlockArrives, Inv, IInv, StreamInv
  <2>3. OnePerSlot(chain')
    BY <1>2, BlockSlot DEF BlockArrives, Inv, IInv, TypeInv, TypeOK, StreamInv, OnePerSlot
  <2>4. \A c \in chain' : c.slot <= cursor'
    BY <1>2, BlockSlot DEF BlockArrives, Inv, TypeInv, TypeOK
  <2>5. \A c \in chain' : \A f \in Epoch : f < EpochOf[c.slot] => BlocksOf(f) # {}
    BY <1>8 DEF BlockArrives, Inv, IInv, StreamInv
  <2> QED BY <1>7, <2>1, <2>2, <2>3, <2>4, <2>5 DEF StreamInv
<1>10. CASE blocks' = blocks \cup {b} /\ pc' = "freeze" /\ work' = [NoWork EXCEPT !.block = b]
  <2>1. work'.block = b
    BY <1>10 DEF NoWork
  <2>2. Settled' = blocks
    BY <1>2, <1>10, <2>1, BlockSlot DEF Settled
  <2>3. RowsOf(row', Settled', Epoch)
    BY <1>3, <2>2 DEF BlockArrives
  <2>4. ProcessInv'
    BY <1>2, <1>10, <2>1, <2>2, <2>3 DEF ProcessInv, BlockArrives
  <2> QED BY <1>1, <1>5, <1>9, <1>10, <2>4
       DEF Inv, IInv, TypeInv, IdleInv, Idle, RewindInv, Rewinding
<1>11. CASE UNCHANGED <<blocks, pc, work>>
  <2>1. pc' = "idle" /\ row' = row
    BY <1>11 DEF BlockArrives, Idle
  <2>2. IdleInv'
    BY <1>2, <1>3, <1>11, <2>1 DEF IdleInv
  <2> QED BY <1>1, <1>5, <1>9, <2>1, <2>2 DEF Inv, IInv, TypeInv, ProcessInv, RewindInv, Rewinding
<1> QED BY <1>10, <1>11 DEF BlockArrives

(* Freezing the candidate changes no count and no evolving nonce.          *)
LEMMA FreezeKeeps ==
  ASSUME TypeInv, ProcessInv, FreezeCandidate
  PROVE  ProcessInv'
<1>1. /\ row \in [Epoch -> StoredRow] /\ currentEpoch \in Epoch /\ etaV \in Nonce
      /\ Settled \in SUBSET Block
  BY DEF TypeInv, TypeOK, Settled
<1>2. \A f \in Epoch : /\ row'[f].count = row[f].count
                       /\ row[f].evolving # NoNonce => row'[f].evolving = row[f].evolving
  <2>1. CASE row' = SetCandidateNonce(row, currentEpoch, etaV)
    BY <1>1, <2>1, StatementsKeep
  <2>2. CASE row' = row
    BY <2>2
  <2> QED BY <2>1, <2>2 DEF FreezeCandidate
<1>3. /\ pc = "freeze" /\ pc' = "evolve"
      /\ UNCHANGED <<blocks, etaV, currentEpoch, blockCount, work>>
  BY DEF FreezeCandidate
<1>4. RowsOf(row', Settled, Epoch)
  BY <1>1, <1>2, <1>3, RowsKept DEF ProcessInv
<1> QED BY <1>1, <1>2, <1>3, <1>4 DEF ProcessInv, Settled

LEMMA InvFreezeCandidate ==
  ASSUME LosesOnlyInserts, Inv, FreezeCandidate
  PROVE  Inv'
<1>1. TypeInv' /\ ProcessInv'
  BY TypeFreezeCandidate, FreezeKeeps DEF Inv, IInv
<1>2. pc' = "evolve" /\ UNCHANGED <<blocks, currentEpoch, phase, chain, cursor>>
  BY DEF FreezeCandidate, stream
<1>3. StreamInv' /\ EpochInv'
  BY <1>2 DEF Inv, IInv, StreamInv, EpochInv, BlocksOf
<1> QED BY <1>1, <1>2, <1>3 DEF Inv, IInv, TypeInv, IdleInv, Idle, RewindInv, Rewinding

(* Evolving and persisting bring memory and rows up to the stored block.   *)
LEMMA EvolveCounts ==
  ASSUME RowsWritten, TypeInv, ProcessInv, EvolveNonce
  PROVE  /\ IdleInv' /\ pc' = "idle"
         /\ etaV' = ChainNonce(blocks)
         /\ \A c \in blocks : EpochOf[c.slot] <= currentEpoch
<1> DEFINE b == work.block
           e == EpochOf[b.slot]
<1>1. /\ b \in blocks /\ b \in Block
      /\ \A c \in Settled : c \in Block /\ c.slot < b.slot
      /\ currentEpoch = e /\ e \in Epoch
      /\ blockCount = row[e].count
      /\ etaV = ChainNonce(Settled)
      /\ RowsOf(row, Settled, Epoch)
  BY BlockSlot DEF EvolveNonce, TypeInv, TypeOK, ProcessInv, Settled
<1>2. /\ row' = UpsertEvolvingNonce(row, e, etaV', row[e].count + 1)
      /\ blockCount' = row[e].count + 1
      /\ etaV' = Evolve(etaV, b)
  BY <1>1, StatementsSucceed DEF EvolveNonce
<1>3. blocks = Settled \cup {b} /\ b \notin Settled
  BY <1>1 DEF Settled
<1>4. etaV' = ChainNonce(blocks)
  BY <1>1, <1>2, <1>3, EvolveLast
<1>5. \A c \in Settled : EpochOf[c.slot] <= e
  BY <1>1, EpochMonotone, BlockSlot
<1>6. Through(blocks, e) = blocks
  BY <1>1, <1>3, <1>5, EpochIsInt DEF Through
<1>7. Cardinality(InEpoch(blocks, e)) = row[e].count + 1
  <2>1. InEpoch(blocks, e) = InEpoch(Settled, e) \cup {b} /\ b \notin InEpoch(Settled, e)
    BY <1>3 DEF InEpoch
  <2>2. InEpoch(Settled, e) \subseteq blocks
    BY DEF InEpoch, Settled
  <2>3. IsFiniteSet(InEpoch(Settled, e))
    BY <2>2, FS_Subset DEF TypeInv
  <2>4. row[e].count = Cardinality(InEpoch(Settled, e))
    BY <1>1 DEF RowsOf
  <2> QED BY <2>1, <2>3, <2>4, FS_AddElement
<1>8. \A f \in Epoch \ {e} : /\ InEpoch(blocks, f) = InEpoch(Settled, f)
                             /\ InEpoch(Settled, f) # {} => Through(blocks, f) = Through(Settled, f)
  <2> SUFFICES ASSUME NEW f \in Epoch \ {e}
               PROVE  /\ InEpoch(blocks, f) = InEpoch(Settled, f)
                      /\ InEpoch(Settled, f) # {} => Through(blocks, f) = Through(Settled, f)
    OBVIOUS
  <2>1. InEpoch(blocks, f) = InEpoch(Settled, f)
    BY <1>3 DEF InEpoch
  <2>2. ASSUME InEpoch(Settled, f) # {} PROVE Through(blocks, f) = Through(Settled, f)
    <3>1. PICK c \in Settled : EpochOf[c.slot] = f
      BY <2>2 DEF InEpoch
    <3>2. f < e
      BY <1>1, <1>5, <3>1, EpochIsInt
    <3> QED BY <1>1, <1>3, <3>2, EpochIsInt DEF Through
  <2> QED BY <2>1, <2>2
<1>9. RowsOf(row, blocks, Epoch \ {e})
  BY <1>1, <1>8 DEF RowsOf
<1>10. RowsOf(row', blocks, (Epoch \ {e}) \cup {e})
  BY <1>1, <1>2, <1>4, <1>6, <1>7, <1>9, RowsUpsert DEF TypeInv
<1>11. (Epoch \ {e}) \cup {e} = Epoch
  BY <1>1
<1>12. row'[e].count = row[e].count + 1
  BY <1>1, <1>7, <1>10 DEF RowsOf
<1>13. pc' = "idle" /\ UNCHANGED <<blocks, currentEpoch>>
  BY DEF EvolveNonce, Finish
<1>14. IdleInv'
  BY <1>1, <1>2, <1>4, <1>10, <1>11, <1>12, <1>13 DEF IdleInv
<1> QED BY <1>1, <1>3, <1>4, <1>5, <1>13, <1>14, EpochIsInt

LEMMA InvEvolveNonce ==
  ASSUME LosesOnlyInserts, Inv, EvolveNonce
  PROVE  Inv'
<1>1. TypeInv' /\ IdleInv' /\ pc' = "idle"
  BY NothingElseFails, TypeEvolveNonce, EvolveCounts DEF Inv, IInv
<1>2. UNCHANGED <<blocks, currentEpoch, phase, chain, cursor>>
  BY DEF EvolveNonce, stream
<1>3. StreamInv' /\ EpochInv'
  BY <1>1, <1>2 DEF Inv, IInv, StreamInv, EpochInv, BlocksOf
<1> QED BY <1>1, <1>3 DEF Inv, IInv, TypeInv, ProcessInv, RewindInv, Rewinding

(* A rollback to a stored slot leaves the rows right below its epoch and   *)
(* above the one the tracker was in; a rewind has to write those between.  *)
LEMMA RollbackLeaves ==
  ASSUME RowsWritten, TypeInv, NEW p \in Slot \cup {0}, RollbackTo(p),
         NEW d \in Block, d.slot = p,
         RowsOf(row, blocks, Epoch), EpochInv,
         p <= cursor, \A c \in blocks : c.slot <= cursor,
         \A f \in Epoch : f < EpochOf[d.slot] => BlocksOf(f) # {}
  PROVE  /\ EpochInv'
         /\ \A f \in Epoch : f < EpochAt(p) => BlocksOf(f)' # {}
         /\ blocks' = Prefix(blocks, p)
         /\ \/ blocks' = blocks /\ UNCHANGED <<pc, work>>
            \/ pc' = "restore" /\ work'.eta = GenesisNonce /\ work'.candidate = NoNonce /\ RewindInv'
<1> DEFINE e == EpochAt(p)
<1>1. /\ cursor' = p /\ blocks' = Prefix(blocks, p)
      /\ UNCHANGED <<row, etaV, currentEpoch, blockCount, candidateFroze>>
      /\ IF blocks' = blocks
         THEN UNCHANGED <<pc, work>>
         ELSE /\ pc' = "restore"
              /\ work' = [NoWork EXCEPT !.epoch = e, !.through = currentEpoch]
  BY StatementsSucceed DEF RollbackTo, tracker
<1>2. /\ cursor \in Slot \cup {0} /\ cursor \in Int /\ p \in Int
      /\ currentEpoch \in Epoch /\ currentEpoch \in Int
      /\ EpochAt(cursor) \in Epoch /\ EpochAt(cursor) \in Int
  BY SlotAssumption, EpochAssumption, EpochIsInt DEF TypeInv, TypeOK, EpochAt, Epoch
<1>3. d.slot \in Int /\ EpochOf[d.slot] = e /\ e \in Epoch /\ e \in Int
  BY BlockSlot, EpochIsInt DEF EpochAt
<1>4. e <= EpochAt(cursor) /\ e <= currentEpoch
  <2>1. e <= EpochAt(cursor)
    BY <1>2, EpochAtMonotone
  <2> QED BY <1>2, <1>3, <2>1 DEF EpochInv
<1>5. \A c \in blocks : /\ c \in Block /\ EpochOf[c.slot] \in Int
                        /\ c.slot <= p => EpochOf[c.slot] <= e
                        /\ EpochOf[c.slot] < e => c.slot < p
                        /\ EpochOf[c.slot] <= currentEpoch
  <2> SUFFICES ASSUME NEW c \in blocks
               PROVE  /\ c \in Block /\ EpochOf[c.slot] \in Int
                      /\ c.slot <= p => EpochOf[c.slot] <= e
                      /\ EpochOf[c.slot] < e => c.slot < p
                      /\ EpochOf[c.slot] <= currentEpoch
    OBVIOUS
  <2>1. /\ c \in Block /\ c.slot \in Slot /\ c.slot # 0 /\ c.slot \in Int
        /\ EpochOf[c.slot] \in Epoch /\ EpochOf[c.slot] \in Int
    BY BlockSlot, EpochIsInt DEF TypeInv, TypeOK
  <2>2. EpochAt(c.slot) <= EpochAt(cursor) /\ EpochAt(c.slot) = EpochOf[c.slot]
    BY <1>2, <2>1, EpochAtMonotone DEF EpochAt
  <2>3. EpochOf[c.slot] <= currentEpoch
    BY <1>2, <2>1, <2>2 DEF EpochInv
  <2> QED BY <1>3, <2>1, <2>3, EpochMonotone
<1>6. \A f \in Epoch : f < e => /\ InEpoch(blocks', f) = InEpoch(blocks, f)
                                /\ Through(blocks', f) = Through(blocks, f)
  <2> SUFFICES ASSUME NEW f \in Epoch, f < e
               PROVE  /\ InEpoch(blocks', f) = InEpoch(blocks, f)
                      /\ Through(blocks', f) = Through(blocks, f)
    OBVIOUS
  <2>1. \A c \in blocks : EpochOf[c.slot] <= f => c.slot <= p
    BY <1>2, <1>3, <1>5, EpochIsInt, BlockSlot
  <2> QED BY <1>1, <1>5, <2>1, EpochIsInt DEF InEpoch, Through, Prefix
<1>7. \A f \in Epoch : f < e => BlocksOf(f)' # {}
  BY <1>3, <1>6 DEF BlocksOf
<1>8. EpochInv'
  BY <1>1, <1>4 DEF EpochInv
<1>9. CASE blocks' = blocks
  BY <1>1, <1>7, <1>8, <1>9
<1>10. CASE blocks' # blocks
  <2>1. /\ pc' = "restore" /\ work'.epoch = e /\ work'.through = currentEpoch
        /\ work'.eta = GenesisNonce /\ work'.candidate = NoNonce
    BY <1>1, <1>10 DEF NoWork
  <2>2. Lo' = e
    BY <2>1 DEF Lo
  <2>3. \A f \in Epoch : f > currentEpoch => /\ InEpoch(blocks', f) = {}
                                             /\ row[f].count = Cardinality(InEpoch(blocks', f))
    <3> SUFFICES ASSUME NEW f \in Epoch, f > currentEpoch
                 PROVE  InEpoch(blocks', f) = {} /\ row[f].count = Cardinality(InEpoch(blocks', f))
      OBVIOUS
    <3>1. InEpoch(blocks, f) = {}
      BY <1>2, <1>5, EpochIsInt DEF InEpoch
    <3>2. InEpoch(blocks', f) = {}
      BY <1>1, <3>1 DEF InEpoch, Prefix
    <3> QED BY <3>1, <3>2 DEF RowsOf
  <2>4. RowsOf(row', blocks', {f \in Epoch : f < e \/ f > currentEpoch})
    BY <1>1, <1>6, <2>3 DEF RowsOf
  <2>5. \A c \in blocks' : EpochOf[c.slot] <= e
    BY <1>1, <1>5 DEF Prefix
  <2>6. EpochAt(cursor') <= e
    BY <1>1, <1>3, EpochIsInt
  <2>7. RewindInv'
    BY <1>7, <2>1, <2>2, <2>4, <2>5, <2>6 DEF RewindInv
  <2> QED BY <1>1, <1>7, <1>8, <2>1, <2>7
<1> QED BY <1>9, <1>10

(* A rollback to the slot of a block of the node's chain.                  *)
LEMMA InvRollbackTo ==
  ASSUME LosesOnlyInserts, Inv, Idle, NEW p \in Slot \cup {0}, RollbackTo(p),
         phase' \in {"sync", "live"}, NEW d \in chain, d.slot = p
  PROVE  Inv'
<1>0. TypeInv'
  BY TypeRollbackTo DEF Inv
<1>1. d \in Block /\ EpochOf[d.slot] = EpochAt(p) /\ EpochAt(p) \in Int
  <2>1. d \in Block
    BY DEF Inv, TypeInv, TypeOK
  <2> QED BY <2>1, BlockSlot, EpochIsInt DEF EpochAt
<1>2. /\ etaV = ChainNonce(blocks) /\ blockCount = row[currentEpoch].count
      /\ RowsOf(row, blocks, Epoch)
  BY DEF Inv, IInv, IdleInv
<1>3. /\ p <= cursor
      /\ \A c \in blocks : c.slot <= cursor
      /\ \A f \in Epoch : f < EpochOf[d.slot] => BlocksOf(f) # {}
  BY DEF Inv, IInv, StreamInv
<1>4. /\ EpochInv'
      /\ \A f \in Epoch : f < EpochAt(p) => BlocksOf(f)' # {}
      /\ blocks' = Prefix(blocks, p)
      /\ \/ blocks' = blocks /\ UNCHANGED <<pc, work>>
         \/ pc' = "restore" /\ RewindInv'
  BY <1>1, <1>2, <1>3, NothingElseFails, RollbackLeaves DEF Inv, IInv
<1>5. chain' = Prefix(chain, p) /\ cursor' = p /\ UNCHANGED <<row, etaV, currentEpoch, blockCount>>
  BY DEF RollbackTo, tracker
<1>6. StreamInv'
  <2>1. pc' \notin {"down", "validate"} /\ phase' # "noIntersection"
    BY <1>4 DEF Idle
  <2>2. blocks' \subseteq chain' /\ OnePerSlot(chain') /\ \A c \in chain' : c.slot <= cursor'
    BY <1>4, <1>5 DEF Inv, IInv, StreamInv, OnePerSlot, Prefix
  <2>3. ASSUME NEW c \in chain', NEW f \in Epoch, f < EpochOf[c.slot] PROVE BlocksOf(f)' # {}
    <3>1. c \in Block /\ c \in chain /\ c.slot <= p
      BY <1>5 DEF Prefix, Inv, TypeInv, TypeOK
    <3>2. f < EpochAt(p)
      BY <1>1, <2>3, <3>1, EpochMonotone, EpochIsInt, BlockSlot
    <3> QED BY <1>4, <3>2
  <2> QED BY <2>1, <2>2, <2>3 DEF StreamInv
<1>7. CASE blocks' = blocks /\ UNCHANGED <<pc, work>>
  <2>1. pc' = "idle" /\ IdleInv'
    BY <1>2, <1>5, <1>7 DEF Idle, IdleInv
  <2> QED BY <1>0, <1>4, <1>6, <2>1 DEF Inv, IInv, TypeInv, ProcessInv, RewindInv, Rewinding
<1>8. CASE pc' = "restore" /\ RewindInv'
  BY <1>0, <1>4, <1>6, <1>8 DEF Inv, IInv, TypeInv, ProcessInv, IdleInv, Idle
<1> QED BY <1>4, <1>7, <1>8

LEMMA InvRollbackArrives ==
  ASSUME LosesOnlyInserts, Inv, NEW p \in Slot, RollbackArrives(p)
  PROVE  Inv'
<1>1. PICK d \in chain : d.slot = p
  BY DEF RollbackArrives
<1>2. phase' \in {"sync", "live"} /\ Idle /\ RollbackTo(p)
  BY DEF RollbackArrives
<1> QED BY <1>1, <1>2, InvRollbackTo

LEMMA InvGoLive ==
  ASSUME LosesOnlyInserts, Inv, GoLive
  PROVE  Inv'
<1>1. PICK d \in blocks \cap chain : d.slot = ResumeSlot
  BY DEF GoLive, Intersects
<1>2. phase' \in {"sync", "live"} /\ Idle /\ RollbackTo(ResumeSlot)
  BY DEF GoLive
<1>3. ResumeSlot \in Slot \cup {0}
  BY ResumeSlotType DEF Inv
<1> QED BY <1>1, <1>2, <1>3, InvRollbackTo

(* restoreEpochFromDB starts from the row of the epoch before, which agrees *)
(* with the blocks, and arrives at the nonce of all stored blocks.         *)
LEMMA RestoresEvolving ==
  ASSUME RowsWritten, TypeInv, RewindInv, RestoreEvolving
  PROVE  /\ RewindInv' /\ pc' = "candidate"
         /\ work'.eta = ChainNonce(blocks)
         /\ work'.candidate = CandidateOf(ChainNonce(Through(blocks, work.epoch - 1)),
                                          BlocksOf(work.epoch))
         /\ row' = UpsertEvolvingNonce(row, work.epoch, ChainNonce(blocks),
                                       Cardinality(BlocksOf(work.epoch)))
<1> DEFINE e == work.epoch
<1>1. PICK prev \in GetEvolvingNonce(row, e - 1) :
        work' = [work EXCEPT !.eta = EvolveAll(Seed(prev), BlocksOf(e)),
                             !.candidate = CandidateOf(Seed(prev), BlocksOf(e))]
  BY StatementsSucceed DEF RestoreEvolving
<1>2. /\ pc = "restore" /\ pc' = "candidate"
      /\ row' = UpsertEvolvingNonce(row, e, work'.eta, Cardinality(BlocksOf(e)))
      /\ UNCHANGED <<blocks, etaV, currentEpoch, blockCount, candidateFroze, phase, chain, cursor>>
  BY StatementsSucceed DEF RestoreEvolving, tracker, stream
<1>3. /\ e \in Epoch /\ e \in Int
      /\ row \in [Epoch -> StoredRow] /\ blocks \in SUBSET Block
  BY EpochIsInt DEF TypeInv, TypeOK
<1>4. /\ work'.eta = EvolveAll(Seed(prev), BlocksOf(e))
      /\ work'.candidate = CandidateOf(Seed(prev), BlocksOf(e))
      /\ work'.epoch = e /\ work'.through = work.through
  BY <1>1 DEF TypeInv, TypeOK
<1>5. /\ RowsOf(row, blocks, {f \in Epoch : f < e \/ f > work.through})
      /\ \A c \in blocks : EpochOf[c.slot] <= e
      /\ EpochAt(cursor) <= e
      /\ \A f \in Epoch : f < e => BlocksOf(f) # {}
  BY <1>2 DEF RewindInv, Rewinding, Lo
<1>6. prev = IF e - 1 \in Epoch THEN row[e - 1] ELSE NoRow
  BY <1>1, ReadOf
<1>7. RowsOf(row, blocks, {f \in Epoch : f < e})
  BY <1>5 DEF RowsOf
<1>8. /\ Seed(prev) = ChainNonce(Through(blocks, e - 1))
      /\ work'.eta = ChainNonce(blocks) /\ Through(blocks, e) = blocks
  BY <1>3, <1>4, <1>5, <1>6, <1>7, RestoredNonce
<1> DEFINE E == {f \in Epoch : f < e \/ f > work.through}
<1>9. RowsOf(row', blocks, E \cup {e})
  BY <1>2, <1>3, <1>5, <1>8, RowsUpsert DEF BlocksOf
<1>10. Lo' = e + 1
  BY <1>2, <1>4 DEF Lo
<1>11. {f \in Epoch : f < e + 1 \/ f > work.through} \subseteq E \cup {e}
  BY <1>3, EpochIsInt
<1>12. RowsOf(row', blocks, {f \in Epoch : f < e + 1 \/ f > work.through})
  BY <1>9, <1>11 DEF RowsOf
<1>13. RewindInv'
  BY <1>2, <1>4, <1>5, <1>8, <1>10, <1>12 DEF RewindInv, BlocksOf
<1> QED BY <1>2, <1>4, <1>8, <1>13

LEMMA InvRestoreEvolving ==
  ASSUME LosesOnlyInserts, Inv, RestoreEvolving
  PROVE  Inv'
<1>1. TypeInv' /\ RewindInv' /\ pc' = "candidate"
  BY NothingElseFails, TypeRestoreEvolving, RestoresEvolving DEF Inv, IInv
<1>2. UNCHANGED <<blocks, currentEpoch, phase, chain, cursor>>
  BY NothingElseFails DEF RestoreEvolving, tracker, stream
<1>3. StreamInv' /\ EpochInv'
  BY <1>1, <1>2 DEF Inv, IInv, StreamInv, EpochInv, BlocksOf
<1> QED BY <1>1, <1>3 DEF Inv, IInv, TypeInv, IdleInv, Idle, ProcessInv

(* The tracker now has what was restored, and goes on to the later epochs. *)
LEMMA RestoresTracker ==
  ASSUME RowsWritten, TypeInv, RewindInv, RestoreCandidate
  PROVE  /\ etaV' = ChainNonce(blocks) /\ currentEpoch' = work.epoch
         /\ \A c \in blocks : EpochOf[c.slot] <= work.epoch
         /\ EpochInv'
         /\ \/ pc' = "resetEvolving" /\ RewindInv'
            \/ pc' = "idle" /\ IdleInv'
<1> DEFINE e == work.epoch
<1>1. /\ pc = "candidate"
      /\ row' = IF work.candidate = NoNonce
                THEN DeleteCandidateNonce(row, e)
                ELSE SetCandidateNonce(row, e, work.candidate)
      /\ etaV' = work.eta /\ currentEpoch' = e /\ blockCount' = Cardinality(BlocksOf(e))
      /\ IF e < work.through
         THEN pc' = "resetEvolving" /\ work' = [work EXCEPT !.epoch = e + 1]
         ELSE Finish
      /\ UNCHANGED <<blocks, phase, chain, cursor>>
  BY StatementsSucceed DEF RestoreCandidate, stream
<1>2. /\ e \in Epoch /\ e \in Int /\ work.through \in Int
      /\ row \in [Epoch -> StoredRow] /\ blocks \in SUBSET Block
      /\ work.candidate \in Nonce \cup {NoNonce}
  BY EpochIsInt DEF TypeInv, TypeOK
<1>3. /\ RowsOf(row, blocks, {f \in Epoch : f < e + 1 \/ f > work.through})
      /\ \A c \in blocks : EpochOf[c.slot] <= e
      /\ EpochAt(cursor) <= e
      /\ work.eta = ChainNonce(blocks)
  BY <1>1 DEF RewindInv, Rewinding, Lo
<1>4. \A f \in Epoch : /\ row'[f].count = row[f].count
                       /\ row[f].evolving # NoNonce => row'[f].evolving = row[f].evolving
  BY <1>1, <1>2, StatementsKeep, GenesisType
<1>5. RowsOf(row', blocks, {f \in Epoch : f < e + 1 \/ f > work.through})
  BY <1>2, <1>3, <1>4, RowsKept
<1>6. blockCount' = row'[currentEpoch'].count
  BY <1>1, <1>2, <1>5, EpochIsInt DEF RowsOf, BlocksOf
<1>7. EpochInv'
  BY <1>1, <1>3 DEF EpochInv
<1>8. CASE e < work.through
  <2>1. pc' = "resetEvolving" /\ work'.epoch = e + 1 /\ work'.through = work.through
    BY <1>1, <1>8 DEF TypeInv, TypeOK
  <2>2. Lo' = e + 1
    BY <2>1 DEF Lo
  <2>3. \A c \in blocks : EpochOf[c.slot] \in Int
    BY <1>2, BlockSlot, EpochIsInt
  <2>4. BlocksOf(e + 1) = {} /\ \A c \in blocks : EpochOf[c.slot] <= e + 1
    BY <1>2, <1>3, <2>3 DEF BlocksOf, InEpoch
  <2>5. InEpoch(blocks', work'.epoch) = {} /\ currentEpoch' < work'.epoch
    BY <1>1, <1>2, <2>1, <2>4 DEF BlocksOf
  <2>7. \A c \in blocks' : EpochOf[c.slot] <= work'.epoch
    BY <1>1, <2>1, <2>4
  <2>8. RowsOf(row', blocks', {f \in Epoch : f < Lo' \/ f > work'.through})
    BY <1>1, <1>5, <2>1, <2>2
  <2>9. etaV' = ChainNonce(blocks')
    BY <1>1, <1>3
  <2>6. RewindInv'
    BY <1>6, <2>1, <2>5, <2>7, <2>8, <2>9 DEF RewindInv, BlocksOf
  <2> QED BY <1>1, <1>3, <1>7, <2>1, <2>6
<1>9. CASE ~(e < work.through)
  <2>1. pc' = "idle"
    BY <1>1, <1>9 DEF Finish
  <2>2. {f \in Epoch : f < e + 1 \/ f > work.through} = Epoch
    BY <1>2, <1>9, EpochIsInt
  <2>3. IdleInv'
    BY <1>1, <1>3, <1>5, <1>6, <2>2 DEF IdleInv
  <2> QED BY <1>1, <1>3, <1>7, <2>1, <2>3
<1> QED BY <1>8, <1>9

LEMMA InvRestoreCandidate ==
  ASSUME LosesOnlyInserts, Inv, RestoreCandidate
  PROVE  Inv'
<1>0. RowsWritten /\ TypeInv /\ RewindInv
  BY NothingElseFails DEF Inv, IInv
<1>1. /\ TypeInv' /\ EpochInv'
      /\ (pc' = "resetEvolving" /\ RewindInv') \/ (pc' = "idle" /\ IdleInv')
  BY <1>0, TypeRestoreCandidate, RestoresTracker
<1>2. UNCHANGED <<blocks, phase, chain, cursor>>
  BY DEF RestoreCandidate, stream
<1>3. StreamInv'
  BY <1>1, <1>2 DEF Inv, IInv, StreamInv, BlocksOf
<1>4. CASE pc' = "resetEvolving" /\ RewindInv'
  BY <1>1, <1>3, <1>4 DEF Inv, IInv, TypeInv, IdleInv, Idle, ProcessInv
<1>5. CASE pc' = "idle" /\ IdleInv'
  BY <1>1, <1>3, <1>5 DEF Inv, IInv, TypeInv, ProcessInv, RewindInv, Rewinding
<1> QED BY <1>1, <1>4, <1>5

LEMMA ResetsEvolving ==
  ASSUME RowsWritten, TypeInv, RewindInv, ResetEvolving
  PROVE  RewindInv' /\ pc' = "resetCandidate"
<1> DEFINE e == work.epoch
<1>1. /\ pc = "resetEvolving" /\ pc' = "resetCandidate"
      /\ row' = UpsertEvolvingNonce(row, e, etaV, 0)
      /\ UNCHANGED <<blocks, etaV, currentEpoch, blockCount, work, phase, chain, cursor>>
  BY StatementsSucceed DEF ResetEvolving, tracker, stream
<1>2. /\ e \in Epoch /\ e \in Int /\ work.through \in Int
      /\ currentEpoch \in Epoch /\ currentEpoch \in Int
      /\ row \in [Epoch -> StoredRow]
  BY EpochIsInt DEF TypeInv, TypeOK
<1> DEFINE E == {f \in Epoch : f < e \/ f > work.through}
<1>3. /\ RowsOf(row, blocks, E)
      /\ \A c \in blocks : EpochOf[c.slot] <= e
      /\ etaV = ChainNonce(blocks)
      /\ blockCount = row[currentEpoch].count
      /\ BlocksOf(e) = {} /\ currentEpoch < e
  BY <1>1 DEF RewindInv, Rewinding, Lo
<1>4. RowsOf(row', blocks, E \cup {e})
  BY <1>1, <1>2, <1>3, RowsUpsert, FS_EmptySet DEF BlocksOf
<1>5. {f \in Epoch : f < e + 1 \/ f > work.through} \subseteq E \cup {e}
  <2>1. ASSUME NEW f \in Epoch, f < e + 1 PROVE f < e \/ f = e
    <3>1. f \in Int
      BY EpochIsInt
    <3> HIDE DEF e
    <3> QED BY <1>2, <2>1, <3>1
  <2> QED BY <2>1
<1>6. RowsOf(row', blocks, {f \in Epoch : f < e + 1 \/ f > work.through})
  BY <1>4, <1>5 DEF RowsOf
<1>7. row'[currentEpoch].count = row[currentEpoch].count
  BY <1>1, <1>2, <1>3 DEF UpsertEvolvingNonce
<1> QED BY <1>1, <1>3, <1>6, <1>7 DEF RewindInv, Lo, BlocksOf

LEMMA InvResetEvolving ==
  ASSUME LosesOnlyInserts, Inv, ResetEvolving
  PROVE  Inv'
<1>1. TypeInv' /\ RewindInv' /\ pc' = "resetCandidate"
  BY NothingElseFails, TypeResetEvolving, ResetsEvolving DEF Inv, IInv
<1>2. UNCHANGED <<blocks, currentEpoch, phase, chain, cursor>>
  BY NothingElseFails DEF ResetEvolving, tracker, stream
<1>3. StreamInv' /\ EpochInv'
  BY <1>1, <1>2 DEF Inv, IInv, StreamInv, EpochInv, BlocksOf
<1> QED BY <1>1, <1>3 DEF Inv, IInv, TypeInv, IdleInv, Idle, ProcessInv

LEMMA ResetsCandidate ==
  ASSUME RowsWritten, TypeInv, RewindInv, ResetCandidate
  PROVE  \/ pc' = "resetEvolving" /\ RewindInv'
         \/ pc' = "idle" /\ IdleInv'
<1> DEFINE e == work.epoch
<1>1. /\ pc = "resetCandidate"
      /\ row' = DeleteCandidateNonce(row, e)
      /\ IF e < work.through
         THEN pc' = "resetEvolving" /\ work' = [work EXCEPT !.epoch = e + 1]
         ELSE Finish
      /\ UNCHANGED <<blocks, etaV, currentEpoch, blockCount, phase, chain, cursor>>
  BY StatementsSucceed DEF ResetCandidate, tracker, stream
<1>2. /\ e \in Epoch /\ e \in Int /\ work.through \in Int
      /\ currentEpoch \in Epoch /\ currentEpoch \in Int
      /\ row \in [Epoch -> StoredRow] /\ blocks \in SUBSET Block
  BY EpochIsInt DEF TypeInv, TypeOK
<1>3. /\ RowsOf(row, blocks, {f \in Epoch : f < e + 1 \/ f > work.through})
      /\ \A c \in blocks : EpochOf[c.slot] <= e
      /\ etaV = ChainNonce(blocks)
      /\ blockCount = row[currentEpoch].count
      /\ BlocksOf(e) = {} /\ currentEpoch < e
  BY <1>1 DEF RewindInv, Rewinding, Lo
<1>4. \A f \in Epoch : /\ row'[f].count = row[f].count
                       /\ row[f].evolving # NoNonce => row'[f].evolving = row[f].evolving
  BY <1>1, <1>2, StatementsKeep, GenesisType
<1>5. RowsOf(row', blocks, {f \in Epoch : f < e + 1 \/ f > work.through})
  BY <1>2, <1>3, <1>4, RowsKept
<1>6. CASE e < work.through
  <2>1. pc' = "resetEvolving" /\ work'.epoch = e + 1 /\ work'.through = work.through
    BY <1>1, <1>6 DEF TypeInv, TypeOK
  <2>2. Lo' = e + 1
    BY <2>1 DEF Lo
  <2>3. \A c \in blocks : EpochOf[c.slot] \in Int
    BY <1>2, BlockSlot, EpochIsInt
  <2>4. BlocksOf(e + 1) = {} /\ \A c \in blocks : EpochOf[c.slot] <= e + 1
    BY <1>2, <1>3, <2>3 DEF BlocksOf, InEpoch
  <2>5. InEpoch(blocks', work'.epoch) = {} /\ currentEpoch' < work'.epoch
    BY <1>1, <1>2, <1>3, <2>1, <2>4 DEF BlocksOf
  <2>6. \A c \in blocks' : EpochOf[c.slot] <= work'.epoch
    BY <1>1, <2>1, <2>4
  <2>7. RowsOf(row', blocks', {f \in Epoch : f < Lo' \/ f > work'.through})
    BY <1>1, <1>5, <2>1, <2>2
  <2>8. etaV' = ChainNonce(blocks') /\ blockCount' = row'[currentEpoch'].count
    BY <1>1, <1>2, <1>3, <1>4
  <2> QED BY <2>1, <2>5, <2>6, <2>7, <2>8 DEF RewindInv, BlocksOf
<1>7. CASE ~(e < work.through)
  <2>1. pc' = "idle"
    BY <1>1, <1>7 DEF Finish
  <2>2. {f \in Epoch : f < e + 1 \/ f > work.through} = Epoch
    <3>1. \A f \in Epoch : f \in Int
      BY EpochIsInt
    <3>2. \A f \in Epoch : f < e + 1 \/ f > work.through
      BY <1>2, <1>7, <3>1
    <3> QED BY <3>2
  <2> QED BY <1>1, <1>2, <1>3, <1>4, <1>5, <2>1, <2>2 DEF IdleInv
<1> QED BY <1>6, <1>7

LEMMA InvResetCandidate ==
  ASSUME LosesOnlyInserts, Inv, ResetCandidate
  PROVE  Inv'
<1>0. RowsWritten /\ TypeInv /\ RewindInv
  BY NothingElseFails DEF Inv, IInv
<1>1. /\ TypeInv'
      /\ (pc' = "resetEvolving" /\ RewindInv') \/ (pc' = "idle" /\ IdleInv')
  BY <1>0, TypeResetCandidate, ResetsCandidate
<1>2. UNCHANGED <<blocks, currentEpoch, phase, chain, cursor>>
  BY NothingElseFails DEF ResetCandidate, tracker, stream
<1>3. StreamInv' /\ EpochInv'
  BY <1>1, <1>2 DEF Inv, IInv, StreamInv, EpochInv, BlocksOf
<1>4. CASE pc' = "resetEvolving" /\ RewindInv'
  BY <1>1, <1>3, <1>4 DEF Inv, IInv, TypeInv, IdleInv, Idle, ProcessInv
<1>5. CASE pc' = "idle" /\ IdleInv'
  BY <1>1, <1>3, <1>5 DEF Inv, IInv, TypeInv, ProcessInv, RewindInv, Rewinding
<1> QED BY <1>1, <1>4, <1>5

(* A final nonce may be cached at any point of a handler: it creates rows  *)
(* but counts no block and keeps the evolving nonces that exist.           *)
LEMMA CacheKeeps ==
  ASSUME TypeInv, NEW e \in FinalEpochs, CacheFinalNonce(e)
  PROVE  /\ \A f \in Epoch : row'[f].count = row[f].count
         /\ \A S \in SUBSET Block : RowsOf(row, S, Epoch) => RowsOf(row', S, Epoch)
         /\ ProcessInv => ProcessInv'
         /\ RewindInv => RewindInv'
<1>1. /\ row' = SetFinalNonce(row, e, FinalNonce)
      /\ UNCHANGED <<blocks, etaV, currentEpoch, blockCount, pc, work, cursor>>
  BY DEF CacheFinalNonce, tracker, stream
<1>2. /\ e \in Epoch /\ currentEpoch \in Epoch
      /\ row \in [Epoch -> StoredRow] /\ blocks \in SUBSET Block /\ Settled \in SUBSET Block
  BY BoundAssumption DEF TypeInv, TypeOK, Settled
<1>3. \A f \in Epoch : /\ row'[f].count = row[f].count
                       /\ row[f].evolving # NoNonce => row'[f].evolving = row[f].evolving
  BY <1>1, <1>2, StatementsKeep, GenesisType
<1>4. \A E \in SUBSET Epoch : \A S \in SUBSET Block : RowsOf(row, S, E) => RowsOf(row', S, E)
  BY <1>3, RowsKept
<1>5. ProcessInv => ProcessInv'
  BY <1>1, <1>2, <1>3, <1>4 DEF ProcessInv, Settled
<1>6. RewindInv => RewindInv'
  <2>1. Lo' = Lo /\ \A f : BlocksOf(f)' = BlocksOf(f)
    BY <1>1 DEF Lo, BlocksOf
  <2>2. ASSUME Rewinding, RewindInv PROVE RewindInv'
    <3>1. RowsOf(row', blocks, {f \in Epoch : f < Lo \/ f > work.through})
      BY <1>2, <1>4, <2>2 DEF RewindInv
    <3> QED BY <1>1, <1>2, <1>3, <2>1, <2>2, <3>1 DEF RewindInv
  <2>3. ASSUME ~Rewinding PROVE RewindInv'
    BY <1>1, <2>3 DEF RewindInv, Rewinding
  <2> QED BY <2>2, <2>3
<1> QED BY <1>3, <1>4, <1>5, <1>6

LEMMA InvCacheFinalNonce ==
  ASSUME LosesOnlyInserts, Inv, NEW e \in FinalEpochs, CacheFinalNonce(e)
  PROVE  Inv'
<1>1. /\ TypeInv' /\ ProcessInv' /\ RewindInv'
      /\ \A f \in Epoch : row'[f].count = row[f].count
      /\ \A S \in SUBSET Block : RowsOf(row, S, Epoch) => RowsOf(row', S, Epoch)
  BY TypeCacheFinalNonce, CacheKeeps DEF Inv, IInv
<1>2. UNCHANGED <<blocks, etaV, currentEpoch, blockCount, pc, phase, chain, cursor>>
  BY DEF CacheFinalNonce, tracker, stream
<1>3. IdleInv'
  BY <1>1, <1>2 DEF Inv, IInv, IdleInv, Idle, TypeInv, TypeOK
<1>4. StreamInv' /\ EpochInv'
  BY <1>2 DEF Inv, IInv, StreamInv, EpochInv, BlocksOf
<1> QED BY <1>1, <1>3, <1>4 DEF Inv, IInv, TypeInv

LEMMA InvStep == LosesOnlyInserts /\ Inv /\ [Next]_vars => Inv'
<1> SUFFICES ASSUME LosesOnlyInserts, Inv, [Next]_vars PROVE Inv'
  OBVIOUS
<1>1. CASE UNCHANGED vars
  <2>1. TypeInv'
    BY TypeStep DEF Inv
  <2>2. IInv'
    BY <1>1 DEF vars, db, tracker, stream, Inv, IInv, TypeOK, StreamInv, EpochInv, IdleInv,
                Idle, ProcessInv, Settled, RewindInv, Rewinding, Lo, BlocksOf
  <2> QED BY <2>1, <2>2 DEF Inv
<1>2. CASE \E b \in Block : BlockArrives(b)
  BY <1>2, InvBlockArrives
<1>3. CASE FreezeCandidate
  BY <1>3, InvFreezeCandidate
<1>4. CASE EvolveNonce
  BY <1>4, InvEvolveNonce
<1>5. CASE \E p \in Slot : RollbackArrives(p)
  BY <1>5, InvRollbackArrives
<1>6. CASE GoLive
  BY <1>6, InvGoLive
<1>7. CASE RestoreEvolving
  BY <1>7, InvRestoreEvolving
<1>8. CASE RestoreCandidate
  BY <1>8, InvRestoreCandidate
<1>9. CASE ResetEvolving
  BY <1>9, InvResetEvolving
<1>10. CASE ResetCandidate
  BY <1>10, InvResetCandidate
<1>11. CASE \E e \in FinalEpochs : CacheFinalNonce(e)
  BY <1>11, InvCacheFinalNonce
<1>12. CASE Crash
  BY <1>12, NothingElseFails
<1>13. CASE Restart \/ ValidateDBIntegrity
  BY <1>13 DEF Restart, ValidateDBIntegrity, Inv, IInv, StreamInv
<1> QED BY <1>1, <1>2, <1>3, <1>4, <1>5, <1>6, <1>7, <1>8, <1>9, <1>10, <1>11, <1>12,
           <1>13 DEF Next

----------------------------------------------------------------------------
(* What the invariant gives.                                               *)

LEMMA InvMemory == Inv => MemoryFollowsStore
<1> SUFFICES ASSUME Inv, Idle PROVE etaV = ChainNonce(UpTo(currentEpoch))
  BY DEF MemoryFollowsStore
<1>1. etaV = ChainNonce(blocks)
  BY DEF Inv, IInv, IdleInv
<1>2. UpTo(currentEpoch) = blocks
  BY StoredBeforeCursor DEF UpTo, Through
<1> QED BY <1>1, <1>2

LEMMA InvRows == Inv => RowsFollowStore
BY DEF Inv, IInv, IdleInv, RowsFollowStore, RowsOf, BlocksOf, UpTo

LEMMA InvForks == Inv => NoForkedContribution
<1> SUFFICES ASSUME Inv, Idle PROVE Hashed(etaV) \subseteq chain
  BY DEF NoForkedContribution
<1>1. etaV = ChainNonce(blocks) /\ blocks \in SUBSET Block
  BY DEF Inv, IInv, IdleInv, TypeInv, TypeOK
<1>2. Hashed(etaV) = blocks
  BY <1>1, ChainNonceLinks
<1> QED BY <1>2 DEF Inv, IInv, StreamInv

(* As long as the process keeps running and no store call but InsertBlock  *)
(* and SetCandidateNonce fails, the strengthened invariant holds, for any  *)
(* slots, epochs, stability windows, forks and numbers of blocks.          *)
THEOREM InvCorrect ==
  ASSUME LosesOnlyInserts
  PROVE  Spec => [](TypeInv /\ IInv)
<1>1. Inv /\ [Next]_vars => Inv'
  BY InvStep
<1>2. Init => Inv
  BY InvInit
<1>3. Spec => []Inv
  BY <1>1, <1>2, PTL DEF Spec
<1>4. Inv => TypeInv /\ IInv
  BY DEF Inv
<1> QED BY <1>3, <1>4, PTL

(* Under the same assumption ProcessBlock and RewindToSlot never lose,     *)
(* repeat or reorder a block in eta_v: it is the nonce of the blocks table *)
(* between any two events, over any sequence of blocks and rollbacks.      *)
THEOREM MemoryCorrect ==
  ASSUME LosesOnlyInserts
  PROVE  Spec => []MemoryFollowsStore
<1>1. TypeInv /\ IInv => MemoryFollowsStore
  BY InvMemory DEF Inv
<1> QED BY <1>1, InvCorrect, PTL

(* Under the same assumption the row of every epoch with blocks holds the  *)
(* nonce and the count of the blocks table, also after a rollback over any *)
(* number of epochs and with rows that SetFinalNonce created.              *)
THEOREM RowsCorrect ==
  ASSUME LosesOnlyInserts
  PROVE  Spec => []RowsFollowStore
<1>1. TypeInv /\ IInv => RowsFollowStore
  BY InvRows DEF Inv
<1> QED BY <1>1, InvCorrect, PTL

(* Under the same assumption a rollback that has been handled leaves no    *)
(* block in eta_v that is not on the node's chain.                         *)
THEOREM ForksCorrect ==
  ASSUME LosesOnlyInserts
  PROVE  Spec => []NoForkedContribution
<1>1. TypeInv /\ IInv => NoForkedContribution
  BY InvForks DEF Inv
<1> QED BY <1>1, InvCorrect, PTL

----------------------------------------------------------------------------
(* The candidate nonce.                                                    *)

LosesOnlyBlocks == Faults \subseteq {"insert"}

(* The candidates the rows r hold for the epochs of E are those of S.      *)
CandidatesOf(r, S, E) ==
  \A e \in E : FirstStable(InEpoch(S, e)) # {} =>
    r[e].candidate = CandidateOf(ChainNonce(Through(S, e - 1)), InEpoch(S, e))

Rewound == Epoch \ unrewound

(* candidateFroze tells whether S has a block past the stability slot.     *)
FlagOf(S) ==
  currentEpoch \in Rewound => (candidateFroze <=> (FirstStable(InEpoch(S, currentEpoch)) # {}))

(* The stream has left the tracker behind in a later epoch only by a       *)
(* rollback that deleted nothing, or before the first block.               *)
BehindInv ==
  pc \notin {"restore", "candidate"} =>
    (EpochAt(cursor) < currentEpoch /\ BlocksOf(EpochAt(cursor)) # {}
       => EpochAt(cursor) \in unrewound)

CandidateInv ==
  /\ pc \in {"idle", "evolve", "resetEvolving", "resetCandidate"} =>
       CandidatesOf(row, blocks, Rewound) /\ FlagOf(blocks)
  /\ pc = "freeze" => CandidatesOf(row, Settled, Rewound) /\ FlagOf(Settled)
  /\ pc \in {"restore", "candidate"} =>
       /\ CandidatesOf(row, blocks, {e \in Rewound : e < work.epoch})
       /\ EpochAt(cursor) = work.epoch
  /\ pc = "candidate" =>
       work.candidate = CandidateOf(ChainNonce(Through(blocks, work.epoch - 1)),
                                    BlocksOf(work.epoch))
  /\ BehindInv

CInv == Inv /\ CandidateInv

(* A finite set of blocks has no first stable block only if it has none.   *)
LEMMA FirstStableNone ==
  ASSUME NEW T \in SUBSET Block, IsFiniteSet(T), FirstStable(T) = {}
  PROVE  \A c \in T : c.slot \notin Stable
<1> DEFINE U == {c \in T : c.slot \in Stable}
<1>1. U \in SUBSET Block /\ IsFiniteSet(U)
  BY FS_Subset
<1>2. ASSUME U # {} PROVE FALSE
  <2>1. PICK b \in U : \A c \in U : b.slot <= c.slot
    BY <1>1, <1>2, FirstExists
  <2>2. b \in FirstStable(T)
    BY <2>1 DEF FirstStable
  <2> QED BY <2>2
<1> QED BY <1>2

(* What a later block does to the first stable block and to the candidate. *)
LEMMA CandidateLater ==
  ASSUME NEW T \in SUBSET Block, IsFiniteSet(T), NEW b \in Block, NEW n,
         \A c \in T : c.slot < b.slot
  PROVE  /\ FirstStable(T) # {} =>
              /\ FirstStable(T \cup {b}) = FirstStable(T)
              /\ CandidateOf(n, T \cup {b}) = CandidateOf(n, T)
         /\ FirstStable(T) = {} /\ b.slot \in Stable =>
              /\ FirstStable(T \cup {b}) # {}
              /\ CandidateOf(n, T \cup {b}) = EvolveAll(n, T)
         /\ FirstStable(T) = {} /\ b.slot \notin Stable => FirstStable(T \cup {b}) = {}
<1> DEFINE U == T \cup {b}
<1>1. b.slot \in Int /\ \A c \in T : c.slot \in Int /\ c.slot < b.slot
  BY BlockSlot
<1>2. ASSUME FirstStable(T) # {}
      PROVE  FirstStable(U) = FirstStable(T) /\ CandidateOf(n, U) = CandidateOf(n, T)
  <2>1. PICK d \in T : d.slot \in Stable /\ \A c \in T : c.slot \in Stable => d.slot <= c.slot
    BY <1>2 DEF FirstStable
  <2>2. FirstStable(U) \subseteq FirstStable(T)
    BY <1>1, <2>1 DEF FirstStable
  <2>3. FirstStable(T) \subseteq FirstStable(U)
    BY <1>1 DEF FirstStable
  <2>4. FirstStable(U) = FirstStable(T)
    BY <2>2, <2>3
  <2> DEFINE f == CHOOSE c \in FirstStable(T) : TRUE
  <2>5. f \in T
    BY <1>2 DEF FirstStable
  <2>6. Before(U, f) = Before(T, f)
    <3> HIDE DEF f
    <3>1. ~(b.slot < f.slot)
      BY <1>1, <2>5
    <3> QED BY <3>1 DEF Before
  <2>7. CandidateOf(n, T) = EvolveAll(n, Before(T, f))
    BY <1>2 DEF CandidateOf
  <2>8. CandidateOf(n, U) = EvolveAll(n, Before(U, f))
    BY <1>2, <2>4 DEF CandidateOf
  <2> QED BY <2>4, <2>6, <2>7, <2>8
<1>3. ASSUME FirstStable(T) = {}
      PROVE  \A c \in T : c.slot \notin Stable
  BY <1>3, FirstStableNone
<1>4. ASSUME FirstStable(T) = {}, b.slot \in Stable
      PROVE  FirstStable(U) # {} /\ CandidateOf(n, U) = EvolveAll(n, T)
  <2>1. FirstStable(U) = {b}
    <3>1. b \in FirstStable(U)
      BY <1>1, <1>3, <1>4 DEF FirstStable
    <3>2. \A c \in FirstStable(U) : c = b
      BY <1>3, <1>4 DEF FirstStable
    <3> QED BY <3>1, <3>2
  <2>2. Before(U, b) = T
    BY <1>1 DEF Before
  <2>3. (CHOOSE c \in {b} : TRUE) = b
    OBVIOUS
  <2> QED BY <2>1, <2>2, <2>3 DEF CandidateOf
<1>5. ASSUME FirstStable(T) = {}, b.slot \notin Stable
      PROVE  FirstStable(U) = {}
  BY <1>3, <1>5 DEF FirstStable
<1> QED BY <1>2, <1>4, <1>5

(* Candidates stay right where neither the rows nor the blocks change.     *)
LEMMA CandidatesAlike ==
  ASSUME NEW r, NEW q, NEW S, NEW T, NEW E, NEW D, CandidatesOf(r, S, D),
         \A e \in E : FirstStable(InEpoch(T, e)) # {} =>
           /\ e \in D
           /\ q[e].candidate = r[e].candidate
           /\ InEpoch(T, e) = InEpoch(S, e)
           /\ Through(T, e - 1) = Through(S, e - 1)
  PROVE  CandidatesOf(q, T, E)
BY DEF CandidatesOf

(* The candidate column after each statement on epoch_nonces.              *)
LEMMA UpsertKeepsCandidate ==
  ASSUME NEW r \in [Epoch -> StoredRow], NEW e \in Epoch, NEW n, NEW c
  PROVE  \A f \in Epoch : UpsertEvolvingNonce(r, e, n, c)[f].candidate = r[f].candidate
<1>1. \A f \in Epoch : r[f] \in Row
  BY DEF StoredRow
<1> QED BY <1>1 DEF UpsertEvolvingNonce, Row

LEMMA FinalKeepsCandidate ==
  ASSUME NEW r \in [Epoch -> StoredRow], NEW e \in Epoch, NEW n
  PROVE  \A f \in Epoch : SetFinalNonce(r, e, n)[f].candidate = r[f].candidate
<1>1. \A f \in Epoch : r[f] \in Row
  BY DEF StoredRow
<1> QED BY <1>1 DEF SetFinalNonce, Row

LEMMA DeleteOneCandidate ==
  ASSUME NEW r \in [Epoch -> StoredRow], NEW e \in Epoch
  PROVE  \A f \in Epoch \ {e} : DeleteCandidateNonce(r, e)[f].candidate = r[f].candidate
<1>1. \A f \in Epoch : r[f] \in Row
  BY DEF StoredRow
<1> QED BY <1>1 DEF DeleteCandidateNonce, Row

LEMMA SetOneCandidate ==
  ASSUME NEW r \in [Epoch -> StoredRow], NEW e \in Epoch, NEW n
  PROVE  /\ \A f \in Epoch \ {e} : SetCandidateNonce(r, e, n)[f].candidate = r[f].candidate
         /\ SetCandidateNonce(r, e, n)[e].candidate = n
<1>1. \A f \in Epoch : r[f] \in Row
  BY DEF StoredRow
<1>2. \A f \in Epoch \ {e} : SetCandidateNonce(r, e, n)[f].candidate = r[f].candidate
  BY <1>1 DEF SetCandidateNonce, Row
<1>3. SetCandidateNonce(r, e, n)[e].candidate = n
  BY <1>1 DEF SetCandidateNonce, Row
<1> QED BY <1>2, <1>3

LEMMA OnlyBlocksLost ==
  ASSUME LosesOnlyBlocks
  PROVE  LosesOnlyInserts /\ ~Fails("freeze")
BY DEF LosesOnlyBlocks, LosesOnlyInserts, Fails

LEMMA CandidateInit == Init => CInv
<1> SUFFICES ASSUME Init PROVE CInv
  OBVIOUS
<1>1. Inv
  BY InvInit
<1>2. \A e : InEpoch(blocks, e) = {} /\ BlocksOf(e) = {}
  BY DEF Init, InEpoch, BlocksOf
<1>3. FirstStable({}) = {}
  BY DEF FirstStable
<1>4. CandidatesOf(row, blocks, Rewound) /\ FlagOf(blocks)
  BY <1>2, <1>3 DEF CandidatesOf, FlagOf, Init
<1> QED BY <1>1, <1>2, <1>4 DEF CInv, CandidateInv, BehindInv, Init

(* A block begins an epoch with candidateFroze reset: no block of that     *)
(* epoch is stored yet, or the epoch is one the node has returned to.      *)
LEMMA CandidateBlockArrives ==
  ASSUME LosesOnlyBlocks, CInv, NEW b \in Block, BlockArrives(b)
  PROVE  CandidateInv'
<1> DEFINE e == EpochOf[b.slot]
<1>1. LosesOnlyInserts /\ Inv
  BY OnlyBlocksLost DEF CInv
<1>2. /\ \A c \in blocks : c \in Block /\ c.slot < b.slot /\ EpochOf[c.slot] <= EpochOf[b.slot]
      /\ currentEpoch' = e
  BY <1>1, EnterNextEpoch
<1>3. /\ pc = "idle" /\ row' = row /\ unrewound' = unrewound /\ cursor' = b.slot
      /\ EnterEpoch(e)
  BY DEF BlockArrives, Idle
<1>4. /\ e \in Epoch /\ e \in Int /\ b.slot \in Slot /\ b.slot # 0
      /\ currentEpoch \in Epoch /\ currentEpoch \in Int
  BY <1>1, BlockSlot, EpochIsInt DEF Inv, TypeInv, TypeOK
<1>5. CandidatesOf(row, blocks, Rewound) /\ FlagOf(blocks) /\ BehindInv
  BY <1>3 DEF CInv, CandidateInv
<1>6. Rewound' = Rewound /\ EpochAt(cursor') = currentEpoch'
  BY <1>2, <1>3, <1>4 DEF Rewound, EpochAt
<1>7. currentEpoch' \in Rewound =>
        (candidateFroze' <=> (FirstStable(InEpoch(blocks, currentEpoch')) # {}))
  <2>1. CASE e = currentEpoch
    BY <1>2, <1>3, <1>5, <2>1 DEF EnterEpoch, tracker, FlagOf
  <2>2. CASE e # currentEpoch
    <3> SUFFICES ASSUME e \in Rewound PROVE InEpoch(blocks, e) = {}
      BY <1>2, <1>3, <2>2 DEF EnterEpoch, FirstStable
    <3>1. SUFFICES ASSUME NEW c \in blocks, EpochOf[c.slot] = e PROVE FALSE
      BY DEF InEpoch
    <3>2. /\ c.slot <= cursor /\ e <= EpochAt(cursor) /\ e <= currentEpoch
      BY <1>1, <3>1, StoredBeforeCursor
    <3>3. cursor \in Slot \cup {0} /\ b.slot > cursor
      BY <1>1 DEF Inv, TypeInv, TypeOK, BlockArrives, NextBlock
    <3>4. EpochAt(cursor) <= e
      <4>1. cursor \in Int /\ b.slot \in Int
        BY <3>3, BlockSlot, SlotAssumption
      <4>2. cursor <= b.slot
        BY <3>3, <4>1
      <4>3. EpochAt(cursor) <= EpochAt(b.slot)
        BY <1>4, <3>3, <4>2, EpochAtMonotone
      <4> QED BY <1>4, <4>3 DEF EpochAt
    <3>5. EpochAt(cursor) \in Int
      BY <3>3, EpochAssumption, SlotAssumption, EpochIsInt DEF EpochAt, Epoch
    <3>6. EpochAt(cursor) = e /\ e < currentEpoch
      BY <1>4, <2>2, <3>2, <3>4, <3>5
    <3>7. BlocksOf(e) # {}
      BY <3>1 DEF BlocksOf, InEpoch
    <3> QED BY <1>3, <1>5, <3>6, <3>7 DEF BehindInv, Rewound
  <2> QED BY <2>1, <2>2
<1>8. CASE blocks' = blocks \cup {b} /\ pc' = "freeze" /\ work' = [NoWork EXCEPT !.block = b]
  <2>1. work'.block = b
    BY <1>8 DEF NoWork
  <2>2. Settled' = blocks
    BY <1>2, <1>4, <1>8, <2>1, BlockSlot DEF Settled
  <2>3. FlagOf(Settled)' /\ CandidatesOf(row, Settled, Rewound)'
    BY <1>3, <1>5, <1>6, <1>7, <2>2 DEF FlagOf, CandidatesOf
  <2>4. BehindInv'
    BY <1>4, <1>6, <1>2 DEF BehindInv
  <2> QED BY <1>8, <2>3, <2>4 DEF CandidateInv
<1>9. CASE UNCHANGED <<blocks, pc, work>>
  <2>1. FlagOf(blocks)' /\ CandidatesOf(row, blocks, Rewound)'
    BY <1>3, <1>5, <1>6, <1>7, <1>9 DEF FlagOf, CandidatesOf
  <2>2. BehindInv'
    BY <1>4, <1>6, <1>2 DEF BehindInv
  <2> QED BY <1>3, <1>9, <2>1, <2>2 DEF CandidateInv
<1> QED BY <1>8, <1>9 DEF BlockArrives

(* Freezing stores eta_v as candidate of the epoch at its first stable     *)
(* block and never again.                                                  *)
LEMMA CandidateFreeze ==
  ASSUME LosesOnlyBlocks, CInv, FreezeCandidate
  PROVE  CandidateInv'
<1> DEFINE e == currentEpoch
           b == work.block
           T == InEpoch(Settled, e)
<1>1. LosesOnlyInserts /\ Inv /\ ~Fails("freeze")
  BY OnlyBlocksLost DEF CInv
<1>2. /\ pc = "freeze" /\ pc' = "evolve"
      /\ UNCHANGED <<blocks, etaV, currentEpoch, work, cursor, unrewound>>
      /\ IF ~candidateFroze /\ b.slot \in Stable
         THEN candidateFroze' = TRUE /\ row' = SetCandidateNonce(row, e, etaV)
         ELSE UNCHANGED <<candidateFroze, row>>
  BY <1>1 DEF FreezeCandidate, stream
<1>3. /\ b \in blocks /\ b \in Block /\ b \notin Settled
      /\ \A c \in Settled : c \in Block /\ c.slot < b.slot
      /\ e = EpochOf[b.slot] /\ e \in Epoch /\ e \in Int
      /\ etaV = ChainNonce(Settled)
      /\ row \in [Epoch -> StoredRow]
  BY <1>1, <1>2, BlockSlot, EpochIsInt DEF Inv, TypeInv, TypeOK, IInv, ProcessInv, Settled
<1>4. blocks = Settled \cup {b}
  BY <1>3 DEF Settled
<1>5. CandidatesOf(row, Settled, Rewound) /\ FlagOf(Settled) /\ BehindInv
  BY <1>2 DEF CInv, CandidateInv
<1>6. \A c \in Settled : EpochOf[c.slot] <= e /\ EpochOf[c.slot] \in Int
  BY <1>3, EpochMonotone, BlockSlot, EpochIsInt
<1>7. T \in SUBSET Block /\ IsFiniteSet(T) /\ \A c \in T : c.slot < b.slot
  <2>1. T \subseteq blocks
    BY DEF InEpoch, Settled
  <2> QED BY <1>1, <1>3, <2>1, FS_Subset DEF Inv, TypeInv, InEpoch
<1>8. InEpoch(blocks, e) = T \cup {b} /\ Through(blocks, e - 1) = Through(Settled, e - 1)
  BY <1>3, <1>4 DEF InEpoch, Through
<1> DEFINE n == ChainNonce(Through(Settled, e - 1))
<1>9. EvolveAll(n, T) = etaV
  <2>1. Settled = Through(Settled, e - 1) \cup T
    BY <1>3, <1>6 DEF InEpoch, Through
  <2>2. Through(Settled, e - 1) \in SUBSET Block
    BY <1>3 DEF Through
  <2>3. \A a \in Through(Settled, e - 1), c \in T : a.slot < c.slot
    BY <1>3, <1>6, EpochMonotone DEF Through, InEpoch
  <2>4. EvolveAll(n, T) = ChainNonce(Through(Settled, e - 1) \cup T)
    BY <1>7, <2>2, <2>3, EvolveAllLast
  <2> QED BY <1>3, <2>1, <2>4
<1>10. /\ FirstStable(T) # {} =>
            FirstStable(T \cup {b}) # {} /\ CandidateOf(n, T \cup {b}) = CandidateOf(n, T)
       /\ FirstStable(T) = {} /\ b.slot \in Stable =>
            FirstStable(T \cup {b}) # {} /\ CandidateOf(n, T \cup {b}) = EvolveAll(n, T)
       /\ FirstStable(T) = {} /\ b.slot \notin Stable => FirstStable(T \cup {b}) = {}
  <2> HIDE DEF T, n
  <2> QED BY <1>3, <1>7, CandidateLater
<1>11. \A f \in Epoch \ {e} : row'[f].candidate = row[f].candidate
  <2>1. \A f \in Epoch \ {e} : SetCandidateNonce(row, e, etaV)[f].candidate = row[f].candidate
    BY <1>3, SetOneCandidate
  <2> QED BY <1>2, <2>1
<1>12. \A f \in Epoch \ {e} : FirstStable(InEpoch(blocks, f)) # {} =>
          /\ InEpoch(blocks, f) = InEpoch(Settled, f)
          /\ Through(blocks, f - 1) = Through(Settled, f - 1)
  <2> SUFFICES ASSUME NEW f \in Epoch \ {e}, FirstStable(InEpoch(blocks, f)) # {}
               PROVE  /\ InEpoch(blocks, f) = InEpoch(Settled, f)
                      /\ Through(blocks, f - 1) = Through(Settled, f - 1)
    OBVIOUS
  <2>1. InEpoch(blocks, f) = InEpoch(Settled, f)
    BY <1>3, <1>4 DEF InEpoch
  <2>2. PICK c \in Settled : EpochOf[c.slot] = f
    BY <2>1 DEF FirstStable, InEpoch
  <2>3. f < e /\ f \in Int
    BY <1>3, <1>6, <2>2
  <2> QED BY <1>3, <1>4, <2>1, <2>3 DEF Through
<1>13. CASE e \in Rewound
  <2>1. candidateFroze <=> (FirstStable(T) # {})
    BY <1>5, <1>13 DEF FlagOf
  <2>2. FirstStable(T) # {} => row[e].candidate = CandidateOf(n, T)
    BY <1>5, <1>13 DEF CandidatesOf
  <2>3. candidateFroze' <=> (FirstStable(T \cup {b}) # {})
    BY <1>2, <1>10, <2>1
  <2>4. FirstStable(T \cup {b}) # {} => row'[e].candidate = CandidateOf(n, T \cup {b})
    <3>1. CASE FirstStable(T) # {}
      BY <1>2, <1>10, <2>1, <2>2, <3>1
    <3>2. CASE FirstStable(T) = {} /\ b.slot \in Stable
      <4>1. row'[e].candidate = etaV
        <5>1. SetCandidateNonce(row, e, etaV)[e].candidate = etaV
          BY <1>3, SetOneCandidate
        <5> QED BY <1>2, <2>1, <3>2, <5>1
      <4> QED BY <1>9, <1>10, <3>2, <4>1
    <3> QED BY <1>10, <3>1, <3>2
  <2>5. FlagOf(blocks)'
    BY <1>2, <1>8, <2>3 DEF FlagOf
  <2>6. CandidatesOf(row', blocks, Rewound)
    <3> SUFFICES ASSUME NEW f \in Rewound, FirstStable(InEpoch(blocks, f)) # {}
                 PROVE  row'[f].candidate
                          = CandidateOf(ChainNonce(Through(blocks, f - 1)), InEpoch(blocks, f))
      BY DEF CandidatesOf
    <3>1. CASE f = e
      BY <1>8, <2>4, <3>1
    <3>2. CASE f # e
      BY <1>5, <1>11, <1>12, <3>2 DEF CandidatesOf, Rewound
    <3> QED BY <3>1, <3>2
  <2>7. CandidatesOf(row, blocks, Rewound)'
    BY <1>2, <2>6 DEF CandidatesOf, Rewound
  <2> QED BY <1>2, <1>5, <2>5, <2>7 DEF CandidateInv, BehindInv, BlocksOf
<1>14. CASE e \notin Rewound
  <2>1. FlagOf(blocks)'
    BY <1>2, <1>14 DEF FlagOf, Rewound
  <2>2. CandidatesOf(row', blocks, Rewound)
    <3>1. \A f \in Rewound : FirstStable(InEpoch(blocks, f)) # {} =>
            /\ f \in Rewound
            /\ row'[f].candidate = row[f].candidate
            /\ InEpoch(blocks, f) = InEpoch(Settled, f)
            /\ Through(blocks, f - 1) = Through(Settled, f - 1)
      BY <1>11, <1>12, <1>14 DEF Rewound
    <3> QED BY <1>5, <3>1, CandidatesAlike
  <2>3. CandidatesOf(row, blocks, Rewound)'
    BY <1>2, <2>2 DEF CandidatesOf, Rewound
  <2> QED BY <1>2, <1>5, <2>1, <2>3 DEF CandidateInv, BehindInv, BlocksOf
<1> QED BY <1>13, <1>14

LEMMA CandidateEvolve ==
  ASSUME LosesOnlyBlocks, CInv, EvolveNonce
  PROVE  CandidateInv'
<1>1. LosesOnlyInserts /\ Inv
  BY OnlyBlocksLost DEF CInv
<1>2. /\ pc = "evolve" /\ pc' = "idle"
      /\ UNCHANGED <<blocks, currentEpoch, candidateFroze, cursor, unrewound>>
      /\ row' = UpsertEvolvingNonce(row, currentEpoch, etaV', blockCount')
  BY <1>1, NothingElseFails, StatementsSucceed DEF EvolveNonce, Finish, stream
<1>3. row \in [Epoch -> StoredRow] /\ currentEpoch \in Epoch
  BY <1>1 DEF Inv, TypeInv, TypeOK
<1>4. \A f \in Epoch : row'[f].candidate = row[f].candidate
  BY <1>2, <1>3, UpsertKeepsCandidate
<1>5. CandidatesOf(row, blocks, Rewound) /\ FlagOf(blocks) /\ BehindInv
  BY <1>2 DEF CInv, CandidateInv
<1>6. CandidatesOf(row, blocks, Rewound)' /\ FlagOf(blocks)' /\ BehindInv'
  BY <1>2, <1>4, <1>5 DEF CandidatesOf, FlagOf, BehindInv, Rewound, BlocksOf
<1> QED BY <1>2, <1>6 DEF CandidateInv

(* A rollback that deletes blocks leaves the candidates of the epochs      *)
(* before it; one that deletes none leaves an epoch to be entered again.   *)
LEMMA CandidateRollbackTo ==
  ASSUME LosesOnlyBlocks, CInv, Idle, NEW p \in Slot \cup {0}, RollbackTo(p),
         NEW d \in chain, d.slot = p
  PROVE  CandidateInv'
<1> DEFINE e == EpochAt(p)
<1>1. LosesOnlyInserts /\ Inv
  BY OnlyBlocksLost DEF CInv
<1>2. /\ cursor' = p /\ blocks' = Prefix(blocks, p)
      /\ UNCHANGED <<row, currentEpoch, candidateFroze>>
      /\ IF blocks' = blocks
         THEN UNCHANGED <<pc, work>>
         ELSE /\ pc' = "restore"
              /\ work' = [NoWork EXCEPT !.epoch = e, !.through = currentEpoch]
      /\ unrewound' = IF blocks' = blocks /\ e < currentEpoch
                      THEN unrewound \cup {e} ELSE unrewound
  BY <1>1, NothingElseFails, StatementsSucceed DEF RollbackTo, tracker
<1>3. d \in Block /\ d.slot \in Int /\ EpochOf[d.slot] = e /\ e \in Epoch /\ e \in Int
  <2>1. d \in Block
    BY <1>1 DEF Inv, TypeInv, TypeOK
  <2> QED BY <2>1, BlockSlot, EpochIsInt DEF EpochAt
<1>4. CandidatesOf(row, blocks, Rewound) /\ FlagOf(blocks)
  BY DEF Idle, CInv, CandidateInv
<1>5. Rewound' \subseteq Rewound
  BY <1>2 DEF Rewound
<1>6. CASE blocks' = blocks
  <2>1. CandidatesOf(row, blocks, Rewound)' /\ FlagOf(blocks)'
    BY <1>2, <1>4, <1>5, <1>6 DEF CandidatesOf, FlagOf
  <2>2. BehindInv'
    BY <1>2, <1>6 DEF BehindInv
  <2> QED BY <1>2, <1>6, <2>1, <2>2 DEF CandidateInv, Idle
<1>7. CASE blocks' # blocks
  <2>1. pc' = "restore" /\ work'.epoch = e /\ unrewound' = unrewound
    BY <1>2, <1>7 DEF NoWork
  <2>2. \A c \in blocks : /\ EpochOf[c.slot] < e => c.slot <= p
                          /\ EpochOf[c.slot] \in Int
    <3> SUFFICES ASSUME NEW c \in blocks
                 PROVE  /\ EpochOf[c.slot] < e => c.slot <= p
                        /\ EpochOf[c.slot] \in Int
      OBVIOUS
    <3>1. c \in Block
      BY <1>1, StoredBeforeCursor
    <3> QED BY <1>3, <3>1, EpochMonotone, BlockSlot, EpochIsInt
  <2>3. ASSUME NEW f \in Epoch, f < e
        PROVE  /\ InEpoch(blocks', f) = InEpoch(blocks, f)
               /\ Through(blocks', f - 1) = Through(blocks, f - 1)
    <3>1. f \in Int
      BY EpochIsInt
    <3> QED BY <1>2, <1>3, <2>2, <2>3, <3>1 DEF InEpoch, Through, Prefix
  <2>4. CandidatesOf(row, blocks', {f \in Rewound : f < e})
    BY <1>4, <2>3 DEF CandidatesOf, Rewound
  <2>5. CandidatesOf(row, blocks, {f \in Rewound : f < work.epoch})'
    BY <1>2, <2>1, <2>4 DEF CandidatesOf, Rewound
  <2>6. BehindInv' /\ EpochAt(cursor') = e
    BY <1>2, <2>1 DEF BehindInv
  <2> QED BY <2>1, <2>5, <2>6 DEF CandidateInv
<1> QED BY <1>6, <1>7

LEMMA CandidateRestoreEvolving ==
  ASSUME LosesOnlyBlocks, CInv, RestoreEvolving
  PROVE  CandidateInv'
<1> DEFINE e == work.epoch
<1>0. LosesOnlyInserts /\ Inv
  BY OnlyBlocksLost DEF CInv
<1>1. PICK prev \in GetEvolvingNonce(row, e - 1) :
        work' = [work EXCEPT !.eta = EvolveAll(Seed(prev), BlocksOf(e)),
                             !.candidate = CandidateOf(Seed(prev), BlocksOf(e))]
  BY <1>0, NothingElseFails DEF RestoreEvolving
<1>2. /\ pc = "restore" /\ pc' = "candidate"
      /\ row' = UpsertEvolvingNonce(row, e, work'.eta, Cardinality(BlocksOf(e)))
      /\ UNCHANGED <<blocks, currentEpoch, candidateFroze, cursor, unrewound>>
  BY <1>0, NothingElseFails DEF RestoreEvolving, tracker, stream
<1>3. /\ e \in Epoch /\ e \in Int
      /\ row \in [Epoch -> StoredRow] /\ blocks \in SUBSET Block
  BY <1>0, EpochIsInt DEF Inv, TypeInv, TypeOK
<1>4. work'.candidate = CandidateOf(Seed(prev), BlocksOf(e)) /\ work'.epoch = e
  BY <1>0, <1>1 DEF Inv, TypeInv, TypeOK
<1>5. /\ RowsOf(row, blocks, {f \in Epoch : f < e \/ f > work.through})
      /\ \A c \in blocks : EpochOf[c.slot] <= e
      /\ \A f \in Epoch : f < e => BlocksOf(f) # {}
  BY <1>0, <1>2 DEF Inv, IInv, RewindInv, Rewinding, Lo
<1>6. prev = IF e - 1 \in Epoch THEN row[e - 1] ELSE NoRow
  BY <1>0, <1>1, NothingElseFails, ReadOf
<1>7. RowsOf(row, blocks, {f \in Epoch : f < e})
  BY <1>5 DEF RowsOf
<1>8. Seed(prev) = ChainNonce(Through(blocks, e - 1))
  BY <1>3, <1>5, <1>6, <1>7, RestoredNonce
<1>9. \A f \in Epoch : row'[f].candidate = row[f].candidate
  BY <1>2, <1>3, UpsertKeepsCandidate
<1>10. CandidatesOf(row, blocks, {f \in Rewound : f < e}) /\ EpochAt(cursor) = e
  BY <1>2 DEF CInv, CandidateInv
<1>11. CandidatesOf(row', blocks, {f \in Rewound : f < e})
  BY <1>9, <1>10 DEF CandidatesOf, Rewound
<1>12. /\ CandidatesOf(row, blocks, {f \in Rewound : f < work.epoch})'
       /\ EpochAt(cursor)' = work'.epoch
  BY <1>2, <1>4, <1>10, <1>11 DEF CandidatesOf, Rewound, EpochAt
<1>13. work'.candidate = CandidateOf(ChainNonce(Through(blocks', work'.epoch - 1)),
                                     BlocksOf(work.epoch)')
  BY <1>2, <1>4, <1>8 DEF BlocksOf
<1>14. BehindInv'
  BY <1>2 DEF BehindInv
<1> QED BY <1>2, <1>12, <1>13, <1>14 DEF CandidateInv

(* A restore stores the candidate of its epoch, the last one with blocks,  *)
(* or deletes it and unfreezes.                                            *)
LEMMA CandidateRestoreCandidate ==
  ASSUME LosesOnlyBlocks, CInv, RestoreCandidate
  PROVE  CandidateInv'
<1> DEFINE e == work.epoch
           n == ChainNonce(Through(blocks, e - 1))
<1>0. LosesOnlyInserts /\ Inv
  BY OnlyBlocksLost DEF CInv
<1>1. /\ pc = "candidate" /\ pc' \in {"idle", "resetEvolving"}
      /\ row' = IF work.candidate = NoNonce
                THEN DeleteCandidateNonce(row, e)
                ELSE SetCandidateNonce(row, e, work.candidate)
      /\ currentEpoch' = e /\ candidateFroze' = (work.candidate # NoNonce)
      /\ UNCHANGED <<blocks, cursor, unrewound>>
  BY <1>0, NothingElseFails DEF RestoreCandidate, Finish, stream
<1>2. /\ e \in Epoch /\ e \in Int
      /\ row \in [Epoch -> StoredRow] /\ blocks \in SUBSET Block
  BY <1>0, EpochIsInt DEF Inv, TypeInv, TypeOK
<1>3. \A c \in blocks : EpochOf[c.slot] <= e /\ EpochOf[c.slot] \in Int
  BY <1>0, <1>1, <1>2, BlockSlot, EpochIsInt DEF Inv, IInv, RewindInv, Rewinding
<1>4. /\ CandidatesOf(row, blocks, {f \in Rewound : f < e})
      /\ EpochAt(cursor) = e
      /\ work.candidate = CandidateOf(n, InEpoch(blocks, e))
  BY <1>1 DEF CInv, CandidateInv, BlocksOf
<1>5. (work.candidate # NoNonce) <=> (FirstStable(InEpoch(blocks, e)) # {})
  <2>1. \A S \in SUBSET Block : EvolveAll(n, S) # NoNonce
    BY <1>2, ChainNonceType, EvolveAllType, AbsentAssumption DEF Through
  <2>2. \A c : Before(InEpoch(blocks, e), c) \in SUBSET Block
    BY <1>2 DEF Before, InEpoch
  <2> QED BY <1>4, <2>1, <2>2 DEF CandidateOf
<1> DEFINE m == work.candidate
<1>6. /\ \A f \in Epoch \ {e} : /\ SetCandidateNonce(row, e, m)[f].candidate = row[f].candidate
                                 /\ DeleteCandidateNonce(row, e)[f].candidate = row[f].candidate
      /\ SetCandidateNonce(row, e, m)[e].candidate = m
  BY <1>2, SetOneCandidate, DeleteOneCandidate
<1>13. \A f \in Epoch \ {e} : row'[f].candidate = row[f].candidate
  BY <1>1, <1>6
<1>7. FirstStable(InEpoch(blocks, e)) # {} =>
        row'[e].candidate = CandidateOf(n, InEpoch(blocks, e))
  BY <1>1, <1>4, <1>5, <1>6
<1>8. \A f \in Epoch : f > e => InEpoch(blocks, f) = {}
  BY <1>2, <1>3, EpochIsInt DEF InEpoch
<1>9. CandidatesOf(row', blocks, Rewound)
  <2> SUFFICES ASSUME NEW f \in Rewound, FirstStable(InEpoch(blocks, f)) # {}
               PROVE  row'[f].candidate
                        = CandidateOf(ChainNonce(Through(blocks, f - 1)), InEpoch(blocks, f))
    BY DEF CandidatesOf
  <2>1. f \in Epoch /\ f \in Int
    BY EpochIsInt DEF Rewound
  <2>2. CASE f = e
    BY <1>7, <2>2
  <2>3. CASE f > e
    BY <1>8, <2>1, <2>3 DEF FirstStable
  <2>4. CASE f < e
    BY <1>4, <1>13, <2>1, <2>4 DEF CandidatesOf
  <2> QED BY <1>2, <2>1, <2>2, <2>3, <2>4
<1>10. CandidatesOf(row, blocks, Rewound)' /\ FlagOf(blocks)'
  BY <1>1, <1>5, <1>9 DEF CandidatesOf, FlagOf, Rewound
<1>11. EpochAt(cursor') = currentEpoch' /\ currentEpoch' \in Int
  BY <1>1, <1>2, <1>4
<1>12. BehindInv'
  BY <1>11 DEF BehindInv
<1> QED BY <1>1, <1>10, <1>12 DEF CandidateInv

(* The epochs whose rows a rewind resets have no blocks.                   *)
LEMMA CandidateReset ==
  ASSUME LosesOnlyBlocks, CInv, ResetEvolving \/ ResetCandidate
  PROVE  CandidateInv'
<1> DEFINE e == work.epoch
<1>0. LosesOnlyInserts /\ Inv
  BY OnlyBlocksLost DEF CInv
<1>1. /\ pc \in {"resetEvolving", "resetCandidate"}
      /\ pc' \in {"idle", "resetEvolving", "resetCandidate"}
      /\ row' \in {UpsertEvolvingNonce(row, e, etaV, 0), DeleteCandidateNonce(row, e)}
      /\ UNCHANGED <<blocks, currentEpoch, candidateFroze, cursor, unrewound>>
  BY <1>0, NothingElseFails DEF ResetEvolving, ResetCandidate, Finish, tracker, stream
<1>2. e \in Epoch /\ row \in [Epoch -> StoredRow]
  BY <1>0 DEF Inv, TypeInv, TypeOK
<1>3. InEpoch(blocks, e) = {}
  BY <1>0, <1>1 DEF Inv, IInv, RewindInv, Rewinding, BlocksOf
<1>4. \A f \in Epoch \ {e} : row'[f].candidate = row[f].candidate
  BY <1>1, <1>2, UpsertKeepsCandidate, DeleteOneCandidate
<1>5. CandidatesOf(row, blocks, Rewound) /\ FlagOf(blocks) /\ BehindInv
  BY <1>1 DEF CInv, CandidateInv
<1>6. \A f \in Rewound : FirstStable(InEpoch(blocks, f)) # {} =>
        row'[f].candidate = row[f].candidate
  BY <1>3, <1>4 DEF Rewound, FirstStable
<1>7. CandidatesOf(row', blocks, Rewound)
  BY <1>5, <1>6 DEF CandidatesOf
<1>8. CandidatesOf(row, blocks, Rewound)' /\ FlagOf(blocks)' /\ BehindInv'
  BY <1>1, <1>5, <1>7 DEF CandidatesOf, FlagOf, BehindInv, Rewound, BlocksOf
<1> QED BY <1>1, <1>8 DEF CandidateInv

LEMMA CandidateCacheFinalNonce ==
  ASSUME LosesOnlyBlocks, CInv, NEW e \in FinalEpochs, CacheFinalNonce(e)
  PROVE  CandidateInv'
<1>0. Inv /\ CandidateInv
  BY DEF CInv
<1>1. /\ row' = SetFinalNonce(row, e, FinalNonce)
      /\ UNCHANGED <<blocks, currentEpoch, candidateFroze, pc, work, cursor, unrewound>>
  BY DEF CacheFinalNonce, tracker, stream
<1>2. e \in Epoch /\ row \in [Epoch -> StoredRow]
  BY <1>0, BoundAssumption DEF Inv, TypeInv
<1>3. \A f \in Epoch : row'[f].candidate = row[f].candidate
  BY <1>1, <1>2, FinalKeepsCandidate
<1>4. \A S : \A E \in SUBSET Epoch : CandidatesOf(row, S, E) => CandidatesOf(row', S, E)
  BY <1>3 DEF CandidatesOf
<1>5. /\ Rewound' = Rewound /\ Settled' = Settled
      /\ Rewound \in SUBSET Epoch /\ {f \in Rewound : f < work.epoch} \in SUBSET Epoch
      /\ BlocksOf(work.epoch)' = BlocksOf(work.epoch)
  BY <1>1 DEF Rewound, Settled, BlocksOf
<1>6. CandidatesOf(row, blocks, Rewound) => CandidatesOf(row, blocks, Rewound)'
  BY <1>1, <1>4, <1>5 DEF CandidatesOf
<1>7. CandidatesOf(row, Settled, Rewound) => CandidatesOf(row, Settled, Rewound)'
  BY <1>1, <1>4, <1>5 DEF CandidatesOf
<1>8. CandidatesOf(row, blocks, {f \in Rewound : f < work.epoch})
        => CandidatesOf(row, blocks, {f \in Rewound : f < work.epoch})'
  BY <1>1, <1>4, <1>5 DEF CandidatesOf
<1>9. /\ FlagOf(blocks)' = FlagOf(blocks) /\ FlagOf(Settled)' = FlagOf(Settled)
      /\ BehindInv' = BehindInv
  BY <1>1, <1>5 DEF FlagOf, BehindInv, BlocksOf
<1> QED BY <1>0, <1>1, <1>5, <1>6, <1>7, <1>8, <1>9 DEF CandidateInv

LEMMA CandidateStep == LosesOnlyBlocks /\ CInv /\ [Next]_vars => CInv'
<1> SUFFICES ASSUME LosesOnlyBlocks, CInv, [Next]_vars PROVE CInv'
  OBVIOUS
<1>0. Inv'
  BY OnlyBlocksLost, InvStep DEF CInv
<1> SUFFICES CandidateInv'
  BY <1>0 DEF CInv
<1>1. CASE UNCHANGED vars
  BY <1>1 DEF CInv, vars, db, tracker, stream, CandidateInv, CandidatesOf, FlagOf, Rewound,
              BehindInv, BlocksOf, Settled
<1>2. CASE \E b \in Block : BlockArrives(b)
  BY <1>2, CandidateBlockArrives
<1>3. CASE FreezeCandidate
  BY <1>3, CandidateFreeze
<1>4. CASE EvolveNonce
  BY <1>4, CandidateEvolve
<1>5. CASE \E p \in Slot : RollbackArrives(p)
  BY <1>5, CandidateRollbackTo DEF RollbackArrives
<1>6. CASE GoLive
  <2>1. ResumeSlot \in Slot \cup {0}
    BY ResumeSlotType DEF CInv, Inv
  <2>2. PICK d \in blocks \cap chain : d.slot = ResumeSlot
    BY <1>6 DEF GoLive, Intersects
  <2> QED BY <1>6, <2>1, <2>2, CandidateRollbackTo DEF GoLive
<1>7. CASE RestoreEvolving
  BY <1>7, CandidateRestoreEvolving
<1>8. CASE RestoreCandidate
  BY <1>8, CandidateRestoreCandidate
<1>9. CASE ResetEvolving \/ ResetCandidate
  BY <1>9, CandidateReset
<1>10. CASE \E e \in FinalEpochs : CacheFinalNonce(e)
  BY <1>10, CandidateCacheFinalNonce
<1>11. CASE Crash
  BY <1>11, OnlyBlocksLost, NothingElseFails
<1>12. CASE Restart \/ ValidateDBIntegrity
  BY <1>12 DEF Restart, ValidateDBIntegrity, CInv, Inv, IInv, StreamInv
<1> QED BY <1>1, <1>2, <1>3, <1>4, <1>5, <1>6, <1>7, <1>8, <1>9, <1>10, <1>11, <1>12
       DEF Next

(* As long as the process keeps running and no store call but InsertBlock  *)
(* fails, the candidate of every epoch past its stability slot is eta_v    *)
(* just before the first stable block that is stored: freezing, unfreezing *)
(* by a rollback over any number of epochs and freezing again keep it      *)
(* right, in every epoch the node has not returned to without a deletion.  *)
THEOREM CandidatesCorrect ==
  ASSUME LosesOnlyBlocks
  PROVE  Spec => []CandidatesFollowStore
<1>1. CInv /\ [Next]_vars => CInv'
  BY CandidateStep
<1>2. Init => CInv
  BY CandidateInit
<1>3. CInv => CandidatesFollowStore
  BY DEF CInv, CandidateInv, CandidatesFollowStore, CandidateRight, CandidatesOf, Idle, Rewound,
         BlocksOf, UpTo
<1> QED BY <1>1, <1>2, <1>3, PTL DEF Spec

----------------------------------------------------------------------------
(* Seen through eta_v alone, every step of the tracker hashes one more     *)
(* block, returns to an earlier block or changes nothing.                  *)

(* While a rollback is being handled, eta_v still stands for the chain the *)
(* stored blocks were cut from.                                            *)
RewoundInv ==
  pc \in {"restore", "candidate"} =>
    /\ Hashed(etaV) \in SUBSET Block
    /\ blocks = Prefix(Hashed(etaV), cursor)

LEMMA RewoundInit == Init => RewoundInv
BY DEF Init, RewoundInv

LEMMA RewoundRollback ==
  ASSUME Inv, Idle, NEW p, RollbackTo(p)
  PROVE  RewoundInv' /\ UNCHANGED etaV
<1>1. etaV = ChainNonce(blocks) /\ blocks \in SUBSET Block
  BY DEF Inv, IInv, IdleInv, TypeInv, TypeOK
<1>2. Hashed(etaV) = blocks
  BY <1>1, ChainNonceLinks
<1>3. UNCHANGED etaV /\ cursor' = p
  BY DEF RollbackTo, tracker
<1>4. CASE pc' = pc
  BY <1>3, <1>4 DEF RewoundInv, Idle
<1>5. CASE blocks' = Prefix(blocks, p)
  BY <1>1, <1>2, <1>3, <1>5 DEF RewoundInv
<1> QED BY <1>3, <1>4, <1>5 DEF RollbackTo

LEMMA RewoundStep ==
  ASSUME LosesOnlyInserts, Inv, RewoundInv, [Next]_vars
  PROVE  RewoundInv'
<1>1. CASE UNCHANGED vars
  BY <1>1 DEF vars, db, tracker, stream, RewoundInv
<1>2. CASE \E b \in Block : BlockArrives(b)
  BY <1>2 DEF BlockArrives, Idle, RewoundInv
<1>3. CASE FreezeCandidate \/ EvolveNonce \/ ResetEvolving \/ ResetCandidate
  BY <1>3, NothingElseFails
     DEF FreezeCandidate, EvolveNonce, ResetEvolving, ResetCandidate, Finish, RewoundInv
<1>4. CASE \E p \in Slot : RollbackArrives(p)
  BY <1>4, RewoundRollback DEF RollbackArrives
<1>5. CASE GoLive
  BY <1>5, RewoundRollback DEF GoLive
<1>6. CASE RestoreEvolving
  BY <1>6, NothingElseFails DEF RestoreEvolving, RewoundInv, tracker, stream
<1>7. CASE RestoreCandidate
  BY <1>7, NothingElseFails DEF RestoreCandidate, Finish, RewoundInv
<1>8. CASE \E e \in FinalEpochs : CacheFinalNonce(e)
  BY <1>8 DEF CacheFinalNonce, RewoundInv, tracker, stream
<1>9. CASE Crash
  BY <1>9, NothingElseFails
<1>10. CASE Restart \/ ValidateDBIntegrity
  BY <1>10 DEF Restart, ValidateDBIntegrity, Inv, IInv, StreamInv
<1> QED BY <1>1, <1>2, <1>3, <1>4, <1>5, <1>6, <1>7, <1>8, <1>9, <1>10 DEF Next

----------------------------------------------------------------------------
(* The steps that change eta_v.                                            *)

(* Evolving the block that arrived extends the chain by its last block.    *)
LEMMA EvolveExtends ==
  ASSUME Inv, EvolveNonce
  PROVE  Abstract!Extend
<1> DEFINE b == work.block
<1>1. /\ b \in Block /\ etaV = ChainNonce(Settled) /\ Settled \in SUBSET Block
      /\ \A c \in Settled : c.slot < b.slot
      /\ etaV' = Evolve(etaV, b)
  BY DEF EvolveNonce, Inv, TypeInv, TypeOK, IInv, ProcessInv, Settled
<1>2. Hashed(etaV) = Settled
  BY <1>1, ChainNonceLinks
<1>3. Settled \cup {b} \in SUBSET Block /\ b \notin Settled
  BY <1>1 DEF Settled
<1>4. etaV' = ChainNonce(Settled \cup {b})
  BY <1>1, <1>3, EvolveLast
<1>5. Hashed(etaV') = Settled \cup {b}
  BY <1>3, <1>4, ChainNonceLinks
<1>6. Hashed(etaV)' = Hashed(etaV) \cup {b}
  BY <1>2, <1>5
<1> QED BY <1>1, <1>2, <1>6
     DEF Abstract!Extend, Abstract!Block, Abstract!Evolve, Abstract!Hashed,
         Block, Evolve, Hashed

(* Restoring an epoch truncates the chain to the point of the rollback.    *)
LEMMA RestoreTruncates ==
  ASSUME LosesOnlyInserts, Inv, RewoundInv, RestoreCandidate
  PROVE  Abstract!Truncate
<1>1. /\ etaV' = ChainNonce(blocks) /\ blocks \in SUBSET Block
      /\ blocks = Prefix(Hashed(etaV), cursor) /\ cursor \in Slot \cup {0}
  BY NothingElseFails
     DEF RestoreCandidate, RewoundInv, Inv, IInv, RewindInv, Rewinding, TypeInv, TypeOK
<1>2. Hashed(etaV)' = Prefix(Hashed(etaV), cursor)
  <2>1. Hashed(etaV') = blocks
    BY <1>1, ChainNonceLinks
  <2> QED BY <1>1, <2>1
<1>3. etaV' = ChainNonce(Prefix(Hashed(etaV), cursor))
  BY <1>1
<1> QED BY <1>1, <1>2, <1>3
     DEF Abstract!Truncate, Abstract!Prefix, Prefix, Abstract!ChainNonce, ChainNonce,
         Abstract!EvolveAll, EvolveAll, Abstract!GenesisNonce, GenesisNonce,
         Abstract!Hashed, Hashed, Abstract!Before, Before

(* Every other step leaves eta_v alone.                                    *)
LEMMA StepMaps ==
  ASSUME LosesOnlyInserts, Inv, RewoundInv, [Next]_vars
  PROVE  [Abstract!Next]_<<Hashed(etaV), etaV>>
<1> SUFFICES ASSUME etaV' # etaV PROVE Abstract!Next
  OBVIOUS
<1>1. CASE UNCHANGED vars
  BY <1>1 DEF vars, tracker
<1>2. ASSUME NEW b \in Block, BlockArrives(b) PROVE FALSE
  <2>1. etaV' = ChainNonce(blocks)
    BY <1>2, EnterNextEpoch
  <2>2. etaV = ChainNonce(blocks)
    BY <1>2 DEF BlockArrives, Inv, IInv, IdleInv
  <2> QED BY <2>1, <2>2
<1>3. CASE FreezeCandidate \/ RestoreEvolving \/ ResetEvolving \/ ResetCandidate
  BY <1>3, NothingElseFails
     DEF FreezeCandidate, RestoreEvolving, ResetEvolving, ResetCandidate, tracker
<1>4. CASE EvolveNonce
  BY <1>4, EvolveExtends DEF Abstract!Next
<1>5. CASE RestoreCandidate
  BY <1>5, RestoreTruncates DEF Abstract!Next
<1>6. CASE \E p \in Slot : RollbackArrives(p)
  BY <1>6, RewoundRollback DEF RollbackArrives
<1>7. CASE GoLive
  BY <1>7, RewoundRollback DEF GoLive
<1>8. CASE \E e \in FinalEpochs : CacheFinalNonce(e)
  BY <1>8 DEF CacheFinalNonce, tracker
<1>9. CASE Crash
  BY <1>9, NothingElseFails
<1>10. CASE Restart \/ ValidateDBIntegrity
  BY <1>10 DEF Restart, ValidateDBIntegrity, Inv, IInv, StreamInv
<1> QED BY <1>1, <1>2, <1>3, <1>4, <1>5, <1>6, <1>7, <1>8, <1>9, <1>10 DEF Next

LEMMA InitMaps == Init => Abstract!Init
BY DEF Init, Abstract!Init, Hashed, GenesisNonce, Abstract!GenesisNonce

(* While the process keeps running and loses only inserts and candidates,  *)
(* the tracker is the rolling nonce of one chain: its database, its locks  *)
(* and the steps of a rewind cannot be seen in eta_v.                      *)
THEOREM TrackerImplementsRollingNonce ==
  ASSUME LosesOnlyInserts
  PROVE  Spec => AbstractSpec
<1>1. Init => Inv /\ RewoundInv
  BY InvInit, RewoundInit
<1>2. Inv /\ RewoundInv /\ [Next]_vars => Inv' /\ RewoundInv'
  BY InvStep, RewoundStep
<1>3. Init => Abstract!Init
  BY InitMaps
<1>4. Inv /\ RewoundInv /\ [Next]_vars => [Abstract!Next]_<<Hashed(etaV), etaV>>
  BY StepMaps
<1> QED BY <1>1, <1>2, <1>3, <1>4, PTL DEF Spec, AbstractSpec, Abstract!Spec

-----------------------------------------------------------------------------
(* The process stops and is started again at any point of ProcessBlock and *)
(* of the start-up check, any number of times: memory and rows follow the  *)
(* blocks table between two events, no block is hashed twice, and the      *)
(* check repairs what the stop left behind.                                *)

(* Only the candidate may be lost, and no rewind is cut short.             *)
OnlyStops == Faults \subseteq {"freeze", "crash"}

----------------------------------------------------------------------------
(* The inductive invariant.                                                *)

(* The rows agree with the table, or lag behind by its last block, which   *)
(* InsertBlock has stored and UpsertEvolvingNonce has not yet counted.     *)
Exact == RowsOf(row, blocks, Epoch)

Lagging ==
  \E b \in blocks : /\ \A c \in blocks \ {b} : c.slot < b.slot
                    /\ RowsOf(row, blocks \ {b}, Epoch)

(* Every block the stream has passed is stored: as no insert fails the     *)
(* table is the node's chain, and only after a restart is there something  *)
(* past the cursor, to be delivered again.                                 *)
StopChainInv ==
  /\ phase # "noIntersection"
  /\ blocks = chain
  /\ OnePerSlot(blocks)
  /\ \A b \in blocks : \A e \in Epoch : e < EpochOf[b.slot] => BlocksOf(e) # {}
  /\ \A b \in blocks : EpochOf[b.slot] <= clock
  /\ phase = "live" => \A b \in blocks : b.slot <= cursor
  /\ blocks = {} => ~Rewinding /\ row = [e \in Epoch |-> NoRow]

EnteredInv == pc \notin {"down", "validate"} => EpochInv

(* What NewNonceTracker, EnterEpoch and RewindToSlot leave: eta_v is right *)
(* in every epoch the table has reached.                                   *)
RightWhenCurrent ==
  /\ Current => etaV = ChainNonce(UpTo(currentEpoch))
  /\ blocks = {} => etaV = GenesisNonce
  /\ blockCount = row[currentEpoch].count

(* And it is right whenever a new block may arrive; the exception is a     *)
(* table with a single block, whose epoch the next block belongs to.       *)
ReadyInv ==
  Idle => /\ Exact
          /\ RightWhenCurrent
          /\ (\A b \in blocks : b.slot <= cursor) =>
               (etaV = ChainNonce(blocks) \/ (Cardinality(blocks) = 1 /\ ~Current))

StopStoredInv == pc \in {"freeze", "evolve"} => work.block.slot <= cursor

ReachedInv ==
  pc \in {"resetEvolving", "resetCandidate"} =>
    \A b \in blocks : EpochOf[b.slot] <= currentEpoch

DownInv ==
  /\ pc = "down" => Exact \/ Lagging
  /\ pc = "validate" => /\ currentEpoch = clock
                        /\ (Exact /\ RightWhenCurrent) \/ Lagging

(* No link of the nonce n hashes a block on top of itself.                 *)
Clean(n) == \A l \in n.links : l[1] \notin l[2]

CleanInv ==
  /\ Clean(etaV)
  /\ Clean(work.eta)
  /\ work.candidate # NoNonce => Clean(work.candidate)
  /\ \A e \in Epoch : row[e].evolving # NoNonce => Clean(row[e].evolving)

StopInv ==
  /\ TypeInv
  /\ StopChainInv
  /\ EnteredInv
  /\ ReadyInv
  /\ ProcessInv
  /\ StopStoredInv
  /\ RewindInv
  /\ ReachedInv
  /\ DownInv
  /\ CleanInv

LEMMA StopsOnly ==
  ASSUME OnlyStops
  PROVE  /\ RowsWritten /\ ~RewindFails
         /\ ~Fails("insert") /\ ~Fails("earlyFinal") /\ ~Fails("node") /\ ~Fails("read")
         /\ ~Fails("crashInRewind")
BY DEF OnlyStops, RowsWritten, RewindFails, Fails

----------------------------------------------------------------------------
(* Nonces without repetition.                                              *)

(* A block that is not hashed yet, or a set of them, may be hashed.        *)
LEMMA EvolveClean ==
  ASSUME NEW n \in Nonce, Clean(n), NEW b \in Block, b \notin Hashed(n)
  PROVE  Clean(Evolve(n, b))
<1>1. Evolve(n, b).links = n.links \cup {<<b, Hashed(n)>>}
  BY DEF Evolve, Nonce
<1> QED BY <1>1 DEF Clean

LEMMA EvolveAllClean ==
  ASSUME NEW n \in Nonce, Clean(n), NEW T \in SUBSET Block, Hashed(n) \cap T = {}
  PROVE  Clean(EvolveAll(n, T))
<1> DEFINE L == {<<b, Hashed(n) \cup Before(T, b)>> : b \in T}
<1>1. EvolveAll(n, T).links = n.links \cup L
  BY DEF EvolveAll, Nonce
<1>2. ASSUME NEW l \in L PROVE l[1] \notin l[2]
  <2>1. PICK b \in T : l = <<b, Hashed(n) \cup Before(T, b)>>
    BY <1>2
  <2>2. b \notin Hashed(n) /\ b \notin Before(T, b)
    BY <2>1, BlockSlot DEF Before
  <2> QED BY <2>1, <2>2
<1> QED BY <1>1, <1>2 DEF Clean

LEMMA SeedsClean == Clean(GenesisNonce) /\ Clean(FinalNonce)
BY DEF Clean, GenesisNonce, FinalNonce

LEMMA ChainClean ==
  ASSUME NEW T \in SUBSET Block
  PROVE  Clean(ChainNonce(T))
<1>1. Hashed(GenesisNonce) = {}
  BY DEF Hashed, GenesisNonce
<1> QED BY <1>1, SeedsClean, GenesisType, EvolveAllClean DEF ChainNonce

(* A candidate hashes blocks of its epoch on top of the earlier ones.      *)
LEMMA CandidateClean ==
  ASSUME NEW S \in SUBSET Block, NEW e \in Epoch,
         CandidateOf(ChainNonce(Through(S, e - 1)), InEpoch(S, e)) # NoNonce
  PROVE  Clean(CandidateOf(ChainNonce(Through(S, e - 1)), InEpoch(S, e)))
<1> DEFINE A == Through(S, e - 1)
           T == InEpoch(S, e)
           B == Before(T, CHOOSE b \in FirstStable(T) : TRUE)
<1>1. CandidateOf(ChainNonce(A), T) = EvolveAll(ChainNonce(A), B)
  BY DEF CandidateOf
<1>2. A \in SUBSET Block /\ B \in SUBSET Block /\ B \subseteq T
  BY DEF Through, InEpoch, Before
<1>3. A \cap T = {}
  <2>1. e \in Int
    BY EpochIsInt
  <2> QED BY <2>1 DEF Through, InEpoch
<1>4. Hashed(ChainNonce(A)) = A /\ ChainNonce(A) \in Nonce /\ Clean(ChainNonce(A))
  BY <1>2, ChainNonceLinks, ChainNonceType, ChainClean
<1> HIDE DEF A, T, B
<1>5. Clean(EvolveAll(ChainNonce(A), B))
  BY <1>2, <1>3, <1>4, EvolveAllClean
<1> QED BY <1>1, <1>5 DEF A, T, B

(* The statements on epoch_nonces write clean nonces into clean rows.      *)
LEMMA RowsClean ==
  ASSUME NEW r \in [Epoch -> StoredRow], NEW e \in Epoch, NEW n \in Nonce, NEW c \in Nat, Clean(n),
         \A f \in Epoch : r[f].evolving # NoNonce => Clean(r[f].evolving),
         NEW q \in {UpsertEvolvingNonce(r, e, n, c), SetCandidateNonce(r, e, n),
                    DeleteCandidateNonce(r, e), SetFinalNonce(r, e, n)}
  PROVE  \A f \in Epoch : q[f].evolving # NoNonce => Clean(q[f].evolving)
<1> SUFFICES ASSUME NEW f \in Epoch PROVE q[f].evolving = r[f].evolving \/ q[f].evolving = n
  OBVIOUS
<1>1. r[e] \in Row /\ r[f] \in Row
  BY DEF StoredRow
<1>2. CASE q = UpsertEvolvingNonce(r, e, n, c)
  BY <1>1, <1>2 DEF UpsertEvolvingNonce, Row
<1>3. CASE q = SetCandidateNonce(r, e, n)
  BY <1>1, <1>3 DEF SetCandidateNonce, OrCreate, Row
<1>4. CASE q = DeleteCandidateNonce(r, e)
  BY <1>1, <1>4 DEF DeleteCandidateNonce, Row
<1>5. CASE q = SetFinalNonce(r, e, n)
  BY <1>1, <1>5 DEF SetFinalNonce, OrCreate, Row
<1> QED BY <1>2, <1>3, <1>4, <1>5

----------------------------------------------------------------------------
(* What is stored.                                                         *)

(* Two blocks are stored: the stream resumes behind the last one.          *)
LEMMA ResumesBehind ==
  ASSUME TypeInv, OnePerSlot(blocks), blocks # {}
  PROVE  /\ \E b \in blocks : b.slot = ResumeSlot
         /\ \/ \E a \in Block : blocks = {a}
            \/ \E a \in blocks : a.slot > ResumeSlot
<1> DEFINE L == LastBlocks(Overlap)
<1>0. blocks \in SUBSET Block /\ IsFiniteSet(blocks)
  BY DEF TypeInv, TypeOK
<1>1. PICK a \in blocks : IsLast(a, blocks)
  BY <1>0, LastExists
<1>2. a \in Block /\ a.slot \in Int /\ \A c \in blocks : c.slot \in Int /\ c.slot <= a.slot
  BY <1>0, <1>1, BlockSlot DEF IsLast
<1>3. L \in SUBSET Block /\ IsFiniteSet(L) /\ L \subseteq blocks
  BY <1>0, FS_Subset DEF LastBlocks
<1>4. a \in L
  <2>1. {c \in blocks : c.slot > a.slot} = {}
    BY <1>2
  <2> QED BY <2>1, FS_EmptySet, BoundAssumption DEF LastBlocks
<1> DEFINE r == CHOOSE d \in L : \A c \in L : d.slot <= c.slot
<1>5. ResumeSlot = r.slot
  BY DEF ResumeSlot
<1> HIDE DEF L
<1>6. r \in L /\ \A c \in L : r.slot <= c.slot
  BY <1>3, <1>4, FirstExists
<1> HIDE DEF r
<1>7. CASE blocks = {a}
  BY <1>2, <1>3, <1>5, <1>6, <1>7
<1>8. CASE blocks # {a}
  <2> DEFINE S == blocks \ {a}
  <2>1. S \in SUBSET Block /\ IsFiniteSet(S) /\ S # {}
    BY <1>0, <1>1, <1>8, FS_Subset
  <2>2. PICK c \in S : IsLast(c, S)
    BY <2>1, LastExists
  <2>3. c \in blocks /\ c.slot \in Int /\ c.slot < a.slot
    <3>1. c \in blocks /\ c # a
      BY <2>2
    <3>2. c.slot # a.slot
      BY <1>1, <3>1 DEF OnePerSlot
    <3> QED BY <1>2, <3>1, <3>2
  <2>4. {d \in blocks : d.slot > c.slot} = {a}
    BY <1>1, <1>2, <2>2, <2>3 DEF IsLast
  <2>5. c \in L
    <3>1. Cardinality({d \in blocks : d.slot > c.slot}) = 1
      BY <2>4, FS_Singleton
    <3>2. 1 < Overlap
      BY BoundAssumption
    <3> QED BY <2>3, <3>1, <3>2 DEF LastBlocks, L
  <2>6. r.slot \in Int /\ r.slot <= c.slot
    BY <1>2, <1>3, <1>6, <2>5
  <2> QED BY <1>1, <1>2, <1>3, <1>5, <1>6, <2>3, <2>6
<1> QED BY <1>7, <1>8

(* The blocks up to the cursor lie in epochs the tracker has entered.      *)
LEMMA PassedEpochs ==
  ASSUME TypeInv, EpochInv, \A b \in blocks : b.slot <= cursor
  PROVE  \A b \in blocks : EpochOf[b.slot] <= currentEpoch
<1> SUFFICES ASSUME NEW b \in blocks PROVE EpochOf[b.slot] <= currentEpoch
  OBVIOUS
<1>1. b.slot \in Slot /\ b.slot # 0 /\ EpochOf[b.slot] \in Int
  BY BlockSlot, EpochIsInt DEF TypeInv, TypeOK
<1>2. /\ cursor \in Slot \cup {0} /\ currentEpoch \in Int
      /\ EpochAt(cursor) \in Int
  BY SlotAssumption, EpochAssumption, EpochIsInt DEF TypeInv, TypeOK, EpochAt, Epoch
<1>3. EpochAt(b.slot) <= EpochAt(cursor) /\ EpochAt(b.slot) = EpochOf[b.slot]
  BY <1>1, <1>2, EpochAtMonotone DEF EpochAt
<1> QED BY <1>1, <1>2, <1>3 DEF EpochInv

(* A handler that leaves eta_v the nonce of the whole table leaves the     *)
(* tracker ready for the next event.                                       *)
LEMMA ReadyAfter ==
  ASSUME TypeInv', IdleInv', pc' = "idle", \A b \in blocks' : EpochOf[b.slot] <= currentEpoch'
  PROVE  ReadyInv'
<1>1. /\ etaV' = ChainNonce(blocks')
      /\ blockCount' = row'[currentEpoch'].count
      /\ RowsOf(row', blocks', Epoch)
  BY DEF IdleInv, Idle
<1>2. UpTo(currentEpoch)' = blocks'
  BY DEF UpTo, Through
<1>3. blocks' = {} => etaV' = GenesisNonce
  BY <1>1, ChainNonceEmpty
<1> QED BY <1>1, <1>2, <1>3 DEF ReadyInv, RightWhenCurrent, Exact

----------------------------------------------------------------------------
(* The steps.                                                              *)

LEMMA StopInit == Init => StopInv
<1> SUFFICES ASSUME Init PROVE StopInv
  OBVIOUS
<1>1. Inv /\ TypeInv
  BY InvInit DEF Inv
<1>2. pc = "idle" /\ blocks = {} /\ chain = {} /\ row = [e \in Epoch |-> NoRow] /\ phase = "sync"
  BY DEF Init
<1>3. ~Rewinding
  BY <1>2 DEF Rewinding
<1>4. StopChainInv
  BY <1>2, <1>3 DEF StopChainInv, OnePerSlot
<1>5. EpochInv /\ RowsOf(row, blocks, Epoch) /\ blockCount = row[currentEpoch].count
  BY <1>1, <1>2 DEF Inv, IInv, IdleInv, Idle
<1>6. etaV = GenesisNonce /\ etaV = ChainNonce(blocks) /\ ~Current
  BY <1>2, ChainNonceEmpty DEF Init, Current
<1>7. ReadyInv
  BY <1>5, <1>6 DEF ReadyInv, RightWhenCurrent, Exact
<1>8. CleanInv
  <2>1. \A e \in Epoch : row[e].evolving = NoNonce
    BY <1>2 DEF NoRow
  <2>2. work.eta = GenesisNonce /\ work.candidate = NoNonce
    BY DEF Init, NoWork
  <2> QED BY <1>6, <2>1, <2>2, SeedsClean DEF CleanInv
<1> QED BY <1>1, <1>2, <1>3, <1>4, <1>5, <1>7, <1>8
     DEF StopInv, EnteredInv, ProcessInv, StopStoredInv, RewindInv, ReachedInv, DownInv

(* A block the node delivers again finds its epoch's row, and eta_v is the *)
(* nonce of the table up to that epoch, as it was before the restart.      *)
LEMMA DeliveredAgain ==
  ASSUME OnlyStops, StopInv, NEW b \in Block, BlockArrives(b),
         NEW d \in blocks, d.slot > cursor
  PROVE  /\ b \in blocks
         /\ UNCHANGED <<blocks, chain, row, clock, phase, pc, work>>
         /\ cursor' = b.slot
         /\ currentEpoch' = EpochOf[b.slot]
         /\ etaV' = ChainNonce(UpTo(EpochOf[b.slot]))
         /\ blockCount' = row[EpochOf[b.slot]].count
<1> DEFINE e == EpochOf[b.slot]
<1>1. /\ blocks = chain /\ OnePerSlot(blocks) /\ Exact /\ RightWhenCurrent
      /\ \A c \in blocks : EpochOf[c.slot] <= clock
  BY DEF StopInv, StopChainInv, ReadyInv, BlockArrives
<1>2. b \in blocks
  BY <1>1 DEF BlockArrives, NextBlock
<1>3. e \in Epoch /\ clock \in Epoch
  BY BlockSlot DEF StopInv, TypeInv, TypeOK
<1>4. /\ cursor' = b.slot /\ clock' = clock /\ chain' = chain
      /\ UNCHANGED <<row, phase, blocks, pc, work>>
  <2>1. clock' = clock
    BY <1>1, <1>2, <1>3, EpochIsInt DEF BlockArrives
  <2>2. UNCHANGED <<blocks, pc, work>>
    BY <1>2 DEF BlockArrives
  <2>3. chain' = chain
    BY <1>1, <1>2 DEF BlockArrives
  <2> QED BY <2>1, <2>2, <2>3 DEF BlockArrives
<1>5. InEpoch(blocks, e) # {} /\ row[e].evolving = ChainNonce(UpTo(e)) /\ row[e].count > 0
  <2>1. InEpoch(blocks, e) # {}
    BY <1>2 DEF InEpoch
  <2>2. row[e].count = Cardinality(InEpoch(blocks, e)) /\ row[e].evolving = ChainNonce(UpTo(e))
    BY <1>1, <1>3, <2>1 DEF Exact, RowsOf, UpTo
  <2>3. IsFiniteSet(InEpoch(blocks, e))
    BY FS_Subset DEF InEpoch, StopInv, TypeInv
  <2>4. Cardinality(InEpoch(blocks, e)) \in Nat /\ Cardinality(InEpoch(blocks, e)) # 0
    BY <2>1, <2>3, FS_EmptySet, FS_CardinalityType
  <2> QED BY <2>1, <2>2, <2>4
<1>6. EnterEpoch(e)
  BY DEF BlockArrives
<1>7. CASE e = currentEpoch
  <2>1. Current
    BY <1>2, <1>3, <1>7, EpochIsInt DEF Current
  <2> QED BY <1>1, <1>2, <1>4, <1>6, <1>7, <2>1 DEF EnterEpoch, tracker, RightWhenCurrent
<1>8. CASE e # currentEpoch
  <2>1. PICK found \in GetEvolvingNonce(row, e) :
          /\ etaV' = IF found.count > 0 THEN found.evolving ELSE etaV
          /\ blockCount' = found.count
    BY <1>6, <1>8 DEF EnterEpoch
  <2>2. found = row[e]
    BY <1>3, <2>1, StopsOnly, ReadOf
  <2> QED BY <1>2, <1>4, <1>5, <1>6, <1>8, <2>1, <2>2 DEF EnterEpoch
<1> QED BY <1>7, <1>8

(* A new block lies behind everything stored, and meets an eta_v that is   *)
(* the nonce of the whole table.                                           *)
LEMMA NewBlock ==
  ASSUME OnlyStops, StopInv, NEW b \in Block, BlockArrives(b),
         \A c \in blocks : c.slot <= cursor
  PROVE  /\ \A c \in blocks : c \in Block /\ c.slot < b.slot /\ EpochOf[c.slot] <= EpochOf[b.slot]
         /\ currentEpoch' = EpochOf[b.slot]
         /\ etaV' = ChainNonce(blocks)
         /\ blockCount' = row[EpochOf[b.slot]].count
         /\ \A f \in Epoch : f < EpochOf[b.slot] => BlocksOf(f) # {}
<1> DEFINE e == EpochOf[b.slot]
<1>1. /\ OnePerSlot(blocks) /\ RightWhenCurrent
      /\ RowsOf(row, blocks, Epoch)
      /\ etaV = ChainNonce(blocks) \/ (Cardinality(blocks) = 1 /\ ~Current)
      /\ \A c \in blocks : \A f \in Epoch : f < EpochOf[c.slot] => BlocksOf(f) # {}
  BY DEF StopInv, StopChainInv, ReadyInv, Exact, BlockArrives
<1>2. b.slot > cursor /\ e \in Epoch /\ e \in Int /\ EpochMayBegin(e) /\ EnterEpoch(e)
  BY BlockSlot, EpochIsInt DEF BlockArrives, NextBlock
<1>3. \A c \in blocks : c \in Block /\ c.slot < b.slot /\ EpochOf[c.slot] <= e
  <2> SUFFICES ASSUME NEW c \in blocks
               PROVE  c \in Block /\ c.slot < b.slot /\ EpochOf[c.slot] <= e
    OBVIOUS
  <2>1. c \in Block /\ c.slot \in Int /\ b.slot \in Int /\ cursor \in Int
    BY BlockSlot, SlotAssumption DEF StopInv, TypeInv, TypeOK
  <2>2. c.slot < b.slot
    BY <1>2, <2>1
  <2> QED BY <2>1, <2>2, EpochMonotone
<1>4. \A f \in Epoch : f < e => BlocksOf(f) # {}
  <2> SUFFICES ASSUME NEW f \in Epoch, f < e PROVE BlocksOf(f) # {}
    OBVIOUS
  <2>1. e # 0 /\ Cardinality(BlocksOf(e - 1)) >= 2 /\ f \in Int
    BY <1>2, EpochIsInt DEF EpochMayBegin
  <2>2. BlocksOf(e - 1) # {}
    BY <2>1, FS_EmptySet
  <2>3. PICK c \in blocks : EpochOf[c.slot] = e - 1
    BY <2>2 DEF BlocksOf, InEpoch
  <2>4. CASE f = e - 1
    BY <2>2, <2>4
  <2>5. CASE f # e - 1
    <3>1. f < EpochOf[c.slot]
      BY <1>2, <2>1, <2>3, <2>5
    <3> QED BY <1>1, <3>1
  <2> QED BY <2>4, <2>5
<1>5. Through(blocks, e) = blocks
  BY <1>3 DEF Through
<1>6. /\ row[e].count = Cardinality(InEpoch(blocks, e))
      /\ InEpoch(blocks, e) # {} => row[e].evolving = ChainNonce(blocks)
      /\ row[e].count > 0 => InEpoch(blocks, e) # {}
  <2>1. /\ row[e].count = Cardinality(InEpoch(blocks, e))
        /\ InEpoch(blocks, e) # {} => row[e].evolving = ChainNonce(blocks)
    BY <1>1, <1>2, <1>5 DEF RowsOf
  <2> QED BY <2>1, FS_EmptySet
<1>7. etaV = ChainNonce(blocks) \/ (e # currentEpoch /\ row[e].count > 0)
  <2> SUFFICES ASSUME Cardinality(blocks) = 1, ~Current
               PROVE  e # currentEpoch /\ row[e].count > 0
    BY <1>1
  <2>1. PICK a : blocks = {a}
    BY FS_Singleton DEF StopInv, TypeInv
  <2>2. a \in Block /\ EpochOf[a.slot] \in Epoch /\ EpochOf[a.slot] \in Int
    BY <1>3, <2>1, BlockSlot, EpochIsInt
  <2>3. 0 \in Epoch
    BY EpochAssumption DEF Epoch
  <2>4. EpochOf[a.slot] = 0
    <3>1. SUFFICES ASSUME 0 < EpochOf[a.slot] PROVE FALSE
      BY <2>2, EpochIsInt
    <3>2. BlocksOf(0) # {}
      BY <1>1, <2>1, <2>3, <3>1
    <3> QED BY <2>1, <3>1, <3>2 DEF BlocksOf, InEpoch
  <2>5. e = 0
    <3>1. SUFFICES ASSUME Cardinality(BlocksOf(e - 1)) >= 2 PROVE FALSE
      BY <1>2 DEF EpochMayBegin
    <3>2. BlocksOf(e - 1) \subseteq blocks
      BY DEF BlocksOf, InEpoch
    <3>3. Cardinality(BlocksOf(e - 1)) <= Cardinality(blocks) /\ Cardinality(BlocksOf(e - 1)) \in Nat
      BY <3>2, FS_Subset, FS_CardinalityType DEF StopInv, TypeInv
    <3> QED BY <3>1, <3>3
  <2>6. currentEpoch # 0
    <3>1. currentEpoch \in Int /\ ~(EpochOf[a.slot] >= currentEpoch)
      BY <2>1, EpochIsInt DEF Current, StopInv, TypeInv, TypeOK
    <3> QED BY <2>4, <3>1
  <2>7. InEpoch(blocks, e) = {a}
    BY <2>1, <2>4, <2>5 DEF InEpoch
  <2> QED BY <1>6, <2>5, <2>6, <2>7, FS_Singleton
<1>8. CASE e = currentEpoch
  <2>1. etaV' = etaV /\ currentEpoch' = currentEpoch /\ blockCount' = blockCount
    BY <1>2, <1>8 DEF EnterEpoch, tracker
  <2>2. etaV = ChainNonce(blocks)
    BY <1>7, <1>8
  <2>3. blockCount = row[currentEpoch].count
    BY <1>1 DEF RightWhenCurrent
  <2> QED BY <1>3, <1>4, <1>8, <2>1, <2>2, <2>3
<1>9. CASE e # currentEpoch
  <2>1. PICK found \in GetEvolvingNonce(row, e) :
          /\ etaV' = IF found.count > 0 THEN found.evolving ELSE etaV
          /\ blockCount' = found.count
    BY <1>2, <1>9 DEF EnterEpoch
  <2>2. found = row[e]
    BY <1>2, <2>1, StopsOnly, ReadOf
  <2>3. etaV' = ChainNonce(blocks)
    BY <1>6, <1>7, <2>1, <2>2
  <2> QED BY <1>2, <1>3, <1>4, <1>9, <2>1, <2>2, <2>3 DEF EnterEpoch
<1> QED BY <1>8, <1>9

LEMMA StopBlockArrives ==
  ASSUME OnlyStops, StopInv, NEW b \in Block, BlockArrives(b)
  PROVE  StopInv'
<1> DEFINE e == EpochOf[b.slot]
<1>1. /\ TypeInv' /\ pc = "idle" /\ row' = row /\ UNCHANGED phase
      /\ cursor' = b.slot
  BY TypeBlockArrives DEF BlockArrives, Idle, StopInv
<1>2. /\ b.slot \in Slot /\ b.slot # 0 /\ b.slot \in Int
      /\ e \in Epoch /\ e \in Int /\ EpochAt(b.slot) = e
      /\ clock \in Epoch /\ clock \in Int
      /\ blocks \in SUBSET Block
  BY BlockSlot, EpochIsInt DEF EpochAt, StopInv, TypeInv, TypeOK
<1>3. /\ StopChainInv /\ CleanInv /\ Exact
  BY DEF StopInv, ReadyInv, BlockArrives
<1>4. CASE \E d \in blocks : d.slot > cursor
  <2>1. PICK d \in blocks : d.slot > cursor
    BY <1>4
  <2>2. /\ b \in blocks
        /\ UNCHANGED <<blocks, chain, row, clock, phase, pc, work>>
        /\ cursor' = b.slot
        /\ currentEpoch' = e
        /\ etaV' = ChainNonce(UpTo(e))
        /\ blockCount' = row[e].count
    BY <2>1, DeliveredAgain
  <2>3. phase # "live"
    <3>1. SUFFICES ASSUME phase = "live" PROVE FALSE
      OBVIOUS
    <3>2. d.slot <= cursor /\ d.slot \in Int /\ cursor \in Int
      BY <1>2, <1>3, <2>1, <3>1, BlockSlot, SlotAssumption DEF StopChainInv, StopInv, TypeInv, TypeOK
    <3> QED BY <2>1, <3>2
  <2>4. StopChainInv'
    BY <1>1, <1>3, <2>2, <2>3 DEF StopChainInv, BlocksOf, Rewinding
  <2>5. EnteredInv'
    BY <1>2, <2>2, EpochIsInt DEF EnteredInv, EpochInv
  <2>6. UpTo(e)' = UpTo(e)
    BY <2>2 DEF UpTo
  <2>7. RightWhenCurrent'
    BY <1>2, <2>2, <2>6 DEF RightWhenCurrent
  <2>8. (\A c \in blocks : c.slot <= b.slot) => UpTo(e) = blocks
    BY <1>2, EpochMonotone DEF UpTo, Through
  <2>9. ReadyInv'
    BY <1>3, <2>2, <2>7, <2>8 DEF ReadyInv, Exact
  <2>10. UpTo(e) \in SUBSET Block
    BY <1>2 DEF UpTo, Through
  <2>11. CleanInv'
    BY <1>3, <2>2, <2>10, ChainClean DEF CleanInv
  <2> QED BY <1>1, <2>2, <2>4, <2>5, <2>9, <2>11
       DEF StopInv, ProcessInv, StopStoredInv, RewindInv, Rewinding, ReachedInv, DownInv
<1>5. CASE ~ \E d \in blocks : d.slot > cursor
  <2>1. \A c \in blocks : c.slot <= cursor
    <3>1. \A c \in blocks : c.slot \in Int /\ ~(c.slot > cursor)
      BY <1>2, <1>5, BlockSlot
    <3>2. cursor \in Int
      BY SlotAssumption DEF StopInv, TypeInv, TypeOK
    <3> QED BY <3>1, <3>2
  <2>2. /\ \A c \in blocks : c \in Block /\ c.slot < b.slot /\ EpochOf[c.slot] <= e
        /\ currentEpoch' = e
        /\ etaV' = ChainNonce(blocks)
        /\ blockCount' = row[e].count
        /\ \A f \in Epoch : f < e => BlocksOf(f) # {}
    BY <2>1, NewBlock
  <2>3. \A c \in blocks : c.slot # b.slot
    BY <1>2, <2>2, BlockSlot
  <2>4. /\ blocks' = blocks \cup {b} /\ chain' = chain \cup {b}
        /\ pc' = "freeze" /\ work' = [NoWork EXCEPT !.block = b]
    BY <2>3, StopsOnly DEF BlockArrives
  <2>5. work'.block = b /\ work'.eta = GenesisNonce /\ work'.candidate = NoNonce
    BY <2>4 DEF NoWork
  <2>6. clock' \in Int /\ e <= clock' /\ clock <= clock'
    BY <1>2 DEF BlockArrives
  <2>7. StopChainInv'
    <3>1. phase' # "noIntersection" /\ blocks' = chain'
      BY <1>1, <1>3, <2>4 DEF StopChainInv
    <3>2. OnePerSlot(blocks')
      BY <1>2, <1>3, <2>3, <2>4 DEF StopChainInv, OnePerSlot
    <3>3. \A f : BlocksOf(f) # {} => BlocksOf(f)' # {}
      BY <2>4 DEF BlocksOf, InEpoch
    <3>4. \A c \in blocks' : \A f \in Epoch : f < EpochOf[c.slot] => BlocksOf(f)' # {}
      BY <1>3, <2>2, <2>4, <3>3 DEF StopChainInv
    <3>5. \A c \in blocks' : EpochOf[c.slot] <= clock'
      <4>1. \A c \in blocks : EpochOf[c.slot] <= clock /\ EpochOf[c.slot] \in Int
        BY <1>2, <1>3, BlockSlot, EpochIsInt DEF StopChainInv
      <4> QED BY <1>2, <2>4, <2>6, <4>1
    <3>6. \A c \in blocks' : c.slot <= cursor'
      BY <1>1, <1>2, <2>2, <2>4, BlockSlot
    <3>7. blocks' # {}
      BY <2>4
    <3> QED BY <3>1, <3>2, <3>4, <3>5, <3>6, <3>7 DEF StopChainInv
  <2>8. EnteredInv'
    BY <1>1, <1>2, <2>2 DEF EnteredInv, EpochInv
  <2>9. Settled' = blocks
    BY <2>2, <2>3, <2>4, <2>5 DEF Settled
  <2>10. RowsOf(row', Settled', Epoch)
    BY <1>1, <1>3, <2>9 DEF Exact
  <2>11. ProcessInv'
    BY <1>1, <2>2, <2>4, <2>5, <2>9, <2>10 DEF ProcessInv
  <2>12. StopStoredInv'
    BY <1>1, <1>2, <2>5 DEF StopStoredInv
  <2>13. CleanInv'
    BY <1>1, <1>2, <1>3, <2>2, <2>5, ChainClean, SeedsClean DEF CleanInv
  <2> QED BY <1>1, <2>4, <2>7, <2>8, <2>11, <2>12, <2>13
       DEF StopInv, ReadyInv, Idle, RewindInv, Rewinding, ReachedInv, DownInv
<1> QED BY <1>4, <1>5

LEMMA StopFreezeCandidate ==
  ASSUME OnlyStops, StopInv, FreezeCandidate
  PROVE  StopInv'
<1>1. TypeInv' /\ ProcessInv'
  BY TypeFreezeCandidate, FreezeKeeps DEF StopInv
<1>2. /\ pc = "freeze" /\ pc' = "evolve"
      /\ UNCHANGED <<blocks, etaV, currentEpoch, work, phase, chain, cursor, clock>>
      /\ row' = row \/ row' = SetCandidateNonce(row, currentEpoch, etaV)
  BY DEF FreezeCandidate, stream
<1>3. blocks # {} /\ StopChainInv /\ EpochInv
  BY <1>2 DEF StopInv, ProcessInv, EnteredInv
<1>4. StopChainInv' /\ EnteredInv' /\ StopStoredInv'
  BY <1>2, <1>3 DEF StopInv, StopChainInv, BlocksOf, EnteredInv, EpochInv, StopStoredInv
<1>5. CleanInv'
  <2>1. CleanInv /\ etaV \in Nonce /\ currentEpoch \in Epoch /\ row \in [Epoch -> StoredRow]
    BY DEF StopInv, TypeInv, TypeOK
  <2>2. \A e \in Epoch : row'[e].evolving # NoNonce => Clean(row'[e].evolving)
    BY <1>2, <2>1, RowsClean DEF CleanInv
  <2> QED BY <1>2, <2>1, <2>2 DEF CleanInv
<1> QED BY <1>1, <1>2, <1>4, <1>5
     DEF StopInv, ReadyInv, Idle, RewindInv, Rewinding, ReachedInv, DownInv

LEMMA StopEvolveNonce ==
  ASSUME OnlyStops, StopInv, EvolveNonce
  PROVE  StopInv'
<1>1. /\ TypeInv' /\ IdleInv' /\ pc' = "idle"
      /\ etaV' = ChainNonce(blocks)
      /\ \A c \in blocks : EpochOf[c.slot] <= currentEpoch
  BY StopsOnly, TypeEvolveNonce, EvolveCounts DEF StopInv
<1>2. /\ pc = "evolve" /\ work' = NoWork
      /\ UNCHANGED <<blocks, currentEpoch, phase, chain, cursor, clock>>
      /\ row' = UpsertEvolvingNonce(row, currentEpoch, etaV', blockCount')
  BY StopsOnly DEF EvolveNonce, Finish, stream, RowsWritten, Fails
<1>3. blocks # {} /\ blocks \in SUBSET Block /\ StopChainInv /\ EpochInv
  BY <1>2 DEF StopInv, ProcessInv, EnteredInv, TypeInv, TypeOK
<1>4. StopChainInv' /\ EnteredInv'
  BY <1>2, <1>3 DEF StopChainInv, BlocksOf, EnteredInv, EpochInv
<1>5. ReadyInv'
  BY <1>1, <1>2, ReadyAfter
<1>6. CleanInv'
  <2>1. /\ CleanInv /\ etaV' \in Nonce /\ blockCount' \in Nat
        /\ currentEpoch \in Epoch /\ row \in [Epoch -> StoredRow]
    BY <1>1 DEF StopInv, TypeInv, TypeOK
  <2>2. Clean(etaV')
    BY <1>1, <1>3, ChainClean
  <2>3. \A e \in Epoch : row'[e].evolving # NoNonce => Clean(row'[e].evolving)
    BY <1>2, <2>1, <2>2, RowsClean DEF CleanInv
  <2> QED BY <1>2, <2>2, <2>3, SeedsClean DEF CleanInv, NoWork
<1> QED BY <1>1, <1>4, <1>5, <1>6
     DEF StopInv, ProcessInv, StopStoredInv, RewindInv, Rewinding, ReachedInv, DownInv

(* A rollback, or the node's first one of a live stream, to a stored block. *)
LEMMA StopRollbackTo ==
  ASSUME OnlyStops, StopInv, Idle, NEW p \in Slot \cup {0}, RollbackTo(p),
         p <= cursor, \A c \in blocks : c.slot <= cursor,
         phase' = "live", NEW d \in blocks, d.slot = p
  PROVE  StopInv'
<1>0. TypeInv'
  BY TypeRollbackTo DEF StopInv
<1>1. /\ pc = "idle" /\ StopChainInv /\ EpochInv /\ ReadyInv /\ CleanInv
      /\ RowsOf(row, blocks, Epoch) /\ RightWhenCurrent
      /\ etaV = ChainNonce(blocks) \/ (Cardinality(blocks) = 1 /\ ~Current)
  BY DEF StopInv, EnteredInv, ReadyInv, Exact, Idle
<1>2. /\ d \in Block /\ EpochOf[d.slot] = EpochAt(p) /\ EpochAt(p) \in Int
      /\ p \in Int
      /\ \A f \in Epoch : f < EpochOf[d.slot] => BlocksOf(f) # {}
  <2>1. d \in Block /\ \A f \in Epoch : f < EpochOf[d.slot] => BlocksOf(f) # {}
    BY <1>1 DEF StopChainInv, StopInv, TypeInv, TypeOK
  <2> QED BY <2>1, BlockSlot, EpochIsInt DEF EpochAt
<1>3. /\ EpochInv'
      /\ \A f \in Epoch : f < EpochAt(p) => BlocksOf(f)' # {}
      /\ blocks' = Prefix(blocks, p)
      /\ \/ blocks' = blocks /\ UNCHANGED <<pc, work>>
         \/ pc' = "restore" /\ work'.eta = GenesisNonce /\ work'.candidate = NoNonce /\ RewindInv'
  <2>1. RowsWritten /\ TypeInv
    BY StopsOnly DEF StopInv
  <2> QED BY <1>1, <1>2, <2>1, RollbackLeaves
<1>4. /\ chain' = Prefix(chain, p) /\ cursor' = p
      /\ UNCHANGED <<row, clock, etaV, currentEpoch, blockCount>>
  BY DEF RollbackTo, tracker
<1>5. d \in blocks' /\ blocks' \subseteq blocks
  BY <1>2, <1>3 DEF Prefix
<1>6. StopChainInv'
  <2>1. blocks' = chain'
    BY <1>1, <1>3, <1>4 DEF StopChainInv
  <2>2. \A c \in blocks' : c.slot <= cursor' /\ EpochOf[c.slot] <= clock'
    BY <1>1, <1>3, <1>4 DEF StopChainInv, Prefix
  <2>3. OnePerSlot(blocks')
    BY <1>1, <1>5 DEF StopChainInv, OnePerSlot
  <2>4. ASSUME NEW c \in blocks', NEW f \in Epoch, f < EpochOf[c.slot] PROVE BlocksOf(f)' # {}
    <3>1. c \in Block /\ c.slot <= p
      BY <1>3 DEF Prefix, StopInv, TypeInv, TypeOK
    <3>2. f < EpochAt(p)
      BY <1>2, <2>4, <3>1, EpochMonotone, EpochIsInt, BlockSlot
    <3> QED BY <1>3, <3>2
  <2> QED BY <1>5, <2>1, <2>2, <2>3, <2>4 DEF StopChainInv
<1>7. EnteredInv'
  BY <1>3 DEF EnteredInv
<1>8. CASE blocks' = blocks /\ UNCHANGED <<pc, work>>
  <2>1. ReadyInv'
    BY <1>1, <1>4, <1>8 DEF ReadyInv, Exact, RightWhenCurrent, Current, UpTo
  <2>2. CleanInv'
    BY <1>1, <1>4, <1>8 DEF CleanInv
  <2> QED BY <1>0, <1>1, <1>6, <1>7, <1>8, <2>1, <2>2
       DEF StopInv, ProcessInv, StopStoredInv, RewindInv, Rewinding, ReachedInv, DownInv
<1>9. CASE pc' = "restore" /\ work'.eta = GenesisNonce /\ work'.candidate = NoNonce /\ RewindInv'
  <2>1. CleanInv'
    BY <1>1, <1>4, <1>9, SeedsClean DEF CleanInv
  <2> QED BY <1>0, <1>6, <1>7, <1>9, <2>1
       DEF StopInv, ReadyInv, Idle, ProcessInv, StopStoredInv, ReachedInv, DownInv
<1> QED BY <1>3, <1>8, <1>9

LEMMA StopRollbackArrives ==
  ASSUME OnlyStops, StopInv, NEW p \in Slot, RollbackArrives(p)
  PROVE  StopInv'
<1>1. PICK d \in chain : d.slot = p
  BY DEF RollbackArrives
<1>2. d \in blocks /\ \A c \in blocks : c.slot <= cursor
  BY DEF StopInv, StopChainInv, RollbackArrives
<1>3. p <= cursor
  <2>1. p \in Int /\ cursor \in Int /\ p < cursor
    BY SlotAssumption DEF RollbackArrives, StopInv, TypeInv, TypeOK
  <2> QED BY <2>1
<1>4. phase' = "live" /\ Idle /\ RollbackTo(p)
  BY DEF RollbackArrives
<1> QED BY <1>1, <1>2, <1>3, <1>4, StopRollbackTo

LEMMA StopGoLive ==
  ASSUME OnlyStops, StopInv, GoLive
  PROVE  StopInv'
<1>1. PICK d \in blocks : d.slot = ResumeSlot
  BY DEF GoLive, Intersects
<1>2. /\ phase' = "live" /\ Idle /\ RollbackTo(ResumeSlot)
      /\ \A c \in blocks : c.slot <= cursor
  BY DEF GoLive
<1>3. ResumeSlot \in Slot \cup {0}
  BY ResumeSlotType DEF StopInv
<1> QED BY <1>1, <1>2, <1>3, StopRollbackTo

LEMMA StopRestoreEvolving ==
  ASSUME OnlyStops, StopInv, RestoreEvolving
  PROVE  StopInv'
<1>1. TypeInv /\ TypeInv' /\ RewindInv /\ RowsWritten
  BY StopsOnly, TypeRestoreEvolving DEF StopInv
<1>2. /\ RewindInv' /\ pc' = "candidate"
      /\ work'.eta = ChainNonce(blocks)
      /\ work'.candidate = CandidateOf(ChainNonce(Through(blocks, work.epoch - 1)),
                                       BlocksOf(work.epoch))
      /\ row' = UpsertEvolvingNonce(row, work.epoch, ChainNonce(blocks),
                                    Cardinality(BlocksOf(work.epoch)))
  BY <1>1, RestoresEvolving
<1>3. /\ pc = "restore"
      /\ UNCHANGED <<blocks, etaV, currentEpoch, phase, chain, cursor, clock>>
  BY StopsOnly DEF RestoreEvolving, tracker, stream
<1>4. StopChainInv /\ EpochInv /\ CleanInv /\ blocks # {}
  BY <1>3 DEF StopInv, StopChainInv, EnteredInv, Rewinding
<1>5. StopChainInv' /\ EnteredInv'
  BY <1>3, <1>4 DEF StopChainInv, BlocksOf, EnteredInv, EpochInv
<1>6. CleanInv'
  <2>1. /\ blocks \in SUBSET Block /\ work.epoch \in Epoch /\ row \in [Epoch -> StoredRow]
        /\ Cardinality(BlocksOf(work.epoch)) \in Nat
    BY <1>1, BlocksOfType DEF TypeInv, TypeOK
  <2>2. Clean(ChainNonce(blocks)) /\ ChainNonce(blocks) \in Nonce
    BY <2>1, ChainClean, ChainNonceType
  <2>3. work'.candidate # NoNonce => Clean(work'.candidate)
    BY <1>2, <2>1, CandidateClean DEF BlocksOf
  <2>4. \A e \in Epoch : row'[e].evolving # NoNonce => Clean(row'[e].evolving)
    BY <1>2, <1>4, <2>1, <2>2, RowsClean DEF CleanInv
  <2> QED BY <1>2, <1>3, <1>4, <2>2, <2>3, <2>4 DEF CleanInv
<1> QED BY <1>1, <1>2, <1>5, <1>6
     DEF StopInv, ReadyInv, Idle, ProcessInv, StopStoredInv, ReachedInv, DownInv

LEMMA StopRestoreCandidate ==
  ASSUME OnlyStops, StopInv, RestoreCandidate
  PROVE  StopInv'
<1>1. TypeInv /\ TypeInv' /\ RewindInv /\ RowsWritten
  BY StopsOnly, TypeRestoreCandidate DEF StopInv
<1>2. /\ etaV' = ChainNonce(blocks) /\ currentEpoch' = work.epoch
      /\ \A c \in blocks : EpochOf[c.slot] <= work.epoch
      /\ EpochInv'
      /\ \/ pc' = "resetEvolving" /\ RewindInv'
         \/ pc' = "idle" /\ IdleInv'
  BY <1>1, RestoresTracker
<1>3. /\ pc = "candidate"
      /\ UNCHANGED <<blocks, phase, chain, cursor, clock>>
      /\ row' = IF work.candidate = NoNonce
                THEN DeleteCandidateNonce(row, work.epoch)
                ELSE SetCandidateNonce(row, work.epoch, work.candidate)
      /\ work' = NoWork \/ work' = [work EXCEPT !.epoch = work.epoch + 1]
  BY StopsOnly DEF RestoreCandidate, Finish, stream
<1>4. StopChainInv /\ CleanInv /\ blocks # {}
  BY <1>3 DEF StopInv, StopChainInv, Rewinding
<1>5. StopChainInv' /\ EnteredInv'
  BY <1>2, <1>3, <1>4 DEF StopChainInv, BlocksOf, EnteredInv
<1>6. CleanInv'
  <2>1. /\ blocks \in SUBSET Block /\ work.epoch \in Epoch /\ row \in [Epoch -> StoredRow]
        /\ work.candidate \in Nonce \cup {NoNonce}
    BY <1>1 DEF TypeInv, TypeOK
  <2>2. Clean(etaV')
    BY <1>2, <2>1, ChainClean
  <2>3. \A e \in Epoch : row'[e].evolving # NoNonce => Clean(row'[e].evolving)
    <3>1. CASE work.candidate = NoNonce
      BY <1>3, <1>4, <2>1, <3>1, RowsClean, SeedsClean, GenesisType DEF CleanInv
    <3>2. CASE work.candidate # NoNonce
      <4>1. work.candidate \in Nonce /\ Clean(work.candidate)
        BY <1>4, <2>1, <3>2 DEF CleanInv
      <4> QED BY <1>3, <1>4, <2>1, <3>2, <4>1, RowsClean DEF CleanInv
    <3> QED BY <3>1, <3>2
  <2>4. /\ work'.eta = GenesisNonce \/ work'.eta = work.eta
        /\ work'.candidate = NoNonce \/ work'.candidate = work.candidate
    BY <1>1, <1>3 DEF NoWork, TypeInv, TypeOK
  <2> QED BY <1>4, <2>2, <2>3, <2>4, SeedsClean DEF CleanInv
<1>7. CASE pc' = "resetEvolving" /\ RewindInv'
  <2>1. ReachedInv'
    BY <1>2, <1>3 DEF ReachedInv
  <2> QED BY <1>1, <1>5, <1>6, <1>7, <2>1 DEF StopInv, ReadyInv, Idle, ProcessInv, StopStoredInv, DownInv
<1>8. CASE pc' = "idle" /\ IdleInv'
  <2>1. ReadyInv'
    BY <1>1, <1>2, <1>3, <1>8, ReadyAfter
  <2> QED BY <1>1, <1>5, <1>6, <1>8, <2>1
       DEF StopInv, ProcessInv, StopStoredInv, RewindInv, Rewinding, ReachedInv, DownInv
<1> QED BY <1>2, <1>7, <1>8

LEMMA StopResetEvolving ==
  ASSUME OnlyStops, StopInv, ResetEvolving
  PROVE  StopInv'
<1>1. TypeInv /\ TypeInv' /\ RewindInv /\ RowsWritten
  BY StopsOnly, TypeResetEvolving DEF StopInv
<1>2. RewindInv' /\ pc' = "resetCandidate"
  BY <1>1, ResetsEvolving
<1>3. /\ pc = "resetEvolving"
      /\ UNCHANGED <<blocks, etaV, currentEpoch, work, phase, chain, cursor, clock>>
      /\ row' = UpsertEvolvingNonce(row, work.epoch, etaV, 0)
  BY StopsOnly DEF ResetEvolving, tracker, stream
<1>4. StopChainInv /\ EpochInv /\ CleanInv /\ ReachedInv /\ blocks # {}
  BY <1>3 DEF StopInv, StopChainInv, EnteredInv, Rewinding
<1>5. StopChainInv' /\ EnteredInv' /\ ReachedInv'
  BY <1>2, <1>3, <1>4 DEF StopChainInv, BlocksOf, EnteredInv, EpochInv, ReachedInv
<1>6. CleanInv'
  <2>1. /\ work.epoch \in Epoch /\ row \in [Epoch -> StoredRow] /\ etaV \in Nonce
        /\ Clean(etaV) /\ 0 \in Nat
    BY <1>1, <1>4 DEF TypeInv, TypeOK, CleanInv
  <2>2. \A e \in Epoch : row'[e].evolving # NoNonce => Clean(row'[e].evolving)
    BY <1>3, <1>4, <2>1, RowsClean DEF CleanInv
  <2> QED BY <1>3, <1>4, <2>2 DEF CleanInv
<1> QED BY <1>1, <1>2, <1>5, <1>6 DEF StopInv, ReadyInv, Idle, ProcessInv, StopStoredInv, DownInv

LEMMA StopResetCandidate ==
  ASSUME OnlyStops, StopInv, ResetCandidate
  PROVE  StopInv'
<1>1. TypeInv /\ TypeInv' /\ RewindInv /\ RowsWritten
  BY StopsOnly, TypeResetCandidate DEF StopInv
<1>2. (pc' = "resetEvolving" /\ RewindInv') \/ (pc' = "idle" /\ IdleInv')
  BY <1>1, ResetsCandidate
<1>3. /\ pc = "resetCandidate"
      /\ UNCHANGED <<blocks, etaV, currentEpoch, phase, chain, cursor, clock>>
      /\ row' = DeleteCandidateNonce(row, work.epoch)
      /\ work' = NoWork \/ work' = [work EXCEPT !.epoch = work.epoch + 1]
  BY StopsOnly DEF ResetCandidate, Finish, tracker, stream
<1>4. StopChainInv /\ EpochInv /\ CleanInv /\ ReachedInv /\ blocks # {}
  BY <1>3 DEF StopInv, StopChainInv, EnteredInv, Rewinding
<1>5. StopChainInv' /\ EnteredInv' /\ ReachedInv'
  BY <1>3, <1>4 DEF StopChainInv, BlocksOf, EnteredInv, EpochInv, ReachedInv
<1>6. CleanInv'
  <2>1. work.epoch \in Epoch /\ row \in [Epoch -> StoredRow]
    BY <1>1 DEF TypeInv, TypeOK
  <2>2. \A e \in Epoch : row'[e].evolving # NoNonce => Clean(row'[e].evolving)
    BY <1>3, <1>4, <2>1, RowsClean, SeedsClean, GenesisType DEF CleanInv
  <2>3. /\ work'.eta = GenesisNonce \/ work'.eta = work.eta
        /\ work'.candidate = NoNonce \/ work'.candidate = work.candidate
    BY <1>1, <1>3 DEF NoWork, TypeInv, TypeOK
  <2> QED BY <1>3, <1>4, <2>2, <2>3, SeedsClean DEF CleanInv
<1>7. CASE pc' = "resetEvolving" /\ RewindInv'
  BY <1>1, <1>5, <1>6, <1>7 DEF StopInv, ReadyInv, Idle, ProcessInv, StopStoredInv, DownInv
<1>8. CASE pc' = "idle" /\ IdleInv'
  <2>1. \A c \in blocks' : EpochOf[c.slot] <= currentEpoch'
    BY <1>3, <1>4 DEF ReachedInv
  <2>2. ReadyInv'
    BY <1>1, <1>8, <2>1, ReadyAfter
  <2> QED BY <1>1, <1>5, <1>6, <1>8, <2>2
       DEF StopInv, ProcessInv, StopStoredInv, RewindInv, Rewinding, DownInv
<1> QED BY <1>2, <1>7, <1>8

LEMMA StopCacheFinalNonce ==
  ASSUME OnlyStops, StopInv, NEW e \in FinalEpochs, CacheFinalNonce(e)
  PROVE  StopInv'
<1>1. /\ TypeInv /\ TypeInv' /\ e \in Epoch
      /\ row \in [Epoch -> StoredRow] /\ blocks \in SUBSET Block
      /\ currentEpoch \in Epoch
  BY TypeCacheFinalNonce, BoundAssumption DEF StopInv, TypeInv, TypeOK
<1>2. /\ \A f \in Epoch : row'[f].count = row[f].count
      /\ \A S \in SUBSET Block : RowsOf(row, S, Epoch) => RowsOf(row', S, Epoch)
      /\ ProcessInv' /\ RewindInv'
  BY <1>1, CacheKeeps DEF StopInv
<1>3. /\ blocks # {}
      /\ row' = SetFinalNonce(row, e, FinalNonce)
      /\ UNCHANGED <<blocks, etaV, currentEpoch, blockCount, pc, work, phase, chain, cursor, clock>>
  BY StopsOnly DEF CacheFinalNonce, tracker, stream
<1>4. StopChainInv' /\ EnteredInv' /\ StopStoredInv' /\ ReachedInv'
  BY <1>3 DEF StopInv, StopChainInv, BlocksOf, EnteredInv, EpochInv, StopStoredInv, ReachedInv
<1>5. Exact => Exact'
  BY <1>1, <1>2, <1>3 DEF Exact
<1>6. RightWhenCurrent => RightWhenCurrent'
  BY <1>1, <1>2, <1>3 DEF RightWhenCurrent, Current, UpTo
<1>7. ReadyInv'
  BY <1>3, <1>5, <1>6 DEF StopInv, ReadyInv, Idle, Current
<1>8. Lagging => Lagging'
  <2> SUFFICES ASSUME NEW b \in blocks, \A c \in blocks \ {b} : c.slot < b.slot,
                      RowsOf(row, blocks \ {b}, Epoch)
               PROVE  Lagging'
    BY DEF Lagging
  <2>1. blocks \ {b} \in SUBSET Block
    BY <1>1
  <2> QED BY <1>2, <1>3, <2>1 DEF Lagging
<1>9. DownInv'
  BY <1>3, <1>5, <1>6, <1>8 DEF StopInv, DownInv
<1>10. CleanInv'
  <2>1. CleanInv /\ FinalNonce \in Nonce /\ Clean(FinalNonce)
    BY SeedsClean, GenesisType DEF StopInv
  <2>2. \A f \in Epoch : row'[f].evolving # NoNonce => Clean(row'[f].evolving)
    BY <1>1, <1>3, <2>1, RowsClean DEF CleanInv
  <2> QED BY <1>3, <2>1, <2>2 DEF CleanInv
<1> QED BY <1>1, <1>2, <1>4, <1>7, <1>9, <1>10 DEF StopInv

(* Between InsertBlock and UpsertEvolvingNonce a stop leaves the rows one  *)
(* block behind.                                                           *)
LEMMA StopCrash ==
  ASSUME OnlyStops, StopInv, Crash
  PROVE  StopInv'
<1>1. TypeInv' /\ ~Rewinding /\ pc # "down"
  BY TypeCrash, StopsOnly DEF StopInv, Crash
<1>2. /\ pc' = "down" /\ work' = NoWork /\ etaV' = GenesisNonce
      /\ UNCHANGED <<blocks, row, phase, chain, cursor, clock>>
  BY DEF Crash, db, stream
<1>3. Exact \/ Lagging
  <2>1. CASE pc = "idle"
    BY <2>1 DEF StopInv, ReadyInv, Idle
  <2>2. CASE pc \in {"freeze", "evolve"}
    <3>1. /\ work.block \in blocks
          /\ \A c \in blocks \ {work.block} : c.slot < work.block.slot
          /\ RowsOf(row, blocks \ {work.block}, Epoch)
      BY <2>2 DEF StopInv, ProcessInv, Settled
    <3> QED BY <3>1 DEF Lagging
  <2>3. CASE pc = "validate"
    BY <2>3 DEF StopInv, DownInv
  <2> QED BY <1>1, <2>1, <2>2, <2>3 DEF Rewinding, StopInv, TypeInv, TypeOK
<1>4. StopChainInv'
  BY <1>2 DEF StopInv, StopChainInv, BlocksOf, Rewinding
<1>5. DownInv'
  BY <1>2, <1>3 DEF DownInv, Exact, Lagging
<1>6. CleanInv'
  BY <1>2, SeedsClean DEF StopInv, CleanInv, NoWork
<1> QED BY <1>1, <1>2, <1>4, <1>5, <1>6
     DEF StopInv, EnteredInv, ReadyInv, Idle, ProcessInv, StopStoredInv, RewindInv, Rewinding, ReachedInv

(* NewNonceTracker finds the row of the clock's epoch, or it is in an      *)
(* epoch the table has not reached.                                        *)
LEMMA StopRestart ==
  ASSUME OnlyStops, StopInv, Restart
  PROVE  StopInv'
<1>1. TypeInv' /\ pc = "down"
  BY TypeRestart DEF StopInv, Restart
<1>2. PICK w \in Epoch : w >= clock /\ clock' = w /\ NewNonceTracker(row, w)
  BY DEF Restart
<1>3. /\ pc' = "validate" /\ phase' = "sync" /\ currentEpoch' = w
      /\ UNCHANGED <<blocks, row, work, chain, cursor>>
  BY <1>2 DEF Restart, NewNonceTracker, db
<1>4. /\ w \in Int /\ clock \in Int /\ blocks \in SUBSET Block
      /\ row \in [Epoch -> StoredRow]
  BY EpochIsInt DEF StopInv, TypeInv, TypeOK
<1>14. \A c \in blocks : EpochOf[c.slot] \in Int
  BY <1>4, BlockSlot, EpochIsInt
<1>5. /\ StopChainInv /\ CleanInv /\ (Exact \/ Lagging)
      /\ \A c \in blocks : EpochOf[c.slot] <= clock
  BY <1>1 DEF StopInv, StopChainInv, DownInv
<1>6. PICK own \in GetEvolvingNonce(row, w), prev \in GetEvolvingNonce(row, w - 1) :
        IF own.count > 0
        THEN etaV' = own.evolving /\ blockCount' = own.count
        ELSE /\ etaV' = IF prev.evolving # NoNonce THEN prev.evolving ELSE GenesisNonce
             /\ blockCount' = 0
  BY <1>2 DEF NewNonceTracker
<1>7. own = row[w] /\ prev = IF w - 1 \in Epoch THEN row[w - 1] ELSE NoRow
  BY <1>6, StopsOnly, ReadOf
<1>8. row[w].count \in Nat /\ (row[w].count > 0 => row[w].evolving # NoNonce)
  <2>1. row[w] \in StoredRow
    BY <1>4
  <2> QED BY <2>1 DEF StoredRow, Row
<1>9. StopChainInv'
  <2>1. \A c \in blocks : EpochOf[c.slot] <= w
    BY <1>2, <1>4, <1>5, <1>14
  <2> QED BY <1>2, <1>3, <1>5, <2>1 DEF StopChainInv, BlocksOf, Rewinding
<1>10. Exact => Exact' /\ RightWhenCurrent'
  <2> SUFFICES ASSUME Exact PROVE Exact' /\ RightWhenCurrent'
    OBVIOUS
  <2>1. /\ row[w].count = Cardinality(InEpoch(blocks, w))
        /\ InEpoch(blocks, w) # {} => row[w].evolving = ChainNonce(UpTo(w))
    BY DEF Exact, RowsOf, UpTo
  <2>2. blockCount' = row[w].count
    BY <1>6, <1>7, <1>8
  <2>3. row[w].count > 0 => etaV' = ChainNonce(UpTo(w))
    <3> SUFFICES ASSUME row[w].count > 0 PROVE etaV' = ChainNonce(UpTo(w))
      OBVIOUS
    <3>1. Cardinality({}) = 0
      BY FS_EmptySet
    <3>2. InEpoch(blocks, w) # {}
      BY <1>8, <2>1, <3>1
    <3>3. etaV' = row[w].evolving
      BY <1>6, <1>7
    <3> QED BY <2>1, <3>2, <3>3
  <2>4. Current' => row[w].count > 0
    <3> SUFFICES ASSUME NEW c \in blocks, EpochOf[c.slot] >= w PROVE row[w].count > 0
      BY <1>3 DEF Current
    <3>1. EpochOf[c.slot] = w
      BY <1>2, <1>4, <1>5, <1>14
    <3>2. c \in InEpoch(blocks, w) /\ IsFiniteSet(InEpoch(blocks, w))
      BY <3>1, FS_Subset DEF InEpoch, StopInv, TypeInv
    <3>3. Cardinality(InEpoch(blocks, w)) # 0
      BY <3>2, FS_EmptySet
    <3> QED BY <1>8, <2>1, <3>3
  <2>5. blocks = {} => etaV' = GenesisNonce
    <3> SUFFICES ASSUME blocks = {} PROVE etaV' = GenesisNonce
      OBVIOUS
    <3>1. \A f \in Epoch : row[f] = NoRow
      BY <1>5 DEF StopChainInv
    <3>2. own = NoRow /\ prev = NoRow
      BY <1>7, <3>1
    <3> QED BY <1>6, <3>2 DEF NoRow
  <2>6. UpTo(w)' = UpTo(w)
    BY <1>3 DEF UpTo
  <2> QED BY <1>3, <2>2, <2>3, <2>4, <2>5, <2>6 DEF Exact, RightWhenCurrent
<1>11. Lagging => Lagging'
  BY <1>3 DEF Lagging
<1>12. DownInv'
  BY <1>2, <1>3, <1>5, <1>10, <1>11 DEF DownInv
<1>13. CleanInv'
  <2>1. prev.evolving # NoNonce => Clean(prev.evolving)
    BY <1>5, <1>7 DEF CleanInv, NoRow
  <2>2. Clean(etaV')
    BY <1>5, <1>6, <1>7, <1>8, <2>1, SeedsClean DEF CleanInv
  <2> QED BY <1>3, <1>5, <2>2 DEF CleanInv
<1> QED BY <1>1, <1>3, <1>9, <1>12, <1>13
     DEF StopInv, EnteredInv, ReadyInv, Idle, ProcessInv, StopStoredInv, RewindInv, Rewinding, ReachedInv

(* Layer 1 of the check compares the count of the last epoch's row: it     *)
(* sees the block a stop has left uncounted, and no other row is behind.   *)
LEMMA StopLastEpochOf ==
  ASSUME TypeInv, blocks # {}
  PROVE  LET L == EpochAt(LastSlot(blocks))
         IN  /\ L \in Epoch
             /\ \E b \in blocks : IsLast(b, blocks) /\ EpochOf[b.slot] = L
             /\ \A c \in blocks : EpochOf[c.slot] <= L
<1> DEFINE L == EpochAt(LastSlot(blocks))
<1>1. blocks \in SUBSET Block /\ IsFiniteSet(blocks)
  BY DEF TypeInv, TypeOK
<1>2. PICK b \in blocks : IsLast(b, blocks) /\ LastSlot(blocks) = b.slot
  BY <1>1, LastSlotOf
<1>3. L = EpochOf[b.slot] /\ L \in Epoch
  BY <1>1, <1>2, BlockSlot, LastSlotType DEF EpochAt
<1>4. ASSUME NEW c \in blocks PROVE EpochOf[c.slot] <= L
  BY <1>1, <1>2, <1>3, BlockSlot, EpochMonotone DEF IsLast
<1> QED BY <1>2, <1>3, <1>4

LEMMA LaggingStale ==
  ASSUME TypeInv, Lagging
  PROVE  /\ NonceStale
         /\ RowsOf(row, blocks, Epoch \ {EpochAt(LastSlot(blocks))})
<1>1. /\ blocks \in SUBSET Block /\ IsFiniteSet(blocks)
      /\ row \in [Epoch -> StoredRow]
  BY DEF TypeInv, TypeOK
<1>2. PICK b \in blocks : /\ \A c \in blocks \ {b} : c.slot < b.slot
                          /\ RowsOf(row, blocks \ {b}, Epoch)
  BY DEF Lagging
<1> DEFINE L == EpochAt(LastSlot(blocks))
           S == blocks \ {b}
<1>3. /\ L \in Epoch /\ L \in Int /\ EpochOf[b.slot] = L
      /\ \A c \in blocks : EpochOf[c.slot] <= L
  <2>1. PICK l \in blocks : IsLast(l, blocks) /\ EpochOf[l.slot] = L
    BY StopLastEpochOf
  <2>2. l = b
    <3>1. l.slot \in Int /\ b.slot \in Int /\ b.slot <= l.slot
      BY <1>1, <1>2, <2>1, BlockSlot DEF IsLast
    <3> QED BY <1>2, <2>1, <3>1
  <2>3. L \in Epoch /\ \A c \in blocks : EpochOf[c.slot] <= L
    BY StopLastEpochOf
  <2> QED BY <2>1, <2>2, <2>3, EpochIsInt
<1> HIDE DEF L
<1>4. InEpoch(blocks, L) = InEpoch(S, L) \cup {b} /\ b \notin InEpoch(S, L)
  BY <1>2, <1>3 DEF InEpoch
<1>5. Cardinality(InEpoch(blocks, L)) # Cardinality(InEpoch(S, L))
  <2>1. IsFiniteSet(InEpoch(S, L))
    BY <1>1, FS_Subset DEF InEpoch
  <2>2. /\ Cardinality(InEpoch(S, L)) \in Nat
        /\ Cardinality(InEpoch(S, L) \cup {b}) = Cardinality(InEpoch(S, L)) + 1
    BY <1>4, <2>1, FS_CardinalityType, FS_AddElement
  <2> QED BY <1>4, <2>2
<1>6. NonceStale
  <2>1. row[L].count = Cardinality(InEpoch(S, L))
    BY <1>2, <1>3 DEF RowsOf
  <2> QED BY <1>5, <2>1 DEF NonceStale, BlocksOf, L
<1>7. RowsOf(row, S, Epoch \ {L})
  BY <1>2 DEF RowsOf
<1>8. ASSUME NEW e \in Epoch \ {L}
      PROVE  \/ InEpoch(blocks, e) = InEpoch(S, e) /\ Through(blocks, e) = Through(S, e)
             \/ e > L
  <2>1. e \in Int
    BY EpochIsInt
  <2>2. InEpoch(blocks, e) = InEpoch(S, e)
    BY <1>3 DEF InEpoch
  <2>3. CASE e < L
    <3>1. Through(blocks, e) = Through(S, e)
      BY <1>3, <2>1, <2>3 DEF Through
    <3> QED BY <2>2, <3>1
  <2> QED BY <1>3, <2>1, <2>3
<1>9. ASSUME NEW e \in Epoch \ {L}
      PROVE  /\ row[e].count = Cardinality(InEpoch(blocks, e))
             /\ InEpoch(blocks, e) # {} => row[e].evolving = ChainNonce(Through(blocks, e))
  <2>1. /\ row[e].count = Cardinality(InEpoch(S, e))
        /\ InEpoch(S, e) # {} => row[e].evolving = ChainNonce(Through(S, e))
    BY <1>7 DEF RowsOf
  <2>2. CASE InEpoch(blocks, e) = InEpoch(S, e) /\ Through(blocks, e) = Through(S, e)
    BY <2>1, <2>2
  <2>3. CASE e > L
    <3>1. e \in Int
      BY EpochIsInt
    <3>2. InEpoch(blocks, e) = {} /\ InEpoch(S, e) = {}
      BY <1>3, <2>3, <3>1 DEF InEpoch
    <3> QED BY <2>1, <3>2
  <2> QED BY <1>8, <2>2, <2>3
<1> QED BY <1>6, <1>9 DEF RowsOf, L

(* The stream resumes behind the last stored block: the next block is of   *)
(* the epoch of the check, or it is delivered again.                       *)
LEMMA ResumesReady ==
  ASSUME TypeInv, OnePerSlot(blocks), RightWhenCurrent, blocks # {},
         \A b \in blocks : EpochOf[b.slot] <= currentEpoch,
         \A b \in blocks : b.slot <= ResumeSlot
  PROVE  etaV = ChainNonce(blocks) \/ (Cardinality(blocks) = 1 /\ ~Current)
<1>1. PICK a \in Block : blocks = {a}
  <2>1. ~(\E a \in blocks : a.slot > ResumeSlot)
    <3>1. ResumeSlot \in Int
      <4>1. ResumeSlot \in Slot \cup {0}
        BY ResumeSlotType
      <4> QED BY <4>1, SlotAssumption
    <3>2. \A a \in blocks : a.slot \in Int
      BY BlockSlot DEF TypeInv, TypeOK
    <3> QED BY <3>1, <3>2
  <2> QED BY <2>1, ResumesBehind
<1>2. Cardinality(blocks) = 1
  BY <1>1, FS_Singleton
<1>3. CASE Current
  <2>1. UpTo(currentEpoch) = blocks
    BY DEF UpTo, Through
  <2> QED BY <1>3, <2>1 DEF RightWhenCurrent
<1> QED BY <1>2, <1>3

(* The check leaves the rows as they are and resumes behind the last       *)
(* block, or it first recomputes the last epoch's row.                     *)
LEMMA Checked ==
  ASSUME OnlyStops, StopInv, ValidateDBIntegrity, blocks # {}
  PROVE  /\ pc = "validate" /\ phase' = "sync" /\ cursor' = ResumeSlot
         /\ UNCHANGED <<blocks, etaV, currentEpoch, blockCount, chain, clock>>
         /\ \A e \in Epoch : /\ row'[e].count = row[e].count
                             /\ row'[e].evolving = row[e].evolving
         /\ IF NonceStale
            THEN RecomputeCurrentEpochNonce(EpochAt(LastSlot(blocks)))
            ELSE Finish
<1>1. TypeInv /\ StopChainInv /\ pc = "validate"
  BY DEF StopInv, ValidateDBIntegrity
<1>2. LastBlocks(Lookback) \cap chain # {}
  <2>1. PICK b \in blocks : IsLast(b, blocks)
    BY StopLastEpochOf, <1>1
  <2>2. {c \in blocks : c.slot > b.slot} = {}
    BY <1>1, <2>1, BlockSlot DEF IsLast, TypeInv, TypeOK
  <2>3. b \in LastBlocks(Lookback)
    BY <2>2, FS_EmptySet, BoundAssumption DEF LastBlocks
  <2> QED BY <1>1, <2>3 DEF StopChainInv
<1>3. ~Fails("node")
  BY StopsOnly
<1>4. /\ \E G \in SUBSET GapEpochs :
            row' = [e \in Epoch |-> IF e \in G THEN [row[e] EXCEPT !.candidate = NoNonce]
                                    ELSE row[e]]
      /\ Resume
      /\ IF NonceStale
         THEN RecomputeCurrentEpochNonce(EpochAt(LastSlot(blocks)))
         ELSE Finish
      /\ UNCHANGED <<blocks, tracker, chain>>
      /\ UNCHANGED <<clock, unrewound>>
  BY <1>2, <1>3 DEF ValidateDBIntegrity
<1>5. Intersects
  BY <1>1, ResumesBehind DEF Intersects, StopChainInv
<1>6. \A e \in Epoch : /\ row'[e].count = row[e].count
                       /\ row'[e].evolving = row[e].evolving
  <2>1. \A e \in Epoch : row[e] \in Row
    BY <1>1 DEF TypeInv, StoredRow
  <2> QED BY <1>4, <2>1 DEF Row
<1> QED BY <1>1, <1>4, <1>5, <1>6 DEF Resume, tracker

LEMMA StopValidate ==
  ASSUME OnlyStops, StopInv, ValidateDBIntegrity
  PROVE  StopInv'
<1>1. /\ TypeInv /\ TypeInv' /\ StopChainInv /\ CleanInv /\ pc = "validate"
      /\ (Exact /\ RightWhenCurrent) \/ Lagging
      /\ currentEpoch = clock
  BY TypeValidate DEF StopInv, ValidateDBIntegrity, DownInv
<1>2. CASE blocks = {}
  <2>1. /\ cursor' = 0 /\ pc' = "idle" /\ work' = NoWork
        /\ UNCHANGED <<blocks, row, etaV, currentEpoch, blockCount, chain, phase, clock>>
    <3>1. LastBlocks(Lookback) = {}
      BY <1>2 DEF LastBlocks
    <3> QED BY <1>2, <3>1 DEF ValidateDBIntegrity, Finish, db, tracker
  <2>2. Exact /\ RightWhenCurrent
    BY <1>1, <1>2 DEF Lagging
  <2>3. StopChainInv'
    BY <1>1, <1>2, <2>1 DEF StopChainInv, BlocksOf, Rewinding
  <2>4. EnteredInv'
    <3>1. EpochAt(0) = 0 /\ clock >= 0
      BY <1>1, EpochIsInt DEF EpochAt, TypeInv, TypeOK
    <3> QED BY <1>1, <2>1, <3>1 DEF EnteredInv, EpochInv, EpochAt
  <2>5. ReadyInv'
    <3>1. Exact' /\ RightWhenCurrent'
      BY <2>1, <2>2 DEF Exact, RightWhenCurrent, Current, UpTo
    <3>2. etaV' = ChainNonce(blocks')
      BY <1>2, <2>1, <2>2, ChainNonceEmpty DEF RightWhenCurrent
    <3> QED BY <3>1, <3>2 DEF ReadyInv
  <2>6. CleanInv'
    BY <1>1, <2>1, SeedsClean DEF CleanInv, NoWork
  <2> QED BY <1>1, <2>1, <2>3, <2>4, <2>5, <2>6
       DEF StopInv, ProcessInv, StopStoredInv, RewindInv, Rewinding, ReachedInv, DownInv
<1>3. CASE blocks # {}
  <2> DEFINE L == EpochAt(LastSlot(blocks))
  <2>1. /\ phase' = "sync" /\ cursor' = ResumeSlot
        /\ UNCHANGED <<blocks, etaV, currentEpoch, blockCount, chain, clock>>
        /\ \A e \in Epoch : /\ row'[e].count = row[e].count
                            /\ row'[e].evolving = row[e].evolving
        /\ IF NonceStale THEN RecomputeCurrentEpochNonce(L) ELSE Finish
    BY <1>3, Checked
  <2>2. /\ blocks \in SUBSET Block /\ L \in Epoch /\ L \in Int
        /\ currentEpoch \in Epoch /\ currentEpoch \in Int
    BY <1>1, <1>3, StopLastEpochOf, EpochIsInt DEF TypeInv, TypeOK
  <2>3. /\ \E b \in blocks : EpochOf[b.slot] = L
        /\ \A c \in blocks : EpochOf[c.slot] <= L
    BY <1>1, <1>3, StopLastEpochOf
  <2>4. EpochAt(ResumeSlot) <= L /\ L <= currentEpoch
    <3>1. PICK c \in blocks : c.slot = ResumeSlot
      BY <1>1, <1>3, ResumesBehind DEF StopChainInv
    <3>2. EpochAt(ResumeSlot) = EpochOf[c.slot]
      BY <2>2, <3>1, BlockSlot DEF EpochAt
    <3> QED BY <1>1, <2>3, <3>2 DEF StopChainInv
  <2> HIDE DEF L
  <2>5. StopChainInv'
    BY <1>1, <1>3, <2>1 DEF StopChainInv, BlocksOf
  <2>6. EnteredInv'
    <3>1. EpochAt(ResumeSlot) \in Int
      BY <1>1, ResumeSlotType, EpochAssumption, EpochIsInt DEF EpochAt, Epoch
    <3>2. EpochAt(cursor)' = EpochAt(ResumeSlot)
      BY <2>1 DEF EpochAt
    <3> QED BY <2>1, <2>2, <2>4, <3>1, <3>2 DEF EnteredInv, EpochInv
  <2>7. /\ CleanInv'
        /\ RowsOf(row, blocks, Epoch \ {L}) => RowsOf(row', blocks, Epoch \ {L})
        /\ RowsOf(row, blocks, Epoch) => RowsOf(row', blocks, Epoch)
    <3>1. work' = NoWork \/ work' = [NoWork EXCEPT !.epoch = L, !.through = L]
      BY <2>1 DEF Finish, RecomputeCurrentEpochNonce
    <3>2. work'.eta = GenesisNonce /\ work'.candidate = NoNonce
      <4>1. CASE work' = NoWork
        BY <4>1 DEF NoWork
      <4>2. CASE work' = [NoWork EXCEPT !.epoch = L, !.through = L]
        BY <4>2 DEF NoWork
      <4> QED BY <3>1, <4>1, <4>2
    <3> QED BY <1>1, <2>1, <3>2, SeedsClean DEF CleanInv, RowsOf
  <2>8. CASE NonceStale
    <3>1. /\ pc' = "restore"
          /\ work' = [NoWork EXCEPT !.epoch = L, !.through = L]
      BY <2>1, <2>8 DEF RecomputeCurrentEpochNonce
    <3>2. work'.epoch = L /\ work'.through = L
      BY <3>1 DEF NoWork
    <3>3. RowsOf(row, blocks, Epoch \ {L})
      BY <1>1, LaggingStale DEF Exact, RowsOf, L
    <3>4. RowsOf(row', blocks', {e \in Epoch : e < Lo' \/ e > work'.through})
      <4>1. Lo' = L
        BY <3>1, <3>2 DEF Lo
      <4>2. {e \in Epoch : e < L \/ e > L} \subseteq Epoch \ {L}
        BY <2>2
      <4> QED BY <2>1, <2>7, <3>2, <3>3, <4>1, <4>2 DEF RowsOf
    <3>5. \A e \in Epoch : e < L => BlocksOf(e)' # {}
      BY <1>1, <2>1, <2>3 DEF StopChainInv, BlocksOf
    <3>6. EpochAt(cursor)' <= L
      BY <2>1, <2>4 DEF EpochAt
    <3>7. RewindInv'
      BY <2>1, <2>3, <3>1, <3>2, <3>4, <3>5, <3>6 DEF RewindInv
    <3> QED BY <1>1, <2>5, <2>6, <2>7, <3>1, <3>7
         DEF StopInv, ReadyInv, Idle, ProcessInv, StopStoredInv, ReachedInv, DownInv
  <2>9. CASE ~NonceStale
    <3>1. pc' = "idle" /\ work' = NoWork
      BY <2>1, <2>9 DEF Finish
    <3>2. Exact /\ RightWhenCurrent
      BY <1>1, <2>9, LaggingStale
    <3>3. Exact' /\ RightWhenCurrent'
      BY <2>1, <2>2, <2>7, <3>2 DEF Exact, RightWhenCurrent, Current, UpTo
    <3>4. (\A b \in blocks : b.slot <= ResumeSlot) =>
            (etaV = ChainNonce(blocks) \/ (Cardinality(blocks) = 1 /\ ~Current))
      BY <1>1, <1>3, <3>2, ResumesReady DEF StopChainInv
    <3>5. ReadyInv'
      BY <2>1, <3>3, <3>4 DEF ReadyInv, Current
    <3> QED BY <1>1, <2>5, <2>6, <2>7, <3>1, <3>5
         DEF StopInv, ProcessInv, StopStoredInv, RewindInv, Rewinding, ReachedInv, DownInv
  <2> QED BY <2>8, <2>9
<1> QED BY <1>2, <1>3

LEMMA StopStep == OnlyStops /\ StopInv /\ [Next]_vars => StopInv'
<1> SUFFICES ASSUME OnlyStops, StopInv, [Next]_vars PROVE StopInv'
  OBVIOUS
<1>1. CASE \E b \in Block : BlockArrives(b)
  BY <1>1, StopBlockArrives
<1>2. CASE FreezeCandidate
  BY <1>2, StopFreezeCandidate
<1>3. CASE EvolveNonce
  BY <1>3, StopEvolveNonce
<1>4. CASE \E p \in Slot : RollbackArrives(p)
  BY <1>4, StopRollbackArrives
<1>5. CASE GoLive
  BY <1>5, StopGoLive
<1>6. CASE RestoreEvolving
  BY <1>6, StopRestoreEvolving
<1>7. CASE RestoreCandidate
  BY <1>7, StopRestoreCandidate
<1>8. CASE ResetEvolving
  BY <1>8, StopResetEvolving
<1>9. CASE ResetCandidate
  BY <1>9, StopResetCandidate
<1>10. CASE \E e \in FinalEpochs : CacheFinalNonce(e)
  BY <1>10, StopCacheFinalNonce
<1>11. CASE Crash
  BY <1>11, StopCrash
<1>12. CASE Restart
  BY <1>12, StopRestart
<1>13. CASE ValidateDBIntegrity
  BY <1>13, StopValidate
<1>14. CASE UNCHANGED vars
  <2>1. /\ TypeInv' /\ StopChainInv' /\ EnteredInv' /\ ProcessInv' /\ StopStoredInv'
        /\ RewindInv' /\ ReachedInv' /\ CleanInv'
    BY <1>14 DEF vars, db, tracker, stream, StopInv, TypeInv, TypeOK, StopChainInv, BlocksOf,
       Rewinding, EnteredInv, EpochInv, EpochAt, ProcessInv, Settled, StopStoredInv, RewindInv,
       Lo, ReachedInv, CleanInv
  <2>2. ReadyInv' /\ DownInv'
    BY <1>14 DEF vars, db, tracker, stream, StopInv, ReadyInv, Idle, DownInv, Exact, Lagging,
       RightWhenCurrent, Current, UpTo
  <2> QED BY <2>1, <2>2 DEF StopInv
<1> QED
  BY <1>1, <1>2, <1>3, <1>4, <1>5, <1>6, <1>7, <1>8, <1>9, <1>10, <1>11, <1>12, <1>13, <1>14
  DEF Next

----------------------------------------------------------------------------
(* What the invariant gives.                                               *)

LEMMA StopMemory == StopInv => MemoryFollowsStore
BY DEF StopInv, ReadyInv, RightWhenCurrent, MemoryFollowsStore

LEMMA StopRows == StopInv => RowsFollowStore
BY DEF StopInv, ReadyInv, Exact, RowsOf, RowsFollowStore, BlocksOf, UpTo

LEMMA StopTwice == StopInv => NoBlockTwice
BY DEF StopInv, CleanInv, Clean, NoBlockTwice

LEMMA StopForks == StopInv => NoForkedContribution
<1> SUFFICES ASSUME StopInv, Idle, Current PROVE Hashed(etaV) \subseteq chain
  BY DEF NoForkedContribution
<1>1. etaV = ChainNonce(UpTo(currentEpoch)) /\ blocks = chain
  BY DEF StopInv, ReadyInv, RightWhenCurrent, StopChainInv
<1>2. UpTo(currentEpoch) \subseteq blocks /\ UpTo(currentEpoch) \in SUBSET Block
  BY DEF UpTo, Through, StopInv, TypeInv, TypeOK
<1> QED BY <1>1, <1>2, ChainNonceLinks

(* A tracker at rest over a table with blocks has no stale row.            *)
Fresh == Idle /\ blocks # {} => ~NonceStale

LEMMA StopFresh == OnlyStops /\ StopInv => Fresh
<1> SUFFICES ASSUME OnlyStops, StopInv, Idle, blocks # {} PROVE ~NonceStale
  BY DEF Fresh
<1> DEFINE L == EpochAt(LastSlot(blocks))
<1>1. /\ L \in Epoch /\ \E b \in blocks : EpochOf[b.slot] = L
      /\ Exact
  BY StopLastEpochOf DEF StopInv, ReadyInv, Idle
<1> HIDE DEF L
<1>2. InEpoch(blocks, L) # {} /\ UpTo(L) \in SUBSET Block
  BY <1>1 DEF InEpoch, UpTo, Through, StopInv, TypeInv, TypeOK
<1>3. /\ row[L].count = Cardinality(InEpoch(blocks, L))
      /\ row[L].evolving = ChainNonce(UpTo(L))
  BY <1>1, <1>2 DEF Exact, RowsOf, UpTo
<1>4. row[L].evolving # NoNonce
  BY <1>2, <1>3, ChainNonceType
<1>5. ~Fails("read")
  BY StopsOnly
<1> QED BY <1>3, <1>4, <1>5 DEF NonceStale, HasRow, BlocksOf, L

(* The tracker's and the table's state however often the process stops     *)
(* between InsertBlock and UpsertEvolvingNonce or during the start-up      *)
(* check, and whatever the node delivers again.                            *)
THEOREM StopInvariant ==
  ASSUME OnlyStops
  PROVE  Spec => []StopInv
<1>1. Init => StopInv
  BY StopInit
<1>2. StopInv /\ [Next]_vars => StopInv'
  BY StopStep
<1> QED BY <1>1, <1>2, PTL DEF Spec

(* After any number of stops and restarts the evolving nonce in memory is  *)
(* the one of the stored blocks, between two events (ProcessBlock,         *)
(* NewNonceTracker, RewindToSlot and RecomputeCurrentEpochNonce).          *)
THEOREM MemorySurvivesStops ==
  ASSUME OnlyStops
  PROVE  Spec => []MemoryFollowsStore
BY StopInvariant, StopMemory, PTL

(* So are the rows of epoch_nonces: the block a stop leaves uncounted is   *)
(* counted before the next one is processed.                               *)
THEOREM RowsSurviveStops ==
  ASSUME OnlyStops
  PROVE  Spec => []RowsFollowStore
BY StopInvariant, StopRows, PTL

(* No block is hashed twice into the evolving nonce: the node delivers the *)
(* last Overlap blocks again after a restart, and InsertBlock's duplicate  *)
(* check stops ProcessBlock before it hashes them (nonce.go:204).          *)
THEOREM NoBlockTwiceAlways ==
  ASSUME OnlyStops
  PROVE  Spec => []NoBlockTwice
BY StopInvariant, StopTwice, PTL

(* No block the node has rolled back counts in the evolving nonce, stops   *)
(* between the rollback's steps excepted (RewindToSlot, nonce.go:386).     *)
THEOREM NoForkSurvivesStops ==
  ASSUME OnlyStops
  PROVE  Spec => []NoForkedContribution
BY StopInvariant, StopForks, PTL

(* The start-up check ends with a row that counts the stored blocks of the *)
(* last epoch (ValidateDBIntegrity, RecomputeCurrentEpochNonce).           *)
THEOREM CheckedOnStartAlways ==
  ASSUME OnlyStops
  PROVE  Spec => CheckedOnStart
<1>1. Spec => []Fresh
  BY StopInvariant, StopFresh, PTL
<1>2. Fresh' => [/\ pc = "validate" \/ (pc = "candidate" /\ phase = "sync")
                 /\ pc' = "idle" /\ blocks' # {}
                 => ~NonceStale' ]_vars
  BY DEF Fresh, Idle
<1> QED BY <1>1, <1>2, PTL DEF CheckedOnStart

=============================================================================
