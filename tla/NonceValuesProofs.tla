-------------------------- MODULE NonceValuesProofs --------------------------
(***************************************************************************)
(* Theorems about the nonce of an epoch: the nonce that is cached is the   *)
(* ledger's when no block was lost, the losses that the checks are made    *)
(* for are noticed, and the integrity check raises no false alarm.         *)
(*                                                                         *)
(* What the replay computes is proved by induction over the blocks it      *)
(* reads: FoldProofs has the induction, once for every operator, and is    *)
(* instantiated for the step of the replay.                                *)
(***************************************************************************)
EXTENDS EpochNonce, FiniteSetTheorems, TLAPS

ReplayFold == INSTANCE FoldProofs WITH op <- ReadBlock

----------------------------------------------------------------------------
(* The blocks of a set in slot order.                                      *)

LEMMA SlotNat == \A b \in Block : b.slot \in Slot /\ b.slot \in Nat
BY SlotAssumption DEF Block

(* The rank of a block: how many blocks of S come before it.               *)
LEMMA Ranks ==
  ASSUME NEW S \in SUBSET Block, IsFiniteSet(S)
  PROVE  /\ \A b \in S : Cardinality(Before(S, b)) \in 0..(Cardinality(S) - 1)
         /\ \A b, c \in S : b.slot < c.slot
              => Cardinality(Before(S, b)) < Cardinality(Before(S, c))
<1>1. \A T \in SUBSET S : IsFiniteSet(T) /\ Cardinality(T) \in Nat
  BY FS_Subset, FS_CardinalityType
<1>2. ASSUME NEW T \in SUBSET S, NEW U \in SUBSET S, T \subseteq U, T # U
      PROVE  Cardinality(T) < Cardinality(U)
  <2>1. T \in SUBSET U /\ IsFiniteSet(U)
    BY <1>1, <1>2
  <2>2. Cardinality(T) <= Cardinality(U) /\ Cardinality(T) # Cardinality(U)
    BY <1>2, <2>1, FS_Subset
  <2> QED BY <1>1, <2>2
<1>3. ASSUME NEW b \in S
      PROVE  Cardinality(Before(S, b)) \in 0..(Cardinality(S) - 1)
  <2>1. b \notin Before(S, b) /\ Before(S, b) \subseteq S
    BY SlotNat DEF Before
  <2>2. Cardinality(Before(S, b)) < Cardinality(S)
    BY <1>2, <2>1
  <2> QED BY <1>1, <2>1, <2>2
<1>4. ASSUME NEW b \in S, NEW c \in S, b.slot < c.slot
      PROVE  Cardinality(Before(S, b)) < Cardinality(Before(S, c))
  <2>1. b \notin Before(S, b) /\ b \in Before(S, c) /\ Before(S, b) \subseteq Before(S, c)
    BY <1>4, SlotNat DEF Before
  <2>2. Before(S, b) \in SUBSET S /\ Before(S, c) \in SUBSET S
    BY DEF Before
  <2> QED BY <1>2, <2>1, <2>2
<1> QED BY <1>3, <1>4

(* Every rank up to the number of blocks is taken by one of them.          *)
LEMMA RankTaken ==
  ASSUME NEW S \in SUBSET Block, IsFiniteSet(S), OnePerSlot(S)
  PROVE  \A i \in 1..Cardinality(S) : \E b \in S : Cardinality(Before(S, b)) = i - 1
<1>1. PICK n : n = Cardinality(S)
  OBVIOUS
<1>2. n \in Nat
  BY <1>1, FS_CardinalityType
<1> DEFINE rank == [b \in S |-> Cardinality(Before(S, b))]
<1>3. rank \in [S -> 0..(n - 1)]
  BY <1>1, Ranks
<1>4. \A b, c \in S : rank[b] = rank[c] => b = c
  <2>1. SUFFICES ASSUME NEW b \in S, NEW c \in S, rank[b] = rank[c] PROVE b = c
    OBVIOUS
  <2>2. rank[b] \in Int /\ rank[c] \in Int
    BY <1>3
  <2>3. ~ b.slot < c.slot /\ ~ c.slot < b.slot
    BY <2>1, <2>2, Ranks
  <2>4. b.slot = c.slot
    BY <2>3, SlotNat
  <2> QED BY <2>4 DEF OnePerSlot
<1>5. rank \in Injection(S, 0..(n - 1))
  BY <1>3, <1>4 DEF Injection, IsInjective
<1>6. IsFiniteSet(0..(n - 1)) /\ Cardinality(0..(n - 1)) = n
  BY <1>2, FS_Interval
<1>7. rank \in Surjection(S, 0..(n - 1))
  BY <1>1, <1>5, <1>6, FS_Injection
<1>8. ASSUME NEW i \in 1..n PROVE \E b \in S : Cardinality(Before(S, b)) = i - 1
  <2>1. i - 1 \in 0..(n - 1)
    BY <1>2
  <2> QED BY <1>7, <2>1 DEF Surjection
<1> QED BY <1>1, <1>8

(* InOrder lists the blocks of S, each once, in ascending slot order.      *)
LEMMA InOrderLists ==
  ASSUME NEW S \in SUBSET Block, IsFiniteSet(S), OnePerSlot(S)
  PROVE  /\ DOMAIN InOrder(S) = 1..Cardinality(S)
         /\ \A i \in 1..Cardinality(S) :
              InOrder(S)[i] \in S /\ Cardinality(Before(S, InOrder(S)[i])) = i - 1
         /\ \A b \in S : \E i \in 1..Cardinality(S) : InOrder(S)[i] = b
         /\ \A i, j \in 1..Cardinality(S) : i < j => InOrder(S)[i].slot < InOrder(S)[j].slot
<1>1. PICK n : n = Cardinality(S)
  OBVIOUS
<1>2. n \in Nat
  BY <1>1, FS_CardinalityType
<1>3. PICK q : q = InOrder(S)
  OBVIOUS
<1>4. q = [i \in 1..n |-> CHOOSE b \in S : Cardinality(Before(S, b)) = i - 1]
  BY <1>1, <1>3 DEF InOrder
<1>5. \A i \in 1..n : q[i] \in S /\ Cardinality(Before(S, q[i])) = i - 1
  BY <1>1, <1>4, RankTaken
<1>6. \A b, c \in S : Cardinality(Before(S, b)) = Cardinality(Before(S, c)) => b = c
  <2>1. SUFFICES ASSUME NEW b \in S, NEW c \in S,
                        Cardinality(Before(S, b)) = Cardinality(Before(S, c))
                 PROVE  b = c
    OBVIOUS
  <2>2. Cardinality(Before(S, b)) \in Int /\ Cardinality(Before(S, c)) \in Int
    BY <1>1, <1>2, Ranks
  <2>3. ~ b.slot < c.slot /\ ~ c.slot < b.slot
    BY <2>1, <2>2, Ranks
  <2>4. b.slot = c.slot
    BY <2>3, SlotNat
  <2> QED BY <2>4 DEF OnePerSlot
<1>7. \A b \in S : \E i \in 1..n : q[i] = b
  <2>1. SUFFICES ASSUME NEW b \in S PROVE \E i \in 1..n : q[i] = b
    OBVIOUS
  <2>2. PICK r : r = Cardinality(Before(S, b))
    OBVIOUS
  <2>3. r \in 0..(n - 1)
    BY <1>1, <2>2, Ranks
  <2>4. r + 1 \in 1..n /\ (r + 1) - 1 = r
    BY <1>2, <2>3
  <2>5. q[r + 1] \in S /\ Cardinality(Before(S, q[r + 1])) = r
    BY <1>5, <2>4
  <2> QED BY <1>6, <2>2, <2>4, <2>5
<1>8. \A i, j \in 1..n : i < j => q[i].slot < q[j].slot
  <2>1. SUFFICES ASSUME NEW i \in 1..n, NEW j \in 1..n, i < j, ~ q[i].slot < q[j].slot
                 PROVE  FALSE
    OBVIOUS
  <2>2. q[i] \in S /\ q[j] \in S /\ q[i].slot \in Nat /\ q[j].slot \in Nat
    BY <1>5, SlotNat
  <2>3. q[i].slot = q[j].slot \/ q[j].slot < q[i].slot
    BY <2>1, <2>2
  <2>4. q[i].slot = q[j].slot => q[i] = q[j]
    BY <2>2 DEF OnePerSlot
  <2>5. q[j].slot < q[i].slot => Cardinality(Before(S, q[j])) < Cardinality(Before(S, q[i]))
    BY <2>2, Ranks
  <2> QED BY <1>5, <2>1, <2>3, <2>4, <2>5
<1>9. DOMAIN q = 1..n
  BY <1>4
<1> QED BY <1>1, <1>3, <1>5, <1>7, <1>8, <1>9

(* A block after all others is appended.                                   *)
LEMMA InOrderAppends ==
  ASSUME NEW S \in SUBSET Block, IsFiniteSet(S), OnePerSlot(S),
         NEW b \in Block, \A c \in S : c.slot < b.slot
  PROVE  /\ Cardinality(S \cup {b}) = Cardinality(S) + 1
         /\ DOMAIN InOrder(S \cup {b}) = 1..(Cardinality(S) + 1)
         /\ \A i \in 1..Cardinality(S) : InOrder(S \cup {b})[i] = InOrder(S)[i]
         /\ InOrder(S \cup {b})[Cardinality(S) + 1] = b
<1>1. PICK n : n = Cardinality(S)
  OBVIOUS
<1>2. n \in Nat
  BY <1>1, FS_CardinalityType
<1>3. b \notin S
  BY SlotNat
<1>4. Cardinality(S \cup {b}) = n + 1
  BY <1>1, <1>3, FS_AddElement
<1>5. \A c \in S : Before(S \cup {b}, c) = Before(S, c)
  BY SlotNat DEF Before
<1>6. Before(S \cup {b}, b) = S
  BY SlotNat DEF Before
<1>7. \A c \in S : Cardinality(Before(S, c)) \in 0..(n - 1)
  BY <1>1, Ranks
<1>8. \A i \in 1..(n + 1) :
        InOrder(S \cup {b})[i] = CHOOSE c \in S \cup {b} : Cardinality(Before(S \cup {b}, c)) = i - 1
  BY <1>4 DEF InOrder
<1>9. \A i \in 1..n : InOrder(S)[i] = CHOOSE c \in S : Cardinality(Before(S, c)) = i - 1
  BY <1>1 DEF InOrder
<1>10. ASSUME NEW i \in 1..n PROVE InOrder(S \cup {b})[i] = InOrder(S)[i]
  <2>1. \A c : (c \in S \cup {b} /\ Cardinality(Before(S \cup {b}, c)) = i - 1)
                 <=> (c \in S /\ Cardinality(Before(S, c)) = i - 1)
    <3>1. n # i - 1
      BY <1>2
    <3>2. Cardinality(Before(S \cup {b}, b)) # i - 1
      BY <1>1, <1>6, <3>1
    <3> QED BY <1>5, <3>2
  <2>2. (CHOOSE c \in S \cup {b} : Cardinality(Before(S \cup {b}, c)) = i - 1)
          = CHOOSE c \in S : Cardinality(Before(S, c)) = i - 1
    BY <2>1
  <2>3. i \in 1..(n + 1)
    BY <1>2
  <2> QED BY <1>8, <1>9, <2>2, <2>3
<1>11. InOrder(S \cup {b})[n + 1] = b
  <2>1. n + 1 \in 1..(n + 1) /\ (n + 1) - 1 = n
    BY <1>2
  <2>2. \A c \in S \cup {b} : Cardinality(Before(S \cup {b}, c)) = n <=> c = b
    BY <1>1, <1>2, <1>5, <1>6, <1>7
  <2>3. (CHOOSE c \in S \cup {b} : Cardinality(Before(S \cup {b}, c)) = n) = b
    BY <2>2
  <2> QED BY <1>8, <2>1, <2>3
<1>12. DOMAIN InOrder(S \cup {b}) = 1..(n + 1)
  BY <1>4 DEF InOrder
<1> QED BY <1>1, <1>4, <1>10, <1>11, <1>12

----------------------------------------------------------------------------
(* Blocks by epoch.                                                        *)

(* The blocks of S that the candidate of epoch e is made of, and the nonce *)
(* of epoch e by the ledger's rule if S is the chain.                      *)
FrozenIn(S, e) ==
  {b \in Through(S, e) : \A c \in FirstStable(InEpoch(S, e)) : b.slot < c.slot}

NonceBy(S, e) == <<ChainNonce(FrozenIn(S, e - 1)), PrevHashOfLastBlock(S, e - 2)>>

LEMMA LedgerNonceIs == \A e : LedgerNonce(e) = NonceBy(chain, e)
BY DEF LedgerNonce, NonceBy, FrozenIn

LEMMA EpochTyped ==
  /\ \A b \in Block : EpochOf[b.slot] \in Epoch /\ EpochOf[b.slot] \in Nat
  /\ \A b, c \in Block : b.slot <= c.slot => EpochOf[b.slot] <= EpochOf[c.slot]
  /\ Epoch \subseteq Nat /\ 0 \in Epoch
BY EpochAssumption, SlotNat DEF Epoch

LEMMA NoneStable ==
  ASSUME NEW S \in SUBSET Block
  PROVE  FirstStable(S) = {} <=> \A b \in S : b.slot \notin Stable
<1>1. ASSUME NEW b \in S, b.slot \in Stable PROVE FirstStable(S) # {}
  <2> DEFINE T == {c.slot : c \in {d \in S : d.slot \in Stable}}
  <2>1. T \in SUBSET Nat /\ T # {}
    BY <1>1, SlotNat
  <2>2. PICK m \in T : \A y \in T : m <= y
    BY <2>1, ReplayFold!LeastNatural
  <2>3. PICK c \in S : c.slot \in Stable /\ c.slot = m
    OBVIOUS
  <2>4. c \in FirstStable(S)
    BY <2>2, <2>3 DEF FirstStable
  <2> QED BY <2>4
<1> QED BY <1>1 DEF FirstStable

(* A block after all others: what it leaves of the epochs as it was.       *)
LEMMA LaterBlock ==
  ASSUME NEW S \in SUBSET Block, NEW b \in Block, \A c \in S : c.slot < b.slot
  PROVE  /\ \A c \in S : EpochOf[c.slot] <= EpochOf[b.slot]
         /\ InEpoch(S \cup {b}, EpochOf[b.slot]) = InEpoch(S, EpochOf[b.slot]) \cup {b}
         /\ \A e : e # EpochOf[b.slot] => InEpoch(S \cup {b}, e) = InEpoch(S, e)
         /\ Through(S, EpochOf[b.slot]) = S
<1>1. \A c \in S : EpochOf[c.slot] <= EpochOf[b.slot]
  BY EpochTyped, SlotNat
<1> QED BY <1>1 DEF InEpoch, Through

LEMMA FrozenStays ==
  ASSUME NEW S \in SUBSET Block, NEW b \in Block, \A c \in S : c.slot < b.slot,
         NEW e \in Int,
         FirstStable(InEpoch(S, e)) # {} \/ e < EpochOf[b.slot]
  PROVE  /\ FirstStable(InEpoch(S \cup {b}, e)) = FirstStable(InEpoch(S, e))
         /\ FrozenIn(S \cup {b}, e) = FrozenIn(S, e)
<1>1. CASE e < EpochOf[b.slot]
  <2>1. EpochOf[b.slot] \in Nat /\ ~ EpochOf[b.slot] <= e /\ e # EpochOf[b.slot]
    BY <1>1, EpochTyped
  <2>2. InEpoch(S \cup {b}, e) = InEpoch(S, e)
    BY <2>1, LaterBlock
  <2>3. Through(S \cup {b}, e) = Through(S, e)
    BY <2>1 DEF Through
  <2> QED BY <2>2, <2>3 DEF FrozenIn
<1>2. CASE ~ e < EpochOf[b.slot]
  <2>1. PICK c : c \in FirstStable(InEpoch(S, e))
    BY <1>2
  <2>2. c \in S /\ EpochOf[c.slot] = e /\ c.slot \in Stable /\ c.slot < b.slot
    BY <2>1 DEF FirstStable, InEpoch
  <2>3. e = EpochOf[b.slot]
    <3>1. e <= EpochOf[b.slot]
      BY <2>2, LaterBlock
    <3>2. EpochOf[b.slot] \in Nat
      BY EpochTyped
    <3> QED BY <1>2, <3>1, <3>2
  <2>4. InEpoch(S \cup {b}, e) = InEpoch(S, e) \cup {b}
    BY <2>3, LaterBlock
  <2>5. \A d \in InEpoch(S, e) : d.slot \in Nat /\ d.slot < b.slot
    BY SlotNat DEF InEpoch
  <2>6. c \in InEpoch(S, e) /\ b.slot \in Nat
    BY <2>2, SlotNat DEF InEpoch
  <2>7. FirstStable(InEpoch(S, e) \cup {b}) = FirstStable(InEpoch(S, e))
    BY <2>2, <2>5, <2>6 DEF FirstStable
  <2>8. ~ b.slot < c.slot
    BY <2>5, <2>6
  <2>9. Through(S \cup {b}, e) = Through(S, e) \cup {b}
    BY <2>3, EpochTyped DEF Through
  <2> QED BY <2>1, <2>4, <2>7, <2>8, <2>9 DEF FrozenIn
<1> QED BY <1>1, <1>2

LEMMA FrozenNow ==
  ASSUME NEW S \in SUBSET Block, NEW b \in Block, \A c \in S : c.slot < b.slot,
         FirstStable(InEpoch(S, EpochOf[b.slot])) = {}, b.slot \in Stable
  PROVE  /\ FirstStable(InEpoch(S \cup {b}, EpochOf[b.slot])) = {b}
         /\ FrozenIn(S \cup {b}, EpochOf[b.slot]) = S
<1> DEFINE e == EpochOf[b.slot]
           T == InEpoch(S, e)
<1>1. T \in SUBSET Block /\ \A c \in T : c.slot \notin Stable
  <2>1. T \in SUBSET Block
    BY DEF InEpoch
  <2> QED BY <2>1, NoneStable
<1>2. InEpoch(S \cup {b}, e) = T \cup {b}
  BY LaterBlock
<1>3. FirstStable(T \cup {b}) = {b}
  BY <1>1, SlotNat DEF FirstStable
<1>4. Through(S \cup {b}, e) = S \cup {b}
  <2>1. \A c \in S : EpochOf[c.slot] <= e
    BY LaterBlock
  <2>2. e <= e
    BY EpochTyped
  <2> HIDE DEF e
  <2>3. \A c \in S \cup {b} : EpochOf[c.slot] <= e
    BY <2>1, <2>2 DEF e
  <2> QED BY <2>3 DEF Through
<1>5. ~ b.slot < b.slot
  BY SlotNat
<1> QED BY <1>2, <1>3, <1>4, <1>5 DEF FrozenIn

LEMMA NotFrozenYet ==
  ASSUME NEW S \in SUBSET Block, NEW b \in Block, \A c \in S : c.slot < b.slot,
         NEW e, FirstStable(InEpoch(S, e)) = {}, e # EpochOf[b.slot] \/ b.slot \notin Stable
  PROVE  FirstStable(InEpoch(S \cup {b}, e)) = {}
<1>1. InEpoch(S, e) \in SUBSET Block /\ InEpoch(S \cup {b}, e) \in SUBSET Block
  BY DEF InEpoch
<1>2. \A c \in InEpoch(S, e) : c.slot \notin Stable
  BY <1>1, NoneStable
<1>3. \A c \in InEpoch(S \cup {b}, e) : c.slot \notin Stable
  BY <1>2 DEF InEpoch
<1> QED BY <1>1, <1>3, NoneStable

(* Without a block past the window the candidate is made of all blocks.    *)
LEMMA NothingFrozen ==
  ASSUME NEW S, NEW e, FirstStable(InEpoch(S, e)) = {}
  PROVE  FrozenIn(S, e) = Through(S, e)
BY DEF FrozenIn

(* From here on the nonce of epoch e does not change any more: epoch e has *)
(* begun, or the candidate of the epoch before is frozen.                  *)
Settled(S, e) ==
  \E c \in S : EpochOf[c.slot] >= e \/ (EpochOf[c.slot] = e - 1 /\ c.slot \in Stable)

LEMMA NonceStays ==
  ASSUME NEW S \in SUBSET Block, NEW b \in Block, \A c \in S : c.slot < b.slot,
         NEW e \in Int, Settled(S, e)
  PROVE  NonceBy(S \cup {b}, e) = NonceBy(S, e) /\ Settled(S \cup {b}, e)
<1>1. PICK c \in S : EpochOf[c.slot] >= e \/ (EpochOf[c.slot] = e - 1 /\ c.slot \in Stable)
  BY DEF Settled
<1>2. /\ EpochOf[c.slot] \in Nat /\ EpochOf[b.slot] \in Nat
      /\ EpochOf[c.slot] <= EpochOf[b.slot]
  BY EpochTyped, LaterBlock
<1>3. FirstStable(InEpoch(S, e - 1)) # {} \/ e - 1 < EpochOf[b.slot]
  <2>1. CASE EpochOf[c.slot] = e - 1 /\ c.slot \in Stable
    <3>1. c \in InEpoch(S, e - 1) /\ InEpoch(S, e - 1) \in SUBSET Block
      BY <2>1 DEF InEpoch
    <3> QED BY <2>1, <3>1, NoneStable
  <2>2. CASE EpochOf[c.slot] >= e
    BY <1>2, <2>2
  <2> QED BY <1>1, <2>1, <2>2
<1>4. FrozenIn(S \cup {b}, e - 1) = FrozenIn(S, e - 1)
  <2>1. e - 1 \in Int
    OBVIOUS
  <2> QED BY <1>3, <2>1, FrozenStays
<1>5. InEpoch(S \cup {b}, e - 2) = InEpoch(S, e - 2)
  <2>1. e - 2 # EpochOf[b.slot]
    BY <1>1, <1>2
  <2> QED BY <2>1, LaterBlock
<1>6. PrevHashOfLastBlock(S \cup {b}, e - 2) = PrevHashOfLastBlock(S, e - 2)
  BY <1>5 DEF PrevHashOfLastBlock
<1>7. Settled(S \cup {b}, e)
  BY <1>1 DEF Settled
<1> QED BY <1>4, <1>6, <1>7 DEF NonceBy

(* A chain's nonce is a nonce, of its blocks, and evolves block by block.  *)
LEMMA GenesisTyped == GenesisNonce \in Nonce
BY DEF GenesisNonce, Nonce

LEMMA ChainNonceTyped ==
  ASSUME NEW S \in SUBSET Block
  PROVE  ChainNonce(S) \in Nonce /\ Hashed(ChainNonce(S)) = S
<1>1. Hashed(GenesisNonce) = {}
  BY DEF Hashed, GenesisNonce
<1>2. ChainNonce(S) = [GenesisNonce EXCEPT !.links = @ \cup {<<b, {} \cup Before(S, b)>> : b \in S}]
  BY <1>1 DEF ChainNonce, EvolveAll
<1>3. ChainNonce(S).links = {<<b, Before(S, b)>> : b \in S}
  BY <1>2 DEF GenesisNonce
<1>4. \A b \in S : <<b, Before(S, b)>> \in Block \X SUBSET Block
  BY DEF Before
<1>5. ChainNonce(S) \in Nonce
  BY <1>2, <1>4, GenesisTyped DEF Nonce
<1>6. {l[1] : l \in {<<b, Before(S, b)>> : b \in S}} = S
  <2> DEFINE L == {<<b, Before(S, b)>> : b \in S}
  <2>1. ASSUME NEW l \in L PROVE l[1] \in S
    OBVIOUS
  <2>2. ASSUME NEW b \in S PROVE \E l \in L : l[1] = b
    <3>1. <<b, Before(S, b)>> \in L
      OBVIOUS
    <3> HIDE DEF L
    <3> QED BY <3>1
  <2> HIDE DEF L
  <2>3. {l[1] : l \in L} = S
    BY <2>1, <2>2
  <2> QED BY <2>3 DEF L
<1> QED BY <1>3, <1>5, <1>6 DEF Hashed

LEMMA ChainNonceEvolves ==
  ASSUME NEW S \in SUBSET Block, NEW b \in Block, \A c \in S : c.slot < b.slot
  PROVE  Evolve(ChainNonce(S), b) = ChainNonce(S \cup {b})
<1>1. Hashed(GenesisNonce) = {}
  BY DEF Hashed, GenesisNonce
<1>2. Hashed(ChainNonce(S)) = S
  BY ChainNonceTyped
<1> DEFINE link(c) == <<c, {} \cup Before(S \cup {b}, c)>>
<1>3. \A c \in S : Before(S \cup {b}, c) = Before(S, c)
  BY SlotNat DEF Before
<1>4. Before(S \cup {b}, b) = S
  BY SlotNat DEF Before
<1>5. ChainNonce(S) = [GenesisNonce EXCEPT !.links = @ \cup {link(c) : c \in S}]
  <2>1. {<<c, {} \cup Before(S, c)>> : c \in S} = {link(c) : c \in S}
    BY <1>3
  <2> QED BY <1>1, <2>1 DEF ChainNonce, EvolveAll
<1>6. ChainNonce(S \cup {b}) = [GenesisNonce EXCEPT !.links = @ \cup {link(c) : c \in S \cup {b}}]
  BY <1>1 DEF ChainNonce, EvolveAll
<1>7. link(b) = <<b, S>>
  BY <1>4
<1> HIDE DEF link
<1>8. {link(c) : c \in S \cup {b}} = {link(c) : c \in S} \cup {link(b)}
  OBVIOUS
<1> QED BY <1>2, <1>5, <1>6, <1>7, <1>8 DEF Evolve, GenesisNonce

(* The last block but one of a set, as PrevHashOfLastBlock has it.         *)
LEMMA LastButOne ==
  ASSUME NEW S \in SUBSET Block, IsFiniteSet(S), OnePerSlot(S), NEW e,
         NEW p \in InEpoch(S, e), \A c \in InEpoch(S, e) : c.slot <= p.slot,
         NEW h \in InEpoch(S, e) \ {p}, \A c \in InEpoch(S, e) \ {p} : c.slot <= h.slot
  PROVE  PrevHashOfLastBlock(S, e) = h
<1>1. PICK T : T = InEpoch(S, e)
  OBVIOUS
<1>2. T \in SUBSET Block /\ T \in SUBSET S
  BY <1>1 DEF InEpoch
<1>3. IsFiniteSet(T) /\ OnePerSlot(T)
  BY <1>2, FS_Subset DEF OnePerSlot
<1>4. PICK n, q : n = Cardinality(T) /\ q = InOrder(T)
  OBVIOUS
<1>5. n \in Nat
  BY <1>3, <1>4, FS_CardinalityType
<1>6. /\ DOMAIN q = 1..n
      /\ \A i \in 1..n : q[i] \in T
      /\ \A b \in T : \E i \in 1..n : q[i] = b
      /\ \A i, j \in 1..n : i < j => q[i].slot < q[j].slot
  BY <1>2, <1>3, <1>4, InOrderLists
<1>7. \A i \in 1..n : q[i].slot \in Nat
  BY <1>2, <1>6, SlotNat
<1>8. PICK j \in 1..n : q[j] = p
  BY <1>1, <1>6
<1>9. PICK i \in 1..n : q[i] = h
  BY <1>1, <1>6
<1>10. n \in 1..n
  BY <1>5, <1>8
<1>11. j = n
  <2>1. ASSUME j < n PROVE FALSE
    <3>1. q[j].slot < q[n].slot /\ q[n] \in T
      BY <1>6, <1>10, <2>1
    <3>2. q[n].slot <= q[j].slot
      BY <1>1, <1>8, <3>1
    <3> QED BY <1>7, <1>10, <3>1, <3>2
  <2> QED BY <1>5, <2>1
<1>12. i # n
  BY <1>8, <1>9, <1>11
<1>13. i = n - 1
  <2>1. ASSUME i < n - 1 PROVE FALSE
    <3>1. PICK k : k = n - 1
      OBVIOUS
    <3>2. k \in 1..n /\ i < k /\ k < n
      BY <1>5, <2>1, <3>1
    <3>3. q[i].slot < q[k].slot /\ q[k].slot < q[n].slot /\ q[k] \in T
      BY <1>6, <1>10, <3>2
    <3>4. q[k] # p
      BY <1>7, <1>8, <1>10, <1>11, <3>2, <3>3
    <3>5. q[k].slot <= q[i].slot
      BY <1>1, <1>9, <3>3, <3>4
    <3> QED BY <1>7, <3>2, <3>3, <3>5
  <2> QED BY <1>5, <1>12, <2>1
<1>14. Len(q) = n
  <2>1. q \in Seq(T)
    <3>1. q = [k \in 1..n |-> q[k]]
      BY <1>4 DEF InOrder
    <3>2. q \in [1..n -> T]
      BY <1>6, <3>1
    <3> QED BY <1>5, <3>2
  <2> QED BY <1>5, <1>6, <2>1
<1>15. n >= 2
  BY <1>5, <1>13
<1>16. PrevHashOfLastBlock(S, e) = IF Len(q) < 2 THEN NoBlock ELSE q[Len(q) - 1]
  BY <1>1, <1>4 DEF PrevHashOfLastBlock
<1> QED BY <1>5, <1>9, <1>13, <1>14, <1>15, <1>16

LEMMA NoPrevHash ==
  ASSUME NEW S, NEW e, InEpoch(S, e) = {}
  PROVE  PrevHashOfLastBlock(S, e) = NoBlock
<1>1. Cardinality({}) = 0 /\ 1..0 = {}
  BY FS_EmptySet
<1>2. InOrder({}) = [i \in 1..0 |-> CHOOSE b \in {} : Cardinality(Before({}, b)) = i - 1]
  BY <1>1 DEF InOrder
<1>3. InOrder({}) = << >>
  BY <1>1, <1>2
<1>4. Len(InOrder({})) = 0
  BY <1>3
<1> QED BY <1>4 DEF PrevHashOfLastBlock

----------------------------------------------------------------------------
(* The replay.                                                             *)

LEMMA ReplayStarts == Replay({}) = Start
<1>1. Replay({}) = ReplayFold!Fold(Start, InOrder({}))
  BY DEF Replay, FoldLeft, MapThenFoldSet, Max,
         ReplayFold!Fold, ReplayFold!FoldLeft, ReplayFold!MapThenFoldSet, ReplayFold!Max
<1>2. DOMAIN InOrder({}) = {}
  <2>1. Cardinality({}) = 0 /\ 1..0 = {}
    BY FS_EmptySet
  <2> QED BY <2>1 DEF InOrder
<1> QED BY <1>1, <1>2, ReplayFold!FoldEmpty

LEMMA ReplayContinues ==
  ASSUME NEW S \in SUBSET Block, IsFiniteSet(S), OnePerSlot(S),
         NEW b \in Block, \A c \in S : c.slot < b.slot
  PROVE  Replay(S \cup {b}) = ReadBlock(Replay(S), b)
<1>1. PICK n, m : n = Cardinality(S) /\ m = n + 1
  OBVIOUS
<1>2. n \in Nat /\ m \in Nat
  BY <1>1, FS_CardinalityType
<1>3. PICK p, q : p = InOrder(S) /\ q = InOrder(S \cup {b})
  OBVIOUS
<1>4. DOMAIN p = 1..n /\ DOMAIN q = 1..m /\ (\A i \in 1..n : p[i] = q[i]) /\ q[m] = b
  BY <1>1, <1>3, InOrderLists, InOrderAppends
<1>5. Replay(S) = ReplayFold!Fold(Start, p) /\ Replay(S \cup {b}) = ReplayFold!Fold(Start, q)
  BY <1>3 DEF Replay, FoldLeft, MapThenFoldSet, Max,
         ReplayFold!Fold, ReplayFold!FoldLeft, ReplayFold!MapThenFoldSet, ReplayFold!Max
<1>6. ReplayFold!Fold(Start, q) = ReadBlock(ReplayFold!Fold(Start, p), q[m])
  BY <1>1, <1>2, <1>4, ReplayFold!FoldOneMore
<1> QED BY <1>4, <1>5, <1>6

(* What the replay of a chain S without gaps has read and computed: st is  *)
(* in the epoch of the last block, its nonce and candidate are the chain's *)
(* and every epoch up to that one was entered with the ledger's nonce.     *)
ReplayState ==
  [etaV : Nonce, etaC : Nonce, frozen : BOOLEAN, epoch : Nat, prev : Block \cup {NoBlock},
   lab : Block \cup {NoBlock}, last : Block \cup {NoBlock},
   entered : Seq([epoch : Nat, after : Nat, nonce : Nonce \X (Block \cup {NoBlock})])]

ReadSoFar(st, S) ==
  IF S = {} THEN st.prev = NoBlock /\ st.lab = NoBlock /\ st.epoch = 0
  ELSE /\ st.prev \in S /\ \A b \in S : b.slot <= st.prev.slot
       /\ st.epoch = EpochOf[st.prev.slot]
       /\ IF S = {st.prev} THEN st.lab = NoBlock
          ELSE st.lab \in S \ {st.prev} /\ \A b \in S \ {st.prev} : b.slot <= st.lab.slot

CandidateRight(st, S) ==
  /\ st.etaV = ChainNonce(S)
  /\ st.frozen <=> FirstStable(InEpoch(S, st.epoch)) # {}
  /\ st.frozen => st.etaC = ChainNonce(FrozenIn(S, st.epoch))

EnteredRight(st, S) ==
  /\ st.last = PrevHashOfLastBlock(S, st.epoch - 1)
  /\ Len(st.entered) = st.epoch
  /\ \A i \in 1..st.epoch :
       st.entered[i] = [epoch |-> i, after |-> i, nonce |-> NonceBy(S, i)]

Right(st, S) ==
  st \in ReplayState /\ ReadSoFar(st, S) /\ CandidateRight(st, S) /\ EnteredRight(st, S)

(* Every epoch before the one of a block has two blocks: the last but one  *)
(* is defined.                                                             *)
Contiguous(S) ==
  \A b \in S : \A e \in Epoch : e < EpochOf[b.slot] => Cardinality(InEpoch(S, e)) >= 2

LEMMA PrevHashTyped ==
  ASSUME NEW S \in SUBSET Block, IsFiniteSet(S), OnePerSlot(S), NEW e
  PROVE  PrevHashOfLastBlock(S, e) \in Block \cup {NoBlock}
<1>1. PICK T : T = InEpoch(S, e)
  OBVIOUS
<1>2. T \in SUBSET Block /\ T \in SUBSET S
  BY <1>1 DEF InEpoch
<1>3. IsFiniteSet(T) /\ OnePerSlot(T)
  BY <1>2, FS_Subset DEF OnePerSlot
<1>4. PICK n, q : n = Cardinality(T) /\ q = InOrder(T)
  OBVIOUS
<1>5. n \in Nat /\ DOMAIN q = 1..n /\ \A i \in 1..n : q[i] \in T
  BY <1>2, <1>3, <1>4, FS_CardinalityType, InOrderLists
<1>6. q = [i \in 1..n |-> q[i]]
  BY <1>4 DEF InOrder
<1>7. q \in [1..n -> T]
  BY <1>5, <1>6
<1>8. Len(q) = n
  BY <1>5, <1>7
<1>9. n >= 2 => q[n - 1] \in T
  BY <1>5
<1>10. PrevHashOfLastBlock(S, e) = IF Len(q) < 2 THEN NoBlock ELSE q[Len(q) - 1]
  BY <1>1, <1>4 DEF PrevHashOfLastBlock
<1> QED BY <1>2, <1>5, <1>8, <1>9, <1>10

LEMMA NonceByTyped ==
  ASSUME NEW S \in SUBSET Block, IsFiniteSet(S), OnePerSlot(S), NEW e
  PROVE  NonceBy(S, e) \in Nonce \X (Block \cup {NoBlock})
<1>1. FrozenIn(S, e - 1) \in SUBSET Block
  BY DEF FrozenIn, Through
<1> QED BY <1>1, ChainNonceTyped, PrevHashTyped DEF NonceBy

LEMMA StartRight == Right(Start, {})
<1>1. ChainNonce({}) = GenesisNonce
  BY DEF ChainNonce, EvolveAll, GenesisNonce
<1>2. \A e : InEpoch({}, e) = {} /\ FirstStable(InEpoch({}, e)) = {}
  BY DEF InEpoch, FirstStable
<1>3. PrevHashOfLastBlock({}, 0 - 1) = NoBlock
  BY <1>2, NoPrevHash
<1>4. Start \in ReplayState
  BY GenesisTyped DEF Start, ReplayState
<1>5. ReadSoFar(Start, {})
  BY DEF ReadSoFar, Start
<1>6. CandidateRight(Start, {})
  BY <1>1, <1>2 DEF CandidateRight, Start
<1>7. EnteredRight(Start, {})
  BY <1>3 DEF EnteredRight, Start
<1> QED BY <1>4, <1>5, <1>6, <1>7 DEF Right

LEMMA NoncePast ==
  ASSUME NEW S \in SUBSET Block, NEW b \in Block, \A c \in S : c.slot < b.slot,
         NEW e \in Int, e <= EpochOf[b.slot]
  PROVE  /\ NonceBy(S \cup {b}, e) = NonceBy(S, e)
         /\ PrevHashOfLastBlock(S \cup {b}, e - 1) = PrevHashOfLastBlock(S, e - 1)
<1>1. EpochOf[b.slot] \in Nat
  BY EpochTyped
<1>2. e - 1 \in Int /\ e - 1 < EpochOf[b.slot]
  BY <1>1
<1>3. FrozenIn(S \cup {b}, e - 1) = FrozenIn(S, e - 1)
  BY <1>2, FrozenStays
<1>4. e - 1 # EpochOf[b.slot] /\ e - 2 # EpochOf[b.slot]
  BY <1>1
<1>5. InEpoch(S \cup {b}, e - 1) = InEpoch(S, e - 1) /\ InEpoch(S \cup {b}, e - 2) = InEpoch(S, e - 2)
  BY <1>4, LaterBlock
<1> QED BY <1>3, <1>5 DEF NonceBy, PrevHashOfLastBlock

(* The next block is of the epoch the replay is in, or of the next one; in *)
(* that case lab is the hash of the ended epoch's last block but one.      *)
LEMMA EpochAdvances ==
  ASSUME NEW S \in SUBSET Block, IsFiniteSet(S), OnePerSlot(S),
         NEW b \in Block, \A c \in S : c.slot < b.slot,
         EpochOf[b.slot] > 0 => Cardinality(InEpoch(S, EpochOf[b.slot] - 1)) >= 2,
         NEW st, Right(st, S), EpochOf[b.slot] # st.epoch
  PROVE  /\ EpochOf[b.slot] = st.epoch + 1
         /\ SaveLab(st) = PrevHashOfLastBlock(S, st.epoch)
         /\ Through(S, st.epoch) = S
         /\ InEpoch(S, EpochOf[b.slot]) = {}
<1>1. PICK e : e = EpochOf[b.slot]
  OBVIOUS
<1>2. e \in Nat
  BY <1>1, EpochTyped
<1>3. ReadSoFar(st, S) /\ st.epoch \in Nat
  BY DEF Right, ReplayState
<1>4. PICK T : T = InEpoch(S, e - 1)
  OBVIOUS
<1>5. e > 0 => Cardinality(T) >= 2
  BY <1>1, <1>4
<1>6. T \in SUBSET S /\ IsFiniteSet(T)
  <2>1. T \in SUBSET S
    BY <1>4 DEF InEpoch
  <2> QED BY <2>1, FS_Subset
<1>7. S # {}
  <2>1. SUFFICES ASSUME S = {} PROVE FALSE
    OBVIOUS
  <2>2. st.epoch = 0
    BY <1>3, <2>1 DEF ReadSoFar
  <2>3. T = {} /\ e > 0
    BY <1>1, <1>2, <1>6, <2>1, <2>2
  <2>4. Cardinality(T) = 0
    BY <2>3, FS_EmptySet
  <2> QED BY <1>5, <2>3, <2>4
<1>8. PICK p : p = st.prev
  OBVIOUS
<1>9. p \in S /\ (\A c \in S : c.slot <= p.slot) /\ st.epoch = EpochOf[p.slot]
  BY <1>3, <1>7, <1>8 DEF ReadSoFar
<1>10. \A c \in S : EpochOf[c.slot] <= st.epoch /\ EpochOf[c.slot] \in Nat
  BY <1>9, EpochTyped
<1>11. st.epoch <= e
  BY <1>1, <1>9, LaterBlock
<1>12. e > 0
  BY <1>1, <1>2, <1>3, <1>11
<1>13. \E c \in T : c # p
  <2>1. SUFFICES ASSUME T \subseteq {p} PROVE FALSE
    OBVIOUS
  <2>2. IsFiniteSet({p}) /\ Cardinality({p}) = 1
    BY FS_Singleton
  <2>3. Cardinality(T) <= 1 /\ Cardinality(T) \in Nat
    BY <1>6, <2>1, <2>2, FS_Subset, FS_CardinalityType
  <2> QED BY <1>5, <1>12, <2>3
<1>14. PICK c \in T : c # p
  BY <1>13
<1>15. c \in S /\ EpochOf[c.slot] = e - 1
  BY <1>4 DEF InEpoch
<1>16. e = st.epoch + 1
  BY <1>1, <1>2, <1>3, <1>10, <1>11, <1>15
<1>17. p \in T
  <2>1. EpochOf[p.slot] = e - 1
    BY <1>3, <1>9, <1>16
  <2> QED BY <1>4, <1>9, <2>1 DEF InEpoch
<1>18. PICK l : l = st.lab
  OBVIOUS
<1>19. l \in S \ {p} /\ \A d \in S \ {p} : d.slot <= l.slot
  BY <1>3, <1>7, <1>8, <1>14, <1>15, <1>18 DEF ReadSoFar
<1>20. l \in T \ {p}
  <2>1. c.slot <= l.slot /\ l \in Block /\ c \in Block
    BY <1>14, <1>15, <1>19
  <2>2. EpochOf[c.slot] <= EpochOf[l.slot]
    BY <2>1, EpochTyped
  <2>3. EpochOf[l.slot] = e - 1
    <3>1. EpochOf[l.slot] <= st.epoch /\ EpochOf[l.slot] \in Nat
      BY <1>10, <1>19
    <3>2. e - 1 <= EpochOf[l.slot]
      BY <1>15, <2>2
    <3> QED BY <1>3, <1>16, <3>1, <3>2
  <2> QED BY <1>4, <1>19, <2>3 DEF InEpoch
<1>21. PrevHashOfLastBlock(S, e - 1) = l
  <2>1. \A d \in InEpoch(S, e - 1) : d.slot <= p.slot
    BY <1>4, <1>6, <1>9
  <2>2. \A d \in InEpoch(S, e - 1) \ {p} : d.slot <= l.slot
    BY <1>4, <1>6, <1>19
  <2> QED BY <1>4, <1>17, <1>20, <2>1, <2>2, LastButOne
<1>22. SaveLab(st) = l
  BY <1>18, <1>19, AbsentAssumption DEF SaveLab
<1>23. e - 1 = st.epoch
  BY <1>3, <1>16
<1>24. Through(S, st.epoch) = S
  BY <1>10 DEF Through
<1>25. InEpoch(S, e) = {}
  <2>1. \A d \in S : EpochOf[d.slot] # e
    BY <1>3, <1>10, <1>16
  <2> QED BY <2>1 DEF InEpoch
<1> QED BY <1>1, <1>16, <1>21, <1>22, <1>23, <1>24, <1>25

(* The epoch transition enters the epoch with the ledger's nonce.          *)
LEMMA TransitionRight ==
  ASSUME NEW S \in SUBSET Block, IsFiniteSet(S), OnePerSlot(S),
         NEW b \in Block, \A c \in S : c.slot < b.slot,
         EpochOf[b.slot] > 0 => Cardinality(InEpoch(S, EpochOf[b.slot] - 1)) >= 2,
         NEW st, Right(st, S), EpochOf[b.slot] # st.epoch
  PROVE  LET s1 == Transition(st, EpochOf[b.slot])
         IN  /\ s1 \in ReplayState /\ CandidateRight(s1, S) /\ EnteredRight(s1, S)
             /\ s1.epoch = EpochOf[b.slot] /\ s1.prev = st.prev /\ s1.lab = st.lab
<1>1. PICK e, s1 : e = EpochOf[b.slot] /\ s1 = Transition(st, e)
  OBVIOUS
<1>2. st \in ReplayState /\ CandidateRight(st, S) /\ EnteredRight(st, S)
  BY DEF Right
<1>3. /\ e = st.epoch + 1 /\ SaveLab(st) = PrevHashOfLastBlock(S, st.epoch)
      /\ Through(S, st.epoch) = S /\ InEpoch(S, e) = {}
  BY <1>1, EpochAdvances
<1>4. st.epoch \in Nat /\ e \in Nat /\ e - 1 = st.epoch /\ e - 2 = st.epoch - 1
  BY <1>2, <1>3 DEF ReplayState
<1>5. Candidate(st) = ChainNonce(FrozenIn(S, st.epoch))
  BY <1>2, <1>3, NothingFrozen DEF CandidateRight, Candidate
<1>6. PICK new : new = [epoch |-> e, after |-> st.epoch + 1, nonce |-> Combine(Candidate(st), st.last)]
  OBVIOUS
<1>7. new = [epoch |-> e, after |-> e, nonce |-> NonceBy(S, e)]
  BY <1>2, <1>3, <1>4, <1>5, <1>6 DEF Combine, NonceBy, EnteredRight
<1>8. s1 = [st EXCEPT !.entered = Append(@, new), !.last = SaveLab(st), !.epoch = e, !.frozen = FALSE]
  BY <1>1, <1>6 DEF Transition
<1>9. new \in [epoch : Nat, after : Nat, nonce : Nonce \X (Block \cup {NoBlock})]
  BY <1>4, <1>7, NonceByTyped
<1>10. SaveLab(st) \in Block \cup {NoBlock}
  BY <1>3, PrevHashTyped
<1>11. PICK old : old = st.entered
  OBVIOUS
<1>12. /\ old \in Seq([epoch : Nat, after : Nat, nonce : Nonce \X (Block \cup {NoBlock})])
       /\ Len(old) = st.epoch
       /\ \A i \in 1..st.epoch : old[i] = [epoch |-> i, after |-> i, nonce |-> NonceBy(S, i)]
  BY <1>2, <1>11 DEF ReplayState, EnteredRight
<1>13. /\ s1.entered = Append(old, new) /\ s1.last = SaveLab(st) /\ s1.epoch = e
       /\ s1.frozen = FALSE /\ s1.etaV = st.etaV /\ s1.prev = st.prev /\ s1.lab = st.lab
  BY <1>2, <1>8, <1>11 DEF ReplayState
<1>14. s1 \in ReplayState
  <2>1. Append(old, new) \in Seq([epoch : Nat, after : Nat, nonce : Nonce \X (Block \cup {NoBlock})])
    BY <1>9, <1>12
  <2> QED BY <1>2, <1>4, <1>8, <1>10, <1>11, <2>1 DEF ReplayState
<1>15. CandidateRight(s1, S)
  <2>1. FirstStable(InEpoch(S, e)) = {}
    BY <1>3 DEF FirstStable
  <2> QED BY <1>2, <1>13, <2>1 DEF CandidateRight
<1>16. EnteredRight(s1, S)
  <2>1. s1.last = PrevHashOfLastBlock(S, e - 1)
    BY <1>3, <1>4, <1>13
  <2>2. Len(s1.entered) = e
    BY <1>3, <1>4, <1>9, <1>12, <1>13
  <2>3. ASSUME NEW i \in 1..e
        PROVE  s1.entered[i] = [epoch |-> i, after |-> i, nonce |-> NonceBy(S, i)]
    <3>1. CASE i = e
      <4>1. Append(old, new)[Len(old) + 1] = new
        <5>1. PICK R : R = [epoch : Nat, after : Nat, nonce : Nonce \X (Block \cup {NoBlock})]
          OBVIOUS
        <5>2. old \in Seq(R) /\ new \in R
          BY <1>9, <1>12, <5>1
        <5> QED BY <5>2
      <4> QED BY <1>3, <1>7, <1>12, <1>13, <3>1, <4>1
    <3>2. CASE i # e
      <4>1. i \in 1..st.epoch
        BY <1>3, <1>4, <3>2
      <4>2. Append(old, new)[i] = old[i]
        BY <1>12, <4>1
      <4> QED BY <1>12, <1>13, <4>1, <4>2
    <3> QED BY <3>1, <3>2
  <2> QED BY <1>13, <2>1, <2>2, <2>3 DEF EnteredRight
<1> QED BY <1>1, <1>13, <1>14, <1>15, <1>16

(* Reading the next block keeps the replay right.                          *)
LEMMA ReadRight ==
  ASSUME NEW S \in SUBSET Block, IsFiniteSet(S), OnePerSlot(S),
         NEW b \in Block, \A c \in S : c.slot < b.slot,
         EpochOf[b.slot] > 0 => Cardinality(InEpoch(S, EpochOf[b.slot] - 1)) >= 2,
         NEW st, Right(st, S)
  PROVE  Right(ReadBlock(st, b), S \cup {b})
<1>1. PICK e : e = EpochOf[b.slot]
  OBVIOUS
<1>2. PICK s1 : s1 = IF e = st.epoch THEN st ELSE Transition(st, e)
  OBVIOUS
<1>3. /\ s1 \in ReplayState /\ CandidateRight(s1, S) /\ EnteredRight(s1, S)
      /\ s1.epoch = e /\ s1.prev = st.prev /\ s1.lab = st.lab
  <2>1. CASE e = st.epoch
    BY <1>2, <2>1 DEF Right
  <2>2. CASE e # st.epoch
    BY <1>1, <1>2, <2>2, TransitionRight
  <2> QED BY <2>1, <2>2
<1>4. PICK s2 : s2 = Freeze(s1, b)
  OBVIOUS
<1>5. /\ s2 \in ReplayState /\ EnteredRight(s2, S) /\ s2.etaV = ChainNonce(S)
      /\ s2.epoch = e /\ s2.prev = st.prev /\ s2.lab = st.lab
  BY <1>3, <1>4 DEF Freeze, ReplayState, EnteredRight, CandidateRight
<1>6. /\ s2.frozen <=> FirstStable(InEpoch(S \cup {b}, e)) # {}
      /\ s2.frozen => s2.etaC = ChainNonce(FrozenIn(S \cup {b}, e))
  <2>1. /\ s1.frozen <=> FirstStable(InEpoch(S, e)) # {}
        /\ s1.frozen => s1.etaC = ChainNonce(FrozenIn(S, e))
        /\ s1.frozen \in BOOLEAN
    BY <1>3 DEF CandidateRight, ReplayState
  <2>2. CASE s1.frozen
    <3>1. s2 = s1
      BY <1>4, <2>2 DEF Freeze
    <3>2. e \in Int
      BY <1>1, EpochTyped
    <3> QED BY <2>1, <2>2, <3>1, <3>2, FrozenStays
  <2>3. CASE ~ s1.frozen /\ b.slot \in Stable
    <3>1. s2.frozen = TRUE /\ s2.etaC = ChainNonce(S)
      BY <1>3, <1>4, <2>3 DEF Freeze, CandidateRight, ReplayState
    <3> QED BY <1>1, <2>1, <2>3, <3>1, FrozenNow
  <2>4. CASE ~ s1.frozen /\ b.slot \notin Stable
    <3>1. s2 = s1
      BY <1>4, <2>4 DEF Freeze
    <3> QED BY <2>1, <2>4, <3>1, NotFrozenYet
  <2> QED BY <2>1, <2>2, <2>3, <2>4
<1>7. PICK s3 : s3 = ReadBlock(st, b)
  OBVIOUS
<1>8. s3 = [s2 EXCEPT !.lab = IF s2.prev = NoBlock THEN @ ELSE s2.prev,
                      !.etaV = Evolve(s2.etaV, b), !.prev = b]
  BY <1>1, <1>2, <1>4, <1>7 DEF ReadBlock
<1>9. Evolve(ChainNonce(S), b) = ChainNonce(S \cup {b}) /\ S \cup {b} \in SUBSET Block
  BY ChainNonceEvolves
<1>10. /\ s3.etaV = ChainNonce(S \cup {b}) /\ s3.prev = b /\ s3.epoch = e
       /\ s3.lab = IF st.prev = NoBlock THEN st.lab ELSE st.prev
       /\ s3.frozen = s2.frozen /\ s3.etaC = s2.etaC
       /\ s3.last = s2.last /\ s3.entered = s2.entered
  BY <1>5, <1>8, <1>9 DEF ReplayState
<1>11. s3 \in ReplayState
  <2>1. ChainNonce(S \cup {b}) \in Nonce
    BY <1>9, ChainNonceTyped
  <2>2. (IF s2.prev = NoBlock THEN s2.lab ELSE s2.prev) \in Block \cup {NoBlock}
    BY <1>5 DEF ReplayState
  <2> QED BY <1>5, <1>8, <1>9, <2>1, <2>2 DEF ReplayState
<1>12. ReadSoFar(s3, S \cup {b})
  <2>1. ReadSoFar(st, S)
    BY DEF Right
  <2>2. \A c \in S \cup {b} : c.slot <= b.slot
    BY SlotNat
  <2>3. b \notin S
    BY SlotNat
  <2>4. CASE S = {}
    <3>1. s3.lab = NoBlock /\ S \cup {b} = {b}
      BY <1>10, <2>1, <2>4 DEF ReadSoFar
    <3> QED BY <1>1, <1>10, <2>2, <3>1 DEF ReadSoFar
  <2>5. CASE S # {}
    <3>1. st.prev \in S /\ (\A c \in S : c.slot <= st.prev.slot) /\ st.prev # NoBlock
      BY <2>1, <2>5, AbsentAssumption DEF ReadSoFar
    <3>2. s3.lab = st.prev /\ (S \cup {b}) \ {b} = S /\ S \cup {b} # {b}
      BY <1>10, <2>3, <2>5, <3>1
    <3> QED BY <1>1, <1>10, <2>2, <3>1, <3>2 DEF ReadSoFar
  <2> QED BY <2>4, <2>5
<1>13. CandidateRight(s3, S \cup {b})
  BY <1>6, <1>10 DEF CandidateRight
<1>14. EnteredRight(s3, S \cup {b})
  <2>1. e \in Nat
    BY <1>1, EpochTyped
  <2>2. s2.last = PrevHashOfLastBlock(S \cup {b}, e - 1)
    <3>1. e <= EpochOf[b.slot] /\ e \in Int
      BY <1>1, <2>1
    <3> QED BY <1>5, <3>1, NoncePast DEF EnteredRight
  <2>3. \A i \in 1..e : NonceBy(S \cup {b}, i) = NonceBy(S, i)
    <3>1. \A i \in 1..e : i \in Int /\ i <= EpochOf[b.slot]
      BY <1>1, <2>1
    <3> QED BY <3>1, NoncePast
  <2> QED BY <1>5, <1>10, <2>2, <2>3 DEF EnteredRight
<1> QED BY <1>7, <1>11, <1>12, <1>13, <1>14 DEF Right

----------------------------------------------------------------------------
(* GetNonceForEpoch: the invariant.                                        *)

NonceType ==
  /\ chain \in SUBSET Block /\ IsFiniteSet(chain) /\ OnePerSlot(chain)
  /\ blocks \subseteq chain
  /\ final = [e \in Epoch |-> final[e]]

(* candidate_nonce is frozen before the first stored block past the        *)
(* window, from all blocks stored before it.                               *)
Candidates(S) ==
  [e \in Epoch |-> IF FirstStable(InEpoch(S, e)) = {} THEN NoNonce
                   ELSE ChainNonce(FrozenIn(S, e))]

(* Without a loss: what is cached is the ledger's nonce and will stay it.  *)
CachedRight ==
  \A e \in Epoch : final[e] # NoNonce => Settled(chain, e) /\ final[e] = NonceBy(chain, e)

NonceInv ==
  /\ NonceType /\ Contiguous(chain) /\ candidate = Candidates(blocks)
  /\ blocks = chain => Right(Replay(chain), chain) /\ CachedRight

LEMMA FrozenTyped ==
  ASSUME NEW S \in SUBSET Block, NEW e
  PROVE  FrozenIn(S, e) \in SUBSET Block /\ ChainNonce(FrozenIn(S, e)) \in Nonce
<1>1. FrozenIn(S, e) \in SUBSET Block
  BY DEF FrozenIn, Through
<1> QED BY <1>1, ChainNonceTyped

LEMMA CandidateIs ==
  ASSUME NEW S \in SUBSET Block, NEW e \in Epoch
  PROVE  /\ Candidates(S)[e] = NoNonce <=> FirstStable(InEpoch(S, e)) = {}
         /\ Candidates(S)[e] # NoNonce => Candidates(S)[e] = ChainNonce(FrozenIn(S, e))
<1>1. ChainNonce(FrozenIn(S, e)) # NoNonce
  BY FrozenTyped, AbsentAssumption
<1> QED BY <1>1 DEF Candidates

(* The tracker's freeze leaves the candidates of the stored blocks.        *)
LEMMA CandidatesKept ==
  ASSUME NEW S \in SUBSET Block, NEW b \in Block, \A c \in S : c.slot < b.slot
  PROVE  Candidates(S \cup {b}) =
           IF b.slot \in Stable /\ Candidates(S)[EpochOf[b.slot]] = NoNonce
           THEN [Candidates(S) EXCEPT ![EpochOf[b.slot]] = ChainNonce(S)]
           ELSE Candidates(S)
<1>1. PICK e : e = EpochOf[b.slot]
  OBVIOUS
<1>2. e \in Epoch
  BY <1>1, EpochTyped
<1>3. PICK old, new : old = Candidates(S) /\ new = Candidates(S \cup {b})
  OBVIOUS
<1>4. old = [x \in Epoch |-> old[x]] /\ new = [x \in Epoch |-> new[x]]
  BY <1>3 DEF Candidates
<1>5. ASSUME NEW x \in Epoch, FirstStable(InEpoch(S, x)) # {}
      PROVE  new[x] = old[x] /\ old[x] # NoNonce
  <2>1. x \in Int
    BY EpochTyped
  <2>2. /\ FirstStable(InEpoch(S \cup {b}, x)) = FirstStable(InEpoch(S, x))
        /\ FrozenIn(S \cup {b}, x) = FrozenIn(S, x)
    BY <1>5, <2>1, FrozenStays
  <2>3. old[x] # NoNonce
    BY <1>3, <1>5, CandidateIs
  <2> QED BY <1>3, <2>2, <2>3 DEF Candidates
<1>6. ASSUME NEW x \in Epoch, FirstStable(InEpoch(S, x)) = {}, x # e \/ b.slot \notin Stable
      PROVE  new[x] = old[x]
  <2>1. FirstStable(InEpoch(S \cup {b}, x)) = {}
    BY <1>1, <1>6, NotFrozenYet
  <2> QED BY <1>3, <1>6, <2>1 DEF Candidates
<1>7. ASSUME FirstStable(InEpoch(S, e)) = {}, b.slot \in Stable
      PROVE  new[e] = ChainNonce(S) /\ old[e] = NoNonce
  <2>1. FirstStable(InEpoch(S \cup {b}, e)) = {b} /\ FrozenIn(S \cup {b}, e) = S
    BY <1>1, <1>7, FrozenNow
  <2> QED BY <1>2, <1>3, <1>7, <2>1 DEF Candidates
<1>8. CASE b.slot \in Stable /\ old[e] = NoNonce
  <2>1. FirstStable(InEpoch(S, e)) = {}
    BY <1>2, <1>5, <1>8
  <2>2. \A x \in Epoch : x # e => new[x] = old[x]
    BY <1>5, <1>6
  <2>3. new = [old EXCEPT ![e] = ChainNonce(S)]
    BY <1>2, <1>4, <1>7, <1>8, <2>1, <2>2
  <2> QED BY <1>1, <1>3, <1>8, <2>3
<1>9. CASE ~ (b.slot \in Stable /\ old[e] = NoNonce)
  <2>1. \A x \in Epoch : new[x] = old[x]
    BY <1>5, <1>6, <1>7, <1>9
  <2>2. new = old
    BY <1>4, <2>1
  <2> QED BY <1>1, <1>3, <1>9, <2>2
<1> QED BY <1>8, <1>9

LEMMA StaysContiguous ==
  ASSUME NEW S \in SUBSET Block, IsFiniteSet(S), NEW b \in Block, Contiguous(S),
         EpochOf[b.slot] > 0 => Cardinality(InEpoch(S, EpochOf[b.slot] - 1)) >= 2
  PROVE  Contiguous(S \cup {b})
<1>1. PICK x : x = EpochOf[b.slot]
  OBVIOUS
<1>2. x \in Nat
  BY <1>1, EpochTyped
<1>3. ASSUME NEW e \in Epoch, Cardinality(InEpoch(S, e)) >= 2
      PROVE  Cardinality(InEpoch(S \cup {b}, e)) >= 2
  <2>1. PICK T, U : T = InEpoch(S, e) /\ U = InEpoch(S \cup {b}, e)
    OBVIOUS
  <2>2. T \subseteq U /\ U \subseteq S \cup {b}
    BY <2>1 DEF InEpoch
  <2>3. IsFiniteSet(U)
    BY <2>2, FS_AddElement, FS_Subset
  <2>4. Cardinality(T) <= Cardinality(U) /\ Cardinality(U) \in Nat /\ Cardinality(T) \in Nat
    BY <2>2, <2>3, FS_Subset, FS_CardinalityType
  <2> QED BY <1>3, <2>1, <2>4
<1>4. ASSUME NEW e \in Epoch, e < x PROVE Cardinality(InEpoch(S, e)) >= 2
  <2>1. e \in Nat
    BY EpochTyped
  <2>2. CASE e = x - 1
    BY <1>1, <1>2, <1>4, <2>1, <2>2
  <2>3. CASE e # x - 1
    <3>1. InEpoch(S, x - 1) # {}
      <4>1. Cardinality({}) = 0
        BY FS_EmptySet
      <4>2. x > 0
        BY <1>2, <1>4, <2>1
      <4>3. Cardinality(InEpoch(S, x - 1)) >= 2
        BY <1>1, <4>2
      <4>4. SUFFICES ASSUME InEpoch(S, x - 1) = {} PROVE FALSE
        OBVIOUS
      <4>5. 0 >= 2
        BY <4>1, <4>3, <4>4
      <4> QED BY <4>5
    <3>2. PICK d \in S : EpochOf[d.slot] = x - 1
      BY <3>1 DEF InEpoch
    <3>3. e < EpochOf[d.slot]
      BY <1>2, <1>4, <2>1, <2>3, <3>2
    <3> QED BY <3>2, <3>3 DEF Contiguous
  <2> QED BY <2>2, <2>3
<1> QED BY <1>1, <1>3, <1>4 DEF Contiguous

(* A replay over a chain that reaches beyond epoch e has the nonce of e.   *)
LEMMA ReplayHasNonce ==
  ASSUME NEW S \in SUBSET Block, Right(Replay(S), S), NEW e \in Epoch \ {0},
         NEW b \in S, EpochOf[b.slot] > e
  PROVE  ComputeEpochNonce(S, e) = NonceBy(S, e)
<1>1. PICK st : st = Replay(S)
  OBVIOUS
<1>2. Right(st, S) /\ st.epoch \in Nat
  BY <1>1 DEF Right, ReplayState
<1>3. PICK p : p = st.prev
  OBVIOUS
<1>4. p \in S /\ b.slot <= p.slot /\ st.epoch = EpochOf[p.slot]
  BY <1>2, <1>3 DEF Right, ReadSoFar
<1>5. EpochOf[b.slot] <= EpochOf[p.slot] /\ EpochOf[b.slot] \in Nat /\ e \in Nat
  BY <1>4, EpochTyped
<1>6. e \in 1..st.epoch
  BY <1>2, <1>4, <1>5
<1>7. PICK q : q = st.entered
  OBVIOUS
<1>8. /\ DOMAIN q = 1..st.epoch
      /\ \A i \in 1..st.epoch : q[i] = [epoch |-> i, after |-> i, nonce |-> NonceBy(S, i)]
  <2>1. PICK R : q \in Seq(R)
    BY <1>2, <1>7 DEF Right, ReplayState
  <2>2. Len(q) = st.epoch
    BY <1>2, <1>7 DEF Right, EnteredRight
  <2>3. DOMAIN q = 1..st.epoch
    BY <2>1, <2>2
  <2> QED BY <1>2, <1>7, <2>3 DEF Right, EnteredRight
<1>9. PICK at : at = {i \in DOMAIN q : q[i].epoch = e}
  OBVIOUS
<1>10. ASSUME NEW i \in 1..st.epoch PROVE q[i].epoch = i /\ q[i].nonce = NonceBy(S, i)
  <2>1. PICK n : n = NonceBy(S, i)
    OBVIOUS
  <2>2. q[i] = [epoch |-> i, after |-> i, nonce |-> n]
    BY <1>8, <2>1
  <2> QED BY <2>1, <2>2
<1>11. e \in at /\ \A i \in at : i = e
  BY <1>6, <1>8, <1>9, <1>10
<1>12. (CHOOSE i \in at : TRUE) = e
  BY <1>11
<1>13. q[CHOOSE i \in at : TRUE].nonce = NonceBy(S, e)
  BY <1>6, <1>10, <1>12
<1>14. ComputeEpochNonce(S, e) =
         IF at # {} THEN q[CHOOSE i \in at : TRUE].nonce ELSE Combine(Candidate(st), SaveLab(st))
  BY <1>1, <1>7, <1>9 DEF ComputeEpochNonce
<1> QED BY <1>11, <1>13, <1>14

(* The TICKN rule over the stored blocks is the ledger's rule over them.   *)
LEMMA TicknIs ==
  ASSUME NonceInv, NEW e \in Int, Tickn(e) # NoNonce
  PROVE  /\ e - 1 \in Epoch /\ FirstStable(InEpoch(blocks, e - 1)) # {}
         /\ Tickn(e) = NonceBy(blocks, e)
<1>1. blocks \in SUBSET Block /\ candidate = Candidates(blocks)
  BY DEF NonceInv, NonceType
<1>2. e - 1 \in Epoch /\ candidate[e - 1] # NoNonce
  BY DEF Tickn
<1>3. Tickn(e) = <<candidate[e - 1], PrevHashOfLastBlock(blocks, e - 2)>>
  BY <1>2 DEF Tickn, Combine
<1>4. /\ FirstStable(InEpoch(blocks, e - 1)) # {}
      /\ candidate[e - 1] = ChainNonce(FrozenIn(blocks, e - 1))
  <2>1. ASSUME NEW x \in Epoch, candidate[x] # NoNonce
        PROVE  /\ FirstStable(InEpoch(blocks, x)) # {}
               /\ candidate[x] = ChainNonce(FrozenIn(blocks, x))
    BY <1>1, <2>1, CandidateIs
  <2> QED BY <1>2, <2>1
<1> QED BY <1>2, <1>3, <1>4 DEF NonceBy

LEMMA KoiosIs ==
  ASSUME NEW e, KoiosNonce(e) # NoNonce
  PROVE  KoiosNonce(e) = NonceBy(chain, e) /\ \E b \in chain : EpochOf[b.slot] >= e
BY LedgerNonceIs DEF KoiosNonce

(* Without a loss each of the ways of GetNonceForEpoch has the ledger's    *)
(* nonce, and only once it is settled, whatever Koios answers.             *)
LEMMA ChainIsLedgers ==
  ASSUME NonceInv, blocks = chain, NEW e \in Epoch \ {0}, SyncedThrough(e)
  PROVE  Settled(chain, e) /\ ComputeEpochNonce(blocks, e) = NonceBy(chain, e)
<1>1. e \in Int /\ e > 0
  BY EpochTyped
<1>2. PICK b \in chain : EpochOf[b.slot] > e
  BY DEF SyncedThrough
<1>3. chain \in SUBSET Block /\ Right(Replay(chain), chain)
  BY DEF NonceInv, NonceType
<1>4. ComputeEpochNonce(chain, e) = NonceBy(chain, e)
  BY <1>2, <1>3, ReplayHasNonce
<1>5. EpochOf[b.slot] >= e
  BY <1>1, <1>2, <1>3, EpochTyped
<1> QED BY <1>2, <1>4, <1>5 DEF Settled

LEMMA CandidateIsLedgers ==
  ASSUME NonceInv, blocks = chain, NEW e \in Epoch \ {0}, Tickn(e) # NoNonce
  PROVE  Settled(chain, e) /\ Tickn(e) = NonceBy(chain, e)
<1>1. e \in Int /\ e > 0
  BY EpochTyped
<1>2. FirstStable(InEpoch(chain, e - 1)) # {} /\ Tickn(e) = NonceBy(chain, e)
  BY <1>1, TicknIs
<1>3. PICK c \in chain : EpochOf[c.slot] = e - 1 /\ c.slot \in Stable
  BY <1>2 DEF FirstStable, InEpoch
<1> QED BY <1>2, <1>3 DEF Settled

LEMMA CachesLedgers ==
  ASSUME NonceInv, blocks = chain, NEW e \in Epoch \ {0}, GetNonceForEpoch(e)
  PROVE  \E nonce : /\ Cache(e, nonce)
                    /\ Settled(chain, e) /\ nonce = NonceBy(chain, e)
<1>1. CASE FromChain(e)
  BY <1>1, ChainIsLedgers DEF FromChain
<1>2. ASSUME NEW counted, NEW answered, FromCandidate(e, counted, answered)
      PROVE  Cache(e, Tickn(e)) /\ Tickn(e) # NoNonce
  BY <1>2 DEF FromCandidate, Cache, TicknNonce
<1>3. CASE \E counted \in Counts(e - 1), answered \in BOOLEAN : FromCandidate(e, counted, answered)
  BY <1>2, <1>3, CandidateIsLedgers
<1>4. CASE FromKoios(e)
  <2>1. Cache(e, KoiosNonce(e)) /\ KoiosNonce(e) # NoNonce
    BY <1>4 DEF FromKoios, Cache
  <2>2. KoiosNonce(e) = NonceBy(chain, e) /\ \E b \in chain : EpochOf[b.slot] >= e
    BY <2>1, KoiosIs
  <2> QED BY <2>1, <2>2 DEF Settled
<1> QED BY <1>1, <1>3, <1>4 DEF GetNonceForEpoch

LEMMA CachesSome ==
  ASSUME NEW e, GetNonceForEpoch(e)
  PROVE  \E nonce : Cache(e, nonce)
BY DEF GetNonceForEpoch, FromChain, FromCandidate, FromKoios

LEMMA NonceStart == NonceInit => NonceInv
<1> SUFFICES ASSUME NonceInit PROVE NonceInv
  OBVIOUS
<1>1. \A e : InEpoch({}, e) = {} /\ FirstStable(InEpoch({}, e)) = {}
  BY DEF InEpoch, FirstStable
<1>2. candidate = Candidates({})
  BY <1>1 DEF NonceInit, Candidates
<1>3. NonceType
  BY FS_EmptySet DEF NonceInit, NonceType, OnePerSlot
<1>4. Contiguous({})
  BY DEF Contiguous
<1>5. CachedRight
  BY DEF NonceInit, CachedRight
<1>6. Right(Replay({}), {})
  BY StartRight, ReplayStarts
<1> QED BY <1>2, <1>3, <1>4, <1>5, <1>6 DEF NonceInit, NonceInv

LEMMA NewBlockKeeps ==
  ASSUME NonceInv, NEW b \in Block, NewBlock(b)
  PROVE  NonceInv'
<1> DEFINE x == EpochOf[b.slot]
<1>1. /\ chain \in SUBSET Block /\ IsFiniteSet(chain) /\ OnePerSlot(chain)
      /\ blocks \subseteq chain /\ final = [e \in Epoch |-> final[e]]
      /\ Contiguous(chain) /\ candidate = Candidates(blocks)
  BY DEF NonceInv, NonceType
<1>2. /\ \A c \in chain : c.slot < b.slot
      /\ x > 0 => Cardinality(InEpoch(chain, x - 1)) >= 2
      /\ chain' = chain \cup {b} /\ final' = final
  BY DEF NewBlock
<1>3. blocks' = blocks \/ blocks' = blocks \cup {b}
  BY DEF NewBlock
<1>4. NonceType'
  <2>1. IsFiniteSet(chain \cup {b})
    BY <1>1, FS_AddElement
  <2>2. OnePerSlot(chain \cup {b})
    BY <1>1, <1>2, SlotNat DEF OnePerSlot
  <2>3. blocks' \subseteq chain'
    BY <1>1, <1>2, <1>3
  <2>4. chain' \in SUBSET Block
    BY <1>1, <1>2
  <2> QED BY <1>1, <1>2, <2>1, <2>2, <2>3, <2>4 DEF NonceType
<1>5. Contiguous(chain')
  BY <1>1, <1>2, StaysContiguous
<1>6. candidate' = Candidates(blocks')
  <2>1. CASE blocks' = blocks /\ candidate' = candidate
    BY <1>1, <2>1
  <2>2. CASE /\ blocks' = blocks \cup {b}
             /\ candidate' = IF b.slot \in Stable /\ candidate[x] = NoNonce
                             THEN [candidate EXCEPT ![x] = ChainNonce(blocks)]
                             ELSE candidate
    <3>1. blocks \in SUBSET Block /\ \A c \in blocks : c.slot < b.slot
      BY <1>1, <1>2
    <3> QED BY <1>1, <2>2, <3>1, CandidatesKept
  <2> QED BY <2>1, <2>2 DEF NewBlock
<1>7. ASSUME blocks' = chain' PROVE Right(Replay(chain'), chain') /\ CachedRight'
  <2>1. b \notin chain
    BY <1>1, <1>2, SlotNat
  <2>2. blocks = chain
    BY <1>1, <1>2, <1>3, <1>7, <2>1
  <2>3. Right(Replay(chain), chain) /\ CachedRight
    BY <2>2 DEF NonceInv
  <2>4. Replay(chain \cup {b}) = ReadBlock(Replay(chain), b)
    BY <1>1, <1>2, ReplayContinues
  <2>5. Right(ReadBlock(Replay(chain), b), chain \cup {b})
    BY <1>1, <1>2, <2>3, ReadRight
  <2>6. ASSUME NEW e \in Epoch, final[e] # NoNonce
        PROVE  Settled(chain \cup {b}, e) /\ final[e] = NonceBy(chain \cup {b}, e)
    <3>1. Settled(chain, e) /\ final[e] = NonceBy(chain, e) /\ e \in Int
      BY <2>3, <2>6, EpochTyped DEF CachedRight
    <3> QED BY <1>1, <1>2, <3>1, NonceStays
  <2>7. CachedRight'
    BY <1>2, <2>6 DEF CachedRight
  <2> QED BY <1>2, <2>4, <2>5, <2>7
<1> QED BY <1>4, <1>5, <1>6, <1>7 DEF NonceInv

LEMMA CachingKeeps ==
  ASSUME NonceInv, NEW e \in Epoch \ {0}, GetNonceForEpoch(e)
  PROVE  NonceInv'
<1>1. PICK nonce : /\ Cache(e, nonce)
                   /\ blocks = chain => Settled(chain, e) /\ nonce = NonceBy(chain, e)
  BY CachesSome, CachesLedgers
<1>2. /\ chain' = chain /\ blocks' = blocks /\ candidate' = candidate
      /\ final' = [final EXCEPT ![e] = nonce]
  BY <1>1 DEF Cache
<1>3. final = [x \in Epoch |-> final[x]]
  BY DEF NonceInv, NonceType
<1>4. /\ final' = [x \in Epoch |-> final'[x]] /\ final'[e] = nonce
      /\ \A x \in Epoch : x # e => final'[x] = final[x]
  BY <1>2, <1>3
<1>5. NonceType'
  BY <1>2, <1>4 DEF NonceInv, NonceType
<1>6. Contiguous(chain') /\ candidate' = Candidates(blocks')
  BY <1>2 DEF NonceInv
<1>7. ASSUME blocks' = chain' PROVE Right(Replay(chain'), chain') /\ CachedRight'
  <2>1. Right(Replay(chain), chain) /\ CachedRight
    BY <1>2, <1>7 DEF NonceInv
  <2>2. Settled(chain, e) /\ nonce = NonceBy(chain, e)
    BY <1>1, <1>2, <1>7
  <2>3. CachedRight'
    BY <1>2, <1>4, <2>1, <2>2 DEF CachedRight
  <2> QED BY <1>2, <2>1, <2>3
<1> QED BY <1>5, <1>6, <1>7 DEF NonceInv

(* The candidates are those of the stored blocks; and while no block is    *)
(* lost, the replay and the cache have the nonces of the ledger's rule     *)
(* (GetNonceForEpoch, nonce.go:476, ComputeEpochNonce, nonce.go:624).      *)
THEOREM NonceInvariant == NonceSpec => []NonceInv
<1>1. NonceInit => NonceInv
  BY NonceStart
<1>2. NonceInv /\ [NonceNext]_nonce_vars => NonceInv'
  <2> SUFFICES ASSUME NonceInv, [NonceNext]_nonce_vars PROVE NonceInv'
    OBVIOUS
  <2>1. ASSUME NEW b \in Block, NewBlock(b) PROVE NonceInv'
    BY <2>1, NewBlockKeeps
  <2>2. ASSUME NEW e \in Epoch \ {0}, GetNonceForEpoch(e) PROVE NonceInv'
    BY <2>2, CachingKeeps
  <2>3. CASE UNCHANGED nonce_vars
    BY <2>3 DEF nonce_vars, NonceInv, NonceType, CachedRight
  <2> QED BY <2>1, <2>2, <2>3 DEF NonceNext
<1> QED BY <1>1, <1>2, PTL DEF NonceSpec

(* As long as no block was lost, the nonce GetNonceForEpoch caches for an  *)
(* epoch is the ledger's, whichever way it took and however early it was   *)
(* asked (nonce.go:520-523, nonce.go:621-623).                             *)
THEOREM GaplessNonceAlways == NonceSpec => []GaplessNonceTrue
<1>1. NonceInv => GaplessNonceTrue
  <2> SUFFICES ASSUME NonceInv, Lost = {} PROVE \A e \in Epoch : final[e] # NoNonce => final[e] = LedgerNonce(e)
    BY DEF GaplessNonceTrue
  <2>1. blocks = chain
    BY DEF NonceInv, NonceType, Lost
  <2> QED BY <2>1, LedgerNonceIs DEF NonceInv, CachedRight
<1> QED BY <1>1, NonceInvariant, PTL

(* NonceIntegrityCheck raises no false alarm over a chain without gaps:    *)
(* its replay has for every epoch the nonce that was cached (nonce.go:986).*)
THEOREM NoFalseAlarmAlways == NonceSpec => []NoFalseAlarm
<1>1. NonceInv => NoFalseAlarm
  <2> SUFFICES ASSUME NonceInv, Lost = {}, NEW n \in IntegrityNonces(blocks)
               PROVE  final[n.epoch] \in {NoNonce, n.nonce}
    BY DEF NoFalseAlarm
  <2>1. blocks = chain
    BY DEF NonceInv, NonceType, Lost
  <2>2. chain \in SUBSET Block /\ Right(Replay(chain), chain) /\ CachedRight
    BY <2>1 DEF NonceInv, NonceType
  <2>3. PICK st, q : st = Replay(chain) /\ q = st.entered
    OBVIOUS
  <2>4. PICK i \in DOMAIN q : n = [epoch |-> q[i].after, nonce |-> q[i].nonce]
    BY <2>1, <2>3 DEF IntegrityNonces
  <2>5. st \in ReplayState /\ ReadSoFar(st, chain) /\ EnteredRight(st, chain)
    BY <2>2, <2>3 DEF Right
  <2>6. st.epoch \in Nat /\ DOMAIN q = 1..st.epoch
    <3>1. PICK R : q \in Seq(R)
      BY <2>3, <2>5 DEF ReplayState
    <3> QED BY <2>3, <2>5, <3>1 DEF ReplayState, EnteredRight
  <2>7. st.epoch \in Epoch
    BY <2>2, <2>5, EpochTyped DEF ReadSoFar
  <2>8. i \in Epoch
    <3>1. i \in Nat /\ i <= st.epoch
      BY <2>4, <2>6
    <3> QED BY <2>6, <2>7, <3>1, EpochAssumption DEF Epoch
  <2>9. q[i] = [epoch |-> i, after |-> i, nonce |-> NonceBy(chain, i)]
    BY <2>3, <2>4, <2>5, <2>6 DEF EnteredRight
  <2>10. n.epoch = i /\ n.nonce = NonceBy(chain, i)
    <3>1. PICK y : y = NonceBy(chain, i)
      OBVIOUS
    <3> QED BY <2>4, <2>9, <3>1
  <2> QED BY <2>2, <2>8, <2>10 DEF CachedRight
<1> QED BY <1>1, NonceInvariant, PTL

(* Two sets of blocks have the same candidate only if they are the same.   *)
LEMMA CandidateTells ==
  ASSUME NEW S \in SUBSET Block, NEW T \in SUBSET Block, ChainNonce(S) = ChainNonce(T)
  PROVE  S = T
BY ChainNonceTyped

(* A TICKN nonce that passed the block count of the candidate epoch e-1    *)
(* and the check against the published nonce of e-1 saw every block that   *)
(* NoticedLoss names.                                                      *)
LEMMA CheckedComplete ==
  ASSUME NonceInv, NEW e \in Epoch \ {0}, NEW counted \in Nat, NoticedLoss(e, counted),
         CountComplete(e - 1, counted), Tickn(e) # NoNonce, VerifyTICKN(e - 1, TRUE)
  PROVE  blocks = chain
<1>1. e \in Int /\ e - 1 \in Int /\ (e - 1) - 1 = e - 2 /\ e - 1 # e - 2
  BY EpochTyped
<1>2. chain \in SUBSET Block /\ IsFiniteSet(chain) /\ OnePerSlot(chain) /\ blocks \subseteq chain
  BY DEF NonceInv, NonceType
<1>3. FirstStable(InEpoch(blocks, e - 1)) # {}
  BY <1>1, TicknIs
<1>4. PICK d \in blocks : EpochOf[d.slot] = e - 1
  BY <1>3 DEF FirstStable, InEpoch
<1>5. ~ counted > Cardinality(InEpoch(blocks, e - 1))
  <2>1. PICK T : T = InEpoch(blocks, e - 1)
    OBVIOUS
  <2>2. T \subseteq chain /\ d \in T
    BY <1>2, <1>4, <2>1 DEF InEpoch
  <2>3. IsFiniteSet(T)
    BY <1>2, <2>2, FS_Subset
  <2>4. Cardinality(T) \in Nat /\ Cardinality(T) # 0
    BY <2>2, <2>3, FS_CardinalityType, FS_EmptySet
  <2>5. Cardinality(T) >= counted
    BY <2>1, <2>4 DEF CountComplete
  <2> QED BY <2>1, <2>4, <2>5
<1>6. KoiosNonce(e - 1) = NonceBy(chain, e - 1) /\ NonceBy(chain, e - 1) # NoNonce
  <2>1. NonceBy(chain, e - 1) # NoNonce
    BY <1>2, NonceByTyped, AbsentAssumption
  <2>2. d \in chain /\ EpochOf[d.slot] >= e - 1
    BY <1>1, <1>2, <1>4
  <2> QED BY <2>1, <2>2, LedgerNonceIs DEF KoiosNonce
<1>7. Tickn(e - 1) = NonceBy(chain, e - 1) /\ Tickn(e - 1) # NoNonce
  BY <1>6 DEF VerifyTICKN
<1>8. NonceBy(blocks, e - 1) = NonceBy(chain, e - 1)
  BY <1>1, <1>7, TicknIs
<1>9. FrozenIn(blocks, e - 2) = FrozenIn(chain, e - 2)
  <2>1. ChainNonce(FrozenIn(blocks, e - 2)) = ChainNonce(FrozenIn(chain, e - 2))
    BY <1>1, <1>8 DEF NonceBy
  <2>2. FrozenIn(blocks, e - 2) \in SUBSET Block /\ FrozenIn(chain, e - 2) \in SUBSET Block
    BY <1>2, FrozenTyped
  <2> QED BY <2>1, <2>2, CandidateTells
<1>10. ASSUME NEW b \in Lost PROVE FALSE
  <2>1. b \in chain /\ b \notin blocks /\ b \in Block /\ EpochOf[b.slot] \in Nat
    BY <1>2, EpochTyped DEF Lost
  <2>2. b \notin FrozenIn(chain, e - 2)
    BY <1>9, <2>1 DEF FrozenIn, Through
  <2>3. ~ (EpochOf[b.slot] = e - 1 /\ counted > Cardinality(InEpoch(blocks, e - 1)))
    BY <1>5
  <2>4. CASE EpochOf[b.slot] < e - 2
    <3>1. \A c \in FirstStable(InEpoch(chain, e - 2)) : b.slot < c.slot
      <4> SUFFICES ASSUME NEW c \in FirstStable(InEpoch(chain, e - 2)), ~ b.slot < c.slot
                   PROVE  FALSE
        OBVIOUS
      <4>1. c \in Block /\ EpochOf[c.slot] = e - 2
        BY <1>2 DEF FirstStable, InEpoch
      <4>2. c.slot <= b.slot
        BY <2>1, <4>1, SlotNat
      <4>3. EpochOf[c.slot] <= EpochOf[b.slot]
        BY <2>1, <4>1, <4>2, EpochTyped
      <4> QED BY <1>1, <2>1, <2>4, <4>1, <4>3
    <3> QED BY <1>1, <2>1, <2>2, <2>4, <3>1 DEF FrozenIn, Through
  <2>5. CASE /\ EpochOf[b.slot] = e - 2
             /\ \A c \in FirstStable(InEpoch(chain, e - 2)) : b.slot < c.slot
    BY <1>1, <2>1, <2>2, <2>5 DEF FrozenIn, Through
  <2> QED BY <2>3, <2>4, <2>5 DEF NoticedLoss
<1> QED BY <1>2, <1>10 DEF Lost

(* "The block count check on the candidate epoch alone misses a block lost *)
(* in an earlier epoch" (nonce.go:588): with the check of the published    *)
(* nonce neither such a loss nor one in the candidate epoch that shows in  *)
(* Koios's count ever yields a wrong nonce for the epoch to come, however  *)
(* many blocks are lost and whichever reads of the store fail.  It is      *)
(* assumed that Koios answers the requests for a nonce.                    *)
THEOREM LossNoticedAlways == NonceSpec => LossNoticed
<1> DEFINE Noticed ==
      \A e \in Epoch \ {0} : \A counted \in Counts(e - 1) :
        ~SyncedThrough(e) /\ NoticedLoss(e, counted) /\ FromCandidate(e, counted, TRUE)
        => final'[e] = LedgerNonce(e)
<1>1. NonceInv /\ [NonceNext]_nonce_vars => [Noticed]_nonce_vars
  <2> SUFFICES ASSUME NonceInv, NEW e \in Epoch \ {0}, NEW counted \in Counts(e - 1),
                      NoticedLoss(e, counted), FromCandidate(e, counted, TRUE)
               PROVE  final'[e] = LedgerNonce(e)
    OBVIOUS
  <2>1. /\ TicknNonce(e, counted, TRUE) = Tickn(e) /\ Tickn(e) # NoNonce
        /\ CountComplete(e - 1, counted) /\ VerifyTICKN(e - 1, TRUE)
        /\ final' = [final EXCEPT ![e] = Tickn(e)]
    BY DEF FromCandidate, Cache, TicknNonce
  <2>2. final = [y \in Epoch |-> final[y]]
    BY DEF NonceInv, NonceType
  <2>3. final'[e] = Tickn(e)
    BY <2>1, <2>2
  <2>4. counted \in Nat
    <3>1. PICK n : n = Cardinality(InEpoch(chain, e - 1))
      OBVIOUS
    <3>2. IsFiniteSet(chain) /\ InEpoch(chain, e - 1) \subseteq chain
      BY DEF NonceInv, NonceType, InEpoch
    <3>3. n \in Nat
      BY <3>1, <3>2, FS_Subset, FS_CardinalityType
    <3> QED BY <3>1, <3>3 DEF Counts
  <2>5. blocks = chain
    BY <2>1, <2>4, CheckedComplete
  <2> QED BY <2>1, <2>3, <2>5, CandidateIsLedgers, LedgerNonceIs
<1> QED BY <1>1, NonceInvariant, PTL DEF NonceSpec, LossNoticed

=============================================================================
