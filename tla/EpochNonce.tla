----------------------------- MODULE EpochNonce -----------------------------
(***************************************************************************)
(* The nonce of an epoch (nonce.go): GetNonceForEpoch, which takes it from *)
(* the cache, from a replay of all stored blocks (ComputeEpochNonce), from *)
(* the frozen candidate of the epoch before (TICKN) or from Koios, over a  *)
(* store that may have lost blocks of the chain; and NonceIntegrityCheck,  *)
(* which replays the stored blocks in the same way.                        *)
(*                                                                         *)
(* An epoch nonce is the pair <<candidate, block>> that hashConcat hashes; *)
(* <<candidate, NoBlock>> is the candidate itself, used while there is no  *)
(* hash to add (NeutralNonce).  The tracker of the stored blocks is        *)
(* NonceTracker's: here it is only what it leaves in candidate_nonce.      *)
(***************************************************************************)
EXTENDS EvolvingNonce, SequencesExt

CONSTANTS
  MaxEpoch,   \* epochs are 0..MaxEpoch, 0 is the first Shelley epoch
  EpochOf,    \* SlotToEpoch on Slot
  Stable,     \* the slots at or past the stability window of their epoch
  MaxLost,    \* bound on the blocks that are not stored
  NoNonce,    \* SQL NULL, or no answer
  NoBlock

Epoch == 0..MaxEpoch

ASSUME EpochAssumption ==
  /\ MaxEpoch \in Nat
  /\ EpochOf \in [Slot -> Epoch]
  /\ \A x, y \in Slot : x <= y => EpochOf[x] <= EpochOf[y]

ASSUME AbsentAssumption ==
  /\ NoNonce \notin Nonce
  /\ NoNonce \notin Nonce \X (Block \cup {NoBlock})
  /\ NoBlock \notin Block

VARIABLES
  chain,      \* the node's chain
  blocks,     \* the blocks table
  candidate,  \* epoch_nonces.candidate_nonce
  final       \* epoch_nonces.final_nonce

nonce_vars == <<chain, blocks, candidate, final>>

InEpoch(S, e) == {b \in S : EpochOf[b.slot] = e}

Through(S, e) == {b \in S : EpochOf[b.slot] <= e}

FirstStable(S) ==
  {b \in S : b.slot \in Stable /\ \A c \in S : c.slot \in Stable => b.slot <= c.slot}

(* GetPrevHashOfLastBlock: the hash of the last block but one of epoch e.  *)
PrevHashOfLastBlock(S, e) ==
  LET T == InOrder(InEpoch(S, e))
  IN IF Len(T) < 2 THEN NoBlock ELSE T[Len(T) - 1]

(* The nonce the ledger gives epoch e of the chain: the candidate of the   *)
(* epoch before and the previous hash of the last block of the one before  *)
(* that.                                                                   *)
LedgerNonce(e) ==
  LET before == InEpoch(chain, e - 1)
      frozen == {b \in Through(chain, e - 1) : \A c \in FirstStable(before) : b.slot < c.slot}
  IN <<ChainNonce(frozen), PrevHashOfLastBlock(chain, e - 2)>>

----------------------------------------------------------------------------
(* The loop over StreamBlockVrfOutputs that ComputeEpochNonce, Backfill-   *)
(* Nonces and NonceIntegrityCheck share.  lab is the hash before the last  *)
(* block read, last is lab as of the previous epoch transition; entered    *)
(* lists the epoch transitions with the nonce computed at each.            *)

Start ==
  [etaV |-> GenesisNonce, etaC |-> GenesisNonce, frozen |-> FALSE, epoch |-> 0,
   prev |-> NoBlock, lab |-> NoBlock, last |-> NoBlock, entered |-> <<>>]

Combine(c, h) == <<c, h>>

Candidate(st) == IF st.frozen THEN st.etaC ELSE st.etaV

SaveLab(st) == IF st.lab = NoBlock THEN st.last ELSE st.lab

TransitionWithoutLag(st, e) ==   \* saves labNonce before it is combined
  [st EXCEPT !.entered = Append(@, [epoch |-> e, after |-> st.epoch + 1,
                                    nonce |-> Combine(Candidate(st), SaveLab(st))]),
             !.last = SaveLab(st), !.epoch = e, !.frozen = FALSE]

Transition(st, e) ==
  [st EXCEPT !.entered = Append(@, [epoch |-> e, after |-> st.epoch + 1,
                                    nonce |-> Combine(Candidate(st), st.last)]),
             !.last = SaveLab(st), !.epoch = e, !.frozen = FALSE]

Freeze(st, b) ==
  IF ~st.frozen /\ b.slot \in Stable
  THEN [st EXCEPT !.etaC = st.etaV, !.frozen = TRUE]
  ELSE st

ReadBlock(st, b) ==
  LET e  == EpochOf[b.slot]
      s1 == Freeze(IF e = st.epoch THEN st ELSE Transition(st, e), b)
  IN [s1 EXCEPT !.lab = IF s1.prev = NoBlock THEN @ ELSE s1.prev,
                !.etaV = Evolve(s1.etaV, b),
                !.prev = b]

Replay(S) == FoldLeft(ReadBlock, Start, InOrder(S))

(* ComputeEpochNonce: the nonce computed on entering epoch e, or, if no    *)
(* block of e is stored, the one for the epoch after the last block.       *)
ComputeEpochNonce(S, e) ==
  LET st == Replay(S)
      at == {i \in DOMAIN st.entered : st.entered[i].epoch = e}
  IN IF at # {}
     THEN st.entered[CHOOSE i \in at : TRUE].nonce
     ELSE Combine(Candidate(st), SaveLab(st))

(* The epochs NonceIntegrityCheck has a nonce for, the one after the last  *)
(* block excepted: its nonce is combined without the one-epoch lag.        *)
IntegrityNonces(S) ==
  LET st == Replay(S)
  IN {[epoch |-> st.entered[i].after, nonce |-> st.entered[i].nonce] : i \in DOMAIN st.entered}

----------------------------------------------------------------------------
(* Koios has the nonce of an epoch once the epoch has begun.               *)
KoiosNonce(e) == IF \E b \in chain : EpochOf[b.slot] >= e THEN LedgerNonce(e) ELSE NoNonce

(* candidate(e-1) and the hash from epoch e-2 by the TICKN rule.           *)
Tickn(e) ==
  LET c == IF e - 1 \in Epoch THEN candidate[e - 1] ELSE NoNonce
      h == PrevHashOfLastBlock(blocks, e - 2)
  IN IF c = NoNonce \/ h = NoBlock THEN NoNonce ELSE Combine(c, h)

NeverVerified(e, answered) == TRUE   \* trusts the count of the candidate epoch

(* answered: Koios answers the requests for a nonce.                       *)
VerifyTICKN(e, answered) == answered => KoiosNonce(e) \in {NoNonce, Tickn(e)}

(* What Koios may count for an epoch: it may be behind the chain.  0 stands *)
(* for no comparison, when its request or GetBlockCountForEpoch fails.     *)
Counts(e) == 0..Cardinality(InEpoch(chain, e))

(* The candidate epoch is not known to lack blocks.                        *)
CountComplete(e, counted) ==
  LET local == Cardinality(InEpoch(blocks, e)) IN local > 0 => local >= counted

SyncUnchecked(e) == TRUE   \* replays whatever is stored

(* The last synced slot is not before the end of epoch e.                  *)
SyncedThrough(e) == \E b \in blocks : EpochOf[b.slot] > e

TicknNonce(e, counted, answered) ==
  IF CountComplete(e - 1, counted) /\ VerifyTICKN(e - 1, answered) THEN Tickn(e) ELSE NoNonce

----------------------------------------------------------------------------
NonceInit ==
  /\ chain = {}
  /\ blocks = {}
  /\ candidate = [e \in Epoch |-> NoNonce]
  /\ final = [e \in Epoch |-> NoNonce]

(* The chain grows by a block.  The tracker stores it, and freezes the     *)
(* candidate when it is the first stored one past the stability window;    *)
(* or the insert fails.  An epoch of the chain has at least two blocks.    *)
NewBlock(b) ==
  LET e == EpochOf[b.slot]
  IN /\ \A c \in chain : c.slot < b.slot
     /\ e > 0 => Cardinality(InEpoch(chain, e - 1)) >= 2
     /\ chain' = chain \cup {b}
     /\ \/ /\ blocks' = blocks \cup {b}
           /\ candidate' = IF b.slot \in Stable /\ candidate[e] = NoNonce
                           THEN [candidate EXCEPT ![e] = ChainNonce(blocks)]
                           ELSE candidate
        \/ /\ Cardinality(chain \ blocks) < MaxLost
           /\ UNCHANGED <<blocks, candidate>>
     /\ UNCHANGED final

Cache(e, nonce) ==   \* SetFinalNonce
  /\ nonce # NoNonce
  /\ final' = [final EXCEPT ![e] = nonce]
  /\ UNCHANGED <<chain, blocks, candidate>>

(* The nonce is not cached yet, or the read of the cache fails.  The ways  *)
(* are tried in this order; one of which a read of the store fails leads   *)
(* to the next.                                                            *)
FromChain(e) == SyncedThrough(e) /\ Cache(e, ComputeEpochNonce(blocks, e))

FromCandidate(e, counted, answered) == Cache(e, TicknNonce(e, counted, answered))

FromKoios(e) == Cache(e, KoiosNonce(e))

GetNonceForEpoch(e) ==
  \/ FromChain(e)
  \/ \E counted \in Counts(e - 1), answered \in BOOLEAN : FromCandidate(e, counted, answered)
  \/ FromKoios(e)

NonceNext ==
  \/ \E b \in Block : NewBlock(b)
  \/ \E e \in Epoch \ {0} : GetNonceForEpoch(e)

NonceSpec == NonceInit /\ [][NonceNext]_nonce_vars

----------------------------------------------------------------------------
Lost == chain \ blocks

(* As long as no block was lost, whichever way GetNonceForEpoch took, and  *)
(* however early it was asked, the nonce it caches is the ledger's: the    *)
(* replay, the TICKN rule and their one-epoch lag agree (nonce.go:520-523, *)
(* nonce.go:621-623).                                                      *)
GaplessNonceTrue ==
  Lost = {} => \A e \in Epoch : final[e] # NoNonce => final[e] = LedgerNonce(e)

(* The losses that must be noticed when the nonce of the next epoch e is   *)
(* asked for: in the candidate epoch, if Koios counts more blocks than are *)
(* stored; before that, up to the freeze of epoch e-2, by the published    *)
(* nonce of epoch e-1.                                                     *)
NoticedLoss(e, counted) ==
  \A b \in Lost :
    \/ EpochOf[b.slot] = e - 1 /\ counted > Cardinality(InEpoch(blocks, e - 1))
    \/ EpochOf[b.slot] < e - 2
    \/ /\ EpochOf[b.slot] = e - 2
       /\ \A c \in FirstStable(InEpoch(chain, e - 2)) : b.slot < c.slot

(* "The block count check on the candidate epoch alone misses a block lost *)
(* in an earlier epoch" (verifyTICKN, nonce.go:588): while Koios answers   *)
(* with the published nonces, neither such a loss nor one in the candidate *)
(* epoch that shows in Koios's count ever yields a wrong nonce for the     *)
(* epoch to come, whichever reads of the store fail.  One that Koios has   *)
(* not counted yet, or that is not counted because a count cannot be read  *)
(* (nonce.go:531-534), may.                                                *)
LossNoticed ==
  [][\A e \in Epoch \ {0} : \A counted \in Counts(e - 1) :
       ~SyncedThrough(e) /\ NoticedLoss(e, counted) /\ FromCandidate(e, counted, TRUE)
       => final'[e] = LedgerNonce(e)]_nonce_vars

(* The same for every loss, Koios being up to date.                        *)
EveryLossNoticed ==
  [][\A e \in Epoch \ {0} :
       /\ ~SyncedThrough(e)
       /\ FromCandidate(e, Cardinality(InEpoch(chain, e - 1)), TRUE)
       => final'[e] = LedgerNonce(e)]_nonce_vars

(* NonceIntegrityCheck raises no false alarm: what it recomputes for an    *)
(* epoch that has begun equals what GetNonceForEpoch cached, when nothing  *)
(* was lost.                                                               *)
NoFalseAlarm ==
  Lost = {} =>
    \A n \in IntegrityNonces(blocks) : final[n.epoch] \in {NoNonce, n.nonce}
=============================================================================
