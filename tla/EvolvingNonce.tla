---------------------------- MODULE EvolvingNonce ----------------------------
(***************************************************************************)
(* Evolving nonces as values.                                              *)
(*                                                                         *)
(* An evolving nonce is a hash chain, eta' = H(eta || v(b)).  It is        *)
(* represented by its links: one pair <<b, S>> for each block b hashed,    *)
(* where S is the set of blocks hashed before b.  Two chains that hash no  *)
(* block twice have the same links only if they hash the same blocks in    *)
(* the same order, and a chain that hashes some b twice has a link <<b, S>>*)
(* with b \in S, which no chain without repetition has.                    *)
(***************************************************************************)
EXTENDS Integers, FiniteSets

CONSTANTS
  Slot,      \* slots in which a block may be minted
  Fork,      \* distinguishes the blocks competing for one slot
  Genesis,   \* the seed of a rolling nonce (initialNonce)
  Final      \* the seed standing for an epoch nonce used as evolving nonce

ASSUME SlotAssumption == Slot \subseteq Nat \ {0} /\ Genesis # Final

Block == [slot : Slot, fork : Fork]

Nonce == [seed : {Genesis, Final}, links : SUBSET (Block \X SUBSET Block)]

GenesisNonce == [seed |-> Genesis, links |-> {}]

FinalNonce == [seed |-> Final, links |-> {}]

Hashed(n) == {l[1] : l \in n.links}

(* evolveNonce: hash one more block.                                       *)
Evolve(n, b) == [n EXCEPT !.links = @ \cup {<<b, Hashed(n)>>}]

Before(T, b) == {c \in T : c.slot < b.slot}

(* The blocks of S as the store returns them, in ascending slot order.     *)
InOrder(S) ==
  [i \in 1..Cardinality(S) |-> CHOOSE b \in S : Cardinality(Before(S, b)) = i - 1]

(* The loop that calls evolveNonce on every block of T in slot order.      *)
EvolveAll(n, T) ==
  [n EXCEPT !.links = @ \cup {<<b, Hashed(n) \cup Before(T, b)>> : b \in T}]

(* The nonce of a chain: the genesis seed and every block in slot order.   *)
ChainNonce(T) == EvolveAll(GenesisNonce, T)

OnePerSlot(T) == \A b, c \in T : b.slot = c.slot => b = c

(* The blocks of T up to slot s.                                           *)
Prefix(T, s) == {b \in T : b.slot <= s}
=============================================================================
