---------------------------- MODULE RollingNonce ----------------------------
(***************************************************************************)
(* What the nonce tracker promises, with the database, the locks and the   *)
(* crashes left out: a set of blocks of one chain and the evolving nonce   *)
(* that hashing them in slot order gives.                                  *)
(***************************************************************************)
EXTENDS EvolvingNonce

VARIABLES
  hashed,    \* the blocks the nonce stands for
  eta        \* the evolving nonce

Init == hashed = {} /\ eta = GenesisNonce

(* One more block of the chain, hashed last.                               *)
Extend ==
  \E b \in Block :
    /\ \A c \in hashed : c.slot < b.slot
    /\ hashed' = hashed \cup {b}
    /\ eta' = Evolve(eta, b)

(* Return to any earlier point of the chain, as a rollback does.           *)
Truncate ==
  \E s \in Slot \cup {0} :
    /\ hashed' = Prefix(hashed, s)
    /\ eta' = ChainNonce(Prefix(hashed, s))

Next == Extend \/ Truncate

Spec == Init /\ [][Next]_<<hashed, eta>>
=============================================================================
