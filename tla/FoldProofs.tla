----------------------------- MODULE FoldProofs -----------------------------
(***************************************************************************)
(* FoldLeft of the community modules, reasoned about.  The operator that   *)
(* is folded is a constant of this module: a module that folds Evolve      *)
(* instantiates it WITH op <- Evolve and cites the theorems of that        *)
(* instance.  No fact about op is assumed.                                 *)
(***************************************************************************)
EXTENDS SequencesExt, FiniteSetTheorems, WellFoundedInduction, TLAPS

CONSTANT op(_, _)

(* Every set of natural numbers that is not empty has a least element.     *)
LEMMA LeastNatural ==
  ASSUME NEW T \in SUBSET Nat, T # {}
  PROVE  \E x \in T : \A y \in T : x <= y
<1> DEFINE Less == {pair \in Nat \X Nat : pair[1] < pair[2]}
<1>1. IsWellFoundedOn(Less, Nat)
  BY NatLessThanWellFounded DEF OpToRel
<1>2. PICK x \in T : \A y \in T : ~ (<<y, x>> \in Less)
  BY <1>1, WFMin
<1>3. ASSUME NEW y \in T PROVE x <= y
  <2>1. x \in Nat /\ y \in Nat
    OBVIOUS
  <2>2. ~ (y < x)
    BY <1>2, <2>1
  <2> QED BY <2>1, <2>2
<1> QED BY <1>3

Fold(base, q) == FoldLeft(op, base, q)

(* The recursive function by which FoldLeft is defined, over 1..n.         *)
IsFold(g, base, q, n) ==
  g = [D \in SUBSET (1..n) |->
         IF D = {} THEN base ELSE op(g[D \ {Max(D)}], q[Max(D)])]

LEMMA FoldIsFold ==
  ASSUME NEW base, NEW q, NEW n, DOMAIN q = 1..n
  PROVE  Fold(base, q) = (CHOOSE g : IsFold(g, base, q, n))[1..n]
BY DEF Fold, FoldLeft, MapThenFoldSet, IsFold

LEMMA MaxOf ==
  ASSUME NEW n \in Nat, NEW D \in SUBSET (1..n), n \in D
  PROVE  Max(D) = n
<1>1. \A x \in D : (\A y \in D : x >= y) => x = n
  OBVIOUS
<1>2. \A y \in D : n >= y
  OBVIOUS
<1> QED BY <1>1, <1>2 DEF Max

(* That function exists.                                                   *)
LEMMA FoldExists ==
  ASSUME NEW base, NEW q
  PROVE  \A n \in Nat : \E g : IsFold(g, base, q, n)
<1> DEFINE T == {n \in Nat : ~ \E g : IsFold(g, base, q, n)}
<1> SUFFICES ASSUME T # {} PROVE FALSE
  OBVIOUS
<1>1. PICK n \in T : \A m \in T : n <= m
  BY LeastNatural
<1>2. n \in Nat /\ ~ \E g : IsFold(g, base, q, n)
  OBVIOUS
<1>3. n # 0
  <2> DEFINE g == [D \in SUBSET (1..0) |-> base]
  <2>1. SUBSET (1..0) = {{}}
    OBVIOUS
  <2>2. IsFold(g, base, q, 0)
    BY <2>1 DEF IsFold
  <2> QED BY <1>2, <2>2
<1>4. n - 1 \in Nat /\ n - 1 \notin T
  BY <1>1, <1>2, <1>3
<1>5. PICK h : IsFold(h, base, q, n - 1)
  BY <1>4
<1> DEFINE g == [D \in SUBSET (1..n) |->
                   IF n \in D THEN op(h[D \ {n}], q[n]) ELSE h[D]]
<1>6. ASSUME NEW D \in SUBSET (1..n)
      PROVE  g[D] = IF D = {} THEN base ELSE op(g[D \ {Max(D)}], q[Max(D)])
  <2>1. CASE n \in D
    <3>1. Max(D) = n
      BY <1>2, <2>1, MaxOf
    <3>2. D \ {n} \in SUBSET (1..n) /\ n \notin D \ {n}
      OBVIOUS
    <3>3. g[D \ {n}] = h[D \ {n}]
      BY <3>2
    <3> QED BY <2>1, <3>1, <3>3
  <2>2. CASE n \notin D
    <3>1. D \in SUBSET (1..(n - 1))
      BY <1>2, <2>2
    <3>2. g[D] = h[D]
      BY <2>2
    <3>3. h[D] = IF D = {} THEN base ELSE op(h[D \ {Max(D)}], q[Max(D)])
      BY <1>5, <3>1 DEF IsFold
    <3>4. D \ {Max(D)} \in SUBSET (1..n) /\ n \notin D \ {Max(D)}
      BY <2>2
    <3>5. g[D \ {Max(D)}] = h[D \ {Max(D)}]
      BY <3>4
    <3> HIDE DEF g
    <3> QED BY <3>2, <3>3, <3>5
  <2> QED BY <2>1, <2>2
<1>7. g = [D \in SUBSET (1..n) |->
             IF D = {} THEN base ELSE op(g[D \ {Max(D)}], q[Max(D)])]
  <2>1. g = [D \in SUBSET (1..n) |-> g[D]]
    OBVIOUS
  <2> HIDE DEF g
  <2> QED BY <1>6, <2>1
<1>8. IsFold(g, base, q, n)
  <2> HIDE DEF g
  <2> QED BY <1>7 DEF IsFold
<1> QED BY <1>2, <1>8

(* Its value at 1..k depends on the first k elements only.                 *)
LEMMA FoldPrefix ==
  \A base, p, q, f, g : \A m, n \in Nat :
    m <= n /\ (\A i \in 1..m : p[i] = q[i]) /\ IsFold(f, base, p, m) /\ IsFold(g, base, q, n)
    => \A k \in 0..m : f[1..k] = g[1..k]
<1> SUFFICES ASSUME NEW base, NEW p, NEW q, NEW f, NEW g, NEW m \in Nat, NEW n \in Nat, m <= n,
                    \A i \in 1..m : p[i] = q[i],
                    IsFold(f, base, p, m), IsFold(g, base, q, n)
             PROVE  \A k \in 0..m : f[1..k] = g[1..k]
  OBVIOUS
<1> DEFINE T == {k \in 0..m : f[1..k] # g[1..k]}
<1> SUFFICES ASSUME T # {} PROVE FALSE
  OBVIOUS
<1>1. PICK k \in T : \A j \in T : k <= j
  <2>1. T \in SUBSET Nat
    OBVIOUS
  <2> QED BY <2>1, LeastNatural
<1>2. k \in 0..m /\ f[1..k] # g[1..k]
  OBVIOUS
<1>3. 1..k \in SUBSET (1..m) /\ 1..k \in SUBSET (1..n)
  BY <1>2
<1>4. /\ f[1..k] = IF 1..k = {} THEN base ELSE op(f[(1..k) \ {Max(1..k)}], p[Max(1..k)])
      /\ g[1..k] = IF 1..k = {} THEN base ELSE op(g[(1..k) \ {Max(1..k)}], q[Max(1..k)])
  BY <1>3 DEF IsFold
<1>5. 1..k # {}
  BY <1>2, <1>4
<1>6. k \in Nat /\ k # 0
  BY <1>2, <1>5
<1>7. Max(1..k) = k
  BY <1>6, MaxOf
<1>8. (1..k) \ {k} = 1..(k - 1)
  BY <1>6
<1>9. k - 1 \in 0..m /\ k - 1 \notin T
  BY <1>1, <1>2, <1>6
<1>10. f[1..(k - 1)] = g[1..(k - 1)]
  BY <1>9
<1>11. p[k] = q[k]
  BY <1>2, <1>6
<1> QED BY <1>2, <1>4, <1>5, <1>7, <1>8, <1>10, <1>11

(* The fold returns the base for no element, and applies op once more for  *)
(* one element more.                                                       *)
THEOREM FoldEmpty ==
  \A base, q : DOMAIN q = {} => Fold(base, q) = base
<1> SUFFICES ASSUME NEW base, NEW q, DOMAIN q = {}
             PROVE  Fold(base, q) = base
  OBVIOUS
<1>1. DOMAIN q = 1..0
  OBVIOUS
<1>2. PICK g : IsFold(g, base, q, 0)
  BY FoldExists
<1> DEFINE f == CHOOSE h : IsFold(h, base, q, 0)
<1>3. IsFold(f, base, q, 0)
  BY <1>2
<1>4. Fold(base, q) = f[1..0]
  BY <1>1, FoldIsFold
<1>5. 1..0 = {} /\ 1..0 \in SUBSET (1..0)
  OBVIOUS
<1> HIDE DEF f
<1> QED BY <1>3, <1>4, <1>5 DEF IsFold

THEOREM FoldOneMore ==
  \A base, p, q : \A m, n \in Nat :
    m = n + 1 /\ DOMAIN p = 1..n /\ DOMAIN q = 1..m /\ (\A i \in 1..n : p[i] = q[i])
    => Fold(base, q) = op(Fold(base, p), q[m])
<1> SUFFICES ASSUME NEW base, NEW p, NEW q, NEW m \in Nat, NEW n \in Nat, m = n + 1,
                    DOMAIN p = 1..n, DOMAIN q = 1..m, \A i \in 1..n : p[i] = q[i]
             PROVE  Fold(base, q) = op(Fold(base, p), q[m])
  OBVIOUS
<1>1. PICK f : f = CHOOSE h : IsFold(h, base, p, n)
  OBVIOUS
<1>2. PICK g : g = CHOOSE h : IsFold(h, base, q, m)
  OBVIOUS
<1>3. IsFold(f, base, p, n) /\ IsFold(g, base, q, m)
  BY <1>1, <1>2, FoldExists
<1>4. Fold(base, p) = f[1..n] /\ Fold(base, q) = g[1..m]
  BY <1>1, <1>2, FoldIsFold
<1>5. f[1..n] = g[1..n]
  <2>1. n <= m /\ n \in 0..n
    OBVIOUS
  <2>2. \A k \in 0..n : f[1..k] = g[1..k]
    BY <1>3, <2>1, FoldPrefix
  <2> QED BY <2>1, <2>2
<1>6. Max(1..m) = m
  BY MaxOf
<1>7. (1..m) \ {m} = 1..n /\ 1..m # {} /\ 1..m \in SUBSET (1..m)
  OBVIOUS
<1>8. g[1..m] = op(g[1..n], q[m])
  <2>1. \A D \in SUBSET (1..m) :
          g[D] = IF D = {} THEN base ELSE op(g[D \ {Max(D)}], q[Max(D)])
    BY <1>3 DEF IsFold
  <2>2. g[1..m] = op(g[(1..m) \ {Max(1..m)}], q[Max(1..m)])
    BY <1>7, <2>1
  <2> QED BY <1>6, <1>7, <2>2
<1> QED BY <1>4, <1>5, <1>8

=============================================================================
