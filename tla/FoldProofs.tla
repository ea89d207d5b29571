----------------------------- MODULE FoldProofs -----------------------------
(***************************************************************************)
(* FoldProofs: what the proofs about several modules need of finite sets of       *)
(* numbers, and of the folds of the library, which take the greatest index of a    *)
(* sequence off the set of its indices.                                        *)
(***************************************************************************)
EXTENDS Integers, FiniteSets, FiniteSetTheorems, WellFoundedInduction, TLAPS

(***************************************************************************)
(* Sets of numbers.                                                           *)
(***************************************************************************)

LEMMA SmallestSubset ==
  ASSUME NEW S, IsFiniteSet(S), NEW B \in SUBSET (SUBSET S), B # {}
  PROVE  \E s \in B : \A t \in B : t \subseteq s => t = s
<1> DEFINE R == StrictSubsetOrdering(S)
<1>1. IsWellFoundedOn(R, SUBSET S)
  BY FS_StrictSubsetOrderingWellFounded, FS_FiniteSubsetsOfFinite
<1> HIDE DEF R
<1>2. PICK s \in B : \A t \in B : ~(<<t, s>> \in R)
  BY <1>1, WFMin, Zenon
<1>3. ASSUME NEW t \in B, t \subseteq s, t # s PROVE <<t, s>> \in R
  BY <1>3 DEF R, StrictSubsetOrdering
<1>4. ASSUME NEW t \in B, t \subseteq s PROVE t = s
  BY <1>2, <1>3, <1>4, Zenon
<1>5. \A t \in B : t \subseteq s => t = s
  BY <1>4, Zenon
<1> QED BY <1>5, Zenon

LEMMA SmallestOf ==
  ASSUME NEW S, S \subseteq Nat, S # {}
  PROVE  \E k \in S : \A j \in S : k <= j
<1>1. PICK n \in S : TRUE
  OBVIOUS
<1> DEFINE B == {0 .. j : j \in {i \in S : i <= n}}
<1>2. B \in SUBSET (SUBSET (0 .. n)) /\ B # {} /\ IsFiniteSet(0 .. n)
  <2>1. n \in Nat
    BY <1>1
  <2>2. IsFiniteSet(0 .. n)
    BY <2>1, FS_Interval
  <2> QED BY <2>1, <2>2
<1> HIDE DEF B
<1>3. PICK s \in B : \A t \in B : t \subseteq s => t = s
  <2> DEFINE T == 0 .. n
  <2>1. B \in SUBSET (SUBSET T) /\ B # {} /\ IsFiniteSet(T)
    BY <1>2
  <2> HIDE DEF T
  <2> QED BY <2>1, SmallestSubset
<1>4. PICK k \in S : s = 0 .. k /\ k <= n
  BY DEF B
<1>5. ASSUME NEW j \in S, j < k PROVE FALSE
  <2>1. 0 .. j \in B /\ 0 .. j \subseteq 0 .. k /\ k \in 0 .. k /\ k \notin 0 .. j
    BY <1>4, <1>5 DEF B
  <2> QED BY <1>3, <1>4, <2>1
<1> QED BY <1>5

(* What holds at 0, and goes on from each number to the next, holds up to n.            *)
LEMMA UpToByOne ==
  ASSUME NEW n \in Nat, NEW S \in SUBSET (0 .. n), 0 \in S,
         \A k \in 0 .. n - 1 : k \in S => k + 1 \in S
  PROVE  \A k \in 0 .. n : k \in S
<1> SUFFICES ASSUME NEW k \in 0 .. n, k \notin S PROVE FALSE
  OBVIOUS
<1>1. PICK j \in (0 .. n) \ S : \A i \in (0 .. n) \ S : j <= i
  <2> DEFINE rest == (0 .. n) \ S
  <2>1. rest \subseteq Nat /\ rest # {}
    OBVIOUS
  <2> HIDE DEF rest
  <2>2. \E j \in rest : \A i \in rest : j <= i
    BY <2>1, SmallestOf
  <2> QED BY <2>2 DEF rest
<1>2. j - 1 \in 0 .. n - 1 /\ (j - 1) + 1 = j /\ ~(j <= j - 1)
  BY <1>1
<1>3. j - 1 \in S
  BY <1>1, <1>2
<1> QED BY <1>1, <1>2, <1>3

(* Max of the library.                                                          *)
Greatest(s) == CHOOSE x \in s : \A y \in s : x >= y

LEMMA GreatestOf ==
  ASSUME NEW n \in Nat, NEW s \in SUBSET (0 .. n), s # {}
  PROVE  Greatest(s) \in s /\ \A y \in s : Greatest(s) >= y
<1> DEFINE rest == {n - i : i \in s}
<1>1. rest \subseteq Nat /\ rest # {}
  <2>1. \A i \in s : n - i \in Nat
    OBVIOUS
  <2> QED BY <2>1
<1>2. PICK k \in rest : \A j \in rest : k <= j
  <2> HIDE DEF rest
  <2> QED BY <1>1, SmallestOf
<1>3. PICK i \in s : k = n - i
  OBVIOUS
<1>4. \A y \in s : i >= y
  <2> TAKE y \in s
  <2>1. n - y \in rest
    OBVIOUS
  <2>2. k <= n - y
    <3> HIDE DEF rest
    <3> QED BY <1>2, <2>1
  <2> QED BY <1>3, <2>2
<1> QED BY <1>4, Zenon DEF Greatest

LEMMA GreatestUpTo ==
  ASSUME NEW n \in Nat, NEW k \in 1 .. n
  PROVE  /\ 1 .. k \in SUBSET (1 .. n) /\ 1 .. k # {}
         /\ Greatest(1 .. k) = k /\ (1 .. k) \ {k} = 1 .. k - 1
<1> DEFINE s == 1 .. k
<1>1. s \in SUBSET (0 .. n) /\ s # {} /\ k \in s
  OBVIOUS
<1>2. s \ {k} = 1 .. k - 1
  OBVIOUS
<1>3. \A x \in s : x \in Int /\ x <= k
  OBVIOUS
<1> HIDE DEF s
<1>4. Greatest(s) \in s /\ Greatest(s) >= k
  BY <1>1, GreatestOf
<1>5. Greatest(s) = k
  BY <1>3, <1>4
<1>6. 1 .. k \in SUBSET (1 .. n)
  OBVIOUS
<1> QED BY <1>1, <1>2, <1>5, <1>6 DEF s

(***************************************************************************)
(* Folds: what MapThenFoldSet defines is there.  A function stands for what is folded,  *)
(* another one for what it takes out of a set.                                   *)
(***************************************************************************)

Picks(pick, S) == \A s \in SUBSET S : s # {} => pick[s] \in s

Folds(g, S, base, F, pick) ==
  \A s \in SUBSET S : g[s] = IF s = {} THEN base ELSE F[<<g[s \ {pick[s]}], pick[s]>>]

LEMMA FoldIsThere ==
  ASSUME NEW S, IsFiniteSet(S), NEW T, NEW base \in T, NEW F \in [T \X S -> T],
         NEW pick, Picks(pick, S)
  PROVE  \E g \in [SUBSET S -> T] : Folds(g, S, base, F, pick)
<1> DEFINE Sets == SUBSET S
           n == Cardinality(S)
           next(g, s) == IF s = {} THEN base ELSE F[<<g[s \ {pick[s]}], pick[s]>>]
           upTo(k) == \E g \in [Sets -> T] : \A s \in Sets : Cardinality(s) <= k => g[s] = next(g, s)
           good == {k \in 0 .. n : upTo(k)}
<1>0. n \in Nat
  BY FS_CardinalityType
<1>1. ASSUME NEW s \in Sets
      PROVE  IsFiniteSet(s) /\ Cardinality(s) \in Nat /\ Cardinality(s) <= n
               /\ (Cardinality(s) = 0 <=> s = {})
  <2>1. IsFiniteSet(s) /\ Cardinality(s) <= Cardinality(S)
    BY FS_Subset, Zenon
  <2> QED BY <2>1, FS_CardinalityType, FS_EmptySet
<1>2. ASSUME NEW s \in Sets, s # {}
      PROVE  pick[s] \in S /\ s \ {pick[s]} \in Sets /\ Cardinality(s \ {pick[s]}) = Cardinality(s) - 1
  <2>1. pick[s] \in s
    BY <1>2 DEF Picks
  <2> QED BY <1>1, <2>1, FS_RemoveElement
<1>3. ASSUME NEW g \in [Sets -> T], NEW s \in Sets PROVE next(g, s) \in T
  BY <1>2
<1> HIDE DEF n
<1>4. 0 \in good
  <2>1. [s \in Sets |-> base] \in [Sets -> T]
    OBVIOUS
  <2>2. \A s \in Sets : Cardinality(s) <= 0 => s = {}
    BY <1>1
  <2>3. \A g : next(g, {}) = base
    OBVIOUS
  <2> HIDE DEF next
  <2>4. upTo(0)
    BY <2>1, <2>2, <2>3
  <2> HIDE DEF upTo
  <2> QED BY <1>0, <2>4
<1>5. ASSUME NEW k \in 0 .. n - 1, k \in good PROVE k + 1 \in good
  <2>1. PICK g \in [Sets -> T] : \A s \in Sets : Cardinality(s) <= k => g[s] = next(g, s)
    BY <1>5
  <2> DEFINE h == [s \in Sets |-> IF Cardinality(s) <= k THEN g[s] ELSE next(g, s)]
  <2>2. h \in [Sets -> T]
    <3> HIDE DEF next, Sets
    <3> QED BY <1>3
  <2>3. ASSUME NEW s \in Sets, Cardinality(s) <= k + 1 PROVE next(h, s) = next(g, s)
    <3>1. CASE s = {}
      BY <3>1
    <3>2. CASE s # {}
      <4>1. s \ {pick[s]} \in Sets /\ Cardinality(s \ {pick[s]}) <= k
        BY <1>0, <1>1, <1>2, <2>3, <3>2
      <4>2. h[s \ {pick[s]}] = g[s \ {pick[s]}]
        <5> HIDE DEF next, Sets
        <5> QED BY <4>1
      <4> HIDE DEF h
      <4> QED BY <4>2
    <3> QED BY <3>1, <3>2
  <2>4. ASSUME NEW s \in Sets, Cardinality(s) <= k + 1 PROVE h[s] = next(h, s)
    <3>1. h[s] = IF Cardinality(s) <= k THEN g[s] ELSE next(g, s)
      BY Zenon
    <3>2. next(h, s) = next(g, s)
      BY <2>3, <2>4
    <3> HIDE DEF h, next, Sets
    <3> QED BY <2>1, <3>1, <3>2
  <2>5. upTo(k + 1)
    <3> HIDE DEF h, next, Sets
    <3> QED BY <2>2, <2>4
  <2> HIDE DEF upTo
  <2> QED BY <1>0, <2>5
<1>6. upTo(n)
  <2>1. good \in SUBSET (0 .. n)
    BY Zenon
  <2>2. n \in good
    <3> HIDE DEF good
    <3> QED BY <1>0, <1>4, <1>5, <2>1, UpToByOne
  <2> HIDE DEF upTo
  <2> QED BY <2>2
<1>7. PICK g \in [Sets -> T] : \A s \in Sets : Cardinality(s) <= n => g[s] = next(g, s)
  BY <1>6
<1>8. \A s \in Sets : g[s] = next(g, s)
  <2> HIDE DEF next, Sets
  <2> QED BY <1>1, <1>7
<1> QED BY <1>8 DEF Folds

(* A fold over indices, from the last one down.                                      *)
FoldsDown(f, S, base, F) ==
  /\ f[{}] = base
  /\ \A s \in SUBSET S :
       s # {} => Greatest(s) \in s /\ f[s] = F[<<f[s \ {Greatest(s)}], Greatest(s)>>]

LEMMA FoldedUpTo ==
  ASSUME NEW n \in Nat, NEW numbers, numbers = 1 .. n,
         NEW T, NEW base \in T, NEW F \in [T \X numbers -> T]
  PROVE  \E f \in [SUBSET numbers -> T] : FoldsDown(f, numbers, base, F)
<1> DEFINE pick == [s \in SUBSET numbers |-> Greatest(s)]
<1>1. IsFiniteSet(numbers)
  BY FS_Interval
<1>2. ASSUME NEW s \in SUBSET numbers, s # {} PROVE Greatest(s) \in s /\ pick[s] = Greatest(s)
  <2>1. s \in SUBSET (0 .. n)
    OBVIOUS
  <2>2. Greatest(s) \in s
    BY <1>2, <2>1, GreatestOf
  <2> QED BY <2>2
<1> HIDE DEF pick
<1>3. Picks(pick, numbers)
  BY <1>2 DEF Picks
<1>4. PICK f \in [SUBSET numbers -> T] : Folds(f, numbers, base, F, pick)
  BY <1>1, <1>3, FoldIsThere
<1>5. f[{}] = base
  BY <1>4 DEF Folds
<1>6. ASSUME NEW s \in SUBSET numbers, s # {}
      PROVE  Greatest(s) \in s /\ f[s] = F[<<f[s \ {Greatest(s)}], Greatest(s)>>]
  BY <1>2, <1>4, <1>6 DEF Folds
<1> QED BY <1>4, <1>5, <1>6 DEF FoldsDown
=============================================================================
