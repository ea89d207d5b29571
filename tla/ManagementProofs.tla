-------------------------- MODULE ManagementProofs --------------------------
(***************************************************************************)
(* Theorems about the parts of ManagementParts, for all values of their        *)
(* constants.                                                                *)
(***************************************************************************)
EXTENDS ManagementParts, FiniteSetTheorems, SequenceTheorems, TLAPS

(***************************************************************************)
(* A behaviour of the parts is one of each part, or leaves it where it begins.    *)
(***************************************************************************)

LEMMA BeginsWithEach ==
  ASSUME Begin
  PROVE  /\ Local!Init /\ OneFile!Init /\ Community!Init /\ Editor!Init /\ Page!Init
         /\ Server!Init /\ Detection!Init /\ Bridge!Init /\ MainConfiguration!Init
BY DEF Begin

LEMMA StepsOfEach ==
  ASSUME [Step]_allVars
  PROVE  /\ [Local!Next]_localVars /\ [OneFile!Next]_fileVars
         /\ [Community!Next]_communityVars /\ [Editor!Next]_editorVars
         /\ [Page!Next]_pageVars /\ [Server!Next]_serverVars
         /\ [Detection!Next]_detectionVars /\ [Bridge!Next]_bridgeVars
         /\ [MainConfiguration!Next]_settingsVars
BY DEF Step, allVars, Slaves, LocalDirectory, FilesOfSpecification, Contributing,
       EditingSpecification, EditingSlaves, Starting, Detecting, Bridging, Configuring

(***************************************************************************)
(* Numbers: a finite set of integers has one way to list it upwards, and a highest    *)
(* element.                                                                  *)
(***************************************************************************)

Upwards(S) ==
  {q \in [1 .. Cardinality(S) -> S] : \A i, j \in 1 .. Cardinality(S) : i < j => q[i] < q[j]}

LEMMA NumbersAreListed ==
  ASSUME NEW S \in SUBSET Int, IsFiniteSet(S)
  PROVE  \E q \in Upwards(S) : \A x \in S : \E i \in 1 .. Cardinality(S) : q[i] = x
<1> DEFINE n == Cardinality(S)
           upTo(x) == {y \in S : y <= x}
           rank == [x \in S |-> Cardinality(upTo(x))]
           q == [i \in 1 .. n |-> CHOOSE x \in S : rank[x] = i]
<1>0. \A x \in S : x \in Int
  OBVIOUS
<1>1. n \in Nat
  BY FS_CardinalityType
<1>2. ASSUME NEW x \in S PROVE IsFiniteSet(upTo(x)) /\ rank[x] \in 1 .. n
  <2>1. upTo(x) \in SUBSET S /\ x \in upTo(x)
    OBVIOUS
  <2>2. IsFiniteSet(upTo(x)) /\ Cardinality(upTo(x)) <= n /\ Cardinality(upTo(x)) \in Nat
    BY <2>1, FS_Subset, FS_CardinalityType
  <2>3. Cardinality(upTo(x)) # 0
    BY <2>1, <2>2, FS_EmptySet
  <2>4. rank[x] = Cardinality(upTo(x))
    OBVIOUS
  <2> HIDE DEF upTo, rank, n
  <2> QED BY <2>2, <2>3, <2>4, <1>1
<1>3. ASSUME NEW x \in S, NEW y \in S, x < y PROVE rank[x] < rank[y]
  <2>1. upTo(x) \in SUBSET upTo(y) /\ y \in upTo(y) \ upTo(x)
    <3>1. x \in Int /\ y \in Int
      BY <1>0
    <3>2. ASSUME NEW z \in S, z <= x PROVE z <= y
      <4>1. z \in Int
        BY <1>0
      <4> QED BY <1>3, <3>1, <3>2, <4>1
    <3>3. y <= y /\ ~(y <= x)
      BY <1>3, <3>1
    <3> QED BY <3>2, <3>3
  <2>2. Cardinality(upTo(x)) <= Cardinality(upTo(y)) /\ Cardinality(upTo(x)) # Cardinality(upTo(y))
    BY <1>2, <2>1, FS_Subset
  <2>3. rank[x] = Cardinality(upTo(x)) /\ rank[y] = Cardinality(upTo(y))
    OBVIOUS
  <2>4. rank[x] \in 1 .. n /\ rank[y] \in 1 .. n
    BY <1>2
  <2> HIDE DEF upTo, rank, n
  <2> QED BY <1>1, <2>2, <2>3, <2>4
<1>4. rank \in [S -> 1 .. n]
  BY <1>2
<1> HIDE DEF rank, n
<1>5. rank \in Surjection(S, 1 .. n)
  <2>1. rank \in Injection(S, 1 .. n)
    <3>1. ASSUME NEW x \in S, NEW y \in S, rank[x] = rank[y] PROVE x = y
      <4>1. rank[x] \in Int /\ rank[y] \in Int
        BY <1>1, <1>4
      <4>2. ~(x < y) /\ ~(y < x)
        BY <1>3, <3>1, <4>1
      <4> QED BY <1>0, <4>2
    <3> QED BY <1>4, <3>1 DEF Injection, IsInjective
  <2>2. IsFiniteSet(1 .. n) /\ Cardinality(1 .. n) = Cardinality(S)
    BY <1>1, FS_Interval DEF n
  <2> QED BY <2>1, <2>2, FS_Injection
<1>6. ASSUME NEW i \in 1 .. n PROVE q[i] \in S /\ rank[q[i]] = i
  BY <1>5 DEF Surjection
<1> HIDE DEF q
<1>7. q \in [1 .. n -> S]
  BY <1>6 DEF q
<1>8. ASSUME NEW i \in 1 .. n, NEW j \in 1 .. n, i < j PROVE q[i] < q[j]
  <2>1. q[i] \in S /\ q[j] \in S /\ rank[q[i]] = i /\ rank[q[j]] = j
    BY <1>6
  <2>2. ~(q[j] < q[i]) /\ q[i] # q[j]
    <3>1. ~(q[j] < q[i])
      <4>1. q[j] < q[i] => rank[q[j]] < rank[q[i]]
        BY <1>3, <2>1
      <4> QED BY <1>1, <1>8, <2>1, <4>1
    <3> QED BY <1>1, <1>8, <2>1, <3>1
  <2>3. q[i] \in Int /\ q[j] \in Int
    BY <1>0, <2>1
  <2> QED BY <2>2, <2>3
<1>9. ASSUME NEW x \in S PROVE \E i \in 1 .. n : q[i] = x
  <2>1. rank[x] \in 1 .. n /\ q[rank[x]] \in S /\ rank[q[rank[x]]] = rank[x]
    BY <1>2, <1>6
  <2>2. ~(x < q[rank[x]]) /\ ~(q[rank[x]] < x)
    <3>1. x < q[rank[x]] => rank[x] < rank[q[rank[x]]]
      BY <1>3, <2>1
    <3>2. q[rank[x]] < x => rank[q[rank[x]]] < rank[x]
      BY <1>3, <2>1
    <3> QED BY <1>1, <2>1, <3>1, <3>2
  <2>3. q[rank[x]] = x
    <3>1. x \in Int /\ q[rank[x]] \in Int
      BY <1>0, <2>1
    <3> QED BY <2>2, <3>1
  <2> QED BY <2>1, <2>3
<1> QED BY <1>7, <1>8, <1>9 DEF Upwards, n

LEMMA NumbersHaveHighest ==
  ASSUME NEW S \in SUBSET Int, IsFiniteSet(S), S # {}
  PROVE  \E x \in S : \A y \in S : x >= y
<1>0. \A x \in S : x \in Int
  OBVIOUS
<1>1. PICK q \in Upwards(S) : \A x \in S : \E i \in 1 .. Cardinality(S) : q[i] = x
  BY NumbersAreListed
<1>2. Cardinality(S) \in Nat /\ Cardinality(S) # 0
  BY FS_CardinalityType, FS_EmptySet
<1>3. ASSUME NEW i \in 1 .. Cardinality(S) PROVE q[i] \in S /\ q[Cardinality(S)] >= q[i]
  <2>1. q[i] \in S /\ q[Cardinality(S)] \in S
    BY <1>1, <1>2 DEF Upwards
  <2>2. i < Cardinality(S) => q[i] < q[Cardinality(S)]
    BY <1>1, <1>2 DEF Upwards
  <2>3. q[i] \in Int /\ q[Cardinality(S)] \in Int
    BY <1>0, <2>1
  <2>4. i = Cardinality(S) \/ i < Cardinality(S)
    BY <1>2
  <2> QED BY <2>1, <2>2, <2>3, <2>4
<1>4. q[Cardinality(S)] \in S
  BY <1>2, <1>3
<1> QED BY <1>1, <1>3, <1>4

(* Taking the i-th element out of a sequence, and putting one there.                *)
LEMMA TakenOut ==
  ASSUME NEW T, NEW s \in Seq(T), NEW i \in 1 .. Len(s)
  PROVE  LET r == SubSeq(s, 1, i - 1) \o SubSeq(s, i + 1, Len(s))
         IN  /\ r \in Seq(T) /\ Len(r) = Len(s) - 1
             /\ \A k \in 1 .. Len(s) - 1 : r[k] = IF k < i THEN s[k] ELSE s[k + 1]
<1> DEFINE left == SubSeq(s, 1, i - 1)
           right == SubSeq(s, i + 1, Len(s))
           r == left \o right
<1>0. Len(s) \in Nat /\ i \in Int
  OBVIOUS
<1>1. left \in Seq(T) /\ Len(left) = i - 1 /\ \A k \in 1 .. i - 1 : left[k] = s[k]
  OBVIOUS
<1>2. right \in Seq(T) /\ Len(right) = Len(s) - i /\ \A k \in 1 .. Len(s) - i : right[k] = s[i + k]
  OBVIOUS
<1> HIDE DEF left, right
<1>4. /\ r \in Seq(T) /\ Len(r) = Len(left) + Len(right)
      /\ \A k \in 1 .. Len(left) + Len(right) :
           r[k] = IF k <= Len(left) THEN left[k] ELSE right[k - Len(left)]
  BY <1>1, <1>2, ConcatProperties
<1> HIDE DEF r
<1>5. Len(r) = Len(s) - 1
  BY <1>0, <1>1, <1>2, <1>4
<1>6. ASSUME NEW k \in 1 .. Len(s) - 1 PROVE r[k] = IF k < i THEN s[k] ELSE s[k + 1]
  <2>0. r[k] = IF k <= Len(left) THEN left[k] ELSE right[k - Len(left)]
    <3>1. Len(left) + Len(right) = Len(s) - 1
      BY <1>0, <1>1, <1>2
    <3> QED BY <1>4, <3>1
  <2>1. CASE k < i
    BY <1>0, <1>1, <2>0, <2>1
  <2>2. CASE k >= i
    <3>1. r[k] = right[k - Len(left)]
      BY <1>0, <1>1, <2>0, <2>2
    <3>2. k - (i - 1) \in 1 .. Len(s) - i /\ i + (k - (i - 1)) = k + 1
      BY <1>0, <2>2
    <3>3. right[k - (i - 1)] = s[i + (k - (i - 1))]
      BY <1>2, <3>2
    <3> QED BY <1>0, <1>1, <2>2, <3>1, <3>2, <3>3
  <2> QED BY <1>0, <2>1, <2>2
<1> QED BY <1>4, <1>5, <1>6 DEF r, left, right

Inserted(s, i, e) == SubSeq(s, 1, i - 1) \o <<e>> \o SubSeq(s, i, Len(s))

HasPut(r, s, i, e) ==
  /\ Len(r) = Len(s) + 1
  /\ \A k \in 1 .. Len(s) + 1 : r[k] = IF k < i THEN s[k] ELSE IF k = i THEN e ELSE s[k - 1]

LEMMA PutIn ==
  ASSUME NEW T, NEW s \in Seq(T), NEW e \in T, NEW i \in 1 .. Len(s) + 1
  PROVE  Inserted(s, i, e) \in Seq(T) /\ HasPut(Inserted(s, i, e), s, i, e)
<1> DEFINE left == SubSeq(s, 1, i - 1)
           right == SubSeq(s, i, Len(s))
           front == left \o <<e>>
           r == front \o right
<1>0. Len(s) \in Nat /\ i \in Int
  OBVIOUS
<1>1. left \in Seq(T) /\ Len(left) = i - 1 /\ \A k \in 1 .. i - 1 : left[k] = s[k]
  OBVIOUS
<1>2. right \in Seq(T) /\ Len(right) = Len(s) + 1 - i
        /\ \A k \in 1 .. Len(s) + 1 - i : right[k] = s[i + k - 1]
  OBVIOUS
<1> HIDE DEF left, right
<1>4. front \in Seq(T) /\ Len(front) = i /\ front[i] = e /\ \A k \in 1 .. i - 1 : front[k] = s[k]
  BY <1>1
<1> HIDE DEF front
<1>5. /\ r \in Seq(T) /\ Len(r) = Len(front) + Len(right)
      /\ \A k \in 1 .. Len(front) + Len(right) :
           r[k] = IF k <= Len(front) THEN front[k] ELSE right[k - Len(front)]
  BY <1>2, <1>4, ConcatProperties
<1> HIDE DEF r
<1>6. Len(r) = Len(s) + 1
  BY <1>0, <1>2, <1>4, <1>5
<1>7. ASSUME NEW k \in 1 .. Len(s) + 1
      PROVE  r[k] = IF k < i THEN s[k] ELSE IF k = i THEN e ELSE s[k - 1]
  <2>1. CASE k <= i
    BY <1>0, <1>2, <1>4, <1>5, <2>1
  <2>2. CASE k > i
    <3>1. r[k] = right[k - Len(front)]
      BY <1>0, <1>2, <1>4, <1>5, <2>2
    <3>2. k - i \in 1 .. Len(s) + 1 - i /\ i + (k - i) - 1 = k - 1
      BY <1>0, <2>2
    <3>3. right[k - i] = s[i + (k - i) - 1]
      BY <1>2, <3>2
    <3> QED BY <1>0, <1>4, <2>2, <3>1, <3>2, <3>3
  <2> QED BY <1>0, <2>1, <2>2
<1> QED BY <1>5, <1>6, <1>7 DEF r, front, left, right, Inserted, HasPut

(***************************************************************************)
(* Folds: what MapThenFoldSet defines is there, and runs through a sequence in its order. *)
(* Sets stand for what holds of a number, functions for what is folded.             *)
(***************************************************************************)

LEMMA UpToByOne ==
  ASSUME NEW n \in Nat, NEW S \in SUBSET (0 .. n), 0 \in S,
         \A k \in 0 .. n - 1 : k \in S => k + 1 \in S
  PROVE  \A k \in 0 .. n : k \in S
<1> SUFFICES ASSUME NEW k \in 0 .. n, k \notin S PROVE FALSE
  OBVIOUS
<1> DEFINE below == {i \in 0 .. n : i <= k /\ \A j \in 0 .. i : j \in S}
<1>1. below \in SUBSET Int /\ 0 \in below
  <2>1. 0 \in 0 .. n /\ 0 <= k /\ \A j \in 0 .. 0 : j = 0
    OBVIOUS
  <2> QED BY <2>1
<1>2. IsFiniteSet(below)
  <2>1. IsFiniteSet(0 .. n) /\ below \in SUBSET (0 .. n)
    BY FS_Interval
  <2> HIDE DEF below
  <2> QED BY <2>1, FS_Subset
<1>3. PICK x \in below : \A y \in below : x >= y
  <2> HIDE DEF below
  <2> QED BY <1>1, <1>2, NumbersHaveHighest
<1>4. x \in 0 .. n /\ x <= k /\ \A j \in 0 .. x : j \in S
  OBVIOUS
<1>5. x # k
  BY <1>4
<1>6. x + 1 \in S /\ x + 1 \in 0 .. n /\ x + 1 <= k
  BY <1>4, <1>5
<1>7. \A j \in 0 .. x + 1 : j \in 0 .. x \/ j = x + 1
  BY <1>4
<1>8. x + 1 \in below
  BY <1>4, <1>6, <1>7
<1>9. x >= x + 1
  BY <1>3, <1>8
<1> QED BY <1>4, <1>9

Top(S) == CHOOSE x \in S : \A y \in S : x >= y

LEMMA TopOf ==
  ASSUME NEW n \in Nat, NEW s \in SUBSET (1 .. n), s # {}
  PROVE  /\ Top(s) \in s /\ (\A y \in s : Top(s) >= y)
         /\ Cardinality(s) \in Nat \ {0} /\ Cardinality(s \ {Top(s)}) = Cardinality(s) - 1
<1>1. IsFiniteSet(s) /\ s \in SUBSET Int
  <2>1. IsFiniteSet(1 .. n)
    BY FS_Interval
  <2>2. IsFiniteSet(s)
    BY <2>1, FS_Subset, Zenon
  <2> QED BY <2>2
<1>2. \E x \in s : \A y \in s : x >= y
  BY <1>1, NumbersHaveHighest
<1>3. Top(s) \in s /\ \A y \in s : Top(s) >= y
  BY <1>2, Zenon DEF Top
<1>4. Cardinality(s) \in Nat /\ Cardinality(s) # 0
  BY <1>1, FS_CardinalityType, FS_EmptySet
<1> QED BY <1>1, <1>3, <1>4, FS_RemoveElement

Folds(g, n, base, F) ==
  \A s \in SUBSET (1 .. n) : g[s] = IF s = {} THEN base ELSE F[<<g[s \ {Top(s)}], Top(s)>>]

LEMMA FoldIsThere ==
  ASSUME NEW n \in Nat, NEW T, NEW base \in T, NEW F \in [T \X (1 .. n) -> T]
  PROVE  \E g \in [SUBSET (1 .. n) -> T] : Folds(g, n, base, F)
<1> DEFINE Sets == SUBSET (1 .. n)
           next(g, s) == IF s = {} THEN base ELSE F[<<g[s \ {Top(s)}], Top(s)>>]
           upTo(k) == \E g \in [Sets -> T] : \A s \in Sets : Cardinality(s) <= k => g[s] = next(g, s)
           good == {k \in 0 .. n : upTo(k)}
<1>1. \A s \in Sets : Cardinality(s) \in Nat /\ Cardinality(s) <= n /\ (Cardinality(s) = 0 <=> s = {})
  <2>1. IsFiniteSet(1 .. n) /\ Cardinality(1 .. n) = n
    BY FS_Interval
  <2>2. ASSUME NEW s \in SUBSET (1 .. n)
        PROVE  IsFiniteSet(s) /\ Cardinality(s) <= Cardinality(1 .. n)
    BY <2>1, FS_Subset, Zenon
  <2> QED BY <2>1, <2>2, FS_CardinalityType, FS_EmptySet
<1>2. ASSUME NEW s \in Sets, s # {}
      PROVE  Top(s) \in 1 .. n /\ s \ {Top(s)} \in Sets /\ Cardinality(s \ {Top(s)}) = Cardinality(s) - 1
  BY <1>2, TopOf
<1>3. ASSUME NEW g \in [Sets -> T], NEW s \in Sets PROVE next(g, s) \in T
  BY <1>2
<1>4. 0 \in good
  <2>1. [s \in Sets |-> base] \in [Sets -> T]
    OBVIOUS
  <2>2. \A s \in Sets : Cardinality(s) <= 0 => s = {}
    BY <1>1
  <2>3. \A g : next(g, {}) = base
    OBVIOUS
  <2> HIDE DEF next
  <2>4. upTo(0)
    BY <2>1, <2>2, <2>3
  <2> HIDE DEF upTo
  <2> QED BY <2>4
<1>5. ASSUME NEW k \in 0 .. n - 1, k \in good PROVE k + 1 \in good
  <2>1. PICK g \in [Sets -> T] : \A s \in Sets : Cardinality(s) <= k => g[s] = next(g, s)
    BY <1>5
  <2> DEFINE h == [s \in Sets |-> IF Cardinality(s) <= k THEN g[s] ELSE next(g, s)]
  <2>2. h \in [Sets -> T]
    <3> HIDE DEF next, Sets
    <3> QED BY <1>3
  <2>3. ASSUME NEW s \in Sets, Cardinality(s) <= k + 1 PROVE next(h, s) = next(g, s)
    <3>1. CASE s = {}
      BY <3>1
    <3>2. CASE s # {}
      <4>1. s \ {Top(s)} \in Sets /\ Cardinality(s \ {Top(s)}) <= k
        BY <1>1, <1>2, <2>3, <3>2
      <4>2. h[s \ {Top(s)}] = g[s \ {Top(s)}]
        <5> HIDE DEF next, Sets
        <5> QED BY <4>1
      <4> HIDE DEF h
      <4> QED BY <4>2
    <3> QED BY <3>1, <3>2
  <2>4. ASSUME NEW s \in Sets, Cardinality(s) <= k + 1 PROVE h[s] = next(h, s)
    <3>1. h[s] = IF Cardinality(s) <= k THEN g[s] ELSE next(g, s)
      BY Zenon
    <3>2. next(h, s) = next(g, s)
      BY <2>3, <2>4
    <3> HIDE DEF h, next, Sets
    <3> QED BY <2>1, <3>1, <3>2
  <2>5. upTo(k + 1)
    <3> HIDE DEF h, next, Sets
    <3> QED BY <2>2, <2>4
  <2> HIDE DEF upTo
  <2> QED BY <2>5
<1>6. upTo(n)
  <2>1. good \in SUBSET (0 .. n)
    BY Zenon
  <2>2. n \in good
    <3> HIDE DEF good
    <3> QED BY <1>4, <1>5, <2>1, UpToByOne
  <2> HIDE DEF upTo
  <2> QED BY <2>2
<1>7. PICK g \in [Sets -> T] : \A s \in Sets : Cardinality(s) <= n => g[s] = next(g, s)
  BY <1>6
<1>8. \A s \in Sets : g[s] = next(g, s)
  <2> HIDE DEF next, Sets
  <2> QED BY <1>1, <1>7
<1> QED BY <1>8 DEF Folds

(* A fold goes from the first element to the last.                                 *)
LEMMA FoldGoesOn ==
  ASSUME NEW n \in Nat, NEW k \in 1 .. n
  PROVE  /\ 1 .. k \in SUBSET (1 .. n) /\ 1 .. k # {}
         /\ Top(1 .. k) = k /\ (1 .. k) \ {Top(1 .. k)} = 1 .. k - 1
<1>1. 1 .. k \in SUBSET (1 .. n) /\ k \in 1 .. k
  OBVIOUS
<1>2. Top(1 .. k) \in 1 .. k /\ Top(1 .. k) >= k
  BY <1>1, TopOf
<1>3. Top(1 .. k) = k
  BY <1>2
<1> QED BY <1>1, <1>3

(***************************************************************************)
(* Configuration: nothing but the end of an import and the user's file manager      *)
(* removes the marker; every other writer leaves it where it is.                   *)
(***************************************************************************)

(* The directory has its three fields, so that writing one keeps the others.       *)
DirectoryShape == DOMAIN disk = {"busses", "config", "marker"} /\ partial \in BOOLEAN

(* What an unfinished import left carries the marker.                            *)
PartialIsMarked == partial => disk.marker

(* The marker was looked at when the configuration was read, and nobody imports      *)
(* before the server runs.                                                     *)
ReadWithoutMarker == process = "starting" => ~partial

DirectoryInv == DirectoryShape /\ PartialIsMarked /\ ReadWithoutMarker

LEMMA DirectoryInit == Local!Init => DirectoryInv
BY DEF Local!Init, Local!Empty, DirectoryInv, DirectoryShape, PartialIsMarked, ReadWithoutMarker

(* A handler that rewrites busses or the configuration file leaves the marker.       *)
LEMMA WritersKeepMarker ==
  ASSUME DirectoryInv, NEW b, NEW c, UNCHANGED <<process, partial>>,
         disk' = disk \/ disk' = [disk EXCEPT !.busses = b] \/ disk' = [disk EXCEPT !.config = c]
  PROVE  DirectoryInv'
BY DEF DirectoryInv, DirectoryShape, PartialIsMarked, ReadWithoutMarker

LEMMA PartsAreMarked ==
  ASSUME NEW a, NEW d \in Local!Parts(a)
  PROVE  DOMAIN d = {"busses", "config", "marker"} /\ d.marker
BY DEF Local!Parts

LEMMA DirectoryNext == DirectoryInv /\ [Local!Next]_localVars => DirectoryInv' /\ (process # "up" /\ process' = "up" => ~partial)
<1> DEFINE StepOK == DirectoryInv' /\ (process # "up" /\ process' = "up" => ~partial)
<1> SUFFICES ASSUME DirectoryInv, [Local!Next]_localVars PROVE StepOK
  OBVIOUS
<1>1. ASSUME NEW c \in Connections, Local!AddBus(c) PROVE StepOK
  BY <1>1, WritersKeepMarker DEF Local!AddBus
<1>2. ASSUME NEW i \in 1 .. Len(busses), NEW c \in Connections, Local!UpdateBus(i, c) PROVE StepOK
  BY <1>2, WritersKeepMarker DEF Local!UpdateBus
<1>3. ASSUME NEW i \in 1 .. Len(busses), Local!DeleteBus(i) PROVE StepOK
  BY <1>3, WritersKeepMarker DEF Local!DeleteBus
<1>4. CASE Local!SaveConfiguration
  BY <1>4, WritersKeepMarker DEF Local!SaveConfiguration
<1>5. ASSUME NEW a \in Archives, Local!Import(a) PROVE StepOK
  BY <1>5 DEF Local!Import, DirectoryInv, DirectoryShape, PartialIsMarked, ReadWithoutMarker
<1>6. ASSUME NEW a \in Archives, Local!ImportFails(a) PROVE StepOK
  BY <1>6, PartsAreMarked DEF Local!ImportFails, DirectoryInv, DirectoryShape, PartialIsMarked, ReadWithoutMarker
<1>7. ASSUME NEW a \in Archives, Local!CrashInImport(a) PROVE StepOK
  BY <1>7, PartsAreMarked DEF Local!CrashInImport, DirectoryInv, DirectoryShape, PartialIsMarked, ReadWithoutMarker
<1>8. CASE Local!Reload
  BY <1>8, WritersKeepMarker DEF Local!Reload
<1>9. CASE Local!Start
  BY <1>9 DEF Local!Start, DirectoryInv, DirectoryShape, PartialIsMarked, ReadWithoutMarker
<1>10. CASE Local!StartServer
  BY <1>10 DEF Local!StartServer, DirectoryInv, DirectoryShape, PartialIsMarked, ReadWithoutMarker
<1>11. CASE Local!Crash
  BY <1>11 DEF Local!Crash, DirectoryInv, DirectoryShape, PartialIsMarked, ReadWithoutMarker
<1>12. CASE Local!DeleteLocalDirectory
  BY <1>12 DEF Local!DeleteLocalDirectory, Local!Empty, DirectoryInv, DirectoryShape, PartialIsMarked, ReadWithoutMarker
<1>13. CASE UNCHANGED localVars
  BY <1>13 DEF localVars, DirectoryInv, DirectoryShape, PartialIsMarked, ReadWithoutMarker
<1> HIDE DEF StepOK
<1>14. StepOK
  BY <1>1, <1>2, <1>3, <1>4, <1>5, <1>6, <1>7, <1>8, <1>9, <1>10, <1>11, <1>12, <1>13 DEF Local!Next
<1> QED BY <1>14

(* Whatever is imported, interrupted, tried again, edited or started in between, no       *)
(* process comes up with a directory that an unfinished import has written            *)
(* (ConfigPersistence.importLocalZip, read).                                     *)
THEOREM PartialImportNeverServes == PartsSpec => NeverStartsPartial
<1>1. Begin => DirectoryInv
  BY BeginsWithEach, DirectoryInit
<1>2. DirectoryInv /\ [Step]_allVars => DirectoryInv'
  BY StepsOfEach, DirectoryNext
<1>3. DirectoryInv /\ [Step]_allVars =>
        [process # "up" /\ process' = "up" => ~partial]_<<process, disk, configBusses, busses, reloads, partial, apart>>
  BY StepsOfEach, DirectoryNext
<1> QED BY <1>1, <1>2, <1>3, PTL DEF PartsSpec, NeverStartsPartial, Local!NeverStartsPartial, Local!vars

(***************************************************************************)
(* Configuration: an object without properties of its own is of a configured bus, and *)
(* no two objects are of one bus, whatever the sweep of removed busses leaves behind.  *)
(***************************************************************************)

Tables == Local!BusTable \cup {<<>>}
Objects == [id : Local!BusIds, stale : Connections \cup {NoConnection}]

LocalTyped ==
  /\ Local!TypeOK
  /\ busses \in Seq(Objects)

Apart(q) == \A i, j \in DOMAIN q : q[i].id = q[j].id => i = j

(* Every object that is not stale is of a bus of the table.                        *)
Refers(q, table) == \A i \in DOMAIN q : q[i].stale = NoConnection => q[i].id \in DOMAIN table

Lists(q, table) == \A b \in DOMAIN table : \E i \in DOMAIN q : q[i].id = b

NoneStale(q) == \A i \in DOMAIN q : q[i].stale = NoConnection

BussesAgree ==
  process = "up" /\ ~apart =>
    disk.busses = configBusses /\ Lists(busses, configBusses) /\ NoneStale(busses)

BussesInv ==
  LocalTyped /\ Apart(busses) /\ Refers(busses, configBusses) /\ BussesAgree

LEMMA LocalFacts ==
  /\ Archives \subseteq Local!ArchiveType /\ NoConnection \notin Connections
  /\ MaxBusId \in Nat /\ MaxReloads \in Nat
  /\ IsFiniteSet(Local!BusIds) /\ Local!BusIds \subseteq Int
<1>1. MaxBusId \in Nat
  BY PartsAssumption DEF Local!ArchivesAssumption
<1> QED BY <1>1, PartsAssumption, FS_Interval DEF Local!ArchivesAssumption, Local!BusIds

LEMMA TablesAre ==
  ASSUME NEW t \in Tables
  PROVE  /\ DOMAIN t \subseteq Local!BusIds /\ IsFiniteSet(DOMAIN t)
         /\ \A b \in DOMAIN t : t[b] \in Connections
<1>1. DOMAIN t \subseteq Local!BusIds /\ \A b \in DOMAIN t : t[b] \in Connections
  <2>1. CASE t \in Local!BusTable
    BY <2>1 DEF Local!BusTable
  <2>2. CASE t = <<>>
    BY <2>2
  <2> QED BY <2>1, <2>2 DEF Tables
<1> QED BY <1>1, LocalFacts, FS_Subset

LEMMA WrittenTables ==
  ASSUME NEW t \in Tables, NEW b \in Local!BusIds, NEW c \in Connections
  PROVE  Local!With(t, b, c) \in Tables /\ DOMAIN Local!With(t, b, c) = DOMAIN t \cup {b}
<1>1. Local!With(t, b, c) \in [DOMAIN t \cup {b} -> Connections]
  BY TablesAre DEF Local!With
<1>2. DOMAIN t \cup {b} \in SUBSET Local!BusIds
  BY TablesAre
<1> QED BY <1>1, <1>2 DEF Tables, Local!BusTable

LEMMA ErasedTables ==
  ASSUME NEW t \in Tables, NEW b
  PROVE  Local!Without(t, b) \in Tables /\ DOMAIN Local!Without(t, b) = DOMAIN t \ {b}
<1>1. Local!Without(t, b) \in [DOMAIN t \ {b} -> Connections]
  BY TablesAre DEF Local!Without, Local!Restrict
<1>2. DOMAIN t \ {b} \in SUBSET Local!BusIds
  BY TablesAre
<1> QED BY <1>1, <1>2 DEF Tables, Local!BusTable

(* The one of the part is the one of the theorems about finite sets.                 *)
LEMMA LocalCardinality == ASSUME NEW S PROVE Local!Cardinality(S) = Cardinality(S)
BY Zenon DEF Local!Cardinality, Cardinality

LEMMA ListedUpwards ==
  ASSUME NEW S \in SUBSET Int, IsFiniteSet(S)
  PROVE  /\ Cardinality(S) \in Nat
         /\ Local!Ascending(S) \in [1 .. Cardinality(S) -> S]
         /\ \A i, j \in 1 .. Cardinality(S) : Local!Ascending(S)[i] = Local!Ascending(S)[j] => i = j
         /\ \A x \in S : \E i \in 1 .. Cardinality(S) : Local!Ascending(S)[i] = x
<1> DEFINE n == Cardinality(S)
           q == Local!Ascending(S)
<1>0. \A x \in S : x \in Int
  OBVIOUS
<1>1. n \in Nat
  BY FS_CardinalityType
<1>2. q \in Upwards(S)
  <2>1. \E p \in [1 .. n -> S] : \A i, j \in 1 .. n : i < j => p[i] < p[j]
    BY NumbersAreListed DEF Upwards
  <2>2. q = CHOOSE p \in [1 .. n -> S] : \A i, j \in 1 .. n : i < j => p[i] < p[j]
    BY LocalCardinality, Zenon DEF Local!Ascending
  <2>3. q \in [1 .. n -> S] /\ \A i, j \in 1 .. n : i < j => q[i] < q[j]
    BY <2>1, <2>2, Zenon
  <2> QED BY <2>3 DEF Upwards
<1>3. q \in [1 .. n -> S] /\ \A i, j \in 1 .. n : i < j => q[i] < q[j]
  BY <1>2 DEF Upwards
<1> HIDE DEF q, n
<1>4. ASSUME NEW i \in 1 .. n, NEW j \in 1 .. n, q[i] = q[j] PROVE i = j
  <2>1. q[i] \in Int
    BY <1>0, <1>3
  <2>2. ~(i < j) /\ ~(j < i)
    BY <1>3, <1>4, <2>1
  <2> QED BY <1>1, <2>2
<1>5. q \in Surjection(1 .. n, S)
  <2>1. q \in Injection(1 .. n, S)
    BY <1>3, <1>4 DEF Injection, IsInjective
  <2>2. Cardinality(1 .. n) = Cardinality(S)
    BY <1>1, FS_Interval DEF n
  <2> QED BY <2>1, <2>2, FS_Injection
<1>6. \A x \in S : \E i \in 1 .. n : q[i] = x
  BY <1>5 DEF Surjection
<1> QED BY <1>1, <1>3, <1>4, <1>6 DEF n, q

(* What readBussesFromConfig leaves: the objects of the table and no other, but for      *)
(* stale ones.                                                               *)
Consistent(q, table) ==
  /\ q \in Seq(Objects) /\ Apart(q)
  /\ \A i \in DOMAIN q : q[i].stale = NoConnection <=> q[i].id \in DOMAIN table

From(r, q, table) ==
  \A i \in DOMAIN r : r[i].id \in DOMAIN table \/ \E k \in DOMAIN q : r[i].id = q[k].id

LEMMA UpdatedObjects ==
  ASSUME BussesInv, NEW table \in Tables
  PROVE  /\ Consistent(Local!Updated(table, busses), table)
         /\ From(Local!Updated(table, busses), busses, table)
<1> DEFINE u == Local!Updated(table, busses)
<1>1. busses \in Seq(Objects) /\ Apart(busses) /\ Refers(busses, configBusses)
  BY DEF BussesInv, LocalTyped
<1>2. ASSUME NEW i \in DOMAIN busses
      PROVE  /\ u[i] \in Objects /\ u[i].id = busses[i].id
             /\ u[i].stale = NoConnection <=> u[i].id \in DOMAIN table
  <2>1. busses[i] \in Objects
    BY <1>1
  <2>2. busses[i].stale = NoConnection => configBusses[busses[i].id] \in Connections
    BY <1>1, TablesAre DEF Refers, BussesInv, LocalTyped, Local!TypeOK, Tables
  <2>3. u[i] = IF busses[i].id \in DOMAIN table THEN [busses[i] EXCEPT !.stale = NoConnection]
               ELSE IF busses[i].stale # NoConnection THEN busses[i]
               ELSE [busses[i] EXCEPT !.stale = configBusses[busses[i].id]]
    BY DEF Local!Updated
  <2> HIDE DEF u
  <2> QED BY <2>1, <2>2, <2>3, LocalFacts DEF Objects
<1>3. u = [i \in 1 .. Len(busses) |-> u[i]] /\ DOMAIN busses = 1 .. Len(busses) /\ Len(busses) \in Nat
  BY <1>1 DEF Local!Updated
<1> HIDE DEF u
<1>4. u \in [1 .. Len(busses) -> Objects]
  BY <1>2, <1>3
<1>5. u \in Seq(Objects) /\ DOMAIN u = DOMAIN busses
  BY <1>3, <1>4
<1>6. Apart(u)
  BY <1>1, <1>2, <1>5 DEF Apart
<1> QED BY <1>2, <1>5, <1>6 DEF Consistent, From, u

LEMMA AppendedObjects ==
  ASSUME NEW table \in Tables, NEW q, Consistent(q, table)
  PROVE  /\ Consistent(Local!Appended(table, q), table) /\ Lists(Local!Appended(table, q), table)
         /\ From(Local!Appended(table, q), q, table)
<1> DEFINE new == DOMAIN table \ {q[i].id : i \in DOMAIN q}
           n == Cardinality(new)
           added == [i \in 1 .. n |-> [id |-> Local!Ascending(new)[i], stale |-> NoConnection]]
           a == q \o added
<1>1. /\ new \in SUBSET Int /\ IsFiniteSet(new) /\ new \subseteq DOMAIN table
      /\ new \subseteq Local!BusIds
  BY TablesAre, FS_Subset, LocalFacts
<1>2. /\ n \in Nat /\ Local!Ascending(new) \in [1 .. n -> new]
      /\ \A i, j \in 1 .. n : Local!Ascending(new)[i] = Local!Ascending(new)[j] => i = j
      /\ \A x \in new : \E i \in 1 .. n : Local!Ascending(new)[i] = x
  BY <1>1, ListedUpwards
<1>3. Local!Appended(table, q) = a
  BY LocalCardinality, Zenon DEF Local!Appended
<1>4. \A b \in DOMAIN table : b \in new \/ \E i \in DOMAIN q : q[i].id = b
  OBVIOUS
<1>5. \A b \in new : \A i \in DOMAIN q : q[i].id # b
  OBVIOUS
<1> HIDE DEF new, n
<1>6. /\ added \in Seq(Objects) /\ Len(added) = n /\ DOMAIN added = 1 .. n
      /\ \A i \in 1 .. n : added[i].stale = NoConnection /\ added[i].id = Local!Ascending(new)[i]
  <2>1. added \in [1 .. n -> Objects]
    BY <1>1, <1>2 DEF Objects
  <2> QED BY <1>2, <2>1
<1>7. q \in Seq(Objects) /\ DOMAIN q = 1 .. Len(q) /\ Len(q) \in Nat
  BY DEF Consistent
<1> HIDE DEF added
<1>8. /\ a \in Seq(Objects) /\ DOMAIN a = 1 .. Len(q) + n
      /\ \A i \in 1 .. Len(q) + n : a[i] = IF i <= Len(q) THEN q[i] ELSE added[i - Len(q)]
  BY <1>2, <1>6, <1>7, ConcatProperties
<1> HIDE DEF a
<1>9. ASSUME NEW i \in DOMAIN a
      PROVE  \/ i \in DOMAIN q /\ a[i] = q[i]
             \/ i - Len(q) \in 1 .. n /\ a[i] = added[i - Len(q)] /\ i \notin DOMAIN q
  BY <1>2, <1>7, <1>8
<1>10. ASSUME NEW i \in DOMAIN a
       PROVE  a[i].stale = NoConnection <=> a[i].id \in DOMAIN table
  <2>1. CASE i \in DOMAIN q /\ a[i] = q[i]
    BY <2>1 DEF Consistent
  <2>2. CASE i - Len(q) \in 1 .. n /\ a[i] = added[i - Len(q)]
    <3>1. a[i].stale = NoConnection /\ a[i].id \in new
      BY <1>2, <1>6, <2>2
    <3> QED BY <1>1, <3>1
  <2> QED BY <1>9, <2>1, <2>2
<1>11. ASSUME NEW i \in DOMAIN a, NEW j \in DOMAIN a, a[i].id = a[j].id PROVE i = j
  <2>1. CASE i \in DOMAIN q /\ a[i] = q[i] /\ j \in DOMAIN q /\ a[j] = q[j]
    BY <1>11, <2>1 DEF Consistent, Apart
  <2>2. CASE i - Len(q) \in 1 .. n /\ a[i] = added[i - Len(q)]
             /\ j - Len(q) \in 1 .. n /\ a[j] = added[j - Len(q)]
    <3>1. i - Len(q) = j - Len(q)
      BY <1>2, <1>6, <1>11, <2>2
    <3>2. i \in Int /\ j \in Int
      BY <1>8, <1>2, <1>7
    <3> QED BY <1>7, <3>1, <3>2
  <2>3. ASSUME NEW k \in DOMAIN q, NEW l \in 1 .. n PROVE q[k].id # added[l].id
    BY <1>2, <1>5, <1>6
  <2> QED BY <1>9, <1>11, <2>1, <2>2, <2>3
<1>12. ASSUME NEW b \in DOMAIN table PROVE \E i \in DOMAIN a : a[i].id = b
  <2>1. CASE b \in new
    <3>1. PICK k \in 1 .. n : added[k].id = b
      BY <1>2, <1>6, <2>1
    <3>2. Len(q) + k \in DOMAIN a /\ a[Len(q) + k] = added[Len(q) + k - Len(q)]
      <4>1. Len(q) + k \in 1 .. Len(q) + n /\ ~(Len(q) + k <= Len(q))
        BY <1>2, <1>7
      <4> QED BY <1>8, <4>1
    <3>3. Len(q) + k - Len(q) = k
      BY <1>7
    <3> QED BY <3>1, <3>2, <3>3
  <2>2. CASE \E k \in DOMAIN q : q[k].id = b
    <3>1. PICK k \in DOMAIN q : q[k].id = b
      BY <2>2
    <3>2. k \in DOMAIN a /\ a[k] = q[k]
      BY <1>2, <1>7, <1>8
    <3> QED BY <3>1, <3>2
  <2> QED BY <1>4, <2>1, <2>2
<1>13. From(a, q, table)
  <2>1. ASSUME NEW i \in DOMAIN a
        PROVE  a[i].id \in DOMAIN table \/ \E k \in DOMAIN q : a[i].id = q[k].id
    <3>1. CASE i - Len(q) \in 1 .. n /\ a[i] = added[i - Len(q)]
      <4>1. a[i].id \in new
        BY <1>2, <1>6, <3>1
      <4> QED BY <1>1, <4>1
    <3> QED BY <1>9, <3>1
  <2> QED BY <2>1 DEF From
<1> QED BY <1>3, <1>8, <1>10, <1>11, <1>12, <1>13 DEF Consistent, Apart, Lists

LEMMA SweptObjects ==
  ASSUME NEW table \in Tables, NEW q, Consistent(q, table), Lists(q, table)
  PROVE  /\ Consistent(Local!Swept(table, q), table) /\ Lists(Local!Swept(table, q), table)
         /\ From(Local!Swept(table, q), q, table)
<1>1. PICK stays \in SUBSET DOMAIN q :
        /\ \A i \in DOMAIN q : q[i].id \in DOMAIN table => i \in stays
        /\ Local!Swept(table, q) =
             [k \in 1 .. Cardinality(stays) |-> q[Local!Ascending(stays)[k]]]
  <2> DEFINE Row(i) == Local!Max({j \in 0 .. i - 1 : j = 0 \/ q[j].id \in DOMAIN table}) + 1
             stays == {i \in DOMAIN q : q[i].id \in DOMAIN table \/ (i - Row(i)) % 2 = 1}
  <2>1. Local!Swept(table, q) = [k \in 1 .. Cardinality(stays) |-> q[Local!Ascending(stays)[k]]]
    BY LocalCardinality, Zenon DEF Local!Swept
  <2>2. stays \in SUBSET DOMAIN q /\ \A i \in DOMAIN q : q[i].id \in DOMAIN table => i \in stays
    OBVIOUS
  <2> HIDE DEF stays
  <2> QED BY <2>1, <2>2
<1> DEFINE n == Cardinality(stays)
           p == Local!Ascending(stays)
           s == [k \in 1 .. n |-> q[p[k]]]
<1>2. q \in Seq(Objects) /\ DOMAIN q = 1 .. Len(q) /\ Len(q) \in Nat
  BY DEF Consistent
<1>3. stays \in SUBSET Int /\ IsFiniteSet(stays)
  <2>1. IsFiniteSet(DOMAIN q) /\ DOMAIN q \subseteq Int
    BY <1>2, FS_Interval
  <2> QED BY <2>1, FS_Subset
<1>4. /\ n \in Nat /\ p \in [1 .. n -> stays] /\ \A i, j \in 1 .. n : p[i] = p[j] => i = j
      /\ \A x \in stays : \E i \in 1 .. n : p[i] = x
  BY <1>3, ListedUpwards
<1> HIDE DEF n, p
<1>5. \A k \in 1 .. n : s[k] = q[p[k]] /\ p[k] \in DOMAIN q /\ q[p[k]] \in Objects
  BY <1>2, <1>4
<1>6. s \in Seq(Objects) /\ DOMAIN s = 1 .. n
  <2>1. s \in [1 .. n -> Objects]
    BY <1>5
  <2> QED BY <1>4, <2>1
<1>7. Local!Swept(table, q) = s
  BY <1>1 DEF n, p
<1> HIDE DEF s
<1>8. Apart(s)
  BY <1>4, <1>5, <1>6 DEF Consistent, Apart
<1>9. \A k \in DOMAIN s : s[k].stale = NoConnection <=> s[k].id \in DOMAIN table
  BY <1>5, <1>6 DEF Consistent
<1>10. ASSUME NEW b \in DOMAIN table PROVE \E k \in DOMAIN s : s[k].id = b
  <2>1. PICK i \in DOMAIN q : q[i].id = b
    BY DEF Lists
  <2>2. PICK k \in 1 .. n : p[k] = i
    BY <1>1, <1>4, <2>1
  <2> QED BY <1>5, <1>6, <2>1, <2>2
<1>11. From(s, q, table)
  BY <1>5, <1>6 DEF From
<1> QED BY <1>6, <1>7, <1>8, <1>9, <1>10, <1>11 DEF Consistent, Lists

LEMMA RefreshedObjects ==
  ASSUME BussesInv, NEW table \in Tables
  PROVE  /\ Consistent(Local!Refreshed(table), table) /\ Lists(Local!Refreshed(table), table)
         /\ From(Local!Refreshed(table), busses, table)
<1> DEFINE u == Local!Updated(table, busses)
           a == Local!Appended(table, u)
           s == Local!Swept(table, a)
<1>1. Consistent(u, table) /\ From(u, busses, table)
  BY UpdatedObjects
<1> HIDE DEF u
<1>2. Consistent(a, table) /\ Lists(a, table) /\ From(a, u, table)
  BY <1>1, AppendedObjects
<1> HIDE DEF a
<1>3. Consistent(s, table) /\ Lists(s, table) /\ From(s, a, table)
  BY <1>2, SweptObjects
<1> HIDE DEF s
<1>4. From(s, busses, table)
  BY <1>1, <1>2, <1>3 DEF From
<1>5. s = Local!Refreshed(table)
  BY DEF s, a, u, Local!Refreshed
<1> QED BY <1>3, <1>4, <1>5

LEMMA BussesInit == Local!Init => BussesInv
<1> SUFFICES ASSUME Local!Init PROVE BussesInv
  OBVIOUS
<1>1. 0 \in 0 .. MaxReloads /\ <<>> \in Seq(Objects)
  BY LocalFacts
<1>2. LocalTyped
  <2>1. <<>> \in Tables
    BY DEF Tables
  <2>2. Local!Empty \in [busses : Tables, config : {"none", "good", "bad"}, marker : BOOLEAN]
    BY <2>1 DEF Local!Empty
  <2>3. DOMAIN busses = {} /\ busses \in Seq(Objects)
    BY <1>1 DEF Local!Init
  <2>4. disk = Local!Empty /\ configBusses = <<>> /\ reloads = 0 /\ process = "down" /\ ~partial /\ ~apart
        /\ partial \in BOOLEAN /\ apart \in BOOLEAN
    BY DEF Local!Init
  <2> QED BY <1>1, <2>1, <2>2, <2>3, <2>4 DEF LocalTyped, Local!TypeOK, Tables
<1> QED BY <1>2 DEF Local!Init, BussesInv, Apart, Refers, BussesAgree

(* A handler that leaves the objects and their table.                               *)
LEMMA ObjectsStay ==
  ASSUME BussesInv, UNCHANGED <<busses, configBusses>>,
         process' \in {"down", "starting", "up"}, reloads' \in 0 .. MaxReloads,
         disk' \in [busses : Tables, config : {"none", "good", "bad"}, marker : BOOLEAN],
         partial' \in BOOLEAN, apart' \in BOOLEAN,
         apart' \/ process' # "up" \/ (process = "up" /\ ~apart /\ disk'.busses = disk.busses)
  PROVE  BussesInv'
<1>1. LocalTyped'
  BY DEF BussesInv, LocalTyped, Local!TypeOK, Tables
<1>2. Apart(busses)' /\ Refers(busses, configBusses)'
  BY DEF BussesInv, Apart, Refers
<1>3. BussesAgree'
  BY DEF BussesInv, BussesAgree, Lists, NoneStale
<1> QED BY <1>1, <1>2, <1>3 DEF BussesInv

(* A handler that makes objects for a table.                                       *)
LEMMA ObjectsMade ==
  ASSUME BussesInv, NEW table \in Tables,
         configBusses' = table, Consistent(busses', table), Lists(busses', table),
         process' \in {"down", "starting", "up"}, reloads' \in 0 .. MaxReloads,
         disk' \in [busses : Tables, config : {"none", "good", "bad"}, marker : BOOLEAN],
         partial' \in BOOLEAN, apart' \in BOOLEAN,
         process' = "up" /\ ~apart' => disk'.busses = table /\ NoneStale(busses')
  PROVE  BussesInv'
<1>1. busses' \in Seq(Objects) /\ Apart(busses')
      /\ \A i \in DOMAIN busses' : busses'[i].stale = NoConnection <=> busses'[i].id \in DOMAIN table
  BY DEF Consistent
<1>2. LocalTyped'
  <2>1. \A i \in DOMAIN busses' : busses'[i] \in Objects
    BY <1>1
  <2> QED BY <1>1, <2>1 DEF LocalTyped, Local!TypeOK, Tables, Objects
<1>3. Apart(busses)' /\ Refers(busses, configBusses)'
  BY <1>1 DEF Apart, Refers
<1>4. BussesAgree'
  BY DEF BussesAgree, Lists, NoneStale
<1> QED BY <1>2, <1>3, <1>4 DEF BussesInv

LEMMA NewIdIsNew ==
  ASSUME NEW S \in SUBSET Local!BusIds
  PROVE  Local!Max({-1} \cup S) + 1 \notin S
<1> DEFINE m == Local!Max({-1} \cup S)
<1>1. {-1} \cup S \in SUBSET Int /\ IsFiniteSet({-1} \cup S) /\ {-1} \cup S # {}
  <2>1. IsFiniteSet(S) /\ S \subseteq Int
    BY LocalFacts, FS_Subset
  <2>2. IsFiniteSet({-1} \cup S)
    BY <2>1, FS_Singleton, FS_Union
  <2>3. -1 \in Int
    OBVIOUS
  <2> QED BY <2>1, <2>2, <2>3
<1>2. \E x \in {-1} \cup S : \A y \in {-1} \cup S : x >= y
  BY <1>1, NumbersHaveHighest
<1>3. m = CHOOSE x \in {-1} \cup S : \A y \in {-1} \cup S : x >= y
  BY Zenon DEF Local!Max
<1>4. m \in {-1} \cup S /\ \A y \in {-1} \cup S : m >= y
  BY <1>2, <1>3, Zenon
<1>5. m \in Int
  BY <1>1, <1>4
<1> HIDE DEF m
<1>6. m + 1 \in S => m >= m + 1
  BY <1>4
<1> QED BY <1>5, <1>6 DEF m

LEMMA BussesNext == BussesInv /\ [Local!Next]_localVars => BussesInv'
<1> SUFFICES ASSUME BussesInv, [Local!Next]_localVars PROVE BussesInv'
  OBVIOUS
<1> DEFINE Directories == [busses : Tables, config : {"none", "good", "bad"}, marker : BOOLEAN]
<1>1. /\ process \in {"down", "starting", "up"} /\ disk \in Directories /\ configBusses \in Tables
      /\ busses \in Seq(Objects) /\ DOMAIN busses = 1 .. Len(busses) /\ Len(busses) \in Nat
      /\ reloads \in 0 .. MaxReloads /\ partial \in BOOLEAN /\ apart \in BOOLEAN
      /\ DOMAIN configBusses \subseteq Local!BusIds
  BY TablesAre DEF BussesInv, LocalTyped, Local!TypeOK, Tables
<1>0. /\ \A i \in 1 .. Len(busses) : busses[i] \in Objects
      /\ \A o \in Objects : o.id \in Local!BusIds
  <2>1. \A o \in Objects : o.id \in Local!BusIds
    BY DEF Objects
  <2> QED BY <1>1, <2>1
<1>2. ASSUME NEW t \in Tables PROVE [disk EXCEPT !.busses = t] \in Directories
  BY <1>1
<1>3. ASSUME NEW c \in Connections, Local!AddBus(c) PROVE BussesInv'
  <2> DEFINE id == Local!NewId
             table == Local!With(configBusses, id, c)
  <2>1. id \in Local!BusIds /\ id \notin DOMAIN configBusses
    BY <1>1, <1>3, NewIdIsNew DEF Local!AddBus, Local!NewId
  <2>2. /\ process = "up" /\ UNCHANGED <<process, reloads, partial, apart>>
        /\ configBusses' = table /\ disk' = [disk EXCEPT !.busses = Local!With(@, id, c)]
        /\ busses' = IF id \in Local!KnownIds THEN busses ELSE Local!Refreshed(table)
    BY <1>3 DEF Local!AddBus
  <2> HIDE DEF id
  <2>3. table \in Tables /\ DOMAIN table = DOMAIN configBusses \cup {id}
    BY <1>1, <2>1, WrittenTables
  <2>4. disk' \in Directories /\ (disk.busses = configBusses => disk'.busses = table)
    <3>1. disk.busses \in Tables
      BY <1>1
    <3>2. Local!With(disk.busses, id, c) \in Tables
      BY <2>1, <3>1, WrittenTables
    <3> QED BY <1>1, <1>2, <2>2, <3>2
  <2> HIDE DEF table
  <2>5. CASE id \in Local!KnownIds
    <3>1. apart
      BY <2>1, <2>2, <2>5 DEF BussesInv, BussesAgree, NoneStale, Refers, Local!KnownIds
    <3>2. LocalTyped'
      BY <1>1, <2>2, <2>3, <2>4, <2>5 DEF BussesInv, LocalTyped, Local!TypeOK, Tables
    <3>3. Apart(busses)' /\ Refers(busses, configBusses)'
      BY <2>2, <2>3, <2>5 DEF BussesInv, Apart, Refers
    <3> QED BY <2>2, <3>1, <3>2, <3>3 DEF BussesInv, BussesAgree
  <2>6. CASE id \notin Local!KnownIds
    <3>1. Consistent(busses', table) /\ Lists(busses', table) /\ From(busses', busses, table)
      BY <2>2, <2>3, <2>6, RefreshedObjects
    <3>2. ~apart => NoneStale(busses')
      BY <2>2, <2>3, <3>1
      DEF BussesInv, BussesAgree, NoneStale, Refers, Consistent, From
    <3>3. ~apart => disk.busses = configBusses
      BY <2>2 DEF BussesInv, BussesAgree
    <3> QED BY <1>1, <2>2, <2>3, <2>4, <3>1, <3>2, <3>3, ObjectsMade
  <2> QED BY <2>5, <2>6
<1>4. ASSUME NEW i \in 1 .. Len(busses), NEW c \in Connections, Local!UpdateBus(i, c) PROVE BussesInv'
  <2> DEFINE b == busses[i]
  <2>1. b \in Objects /\ b.id \in Local!BusIds
    BY <1>0
  <2>2. /\ process = "up" /\ UNCHANGED <<process, reloads, partial, apart>>
        /\ disk' = [disk EXCEPT !.busses = Local!With(@, b.id, c)]
    BY <1>4 DEF Local!UpdateBus
  <2>3. disk' \in Directories /\ disk'.busses = Local!With(disk.busses, b.id, c)
    <3>1. disk.busses \in Tables
      BY <1>1
    <3>2. Local!With(disk.busses, b.id, c) \in Tables
      BY <2>1, <3>1, WrittenTables
    <3> QED BY <1>1, <1>2, <2>2, <3>2
  <2>4. CASE b.stale = NoConnection
    <3>1. configBusses' = Local!With(configBusses, b.id, c) /\ busses' = busses
      BY <1>4, <2>4 DEF Local!UpdateBus
    <3>2. configBusses' \in Tables /\ DOMAIN configBusses' = DOMAIN configBusses \cup {b.id}
      BY <1>1, <2>1, <3>1, WrittenTables
    <3>3. LocalTyped'
      BY <1>1, <2>2, <2>3, <3>1, <3>2 DEF BussesInv, LocalTyped, Local!TypeOK, Tables
    <3>4. Apart(busses)' /\ Refers(busses, configBusses)'
      BY <3>1, <3>2 DEF BussesInv, Apart, Refers
    <3>5. BussesAgree'
      BY <1>1, <2>2, <2>3, <3>1, <3>2 DEF BussesInv, BussesAgree, Lists, NoneStale
    <3> QED BY <3>3, <3>4, <3>5 DEF BussesInv
  <2>5. CASE b.stale # NoConnection
    <3>1. busses' = [busses EXCEPT ![i].stale = c] /\ configBusses' = configBusses
      BY <1>4, <2>5 DEF Local!UpdateBus
    <3>2. busses' = [busses EXCEPT ![i] = [b EXCEPT !.stale = c]] /\ [b EXCEPT !.stale = c] \in Objects
      BY <1>1, <2>1, <3>1 DEF Objects
    <3>3. /\ busses' \in Seq(Objects) /\ DOMAIN busses' = DOMAIN busses
          /\ \A k \in DOMAIN busses : busses'[k] \in Objects /\ busses'[k].id = busses[k].id
      <4>1. busses' \in Seq(Objects) /\ DOMAIN busses' = DOMAIN busses
        BY <1>1, <3>2
      <4>2. [b EXCEPT !.stale = c].id = b.id
        BY <2>1 DEF Objects
      <4>3. ASSUME NEW k \in DOMAIN busses PROVE busses'[k] \in Objects /\ busses'[k].id = busses[k].id
        BY <1>0, <1>1, <3>2, <4>2
      <4> QED BY <4>1, <4>3
    <3>4. apart
      BY <1>1, <2>2, <2>5 DEF BussesInv, BussesAgree, NoneStale
    <3>5. LocalTyped'
      BY <1>1, <2>2, <2>3, <3>1, <3>3 DEF BussesInv, LocalTyped, Local!TypeOK, Tables, Objects
    <3>6. Apart(busses)'
      BY <3>3 DEF BussesInv, Apart
    <3>7. Refers(busses, configBusses)'
      <4>1. c # NoConnection
        BY LocalFacts
      <4>2. busses'[i].stale = c /\ \A k \in DOMAIN busses : k # i => busses'[k] = busses[k]
        BY <1>1, <2>1, <3>2 DEF Objects
      <4> QED BY <3>1, <3>3, <4>1, <4>2 DEF BussesInv, Refers
    <3> QED BY <2>2, <3>4, <3>5, <3>6, <3>7 DEF BussesInv, BussesAgree
  <2> QED BY <2>4, <2>5
<1>5. ASSUME NEW i \in 1 .. Len(busses), Local!DeleteBus(i) PROVE BussesInv'
  <2> DEFINE id == busses[i].id
             table == Local!Without(configBusses, id)
  <2>1. busses[i] \in Objects /\ id \in Local!BusIds
    BY <1>0
  <2>2. /\ process = "up" /\ UNCHANGED <<process, reloads, partial, apart>>
        /\ configBusses' = table
        /\ disk' = IF id \in DOMAIN configBusses
                    THEN [disk EXCEPT !.busses = Local!Without(@, id)] ELSE disk
        /\ busses' = SubSeq(busses, 1, i - 1) \o SubSeq(busses, i + 1, Len(busses))
    BY <1>5 DEF Local!DeleteBus, Local!RemoveAt
  <2>3. /\ busses' \in Seq(Objects) /\ DOMAIN busses' = 1 .. Len(busses) - 1
        /\ \A k \in 1 .. Len(busses) - 1 : busses'[k] = IF k < i THEN busses[k] ELSE busses[k + 1]
    <3>1. busses' \in Seq(Objects) /\ Len(busses') = Len(busses) - 1
      BY <1>1, <2>2, TakenOut
    <3>2. DOMAIN busses' = 1 .. Len(busses')
      BY <3>1
    <3> QED BY <1>1, <2>2, <3>1, <3>2, TakenOut
  <2>4. ASSUME NEW k \in DOMAIN busses'
        PROVE  \E l \in DOMAIN busses \ {i} : busses'[k] = busses[l] /\ l = IF k < i THEN k ELSE k + 1
    <3> DEFINE l == IF k < i THEN k ELSE k + 1
    <3>1. l \in DOMAIN busses \ {i} /\ busses'[k] = busses[l]
      BY <1>1, <2>3
    <3> QED BY <3>1
  <2>5. ASSUME NEW l \in DOMAIN busses \ {i} PROVE \E k \in DOMAIN busses' : busses'[k] = busses[l]
    <3>1. CASE l < i
      <4>1. l \in 1 .. Len(busses) - 1
        BY <1>1, <3>1
      <4> QED BY <2>3, <3>1, <4>1
    <3>2. CASE l > i
      <4>1. l - 1 \in 1 .. Len(busses) - 1 /\ ~(l - 1 < i) /\ l - 1 + 1 = l
        BY <1>1, <3>2
      <4> QED BY <2>3, <4>1
    <3> QED BY <1>1, <3>1, <3>2
  <2> HIDE DEF id, table
  <2>6. table \in Tables /\ DOMAIN table = DOMAIN configBusses \ {id}
    BY <1>1, ErasedTables DEF table
  <2>7. disk' \in Directories /\ (disk.busses = configBusses => disk'.busses = table \/ id \notin DOMAIN configBusses)
    <3>1. disk.busses \in Tables
      BY <1>1
    <3>2. Local!Without(disk.busses, id) \in Tables
      BY <3>1, ErasedTables
    <3> QED BY <1>1, <1>2, <2>2, <3>2 DEF table
  <2>8. \A l \in DOMAIN busses \ {i} : busses[l].id # id
    BY <1>1 DEF BussesInv, Apart, id
  <2>9. LocalTyped'
    <3>1. \A k \in DOMAIN busses' : busses'[k] \in Objects
      BY <2>3
    <3> QED BY <1>1, <2>2, <2>3, <2>6, <2>7, <3>1 DEF LocalTyped, Local!TypeOK, Tables, Objects
  <2>10. Apart(busses')
    <3>1. ASSUME NEW k \in DOMAIN busses', NEW m \in DOMAIN busses', busses'[k].id = busses'[m].id
          PROVE  k = m
      <4>1. (IF k < i THEN k ELSE k + 1) = (IF m < i THEN m ELSE m + 1)
        BY <2>4, <3>1 DEF BussesInv, Apart
      <4> QED BY <1>1, <2>3, <4>1
    <3> QED BY <3>1 DEF Apart
  <2>11. Refers(busses', table)
    <3>1. ASSUME NEW k \in DOMAIN busses', busses'[k].stale = NoConnection
          PROVE  busses'[k].id \in DOMAIN table
      <4>1. PICK l \in DOMAIN busses \ {i} : busses'[k] = busses[l]
        BY <2>4
      <4>2. busses[l].id \in DOMAIN configBusses /\ busses[l].id # id
        BY <2>8, <3>1, <4>1 DEF BussesInv, Refers
      <4> QED BY <2>6, <4>1, <4>2
    <3> QED BY <3>1 DEF Refers
  <2>12. ASSUME ~apart
         PROVE  disk'.busses = table /\ Lists(busses', table) /\ NoneStale(busses')
    <3>1. disk.busses = configBusses /\ Lists(busses, configBusses) /\ NoneStale(busses)
      BY <2>2, <2>12 DEF BussesInv, BussesAgree
    <3>2. id \in DOMAIN configBusses
      BY <1>1, <3>1 DEF BussesInv, Refers, NoneStale, id
    <3>3. NoneStale(busses')
      BY <2>4, <3>1 DEF NoneStale
    <3>4. ASSUME NEW x \in DOMAIN table PROVE \E k \in DOMAIN busses' : busses'[k].id = x
      <4>1. PICK l \in DOMAIN busses : busses[l].id = x
        BY <2>6, <3>1 DEF Lists
      <4>2. l # i
        BY <2>6, <4>1 DEF id
      <4> QED BY <2>5, <4>1, <4>2
    <3> QED BY <2>7, <3>1, <3>2, <3>3, <3>4 DEF Lists
  <2> QED BY <2>2, <2>9, <2>10, <2>11, <2>12 DEF BussesInv, BussesAgree
<1>6. ASSUME Local!SaveConfiguration PROVE BussesInv'
  <2>1. disk' \in Directories /\ disk'.busses = disk.busses
    BY <1>1, <1>6 DEF Local!SaveConfiguration
  <2> QED BY <1>1, <1>6, <2>1, ObjectsStay DEF Local!SaveConfiguration
<1>7. ASSUME NEW a \in Archives,
             Local!Import(a) \/ Local!ImportFails(a) \/ Local!CrashInImport(a)
      PROVE  BussesInv'
  <2>1. a.busses \in Tables /\ a.config \in {"none", "good", "bad"}
    BY LocalFacts DEF Local!ArchiveType, Tables
  <2>2. ASSUME NEW d \in Local!Parts(a) PROVE d \in Directories
    <3>1. ASSUME NEW S \in SUBSET DOMAIN a.busses PROVE Local!Restrict(a.busses, S) \in Tables
      <4>1. S \in SUBSET Local!BusIds /\ Local!Restrict(a.busses, S) \in [S -> Connections]
        BY <2>1, TablesAre DEF Local!Restrict
      <4> QED BY <4>1 DEF Tables, Local!BusTable
    <3>2. <<>> \in Tables
      BY DEF Tables
    <3>3. PICK S \in SUBSET DOMAIN a.busses :
            d.busses = IF S = {} THEN <<>> ELSE Local!Restrict(a.busses, S)
      BY DEF Local!Parts
    <3>4. d.busses \in Tables
      BY <3>1, <3>2, <3>3
    <3>5. d.config \in {"none", a.config} /\ d.marker \in BOOLEAN
          /\ d = [busses |-> d.busses, config |-> d.config, marker |-> d.marker]
      BY DEF Local!Parts
    <3> QED BY <2>1, <3>4, <3>5
  <2>3. CASE Local!ImportFails(a)
    BY <1>1, <2>2, <2>3, ObjectsStay DEF Local!ImportFails
  <2>4. CASE Local!CrashInImport(a)
    <3>1. <<>> \in Tables /\ 0 \in 0 .. MaxReloads /\ <<>> \in Seq(Objects)
      BY LocalFacts DEF Tables
    <3>2. Consistent(<<>>, <<>>) /\ Lists(<<>>, <<>>)
      BY <3>1 DEF Consistent, Apart, Lists
    <3> QED BY <1>1, <2>2, <2>4, <3>1, <3>2, ObjectsMade DEF Local!CrashInImport
  <2>5. CASE Local!Import(a)
    <3>1. disk' \in Directories /\ reloads' \in 0 .. MaxReloads
      BY <1>1, <2>1, <2>5, LocalFacts DEF Local!Import
    <3> QED BY <1>1, <2>5, <3>1, ObjectsStay DEF Local!Import
  <2> QED BY <1>7, <2>3, <2>4, <2>5
<1>8. ASSUME Local!Reload PROVE BussesInv'
  <2>1. disk.busses \in Tables /\ reloads' \in 0 .. MaxReloads
    BY <1>1, <1>8, LocalFacts DEF Local!Reload
  <2>2. Consistent(busses', disk.busses) /\ Lists(busses', disk.busses)
    BY <1>8, <2>1, RefreshedObjects DEF Local!Reload
  <2>3. apart' \in BOOLEAN /\ (~apart' => NoneStale(busses'))
    BY <1>8 DEF Local!Reload, Local!StaleAmong, NoneStale
  <2> QED BY <1>1, <1>8, <2>1, <2>2, <2>3, ObjectsMade DEF Local!Reload
<1>9. ASSUME Local!Start PROVE BussesInv'
  BY <1>1, <1>9, ObjectsStay DEF Local!Start
<1>10. ASSUME Local!StartServer PROVE BussesInv'
  <2>1. disk.busses \in Tables /\ Consistent(<<>>, disk.busses)
    BY <1>1 DEF Consistent, Apart
  <2>2. /\ Consistent(busses', disk.busses) /\ Lists(busses', disk.busses)
        /\ From(busses', <<>>, disk.busses)
    BY <1>10, <2>1, AppendedObjects DEF Local!StartServer
  <2>3. NoneStale(busses')
    BY <2>2 DEF Consistent, From, NoneStale
  <2> QED BY <1>1, <1>10, <2>1, <2>2, <2>3, ObjectsMade DEF Local!StartServer
<1>11. ASSUME Local!Crash PROVE BussesInv'
  <2>1. <<>> \in Tables /\ 0 \in 0 .. MaxReloads /\ <<>> \in Seq(Objects)
    BY LocalFacts DEF Tables
  <2>2. Consistent(<<>>, <<>>) /\ Lists(<<>>, <<>>)
    BY <2>1 DEF Consistent, Apart, Lists
  <2> QED BY <1>1, <1>11, <2>1, <2>2, ObjectsMade DEF Local!Crash
<1>12. ASSUME Local!DeleteLocalDirectory PROVE BussesInv'
  <2>1. disk' \in Directories
    BY <1>12 DEF Local!DeleteLocalDirectory, Local!Empty, Tables
  <2> QED BY <1>1, <1>12, <2>1, ObjectsStay DEF Local!DeleteLocalDirectory
<1>13. CASE UNCHANGED localVars
  BY <1>13 DEF localVars, BussesInv, LocalTyped, Local!TypeOK, Apart, Refers, BussesAgree, Lists, NoneStale
<1> QED
  BY <1>3, <1>4, <1>5, <1>6, <1>7, <1>8, <1>9, <1>10, <1>11, <1>12, <1>13 DEF Local!Next

(***************************************************************************)
(* Contribution: what is noted of a pull request, in files and memory, by its poller, a *)
(* request or the check under way, is one of that specification, so that a merge that is         *)
(* noticed has brought that specification upstream.                             *)
(***************************************************************************)

Statuses == {"absent", "added", "cloned", "published", "contributed"}
Entries == [status : Statuses, pull : Nat]
Stages ==
  {"new", "init", "repo", "commit", "pull", "created", "polling", "answered", "failed", "refused",
   "hanging", "gone"}
PullRequests == [spec : Contributable, state : {"open", "merged", "closed"}]
Pollers == [pull : Nat, count : Nat, index : Nat, checks : Nat]

(* p is a pull request of s.                                                   *)
PullOf(s, p) == p \in DOMAIN pulls /\ pulls[p].spec = s

(* The files, memory and what is polled.                                         *)
FilesTyped == local \in [Contributable -> Entries] /\ known \in [Contributable -> Entries]
PollersTyped == contributions \in [Contributable -> Pollers]

(* It holds too of what an outdated page has renamed.                              *)
FiledPulls ==
  \A s \in Contributable :
    /\ local[s].status = "contributed" => PullOf(s, local[s].pull)
    /\ known[s].status = "contributed" => PullOf(s, known[s].pull)
    /\ contributions[s].pull # 0 => PullOf(s, contributions[s].pull)

FilesInv ==
  /\ FilesTyped /\ PollersTyped /\ kept \subseteq Contributable
  /\ FiledPulls /\ Community!ContributionsKept /\ Community!NoSpecificationLost

(* The requests of the users.                                                   *)
CallsInv ==
  /\ request \in [Calls -> [stage : Stages, pull : Nat]]
  /\ \A r \in Calls : request[r].stage = "created" => PullOf(For[r], request[r].pull)

(* The check under way.                                                        *)
CheckInv ==
  closing.stage # "none" =>
    closing \in [spec : Contributable, pull : Nat, stage : {"init", "ask"}] /\ PullOf(closing.spec, closing.pull)

(* A pull request that is merged has brought its specification upstream.            *)
PullsInv ==
  /\ pulls \in Seq(PullRequests)
  /\ \A p \in DOMAIN pulls : pulls[p].state = "merged" => pulls[p].spec \in upstream

CommunityInv == FilesInv /\ CallsInv /\ CheckInv /\ PullsInv

(* Pull requests are for the specification they were made for, and what came upstream     *)
(* stays there.                                                               *)
PullsStay ==
  /\ \A s, p : PullOf(s, p) => PullOf(s, p)'
  /\ upstream \subseteq upstream'

LEMMA LoadedAsFiled ==
  ASSUME NEW filed \in [Contributable -> Entries], NEW pub
  PROVE  /\ Community!Loaded(filed, pub) \in [Contributable -> Entries]
         /\ \A s \in Contributable :
              "contributed" \in {Community!Loaded(filed, pub)[s].status, filed[s].status} =>
                Community!Loaded(filed, pub)[s] = filed[s]
BY DEF Community!Loaded, Community!OwnStatus, Community!Entry, Entries, Statuses

(* The files are read again.                                                    *)
LEMMA FetchKeepsFilesInv ==
  ASSUME FilesInv, PullsStay, local' \in [Contributable -> Entries], UNCHANGED kept,
         Community!Fetch(local'), contributions' \in [Contributable -> Pollers],
         \A s \in Contributable : contributions'[s].pull # 0 =>
           /\ contributions'[s].pull = contributions[s].pull
           /\ local'[s] = local[s] /\ (s \in moved => s \in moved'),
         \A s \in Contributable : local'[s] # local[s] =>
           local'[s].status # "contributed" /\ (local'[s].status # "absent" \/ s \in upstream')
  PROVE  FilesInv'
<1> PICK pub : known' = Community!Loaded(local', pub)
  BY DEF Community!Fetch
<1>1. known' \in [Contributable -> Entries]
  BY LoadedAsFiled
<1>2. \A s \in Contributable :
        "contributed" \in {known'[s].status, local'[s].status} => known'[s] = local'[s]
  BY LoadedAsFiled
<1>3. FiledPulls'
  <2>1. \A s \in Contributable :
          /\ local'[s].status = "contributed" => PullOf(s, local'[s].pull)
          /\ contributions'[s].pull # 0 => PullOf(s, contributions'[s].pull)
    BY DEF FilesInv, FiledPulls
  <2>2. \A s \in Contributable :
          known'[s].status = "contributed" => PullOf(s, known'[s].pull)
    BY <1>2, <2>1
  <2>3. \A s, p : PullOf(s, p) => p \in DOMAIN pulls' /\ pulls'[p].spec = s
    BY DEF PullsStay, PullOf
  <2> QED BY <2>1, <2>2, <2>3 DEF FiledPulls, PullOf
<1>4. Community!ContributionsKept'
  <2> SUFFICES ASSUME NEW s \in Contributable \ moved', contributions'[s].pull # 0
               PROVE  known'[s] = Community!Entry("contributed", contributions'[s].pull)
    BY <1>2 DEF Community!ContributionsKept, Community!Polled
  <2>1. known[s] = Community!Entry("contributed", contributions[s].pull)
    BY DEF FilesInv, Community!ContributionsKept, Community!Polled
  <2>2. known[s].status = "contributed"
    BY <2>1 DEF Community!Entry
  <2>3. known[s] = local[s]
    BY <2>2 DEF FilesInv, Community!ContributionsKept
  <2> QED BY <1>2, <2>1, <2>2, <2>3
<1>5. Community!NoSpecificationLost'
  BY DEF FilesInv, Community!NoSpecificationLost, PullsStay, FilesTyped, Entries, Community!Absent, Community!Entry
<1> QED BY <1>1, <1>3, <1>4, <1>5 DEF FilesInv, FilesTyped, PollersTyped

LEMMA SameFilesInv ==
  ASSUME FilesInv, PullsStay, UNCHANGED <<local, known, kept, moved>>,
         contributions' \in [Contributable -> Pollers],
         \A s \in Contributable : contributions'[s].pull # 0 =>
           \/ contributions'[s].pull = contributions[s].pull
           \/ known[s] = Community!Entry("contributed", contributions'[s].pull)
  PROVE  FilesInv'
<1>1. FiledPulls'
  <2>1. \A s, p : PullOf(s, p) => p \in DOMAIN pulls' /\ pulls'[p].spec = s
    BY DEF PullsStay, PullOf
  <2>2. ASSUME NEW s \in Contributable, contributions'[s].pull # 0
        PROVE  PullOf(s, contributions'[s].pull)
    <3>1. CASE contributions'[s].pull = contributions[s].pull
      BY <2>2, <3>1 DEF FilesInv, FiledPulls
    <3>2. CASE known[s] = Community!Entry("contributed", contributions'[s].pull)
      <4>1. known[s].status = "contributed" /\ known[s].pull = contributions'[s].pull
        BY <3>2 DEF Community!Entry
      <4> QED BY <4>1 DEF FilesInv, FiledPulls
    <3> QED BY <2>2, <3>1, <3>2
  <2> QED BY <2>1, <2>2 DEF FilesInv, FiledPulls, PullOf
<1>2. Community!ContributionsKept'
  BY DEF FilesInv, Community!ContributionsKept, Community!Polled
<1>3. Community!NoSpecificationLost'
  BY DEF FilesInv, Community!NoSpecificationLost, PullsStay
<1> QED BY <1>1, <1>2, <1>3 DEF FilesInv, FilesTyped, PollersTyped

LEMMA SameCallsInv ==
  ASSUME CallsInv, PullsStay, UNCHANGED request
  PROVE  CallsInv'
BY DEF CallsInv, PullsStay

(* A request goes on, to any stage but "created".                                 *)
LEMMA GoesKeepsCallsInv ==
  ASSUME CallsInv, PullsStay, NEW r \in Calls, NEW next \in Stages \ {"created"},
         Community!Goes(r, next)
  PROVE  CallsInv'
BY DEF CallsInv, PullsStay, Community!Goes, Stages

LEMMA SameCheckInv ==
  ASSUME CheckInv, PullsStay, UNCHANGED closing
  PROVE  CheckInv'
BY DEF CheckInv, PullsStay

LEMMA NoCheckInv ==
  ASSUME closing' = Community!NotClosing
  PROVE  CheckInv'
BY DEF CheckInv, Community!NotClosing

LEMMA SamePulls ==
  ASSUME PullsInv, UNCHANGED <<pulls, upstream>>
  PROVE  PullsStay /\ PullsInv'
BY DEF PullsInv, PullsStay, PullOf

(* Without its branch a pull request is closed.                                   *)
LEMMA ClosedPulls ==
  ASSUME PullsInv, UNCHANGED upstream, NEW s, pulls' = Community!ClosedWith(s)
  PROVE  PullsStay /\ PullsInv'
<1> DEFINE new(p) == IF pulls[p].spec = s /\ pulls[p].state = "open"
                     THEN [pulls[p] EXCEPT !.state = "closed"] ELSE pulls[p]
<1>1. pulls' = [p \in DOMAIN pulls |-> new(p)]
  BY DEF Community!ClosedWith
<1>2. \A p \in DOMAIN pulls : pulls[p] \in PullRequests
  BY DEF PullsInv
<1>3. \A p \in DOMAIN pulls : new(p) \in PullRequests /\ new(p).spec = pulls[p].spec
                               /\ (new(p).state = "merged" => pulls[p].state = "merged")
  BY <1>2 DEF PullRequests
<1> HIDE DEF new
<1>4. DOMAIN pulls = 1 .. Len(pulls) /\ Len(pulls) \in Nat
  BY DEF PullsInv
<1>5. pulls' \in Seq(PullRequests)
  BY <1>1, <1>3, <1>4
<1> QED BY <1>1, <1>3, <1>5 DEF PullsInv, PullsStay, PullOf

LEMMA StartsPollingIts ==
  ASSUME PollersTyped, NEW s \in Contributable, NEW pull \in Nat
  PROVE  /\ Community!StartsPolling(s, pull) \in [Contributable -> Pollers]
         /\ \A t \in Contributable : Community!StartsPolling(s, pull)[t].pull =
              IF t = s /\ ~Community!Polled(s) THEN pull ELSE contributions[t].pull
BY DEF Community!StartsPolling, Community!Polled, Community!Unpolled, PollersTyped, Pollers

LEMMA CommunityInit == Community!Init => CommunityInv
<1> SUFFICES ASSUME Community!Init PROVE CommunityInv
  OBVIOUS
<1>1. local \in [Contributable -> Entries] /\ \A s \in Contributable : local[s] = Community!Entry("added", 0)
  BY DEF Community!Init, Community!Entry, Entries, Statuses
<1>2. known = Community!Loaded(local, public)
  BY DEF Community!Init
<1>3. FilesTyped /\ \A s \in Contributable : "contributed" \notin {local[s].status, known[s].status}
  BY <1>1, <1>2, LoadedAsFiled DEF FilesTyped, Community!Entry
<1>4. contributions = [s \in Contributable |-> Community!Unpolled]
  BY DEF Community!Init
<1>5. PollersTyped /\ (\A s \in Contributable : ~Community!Polled(s)) /\ FiledPulls
  BY <1>3, <1>4 DEF PollersTyped, Pollers, FiledPulls, Community!Polled, Community!Unpolled
<1>6. Community!ContributionsKept
  BY <1>3, <1>5 DEF Community!ContributionsKept
<1>7. Community!NoSpecificationLost /\ kept \subseteq Contributable
  BY <1>1 DEF Community!Init, Community!NoSpecificationLost, Community!Entry, Community!Absent
<1>8. CallsInv
  <2>1. request = [r \in Calls |-> [stage |-> "new", pull |-> 0]]
    BY DEF Community!Init
  <2> QED BY <2>1 DEF CallsInv, Stages
<1>9. CheckInv
  BY DEF Community!Init, Community!NotClosing, CheckInv
<1>10. PullsInv
  BY DEF Community!Init, PullsInv
<1> QED BY <1>3, <1>5, <1>6, <1>7, <1>8, <1>9, <1>10 DEF CommunityInv, FilesInv

(* What memory notes of a contribution is what is polled for it.                    *)
LEMMA NotedIsPolled ==
  ASSUME FilesInv, NEW s \in Contributable, known[s].status = "contributed",
         contributions' = Community!StartsPolling(s, known[s].pull)
  PROVE  /\ contributions' \in [Contributable -> Pollers]
         /\ \A t \in Contributable : contributions'[t].pull # 0 =>
              \/ contributions'[t].pull = contributions[t].pull
              \/ known[t] = Community!Entry("contributed", contributions'[t].pull)
<1>1. known[s] \in Entries
  BY DEF FilesInv, FilesTyped
<1>2. known[s] = Community!Entry("contributed", known[s].pull) /\ known[s].pull \in Nat
  BY <1>1 DEF Entries, Community!Entry
<1> QED BY <1>2, StartsPollingIts DEF FilesInv

LEMMA CommunityNext == CommunityInv /\ [Community!Next]_communityVars => CommunityInv'
<1> SUFFICES ASSUME CommunityInv, [Community!Next]_communityVars PROVE CommunityInv'
  OBVIOUS
<1> USE DEF CommunityInv
<1>0. ASSUME NEW r \in Calls PROVE For[r] \in Contributable
  BY PartsAssumption DEF Community!ContributionAssumption
<1>1. ASSUME NEW s \in Contributable, Community!Save(s) PROVE CommunityInv'
  <2> DEFINE entry == Community!Saved(s)
  <2>1. PullsStay /\ PullsInv' /\ CallsInv' /\ CheckInv'
    BY <1>1, SamePulls, SameCallsInv, SameCheckInv DEF Community!Save, Community!github
  <2>2. /\ entry \in Entries
        /\ entry.status # "absent"
        /\ entry.status = "contributed" \/ known[s].status = "contributed" => entry = known[s]
    BY DEF FilesInv, FilesTyped, Community!Saved, Community!OwnStatus, Community!Entry, Entries, Statuses
  <2>3. /\ local' = [local EXCEPT ![s] = entry] /\ known' = [known EXCEPT ![s] = entry]
        /\ kept' = kept \cup {s} /\ UNCHANGED <<pulls, upstream, contributions, moved>>
    BY <1>1 DEF Community!Save, Community!github
  <2> HIDE DEF entry
  <2>4. FilesTyped' /\ PollersTyped' /\ kept' \subseteq Contributable
    BY <2>2, <2>3 DEF FilesInv, FilesTyped, PollersTyped
  <2>5. FiledPulls'
    BY <2>2, <2>3 DEF FilesInv, FiledPulls, PullOf, FilesTyped
  <2>6. Community!ContributionsKept'
    BY <2>2, <2>3 DEF FilesInv, FilesTyped, Community!ContributionsKept, Community!Polled, Community!Entry
  <2>7. Community!NoSpecificationLost'
    BY <2>2, <2>3 DEF FilesInv, FilesTyped, Community!NoSpecificationLost, Community!Absent, Community!Entry
  <2> QED BY <2>1, <2>4, <2>5, <2>6, <2>7 DEF FilesInv
<1>2. ASSUME NEW s \in Contributable, Community!Delete(s) PROVE CommunityInv'
  <2>1. PullsStay /\ PullsInv' /\ CallsInv' /\ CheckInv'
    BY <1>2, SamePulls, SameCallsInv, SameCheckInv DEF Community!Delete, Community!github
  <2>2. /\ local' = [local EXCEPT ![s] = Community!Absent] /\ known' = Community!Loaded(local', public)
        /\ kept' = kept \ {s} /\ UNCHANGED <<pulls, upstream, contributions, moved>>
        /\ known[s].status # "contributed"
    BY <1>2 DEF Community!Delete, Community!github
  <2>3. Community!Absent \in Entries /\ Community!Absent.status = "absent"
    BY DEF Community!Absent, Community!Entry, Entries, Statuses
  <2>4. FilesTyped' /\ PollersTyped' /\ kept' \subseteq Contributable
    BY <2>2, <2>3, LoadedAsFiled DEF FilesInv, FilesTyped, PollersTyped
  <2>8. \A t \in Contributable :
          "contributed" \in {known'[t].status, local'[t].status} => known'[t] = local'[t]
    BY <2>2, <2>4, LoadedAsFiled DEF FilesTyped
  <2>5. FiledPulls'
    BY <2>2, <2>3, <2>8 DEF FilesInv, FiledPulls, PullOf, FilesTyped
  <2>6. Community!ContributionsKept'
    <3> SUFFICES ASSUME NEW t \in Contributable \ moved
                 PROVE  /\ "contributed" \in {known'[t].status, local'[t].status} => known'[t] = local'[t]
                        /\ Community!Polled(t) => known'[t] = Community!Entry("contributed", contributions[t].pull)
      BY <2>2 DEF Community!ContributionsKept, Community!Polled
    <3>1. "contributed" \in {known'[t].status, local'[t].status} => known'[t] = local'[t]
      BY <2>8
    <3>2. ASSUME Community!Polled(t) PROVE known'[t] = Community!Entry("contributed", contributions[t].pull)
      <4>1. known[t] = Community!Entry("contributed", contributions[t].pull)
        BY <3>2 DEF FilesInv, Community!ContributionsKept
      <4>2. known[t].status = "contributed"
        BY <4>1 DEF Community!Entry
      <4>3. local'[t] = known[t]
        BY <2>2, <4>2 DEF FilesInv, FilesTyped, Community!ContributionsKept
      <4> QED BY <3>1, <4>1, <4>2, <4>3
    <3> QED BY <3>1, <3>2
  <2>7. Community!NoSpecificationLost'
    BY <2>2 DEF FilesInv, FilesTyped, Community!NoSpecificationLost
  <2> QED BY <2>1, <2>4, <2>5, <2>6, <2>7 DEF FilesInv
<1>3. ASSUME NEW s \in Contributable, NEW t \in Contributable, Community!Rename(s, t) PROVE CommunityInv'
  <2> DEFINE entry == Community!Saved(t)
  <2>1. PullsStay /\ PullsInv' /\ CallsInv' /\ CheckInv'
    BY <1>3, SamePulls, SameCallsInv, SameCheckInv DEF Community!Rename, Community!github
  <2>2. /\ entry \in Entries
        /\ entry.status # "absent"
        /\ entry.status = "contributed" \/ known[t].status = "contributed" => entry = known[t]
    BY DEF FilesInv, FilesTyped, Community!Saved, Community!OwnStatus, Community!Entry, Entries, Statuses
  <2>3. /\ local' = [local EXCEPT ![s] = Community!Absent, ![t] = entry] /\ known' = [known EXCEPT ![t] = entry]
        /\ kept' = (kept \ {s}) \cup {t} /\ UNCHANGED <<pulls, upstream, contributions>>
        /\ moved' = (IF known[s].status = "contributed" THEN moved \cup {s} ELSE moved) /\ s # t
    BY <1>3 DEF Community!Rename, Community!github
  <2>4. Community!Absent \in Entries /\ Community!Absent.status = "absent"
    BY DEF Community!Absent, Community!Entry, Entries, Statuses
  <2> HIDE DEF entry
  <2>5. FilesTyped' /\ PollersTyped' /\ kept' \subseteq Contributable
    BY <2>2, <2>3, <2>4 DEF FilesInv, FilesTyped, PollersTyped
  <2>6. FiledPulls'
    BY <2>2, <2>3, <2>4 DEF FilesInv, FiledPulls, PullOf, FilesTyped
  <2>7. Community!ContributionsKept'
    <3> SUFFICES ASSUME NEW u \in Contributable \ moved'
                 PROVE  /\ "contributed" \in {known'[u].status, local'[u].status} => known'[u] = local'[u]
                        /\ Community!Polled(u) => known'[u] = Community!Entry("contributed", contributions[u].pull)
      BY <2>3 DEF Community!ContributionsKept, Community!Polled
    <3>1. /\ u \notin moved
          /\ "contributed" \in {known[u].status, local[u].status} => known[u] = local[u]
          /\ Community!Polled(u) => known[u] = Community!Entry("contributed", contributions[u].pull)
      BY <2>3 DEF FilesInv, Community!ContributionsKept
    <3>2. CASE u = s
      <4>1. known[s].status # "contributed" /\ known'[s] = known[s] /\ local'[s].status = "absent"
        BY <2>3, <2>4, <3>2 DEF FilesInv, FilesTyped
      <4> QED BY <3>1, <3>2, <4>1 DEF Community!Entry
    <3>3. CASE u = t
      BY <2>2, <2>3, <3>1, <3>3 DEF FilesInv, FilesTyped, Community!Entry
    <3>4. CASE u \notin {s, t}
      BY <2>3, <3>1, <3>4 DEF FilesInv, FilesTyped
    <3> QED BY <3>2, <3>3, <3>4
  <2>8. Community!NoSpecificationLost'
    BY <2>2, <2>3, <2>4 DEF FilesInv, FilesTyped, Community!NoSpecificationLost
  <2> QED BY <2>1, <2>5, <2>6, <2>7, <2>8 DEF FilesInv
<1>4. ASSUME NEW r \in Calls, Community!Contribute(r) PROVE CommunityInv'
  <2>1. PullsStay /\ PullsInv' /\ CheckInv' /\ UNCHANGED <<local, known, kept, moved>>
    BY <1>4, SamePulls, SameCheckInv DEF Community!Contribute, Community!disk, Community!github
  <2>2. CallsInv'
    BY <1>4, <2>1, GoesKeepsCallsInv DEF Community!Contribute, Stages
  <2>3. \/ UNCHANGED contributions
        \/ /\ known[For[r]].status = "contributed"
           /\ contributions' = Community!StartsPolling(For[r], known[For[r]].pull)
    BY <1>4 DEF Community!Contribute
  <2>4. FilesInv'
    BY <1>0, <2>1, <2>3, NotedIsPolled, SameFilesInv DEF FilesInv, PollersTyped
  <2> QED BY <2>1, <2>2, <2>4
<1>5. ASSUME NEW r \in Calls, Community!GithubInit(r) PROVE CommunityInv'
  <2>1. PullsStay /\ PullsInv' /\ CheckInv' /\ UNCHANGED <<local, kept, moved, contributions>> /\ Community!Fetch(local')
    BY <1>5, SamePulls, SameCheckInv DEF Community!GithubInit, Community!github
  <2>2. CallsInv'
    BY <1>5, <2>1, GoesKeepsCallsInv DEF Community!GithubInit, Stages
  <2>3. FilesInv'
    BY <2>1, FetchKeepsFilesInv DEF FilesInv, FilesTyped, PollersTyped
  <2> QED BY <2>1, <2>2, <2>3
<1>6. ASSUME NEW r \in Calls, Community!RepoChecked(r) PROVE CommunityInv'
  <2>1. PullsStay /\ PullsInv' /\ CheckInv' /\ UNCHANGED <<local, known, kept, moved, contributions>>
    BY <1>6, SamePulls, SameCheckInv DEF Community!RepoChecked, Community!disk, Community!github
  <2>2. CallsInv'
    BY <1>6, <2>1, GoesKeepsCallsInv DEF Community!RepoChecked, Stages
  <2>3. FilesInv'
    BY <2>1, SameFilesInv DEF FilesInv, PollersTyped
  <2> QED BY <2>1, <2>2, <2>3
<1>7. ASSUME NEW r \in Calls, Community!Push(r) PROVE CommunityInv'
  <2>1. PullsStay /\ PullsInv' /\ CheckInv' /\ UNCHANGED <<local, known, kept, moved, contributions>>
    BY <1>7, SamePulls, SameCheckInv DEF Community!Push, Community!disk
  <2>2. CallsInv'
    BY <1>7, <2>1, GoesKeepsCallsInv DEF Community!Push, Stages
  <2>3. FilesInv'
    BY <2>1, SameFilesInv DEF FilesInv, PollersTyped
  <2> QED BY <2>1, <2>2, <2>3
<1>8. ASSUME NEW r \in Calls, Community!CreatePullRequest(r) PROVE CommunityInv'
  <2> DEFINE pr == [spec |-> For[r], state |-> "open"]
  <2>1. UNCHANGED <<local, known, kept, moved, contributions, closing, upstream>>
    BY <1>8 DEF Community!CreatePullRequest, Community!disk
  <2>2. CASE /\ pulls' = Append(pulls, pr)
             /\ request' = [request EXCEPT ![r] = [stage |-> "created", pull |-> Len(pulls) + 1]]
    <3>1. pr \in PullRequests /\ pr.spec = For[r] /\ pr.state # "merged"
      BY <1>0 DEF PullRequests
    <3> HIDE DEF pr
    <3>2. pulls \in Seq(PullRequests)
      BY DEF PullsInv
    <3>3. /\ pulls' \in Seq(PullRequests) /\ DOMAIN pulls' = 1 .. Len(pulls) + 1
          /\ \A p \in DOMAIN pulls : pulls'[p] = pulls[p]
          /\ pulls'[Len(pulls) + 1] = pr /\ DOMAIN pulls = 1 .. Len(pulls) /\ Len(pulls) \in Nat
      BY <2>2, <3>1, <3>2
    <3>4. PullsInv'
      BY <2>1, <3>1, <3>3 DEF PullsInv
    <3>5. PullsStay
      BY <2>1, <3>3 DEF PullsStay, PullOf
    <3>6. CallsInv'
      BY <2>2, <3>1, <3>3, <3>5 DEF CallsInv, PullsStay, PullOf, Stages
    <3> QED BY <2>1, <3>4, <3>5, <3>6, SameFilesInv, SameCheckInv DEF FilesInv, PollersTyped
  <2>3. CASE Community!Goes(r, "failed") /\ UNCHANGED pulls
    <3>1. PullsStay /\ PullsInv'
      BY <2>1, <2>3, SamePulls
    <3> QED BY <2>1, <2>3, <3>1, GoesKeepsCallsInv, SameFilesInv, SameCheckInv DEF FilesInv, PollersTyped, Stages
  <2>4. \/ /\ pulls' = Append(pulls, pr)
           /\ request' = [request EXCEPT ![r] = [stage |-> "created", pull |-> Len(pulls) + 1]]
        \/ Community!Goes(r, "failed") /\ UNCHANGED pulls
    BY <1>8 DEF Community!CreatePullRequest
  <2> QED BY <2>2, <2>3, <2>4
<1>9. ASSUME NEW r \in Calls, Community!Contributed(r) PROVE CommunityInv'
  <2> DEFINE s == For[r]
             now == Community!Marked(s, "contributed", request[r].pull)
  <2>1. PullsStay /\ PullsInv' /\ CheckInv' /\ UNCHANGED <<kept, moved, pulls, upstream>>
    BY <1>9, SamePulls, SameCheckInv DEF Community!Contributed, Community!github
  <2>2. CallsInv'
    BY <1>9, <2>1, GoesKeepsCallsInv DEF Community!Contributed, Stages
  <2>3. CASE UNCHANGED <<local, known, contributions>>
    BY <2>1, <2>2, <2>3, SameFilesInv DEF FilesInv, PollersTyped
  <2>4. CASE /\ known[s].status = "contributed"
             /\ known' = [known EXCEPT ![s] = known[s]] /\ local' = [local EXCEPT ![s] = @]
             /\ contributions' = Community!StartsPolling(s, known[s].pull)
    <3>1. UNCHANGED <<local, known>>
      BY <2>4 DEF FilesInv, FilesTyped
    <3>2. FilesInv'
      <4> HIDE DEF s
      <4>1. s \in Contributable
        BY <1>0 DEF s
      <4> QED BY <2>1, <2>4, <3>1, <4>1, NotedIsPolled, SameFilesInv
    <3> QED BY <2>1, <2>2, <3>2
  <2>5. CASE /\ known[s].status # "contributed"
             /\ known' = [known EXCEPT ![s] = now]
             /\ local' = [local EXCEPT ![s] = IF known[s] = now THEN @ ELSE now]
             /\ contributions' = Community!StartsPolling(s, now.pull)
    <3>1. s \in Contributable /\ request[r].pull \in Nat /\ PullOf(s, request[r].pull)
      BY <1>0, <1>9 DEF CallsInv, Community!Contributed, Community!At
    <3>2. /\ now \in Entries /\ now = Community!Entry("contributed", now.pull)
          /\ now.status = "contributed" /\ now.pull \in Nat /\ PullOf(s, now.pull)
      BY <3>1 DEF Entries, Statuses, Community!Marked, Community!Entry
    <3> HIDE DEF now, s
    <3>3. s \notin moved => ~Community!Polled(s)
      <4>1. s \notin moved /\ Community!Polled(s) => known[s] = Community!Entry("contributed", contributions[s].pull)
        BY <3>1 DEF FilesInv, Community!ContributionsKept
      <4> QED BY <2>5, <4>1 DEF Community!Entry
    <3>4. known[s] # now
      BY <2>5, <3>2
    <3>5. FilesTyped' /\ PollersTyped'
      BY <2>5, <3>1, <3>2, StartsPollingIts DEF FilesInv, FilesTyped, PollersTyped
    <3>6. known'[s] = now /\ local'[s] = now
          /\ \A t \in Contributable \ {s} : known'[t] = known[t] /\ local'[t] = local[t]
      BY <2>5, <3>1, <3>4 DEF FilesInv, FilesTyped
    <3>7. \A t \in Contributable : contributions'[t].pull =
            IF t = s /\ ~Community!Polled(s) THEN now.pull ELSE contributions[t].pull
      BY <2>5, <3>1, <3>2, StartsPollingIts DEF FilesInv
    <3>8. FiledPulls'
      <4>1. \A t \in Contributable :
              /\ local'[t].status = "contributed" => PullOf(t, local'[t].pull)
              /\ known'[t].status = "contributed" => PullOf(t, known'[t].pull)
              /\ contributions'[t].pull # 0 => PullOf(t, contributions'[t].pull)
        BY <3>2, <3>6, <3>7 DEF FilesInv, FiledPulls
      <4> QED BY <2>1, <4>1 DEF FiledPulls, PullOf
    <3>9. Community!ContributionsKept'
      <4> SUFFICES ASSUME NEW t \in Contributable \ moved
                   PROVE  /\ "contributed" \in {known'[t].status, local'[t].status} => known'[t] = local'[t]
                          /\ contributions'[t].pull # 0 =>
                               known'[t] = Community!Entry("contributed", contributions'[t].pull)
        BY <2>1 DEF Community!ContributionsKept, Community!Polled
      <4>1. CASE t # s
        BY <3>6, <3>7, <4>1 DEF FilesInv, Community!ContributionsKept, Community!Polled
      <4>2. CASE t = s
        BY <3>2, <3>3, <3>6, <3>7, <4>2
      <4> QED BY <4>1, <4>2
    <3>10. Community!NoSpecificationLost'
      BY <2>1, <3>2, <3>6 DEF FilesInv, Community!NoSpecificationLost, Community!Absent, Community!Entry
    <3> QED BY <2>1, <2>2, <3>5, <3>8, <3>9, <3>10 DEF FilesInv
  <2> QED BY <1>9, <2>3, <2>4, <2>5 DEF Community!Contributed
<1>10. ASSUME NEW r \in Calls, Community!CleanUp(r) PROVE CommunityInv'
  <2>1. UNCHANGED <<local, known, kept, moved, contributions, closing, upstream>>
    BY <1>10 DEF Community!CleanUp, Community!disk
  <2>2. PullsStay /\ PullsInv'
    BY <1>10, <2>1, SamePulls, ClosedPulls DEF Community!CleanUp
  <2>3. CallsInv'
    BY <1>10, <2>2, GoesKeepsCallsInv DEF Community!CleanUp, Stages
  <2> QED BY <2>1, <2>2, <2>3, SameFilesInv, SameCheckInv DEF FilesInv, PollersTyped
<1>11. ASSUME NEW s \in Contributable, Community!PollTask(s) PROVE CommunityInv'
  <2>1. PullsStay /\ PullsInv' /\ CallsInv' /\ CheckInv' /\ UNCHANGED <<local, known, kept, moved>>
    BY <1>11, SamePulls, SameCallsInv, SameCheckInv DEF Community!PollTask, Community!disk, Community!github
  <2>2. FilesInv'
    BY <1>11, <2>1, NotedIsPolled, SameFilesInv DEF Community!PollTask
  <2> QED BY <2>1, <2>2
<1>12. ASSUME NEW s \in Contributable, Community!Tick(s) PROVE CommunityInv'
  <2>1. PullsStay /\ PullsInv' /\ CallsInv' /\ UNCHANGED <<local, known, kept, moved>>
    BY <1>12, SamePulls, SameCallsInv DEF Community!Tick, Community!disk, Community!github
  <2>2. contributions[s] \in Pollers
    BY DEF FilesInv, PollersTyped
  <2>3. PICK c \in Pollers : contributions' = [contributions EXCEPT ![s] = c] /\ c.pull = contributions[s].pull
    <3> DEFINE c == contributions[s]
               e == Community!Escalated(c)
               due == c.count = 0 \/ c.count > Thresholds[c.index]
    <3>1. e \in Pollers /\ e.pull = c.pull
      <4> HIDE DEF c
      <4>1. c \in Pollers
        BY <2>2 DEF c
      <4>2. \A i, n \in Nat : [c EXCEPT !.index = i, !.checks = n] \in Pollers
                            /\ [c EXCEPT !.index = i, !.checks = n].pull = c.pull
        BY <4>1 DEF Pollers
      <4>3. \A n \in Nat : [c EXCEPT !.checks = n] \in Pollers /\ [c EXCEPT !.checks = n].pull = c.pull
        BY <4>1 DEF Pollers
      <4>4. c.index + 1 \in Nat /\ c.checks + 1 \in Nat /\ c.checks \in Nat
        BY <4>1 DEF Pollers
      <4> QED BY <4>2, <4>3, <4>4 DEF Community!Escalated
    <3>2. contributions' = [contributions EXCEPT ![s] = IF due THEN [e EXCEPT !.count = 1]
                                                        ELSE [c EXCEPT !.count = @ + 1]]
      BY <1>12 DEF Community!Tick
    <3> HIDE DEF c, e, due
    <3>3. c \in Pollers /\ c.count + 1 \in Nat
      BY <2>2 DEF c, Pollers
    <3>4. [e EXCEPT !.count = 1] \in Pollers /\ [e EXCEPT !.count = 1].pull = c.pull
      BY <3>1 DEF Pollers
    <3>5. [c EXCEPT !.count = @ + 1] \in Pollers /\ [c EXCEPT !.count = @ + 1].pull = c.pull
      BY <3>3 DEF Pollers
    <3> QED BY <3>2, <3>4, <3>5 DEF c
  <2>4. FilesInv'
    BY <2>1, <2>3, SameFilesInv DEF FilesInv, PollersTyped
  <2>5. CheckInv'
    <3>1. CASE UNCHANGED closing
      BY <2>1, <3>1, SameCheckInv
    <3>2. CASE closing' = [spec |-> s, pull |-> contributions[s].pull, stage |-> "init"]
      <4>1. PullOf(s, contributions[s].pull)
        BY <1>12 DEF Community!Tick, Community!Polled, FilesInv, FiledPulls
      <4> QED BY <2>1, <2>2, <3>2, <4>1 DEF CheckInv, PullsStay, Pollers
    <3> QED BY <1>12, <3>1, <3>2 DEF Community!Tick
  <2> QED BY <2>1, <2>4, <2>5
<1>13. ASSUME NEW s \in Contributable, Community!BranchDeleted(s) PROVE CommunityInv'
  <2>1. UNCHANGED <<local, known, kept, moved, contributions, closing, upstream, request>>
    BY <1>13 DEF Community!BranchDeleted, Community!disk
  <2>2. PullsStay /\ PullsInv'
    BY <1>13, <2>1, ClosedPulls DEF Community!BranchDeleted
  <2> QED BY <2>1, <2>2, SameFilesInv, SameCallsInv, SameCheckInv DEF FilesInv, PollersTyped
<1>14. CASE Community!CloseInit
  <2>1. /\ PullsStay /\ PullsInv' /\ CallsInv' /\ UNCHANGED <<local, kept, moved, contributions>>
        /\ Community!Fetch(local')
    BY <1>14, SamePulls, SameCallsInv DEF Community!CloseInit, Community!github
  <2>2. FilesInv'
    BY <2>1, FetchKeepsFilesInv DEF FilesInv, FilesTyped, PollersTyped
  <2>3. CheckInv'
    BY <1>14, <2>1 DEF Community!CloseInit, CheckInv, PullsStay
  <2> QED BY <2>1, <2>2, <2>3
<1>15. CASE Community!CloseFails
  BY <1>15, SamePulls, SameFilesInv, SameCallsInv, NoCheckInv
     DEF Community!CloseFails, Community!disk, Community!github, FilesInv, PollersTyped
<1>16. CASE Community!CloseAnswered
  <2> DEFINE s == closing.spec
             state == pulls[closing.pull].state
  <2>1. PullsStay /\ PullsInv' /\ CheckInv' /\ UNCHANGED <<kept, moved, upstream>>
    BY <1>16, SamePulls, NoCheckInv DEF Community!CloseAnswered, Community!github
  <2>2. /\ s \in Contributable /\ state \in {"open", "merged", "closed"}
        /\ state = "merged" => s \in upstream
    <3>1. s \in Contributable /\ PullOf(s, closing.pull)
      BY <1>16 DEF Community!CloseAnswered, CheckInv
    <3>2. pulls[closing.pull] \in PullRequests
      BY <3>1 DEF PullOf, PullsInv
    <3> QED BY <3>1, <3>2 DEF PullOf, PullsInv, PullRequests
  <2>3. CallsInv'
    BY <1>16, <2>1, SameCallsInv DEF Community!CloseAnswered, CallsInv, PullsStay, Stages, Community!At
  <2>4. CASE known[s] = Community!Absent
    <3>1. UNCHANGED <<local, known, contributions>>
      BY <1>16, <2>4 DEF Community!CloseAnswered
    <3> QED BY <2>1, <2>3, <3>1, SameFilesInv DEF FilesInv, PollersTyped
  <2>5. CASE known[s] # Community!Absent /\ state = "open"
    <3>1. UNCHANGED <<local, contributions>> /\ Community!Fetch(local')
      BY <1>16, <2>5 DEF Community!CloseAnswered
    <3> QED BY <2>1, <2>3, <3>1, FetchKeepsFilesInv DEF FilesInv, FilesTyped, PollersTyped
  <2>6. CASE known[s] # Community!Absent /\ state # "open"
    <3>1. \/ UNCHANGED local
          \/ \E e \in Entries : /\ local' = [local EXCEPT ![s] = e]
                                 /\ e.status # "contributed" /\ (e.status # "absent" \/ s \in upstream)
      <4>1. CASE state = "merged"
        <5>1. local' = local \/ local' = [local EXCEPT ![s] = Community!Absent]
          BY <1>16, <2>6, <4>1 DEF Community!CloseAnswered, Community!Marked
        <5>2. Community!Absent \in Entries /\ Community!Absent.status = "absent"
          BY DEF Community!Absent, Community!Entry, Entries, Statuses
        <5>3. s \in upstream
          BY <2>2, <4>1
        <5> HIDE DEF s
        <5> QED BY <5>1, <5>2, <5>3
      <4>2. CASE state = "closed"
        <5>1. local' = local \/ local' = [local EXCEPT ![s] = Community!OwnStatus(s, public)]
          BY <1>16, <2>6, <4>2 DEF Community!CloseAnswered, Community!Marked
        <5>2. /\ Community!OwnStatus(s, public) \in Entries
              /\ Community!OwnStatus(s, public).status \notin {"contributed", "absent"}
          BY DEF Community!OwnStatus, Community!Entry, Entries, Statuses
        <5> HIDE DEF s
        <5> QED BY <5>1, <5>2
      <4> QED BY <2>2, <2>6, <4>1, <4>2
    <3>2. contributions' = [contributions EXCEPT ![s] = Community!Unpolled] /\ Community!Fetch(local')
      BY <1>16, <2>6 DEF Community!CloseAnswered
    <3>3. Community!Unpolled \in Pollers /\ Community!Unpolled.pull = 0
      BY DEF Community!Unpolled, Pollers
    <3> HIDE DEF s
    <3>4. FilesInv'
      BY <2>1, <2>2, <3>1, <3>2, <3>3, FetchKeepsFilesInv DEF FilesInv, FilesTyped, PollersTyped
    <3> QED BY <2>1, <2>3, <3>4
  <2> QED BY <2>2, <2>4, <2>5, <2>6
<1>17. ASSUME NEW p \in DOMAIN pulls, Community!Reviewed(p) PROVE CommunityInv'
  <2>1. UNCHANGED <<local, known, kept, moved, contributions, closing, request>>
    BY <1>17 DEF Community!Reviewed, Community!disk
  <2>2. /\ DOMAIN pulls = 1 .. Len(pulls) /\ Len(pulls) \in Nat
        /\ \A q \in DOMAIN pulls : pulls[q] \in PullRequests
    BY DEF PullsInv
  <2>3. PICK state \in {"merged", "closed"} :
          /\ pulls' = [pulls EXCEPT ![p].state = state]
          /\ upstream' = IF state = "merged" THEN upstream \cup {pulls[p].spec} ELSE upstream
    BY <1>17 DEF Community!Reviewed
  <2>4. /\ DOMAIN pulls' = DOMAIN pulls /\ pulls' \in Seq(PullRequests)
        /\ pulls'[p].spec = pulls[p].spec /\ pulls'[p].state = state
        /\ \A q \in DOMAIN pulls \ {p} : pulls'[q] = pulls[q]
    <3> DEFINE pr == [pulls[p] EXCEPT !.state = state]
    <3>1. pr \in PullRequests /\ pr.spec = pulls[p].spec /\ pr.state = state
      BY <2>2 DEF PullRequests
    <3>2. pulls' = [pulls EXCEPT ![p] = pr]
      BY <2>3
    <3> HIDE DEF pr
    <3> QED BY <2>2, <3>1, <3>2 DEF PullsInv
  <2>5. PullsStay /\ PullsInv'
    BY <2>3, <2>4 DEF PullsInv, PullsStay, PullOf
  <2> QED BY <2>1, <2>5, SameFilesInv, SameCallsInv, SameCheckInv DEF FilesInv, PollersTyped
<1>18. CASE Community!Restart
  <2>1. /\ PullsStay /\ PullsInv' /\ CheckInv' /\ UNCHANGED <<local, kept>> /\ Community!Fetch(local')
    BY <1>18, SamePulls, NoCheckInv DEF Community!Restart, Community!github
  <2>2. CallsInv'
    BY <1>18, <2>1 DEF Community!Restart, CallsInv, PullsStay, Stages, Community!At
  <2>3. /\ contributions' \in [Contributable -> Pollers]
        /\ \A s \in Contributable : contributions'[s].pull = 0
    BY <1>18 DEF Community!Restart, Community!Unpolled, Pollers
  <2>4. FilesInv'
    BY <2>1, <2>3, FetchKeepsFilesInv DEF FilesInv, FilesTyped
  <2> QED BY <2>1, <2>2, <2>4
<1>19. CASE UNCHANGED communityVars
  BY <1>19, SamePulls, SameFilesInv, SameCallsInv, SameCheckInv DEF communityVars, FilesInv, PollersTyped
<1> QED
  BY <1>1, <1>2, <1>3, <1>4, <1>5, <1>6, <1>7, <1>8, <1>9, <1>10, <1>11, <1>12, <1>13, <1>14, <1>15,
     <1>16, <1>17, <1>18, <1>19 DEF Community!Next

(* Memory, files and pollers agree on who is contributed by which pull request, except         *)
(* those an outdated page has renamed since the start, and no specification is lost that      *)
(* its user has not deleted or renamed, whatever the user, GitHub, restarts and late answers    *)
(* do in between (configspec.ts: changeContributionStatus, writeSpecificationFromFileSpec,     *)
(* readYaml; contributionPoller.ts: startPolling).                                 *)
THEOREM ContributionsAreKept == PartsSpec => []ContributionsKept
<1>1. Begin => CommunityInv
  BY BeginsWithEach, CommunityInit
<1>2. CommunityInv /\ [Step]_allVars => CommunityInv'
  BY StepsOfEach, CommunityNext
<1>3. CommunityInv => ContributionsKept
  BY DEF CommunityInv, FilesInv, ContributionsKept
<1> QED BY <1>1, <1>2, <1>3, PTL DEF PartsSpec

(***************************************************************************)
(* StartUp: a start is at one place at a time; what tells whether an answer of the   *)
(* supervisor is early or late is that a request which still counts belongs to the   *)
(* stage that waits for it.                                                    *)
(***************************************************************************)

(* Stages of a start before its port is open.                                  *)
EarlyStages == {"migration", "configuration", "login", "github", "connections", "oidc", "addon", "listen"}

LoginStates == {"none", "sent", "headers", "late", "lateHeaders", "settled"}

ServerTypes ==
  /\ env \in Server!Environment
  /\ stage \in EarlyStages \cup {"running", "exited"}
  /\ logins \in [Server!Requests -> LoginStates]
  /\ connecting \subseteq Busses
  /\ initialised \in 0 .. 2
  /\ started \in [Busses -> 0 .. 2]

(* An answer that makes its caller go on finds it waiting.                      *)
CallerWaits == \A r \in Server!Requests : logins[r] \in {"sent", "headers"} => stage = r

(* Nobody polls before the port is open, and no connection is under way but in    *)
(* the stage that waits for them.                                             *)
NobodyPollsEarly == stage \in EarlyStages => \A b \in Busses : started[b] = 0
ConnectsInStage == stage # "connections" => connecting = {}

(* The routes are set up when the port is opened.                               *)
RoutesBeforePort == stage = "listen" => initialised > 0

ServerInv == ServerTypes /\ CallerWaits /\ NobodyPollsEarly /\ ConnectsInStage /\ RoutesBeforePort /\ Server!OnePollerEach

LEMMA ServerInit == Server!Init => ServerInv
BY DEF Server!Init, ServerInv, ServerTypes, CallerWaits, NobodyPollsEarly, ConnectsInStage, RoutesBeforePort,
       Server!OnePollerEach, EarlyStages, Server!Requests, LoginStates

USE DEF EarlyStages, Server!Requests, LoginStates

(* The caller of a request goes on, or a late answer sets the routes up again.       *)
LEMMA ProceedingKeepsServerInv ==
  ASSUME ServerInv, NEW r \in Server!Requests, NEW late \in BOOLEAN,
         late <=> logins[r] \notin {"sent", "headers"},
         NEW state \in {"late", "settled"}, logins' = [logins EXCEPT ![r] = state],
         Server!Proceed(r, late), UNCHANGED <<env, connecting, started>>
  PROVE  ServerInv'
<1> USE DEF ServerInv, Server!Proceed, Server!AtMostTwo
<1>1. ServerTypes'
  BY DEF ServerTypes
<1>2. CallerWaits'
  BY DEF ServerTypes, CallerWaits
<1>3. NobodyPollsEarly'
  BY DEF ServerTypes, CallerWaits, NobodyPollsEarly
<1>4. ConnectsInStage'
  BY DEF ServerTypes, CallerWaits, ConnectsInStage
<1>5. RoutesBeforePort'
  BY DEF ServerTypes, CallerWaits, RoutesBeforePort
<1>6. Server!OnePollerEach'
  BY DEF ServerTypes, Server!OnePollerEach
<1> QED BY <1>1, <1>2, <1>3, <1>4, <1>5, <1>6

(* The process ends, with or without pollers.                                    *)
LEMMA QuittingKeepsServerInv ==
  ASSUME ServerInv, Server!Quits, UNCHANGED <<env, initialised, started>>
  PROVE  ServerInv'
BY DEF ServerInv, Server!Quits, ServerTypes, CallerWaits, NobodyPollsEarly, ConnectsInStage, RoutesBeforePort, Server!OnePollerEach

LEMMA ServerNext == ServerInv /\ [Server!Next]_serverVars => ServerInv'
<1> SUFFICES ASSUME ServerInv, [Server!Next]_serverVars PROVE ServerInv'
  OBVIOUS
<1> USE DEF ServerInv
<1>1. CASE Server!Migrate
  BY <1>1 DEF Server!Migrate, ServerTypes, CallerWaits, NobodyPollsEarly, ConnectsInStage, RoutesBeforePort, Server!OnePollerEach
<1>2. CASE Server!ReadConfiguration
  BY <1>2 DEF Server!ReadConfiguration, Server!AsksForLogin, ServerTypes, CallerWaits, NobodyPollsEarly, ConnectsInStage,
              RoutesBeforePort, Server!OnePollerEach
<1>3. CASE Server!Unreadable \/ Server!NoFrontend \/ Server!Stop
  BY <1>3, QuittingKeepsServerInv DEF Server!Unreadable, Server!NoFrontend, Server!Stop
<1>4. ASSUME NEW r \in Server!Requests, Server!Timeout(r) PROVE ServerInv'
  BY <1>4, ProceedingKeepsServerInv DEF Server!Timeout
<1>5. ASSUME NEW r \in Server!Requests, Server!HeadersArrive(r) PROVE ServerInv'
  BY <1>5 DEF Server!HeadersArrive, ServerTypes, CallerWaits, NobodyPollsEarly, ConnectsInStage, RoutesBeforePort, Server!OnePollerEach
<1>6. ASSUME NEW r \in Server!Requests, Server!Settles(r) PROVE ServerInv'
  BY <1>6, ProceedingKeepsServerInv DEF Server!Settles
<1>7. ASSUME NEW r \in Server!Requests, Server!Fails(r) PROVE ServerInv'
  BY <1>7, ProceedingKeepsServerInv DEF Server!Fails
<1>8. CASE Server!GithubReady
  BY <1>8 DEF Server!GithubReady, ServerTypes, CallerWaits, NobodyPollsEarly, ConnectsInStage, RoutesBeforePort, Server!OnePollerEach
<1>9. ASSUME NEW b \in Busses, Server!ConnectionSettles(b) PROVE ServerInv'
  BY <1>9 DEF Server!ConnectionSettles, ServerTypes, CallerWaits, NobodyPollsEarly, ConnectsInStage, RoutesBeforePort, Server!OnePollerEach
<1>10. CASE Server!OidcReady
  BY <1>10 DEF Server!OidcReady, Server!AtMostTwo, Server!Environment, ServerTypes, CallerWaits, NobodyPollsEarly, ConnectsInStage,
               RoutesBeforePort, Server!OnePollerEach
<1>11. CASE Server!Listen
  BY <1>11 DEF Server!Listen, Server!Polling, Server!AtMostTwo, ServerTypes, CallerWaits, NobodyPollsEarly, ConnectsInStage,
               RoutesBeforePort, Server!OnePollerEach
<1>12. CASE Server!PortTaken
  <2>1. CASE Server!UsesHttps
    BY <1>12, <2>1, QuittingKeepsServerInv DEF Server!PortTaken
  <2>2. CASE ~Server!UsesHttps
    BY <1>12, <2>2 DEF Server!PortTaken, Server!Polling, Server!AtMostTwo, ServerTypes, CallerWaits, NobodyPollsEarly, ConnectsInStage,
                       RoutesBeforePort, Server!OnePollerEach
  <2> QED BY <2>1, <2>2
<1>13. CASE Server!SaveFile
  BY <1>13 DEF Server!SaveFile, ServerTypes, CallerWaits, NobodyPollsEarly, ConnectsInStage, RoutesBeforePort, Server!OnePollerEach
<1>14. CASE Server!Start
  BY <1>14 DEF Server!Start, ServerTypes, CallerWaits, NobodyPollsEarly, ConnectsInStage, RoutesBeforePort, Server!OnePollerEach
<1>15. CASE UNCHANGED serverVars
  BY <1>15 DEF serverVars, ServerTypes, CallerWaits, NobodyPollsEarly, ConnectsInStage, RoutesBeforePort, Server!OnePollerEach
<1> QED
  BY <1>1, <1>2, <1>3, <1>4, <1>5, <1>6, <1>7, <1>8, <1>9, <1>10, <1>11, <1>12, <1>13, <1>14, <1>15 DEF Server!Next

(* However a start goes, how often the program is started again and however late the  *)
(* supervisor answers, a bus has at most one poller, and it has one only after the      *)
(* routes are set up and all connections are settled (modbus2mqtt.ts: init, listen).     *)
THEOREM OnePollerPerBus == PartsSpec => []OnePollerEach
<1>1. Begin => ServerInv
  BY BeginsWithEach, ServerInit
<1>2. ServerInv /\ [Step]_allVars => ServerInv'
  BY StepsOfEach, ServerNext
<1>3. ServerInv => OnePollerEach
  BY DEF ServerInv, OnePollerEach
<1> QED BY <1>1, <1>2, <1>3, PTL DEF PartsSpec

(***************************************************************************)
(* Settings: a configuration comes from the page, from a file or from an archive;    *)
(* none of them has a blank where only the token may be one, and while no first save  *)
(* was cut off, placeholders are only in files that have their secrets beside them.   *)
(***************************************************************************)

MainFields == MainConfiguration!Fields
SecretFields == MainConfiguration!Secrets

(* What the page may have, and what a file may have.                              *)
PlainFields(c) ==
  /\ c \in [MainFields -> MainConfiguration!Texts]
  /\ \A f \in MainFields \ SecretFields : c[f] \notin {Blank, Placeholder}
Filed(c) == PlainFields(c) /\ \A f \in MainFields : c[f] # Blank
WithoutPlaceholders(c) == \A f \in SecretFields : c[f] # Placeholder

(* A page is open, or was when a check of it began.                               *)
PageLives == configurePage # None \/ checks # MainConfiguration!NoChecks

PageTyped ==
  /\ DOMAIN configurePage = {"config", "form", "known", "hassio", "pristine", "connected"}
  /\ PlainFields(configurePage.config) /\ PlainFields(configurePage.form)

SettingsTyped ==
  /\ environment \in Environments
  /\ PlainFields(config)
  /\ mainFile # None => Filed(mainFile)
  /\ archive # None => Filed(archive)
  /\ secrets # None => secrets \in [SecretFields -> MainConfiguration!Texts]
  /\ PageLives => PageTyped

(* Unless the very first save was cut off between its files.                        *)
SecretsAreFiled ==
  ~torn =>
    /\ WithoutPlaceholders(config)
    /\ secrets # None => WithoutPlaceholders(secrets)
    /\ PageLives =>
         WithoutPlaceholders(configurePage.config) /\ WithoutPlaceholders(configurePage.form)
    /\ mainFile # None /\ secrets = None => WithoutPlaceholders(mainFile)

(* Written and not changed since, memory is what another start would read.            *)
MemoryIsFiled ==
  running = "up" /\ ~unwritten =>
    \A f \in MainFields :
      MainConfiguration!Pasted(config[f]) =
        MainConfiguration!Completed(environment, MainConfiguration!Read(mainFile, secrets))[f]

SettingsInv == SettingsTyped /\ SecretsAreFiled /\ MemoryIsFiled

USE DEF MainFields, SecretFields, MainConfiguration!Fields, MainConfiguration!Secrets

LEMMA SettingsFacts ==
  /\ MainConfiguration!SettingsAssumption
  /\ {None, Placeholder, Blank, DefaultPort} \subseteq MainConfiguration!Texts
  /\ \A f \in MainFields \ {"port"} : EnteredValues[f] \subseteq MainConfiguration!Texts
  /\ \A e \in Environments : e.https \in MainConfiguration!Texts
<1>1. MainConfiguration!SettingsAssumption
  BY PartsAssumption
<1>2. \A f \in MainFields \ {"port"} : EnteredValues[f] \subseteq MainConfiguration!Texts
  BY DEF MainConfiguration!Texts
<1>3. ASSUME NEW e \in Environments PROVE e.https \in MainConfiguration!Texts
  <2>1. e.https \in {d.https : d \in Environments}
    OBVIOUS
  <2> QED BY <2>1 DEF MainConfiguration!Texts
<1>4. {None, Placeholder, Blank, DefaultPort} \subseteq MainConfiguration!Texts
  BY DEF MainConfiguration!Texts
<1> QED BY <1>1, <1>2, <1>3, <1>4

LEMMA CompletedKeeps ==
  ASSUME NEW e \in Environments, NEW c, PlainFields(c)
  PROVE  /\ PlainFields(MainConfiguration!Completed(e, c))
         /\ \A f \in SecretFields : MainConfiguration!Completed(e, c)[f] = c[f]
<1>1. NewConfig.language \in MainConfiguration!Texts \ {Blank, Placeholder}
  BY SettingsFacts DEF MainConfiguration!SettingsAssumption
<1>2. MainConfiguration!HttpsPort(e, c.port) \in MainConfiguration!Texts \ {Blank, Placeholder}
  BY SettingsFacts DEF MainConfiguration!SettingsAssumption, MainConfiguration!HttpsPort, PlainFields
<1>3. MainConfiguration!Completed(e, c) =
        [c EXCEPT !["language"] = IF @ = None THEN NewConfig.language ELSE @,
                  !["port"] = MainConfiguration!HttpsPort(e, c.port)]
  BY DEF MainConfiguration!Completed
<1> QED BY <1>1, <1>2, <1>3 DEF PlainFields

(* What is completed depends on each field alone.                                  *)
LEMMA CompletedAlike ==
  ASSUME NEW e, NEW c, NEW d, PlainFields(c), PlainFields(d),
         NEW f \in MainFields, c[f] = d[f]
  PROVE  MainConfiguration!Completed(e, c)[f] = MainConfiguration!Completed(e, d)[f]
BY DEF MainConfiguration!Completed, PlainFields

LEMMA PastedKeeps ==
  ASSUME NEW t \in MainConfiguration!Texts
  PROVE  /\ MainConfiguration!Pasted(t) \in MainConfiguration!Texts
         /\ MainConfiguration!Pasted(t) # Blank
         /\ t # Placeholder => MainConfiguration!Pasted(t) # Placeholder
         /\ t # Blank => MainConfiguration!Pasted(t) = t
BY SettingsFacts DEF MainConfiguration!SettingsAssumption, MainConfiguration!Pasted

(* Reading leaves no blank, and no placeholder that has a secret.                   *)
LEMMA ReadIsFiled ==
  ASSUME NEW y, NEW s, y # None => Filed(y), s # None => s \in [SecretFields -> MainConfiguration!Texts]
  PROVE  /\ Filed(MainConfiguration!Read(y, s))
         /\ (s # None => WithoutPlaceholders(s)) /\ (y # None /\ s = None => WithoutPlaceholders(y)) =>
              WithoutPlaceholders(MainConfiguration!Read(y, s))
<1>1. CASE y = None
  BY <1>1, SettingsFacts DEF MainConfiguration!SettingsAssumption, MainConfiguration!Read,
     Filed, PlainFields, WithoutPlaceholders
<1>2. CASE y # None
  <2>1. MainConfiguration!Read(y, s) =
          [f \in MainFields |-> IF y[f] # Placeholder \/ s = None THEN y[f]
                                ELSE MainConfiguration!Pasted(s[f])]
    BY <1>2 DEF MainConfiguration!Read
  <2>2. \A f \in MainFields : y[f] \in MainConfiguration!Texts \ {Blank}
    BY <1>2 DEF Filed, PlainFields
  <2>3. \A f \in MainFields \ SecretFields : y[f] # Placeholder
    BY <1>2 DEF Filed, PlainFields
  <2>4. s # None => \A f \in SecretFields : s[f] \in MainConfiguration!Texts
    OBVIOUS
  <2>5. Filed(MainConfiguration!Read(y, s))
    <3>1. ASSUME NEW f \in MainFields
          PROVE  /\ MainConfiguration!Read(y, s)[f] \in MainConfiguration!Texts \ {Blank}
                 /\ f \notin SecretFields => MainConfiguration!Read(y, s)[f] # Placeholder
      BY <2>1, <2>2, <2>3, <2>4, PastedKeeps
    <3> QED BY <2>1, <3>1 DEF Filed, PlainFields
  <2>6. ASSUME s # None => WithoutPlaceholders(s), s = None => WithoutPlaceholders(y)
        PROVE  WithoutPlaceholders(MainConfiguration!Read(y, s))
    BY <2>1, <2>4, <2>6, PastedKeeps DEF WithoutPlaceholders
  <2> QED BY <1>2, <2>5, <2>6
<1> QED BY <1>1, <1>2

(* What is written comes back, but for a blank token.                              *)
LEMMA WrittenIsRead ==
  ASSUME NEW c, PlainFields(c)
  PROVE  /\ MainConfiguration!Public(c) # None /\ Filed(MainConfiguration!Public(c))
         /\ MainConfiguration!Private(c) # None
         /\ MainConfiguration!Private(c) \in [SecretFields -> MainConfiguration!Texts]
         /\ WithoutPlaceholders(c) => WithoutPlaceholders(MainConfiguration!Private(c))
         /\ \A f \in MainFields :
              MainConfiguration!Read(MainConfiguration!Public(c), MainConfiguration!Private(c))[f] =
                MainConfiguration!Pasted(c[f])
<1> DEFINE y == MainConfiguration!Public(c)
           s == MainConfiguration!Private(c)
<1>1. \A f \in MainFields : y[f] = IF f \in SecretFields /\ c[f] # None THEN Placeholder ELSE c[f]
  BY DEF MainConfiguration!Public
<1>2. \A f \in SecretFields : s[f] = c[f]
  BY DEF MainConfiguration!Private
<1>3. y \in [MainFields -> MainConfiguration!Texts] /\ s \in [SecretFields -> MainConfiguration!Texts]
  BY SettingsFacts DEF MainConfiguration!Public, MainConfiguration!Private, PlainFields
<1>4. y # None /\ s # None
  BY <1>3, SettingsFacts DEF MainConfiguration!SettingsAssumption
<1> HIDE DEF y, s
<1>5. Filed(y)
  <2>1. \A f \in MainFields \ SecretFields : y[f] \notin {Blank, Placeholder}
    BY <1>1 DEF PlainFields
  <2>2. \A f \in SecretFields : y[f] # Blank
    BY <1>1, SettingsFacts DEF MainConfiguration!SettingsAssumption
  <2> QED BY <1>3, <2>1, <2>2 DEF Filed, PlainFields
<1>6. ASSUME NEW f \in MainFields PROVE MainConfiguration!Read(y, s)[f] = MainConfiguration!Pasted(c[f])
  <2>1. MainConfiguration!Read(y, s)[f] = IF y[f] # Placeholder THEN y[f] ELSE MainConfiguration!Pasted(s[f])
    BY <1>4 DEF MainConfiguration!Read
  <2>2. CASE f \in SecretFields /\ c[f] # None
    BY <1>1, <1>2, <2>1, <2>2
  <2>3. CASE f \in SecretFields /\ c[f] = None
    BY <1>1, <2>1, <2>3, SettingsFacts DEF MainConfiguration!SettingsAssumption, MainConfiguration!Pasted
  <2>4. CASE f \notin SecretFields
    <3>1. c[f] \in MainConfiguration!Texts /\ c[f] \notin {Blank, Placeholder}
      BY <2>4 DEF PlainFields
    <3> QED BY <1>1, <2>1, <2>4, <3>1, PastedKeeps
  <2> QED BY <2>2, <2>3, <2>4
<1> QED BY <1>2, <1>3, <1>4, <1>5, <1>6 DEF y, s, WithoutPlaceholders

LEMMA SettingsInit == MainConfiguration!Init => SettingsInv
<1> SUFFICES ASSUME MainConfiguration!Init PROVE SettingsInv
  OBVIOUS
<1> USE DEF MainConfiguration!Init
<1>1. ASSUME NEW c \in Handwritten \cup Exported \cup {NewConfig} PROVE Filed(c)
  BY SettingsFacts DEF MainConfiguration!SettingsAssumption, Filed, PlainFields
<1>2. ASSUME NEW c \in Handwritten \cup {NewConfig} PROVE WithoutPlaceholders(c)
  BY SettingsFacts DEF MainConfiguration!SettingsAssumption, WithoutPlaceholders
<1>3. ~PageLives
  BY DEF PageLives
<1>4. SettingsTyped
  BY <1>1, <1>3 DEF SettingsTyped, Filed
<1>5. SecretsAreFiled
  BY <1>2, <1>3 DEF SecretsAreFiled
<1> QED BY <1>4, <1>5 DEF SettingsInv, MemoryIsFiled

(* What the page saves is a configuration.                                        *)
LEMMA PostedIsPlain ==
  ASSUME PageTyped
  PROVE  /\ PlainFields(MainConfiguration!Posted)
         /\ WithoutPlaceholders(configurePage.config) /\ WithoutPlaceholders(configurePage.form) =>
              WithoutPlaceholders(MainConfiguration!Posted)
<1>1. ASSUME NEW f \in MainFields
      PROVE  MainConfiguration!Posted[f] \in {configurePage.config[f], configurePage.form[f]}
  BY DEF MainConfiguration!Posted
<1>2. MainConfiguration!Posted = [f \in MainFields |-> MainConfiguration!Posted[f]]
  BY DEF MainConfiguration!Posted
<1> QED BY <1>1, <1>2 DEF PageTyped, PlainFields, WithoutPlaceholders

LEMMA SettingsNext ==
  SettingsInv /\ [MainConfiguration!Next]_settingsVars => SettingsInv'
<1> SUFFICES ASSUME SettingsInv, [MainConfiguration!Next]_settingsVars PROVE SettingsInv'
  OBVIOUS
<1> USE DEF SettingsInv
<1>1. ASSUME MainConfiguration!Open PROVE SettingsInv'
  <2>1. PlainFields([config EXCEPT !["token"] = Blank])
    BY SettingsFacts DEF SettingsTyped, PlainFields
  <2>2. ~torn => WithoutPlaceholders([config EXCEPT !["token"] = Blank])
    BY SettingsFacts DEF SettingsTyped, SecretsAreFiled, PlainFields, WithoutPlaceholders,
       MainConfiguration!SettingsAssumption
  <2>3. SettingsTyped'
    BY <1>1, <2>1 DEF MainConfiguration!Open, MainConfiguration!filesVars, SettingsTyped, PageTyped,
       PlainFields, Filed
  <2>4. SecretsAreFiled'
    BY <1>1, <2>2 DEF MainConfiguration!Open, MainConfiguration!filesVars, SecretsAreFiled,
       WithoutPlaceholders
  <2>5. MemoryIsFiled'
    BY <1>1 DEF MainConfiguration!Open, MainConfiguration!filesVars, MemoryIsFiled,
       MainConfiguration!Completed, MainConfiguration!HttpsPort, MainConfiguration!Read
  <2> QED BY <2>3, <2>4, <2>5
<1>2. ASSUME NEW f \in MainFields \ {"port"}, NEW v \in EnteredValues[f], MainConfiguration!Edit(f, v)
      PROVE  SettingsInv'
  <2>1. PageTyped /\ PageLives
    BY <1>2 DEF MainConfiguration!Edit, SettingsTyped, PageLives
  <2>2. v \in MainConfiguration!Texts /\ v # Placeholder /\ (f \notin SecretFields => v # Blank)
    BY SettingsFacts DEF MainConfiguration!SettingsAssumption
  <2>3. configurePage' = [configurePage EXCEPT !.form[f] = v, !.pristine = FALSE]
    BY <1>2 DEF MainConfiguration!Edit
  <2>4. PageTyped'
    BY <2>1, <2>2, <2>3 DEF PageTyped, PlainFields
  <2>5. ~torn => WithoutPlaceholders(configurePage.config)' /\ WithoutPlaceholders(configurePage.form)'
    BY <2>1, <2>2, <2>3 DEF SecretsAreFiled, PageTyped, PlainFields, WithoutPlaceholders
  <2>6. SettingsTyped'
    BY <1>2, <2>4 DEF MainConfiguration!Edit, MainConfiguration!filesVars, SettingsTyped,
       PlainFields, Filed
  <2>7. SecretsAreFiled'
    BY <1>2, <2>5 DEF MainConfiguration!Edit, MainConfiguration!filesVars, SecretsAreFiled,
       WithoutPlaceholders
  <2>8. MemoryIsFiled'
    BY <1>2 DEF MainConfiguration!Edit, MainConfiguration!filesVars, MemoryIsFiled,
       MainConfiguration!Completed, MainConfiguration!HttpsPort, MainConfiguration!Read
  <2> QED BY <2>6, <2>7, <2>8
<1>3. ASSUME MainConfiguration!UserIsKnown PROVE SettingsInv'
  <2>1. PageTyped /\ PageLives
    BY <1>3 DEF MainConfiguration!UserIsKnown, SettingsTyped, PageLives
  <2>2. configurePage' = [configurePage EXCEPT !.known = TRUE, !.hassio = environment.hassio,
                !.form.token = IF configurePage.config.token = None THEN @ ELSE configurePage.config.token]
    BY <1>3 DEF MainConfiguration!UserIsKnown
  <2>3. PageTyped'
    BY <2>1, <2>2 DEF PageTyped, PlainFields
  <2>4. ~torn => WithoutPlaceholders(configurePage.config)' /\ WithoutPlaceholders(configurePage.form)'
    BY <2>1, <2>2 DEF SecretsAreFiled, PageTyped, PlainFields, WithoutPlaceholders
  <2>5. SettingsTyped'
    BY <1>3, <2>3 DEF MainConfiguration!UserIsKnown, MainConfiguration!filesVars, SettingsTyped,
       PlainFields, Filed
  <2>6. SecretsAreFiled'
    BY <1>3, <2>4 DEF MainConfiguration!UserIsKnown, MainConfiguration!filesVars, SecretsAreFiled,
       WithoutPlaceholders
  <2>7. MemoryIsFiled'
    BY <1>3 DEF MainConfiguration!UserIsKnown, MainConfiguration!filesVars, MemoryIsFiled,
       MainConfiguration!Completed, MainConfiguration!HttpsPort, MainConfiguration!Read
  <2> QED BY <2>5, <2>6, <2>7
<1>4. ASSUME NEW server \in BOOLEAN, NEW valid \in BOOLEAN, MainConfiguration!Checked(server, valid)
      PROVE  SettingsInv'
  <2>1. PageTyped /\ PageLives
    BY <1>4 DEF MainConfiguration!Checked, MainConfiguration!NoChecks, SettingsTyped, PageLives
  <2>2. configurePage' = [configurePage EXCEPT !.connected = valid]
    BY <1>4 DEF MainConfiguration!Checked
  <2>3. PageTyped' /\ configurePage'.config = configurePage.config /\ configurePage'.form = configurePage.form
    BY <2>1, <2>2 DEF PageTyped, PlainFields
  <2>4. SettingsTyped'
    BY <1>4, <2>3 DEF MainConfiguration!Checked, MainConfiguration!filesVars, SettingsTyped,
       PlainFields, Filed
  <2>5. SecretsAreFiled'
    BY <1>4, <2>1, <2>3 DEF MainConfiguration!Checked, MainConfiguration!filesVars, SecretsAreFiled,
       WithoutPlaceholders
  <2>6. MemoryIsFiled'
    BY <1>4 DEF MainConfiguration!Checked, MainConfiguration!filesVars, MemoryIsFiled,
       MainConfiguration!Completed, MainConfiguration!HttpsPort, MainConfiguration!Read
  <2> QED BY <2>4, <2>5, <2>6
<1>5. ASSUME MainConfiguration!Save PROVE SettingsInv'
  <2> DEFINE c == MainConfiguration!Posted
             written == MainConfiguration!Completed(environment, c)
  <2>1. PageTyped /\ PageLives /\ ~PageLives'
    BY <1>5 DEF MainConfiguration!Save, SettingsTyped, PageLives, MainConfiguration!NoChecks
  <2>2. PlainFields(c) /\ (~torn => WithoutPlaceholders(c))
    BY <2>1, PostedIsPlain DEF SecretsAreFiled
  <2>3. PlainFields(written) /\ (~torn => WithoutPlaceholders(written))
    BY <2>2, CompletedKeeps DEF SettingsTyped, WithoutPlaceholders
  <2>4. config' = written /\ environment' = environment /\ archive' = archive
    BY <1>5 DEF MainConfiguration!Save, MainConfiguration!Writes, MainConfiguration!Interrupted
  <2> HIDE DEF c, written
  <2>5. CASE MainConfiguration!Writes(c)
    <3>1. mainFile' = MainConfiguration!Public(c) /\ secrets' = MainConfiguration!Private(c) /\ torn' = torn
      BY <2>5 DEF MainConfiguration!Writes
    <3>2. SettingsTyped'
      BY <2>1, <2>2, <2>3, <2>4, <3>1, WrittenIsRead DEF SettingsTyped, Filed, PlainFields
    <3>3. SecretsAreFiled'
      BY <2>1, <2>2, <2>3, <2>4, <3>1, WrittenIsRead DEF SecretsAreFiled, WithoutPlaceholders
    <3>4. ASSUME NEW f \in MainFields
          PROVE  MainConfiguration!Pasted(config'[f]) =
                   MainConfiguration!Completed(environment', MainConfiguration!Read(mainFile', secrets'))[f]
      <4> DEFINE r == MainConfiguration!Read(mainFile', secrets')
      <4>1. r[f] = MainConfiguration!Pasted(c[f])
        BY <2>2, <3>1, WrittenIsRead
      <4>2. PlainFields(r)
        BY <2>2, <3>1, WrittenIsRead, ReadIsFiled DEF Filed
      <4> HIDE DEF r
      <4>3. CASE f \in SecretFields
        <5>1. written[f] = c[f] /\ MainConfiguration!Completed(environment, r)[f] = r[f]
          BY <2>2, <4>2, <4>3, CompletedKeeps DEF SettingsTyped, written
        <5> QED BY <2>4, <4>1, <5>1 DEF r
      <4>4. CASE f \notin SecretFields
        <5>1. c[f] \in MainConfiguration!Texts /\ c[f] # Blank
          BY <2>2, <4>4 DEF PlainFields
        <5>2. r[f] = c[f]
          BY <4>1, <5>1, PastedKeeps
        <5>3. written[f] = MainConfiguration!Completed(environment, r)[f]
          BY <2>2, <4>2, <5>2, CompletedAlike DEF written
        <5>4. written[f] \in MainConfiguration!Texts /\ written[f] # Blank
          BY <2>3, <4>4 DEF PlainFields
        <5> QED BY <2>4, <5>3, <5>4, PastedKeeps DEF r
      <4> QED BY <4>3, <4>4
    <3> QED BY <3>2, <3>3, <3>4 DEF MemoryIsFiled
  <2>6. CASE MainConfiguration!Interrupted(c)
    <3>1. /\ mainFile' \in {mainFile, MainConfiguration!Public(c)} /\ secrets' = secrets /\ unwritten'
          /\ ~torn' => ~torn /\ (secrets = None => mainFile' = mainFile)
      BY <2>6 DEF MainConfiguration!Interrupted
    <3>2. SettingsTyped'
      BY <2>1, <2>2, <2>3, <2>4, <3>1, WrittenIsRead DEF SettingsTyped, Filed, PlainFields
    <3>3. SecretsAreFiled'
      BY <2>1, <2>3, <2>4, <3>1 DEF SecretsAreFiled, WithoutPlaceholders
    <3> QED BY <3>1, <3>2, <3>3 DEF MemoryIsFiled
  <2> QED BY <1>5, <2>5, <2>6 DEF MainConfiguration!Save, c
<1>6. ASSUME MainConfiguration!Import \/ MainConfiguration!Start PROVE SettingsInv'
  <2> DEFINE r == MainConfiguration!Read(mainFile', secrets')
             completed == MainConfiguration!Completed(environment', r)
  <2>1. /\ config' = completed /\ environment' \in Environments
        /\ torn' = torn /\ UNCHANGED <<archive, configurePage, checks>>
    BY <1>6 DEF MainConfiguration!Import, MainConfiguration!Start, MainConfiguration!filesVars,
       SettingsTyped
  <2>2. /\ mainFile' # None => Filed(mainFile')
        /\ secrets' # None => secrets' \in [SecretFields -> MainConfiguration!Texts]
        /\ ~torn => /\ secrets' # None => WithoutPlaceholders(secrets')
                    /\ mainFile' # None /\ secrets' = None => WithoutPlaceholders(mainFile')
    <3>1. CASE MainConfiguration!Start
      BY <3>1 DEF MainConfiguration!Start, MainConfiguration!filesVars, SettingsTyped, SecretsAreFiled
    <3>2. CASE MainConfiguration!Import
      <4>1. /\ MainConfiguration!NoSecrets \in [SecretFields -> MainConfiguration!Texts]
            /\ WithoutPlaceholders(MainConfiguration!NoSecrets)
            /\ MainConfiguration!NoSecrets # None
        BY SettingsFacts DEF MainConfiguration!NoSecrets, WithoutPlaceholders,
           MainConfiguration!SettingsAssumption
      <4> QED BY <3>2, <4>1 DEF MainConfiguration!Import, SettingsTyped, SecretsAreFiled
    <3> QED BY <1>6, <3>1, <3>2
  <2>3. Filed(r) /\ (~torn => WithoutPlaceholders(r))
    BY <2>2, ReadIsFiled
  <2> HIDE DEF r
  <2>4. PlainFields(completed) /\ (\A f \in SecretFields : completed[f] = r[f])
    BY <2>1, <2>3, CompletedKeeps DEF Filed
  <2> HIDE DEF completed
  <2>5. SettingsTyped'
    BY <2>1, <2>2, <2>4 DEF SettingsTyped, PlainFields, Filed, PageLives, PageTyped
  <2>6. SecretsAreFiled'
    BY <2>1, <2>2, <2>3, <2>4 DEF SecretsAreFiled, WithoutPlaceholders, PageLives
  <2>7. ASSUME NEW f \in MainFields PROVE MainConfiguration!Pasted(completed[f]) = completed[f]
    BY <2>3, <2>4, PastedKeeps DEF Filed, PlainFields
  <2> QED BY <2>1, <2>5, <2>6, <2>7 DEF MemoryIsFiled, completed, r
<1>7. ASSUME MainConfiguration!Export \/ MainConfiguration!RemoveFiles \/ MainConfiguration!Stop
      PROVE  SettingsInv'
  <2>1. SettingsTyped'
    BY <1>7 DEF MainConfiguration!Export, MainConfiguration!RemoveFiles, MainConfiguration!Stop,
       MainConfiguration!filesVars, SettingsTyped, PlainFields, Filed, PageLives, PageTyped
  <2>2. SecretsAreFiled'
    BY <1>7 DEF MainConfiguration!Export, MainConfiguration!RemoveFiles, MainConfiguration!Stop,
       MainConfiguration!filesVars, SecretsAreFiled, WithoutPlaceholders, PageLives
  <2>3. CASE MainConfiguration!Export
    <3>1. UNCHANGED <<running, environment, config, mainFile, secrets, unwritten>>
      BY <2>3 DEF MainConfiguration!Export
    <3>2. MemoryIsFiled'
      BY <3>1 DEF MemoryIsFiled,
         MainConfiguration!Completed, MainConfiguration!HttpsPort, MainConfiguration!Read
    <3> QED BY <2>1, <2>2, <3>2
  <2>4. CASE MainConfiguration!RemoveFiles \/ MainConfiguration!Stop
    BY <2>1, <2>2, <2>4 DEF MainConfiguration!RemoveFiles, MainConfiguration!Stop, MemoryIsFiled
  <2> QED BY <1>7, <2>3, <2>4
<1>8. CASE UNCHANGED settingsVars
  <2>1. SettingsTyped'
    BY <1>8 DEF settingsVars, SettingsTyped, PlainFields, Filed, PageLives, PageTyped
  <2>2. SecretsAreFiled'
    BY <1>8 DEF settingsVars, SecretsAreFiled, WithoutPlaceholders, PageLives
  <2>3. MemoryIsFiled'
    BY <1>8 DEF settingsVars, MemoryIsFiled,
       MainConfiguration!Completed, MainConfiguration!HttpsPort, MainConfiguration!Read
  <2> QED BY <2>1, <2>2, <2>3
<1> QED
  BY <1>1, <1>2, <1>3, <1>4, <1>5, <1>6, <1>7, <1>8
  DEF MainConfiguration!Next, MainConfiguration!UserStep

HIDE DEF MainFields, SecretFields, MainConfiguration!Fields, MainConfiguration!Secrets


LEMMA BussesArePlain == BussesInv => Local!TypeOK /\ Local!BussesMatchFiles
<1> SUFFICES ASSUME BussesInv, process = "up", ~apart
             PROVE  /\ disk.busses = configBusses
                    /\ Local!KnownIds = DOMAIN configBusses
                    /\ Local!Cardinality(Local!KnownIds) = Len(busses)
                    /\ Local!StaleAmong(busses) = {}
  BY DEF BussesInv, LocalTyped, Local!BussesMatchFiles
<1> DEFINE ids == Local!KnownIds
           idOf == [i \in DOMAIN busses |-> busses[i].id]
<1>1. disk.busses = configBusses /\ Lists(busses, configBusses) /\ NoneStale(busses)
  BY DEF BussesInv, BussesAgree
<1>2. ids = DOMAIN configBusses
  BY <1>1 DEF BussesInv, Lists, NoneStale, Refers, Local!KnownIds
<1>3. Local!StaleAmong(busses) = {}
  BY <1>1 DEF NoneStale, Local!StaleAmong
<1>4. DOMAIN busses = 1 .. Len(busses) /\ Len(busses) \in Nat
  BY DEF BussesInv, LocalTyped
<1>5. idOf \in Bijection(DOMAIN busses, ids)
  <2>1. idOf \in [DOMAIN busses -> ids] /\ \A x \in ids : \E i \in DOMAIN busses : idOf[i] = x
    BY DEF Local!KnownIds
  <2>2. \A i, j \in DOMAIN busses : idOf[i] = idOf[j] => i = j
    BY DEF BussesInv, Apart
  <2> HIDE DEF idOf, ids
  <2> QED BY <2>1, <2>2 DEF Bijection, Injection, Surjection, IsInjective
<1>6. ExistsBijection(1 .. Len(busses), ids)
  BY <1>4, <1>5 DEF ExistsBijection
<1>7. Cardinality(ids) = Len(busses)
  BY <1>4, <1>6, FS_CountingElements
<1> QED BY <1>1, <1>2, <1>3, <1>7, LocalCardinality

(* Busses, their configuration and their directories say the same unless the directory was *)
(* changed beside the process, and what is configured is what another start would read     *)
(* from modbus2mqtt.yaml and secrets.yaml, whatever was saved, cut off, exported and       *)
(* imported (Bus.addBus, readBussesFromConfig; ConfigPersistence.write, read).           *)
THEOREM RestartsChangeNothing == PartsSpec => []MemoryMatchesFiles
<1>1. Begin => BussesInv /\ SettingsInv
  BY BeginsWithEach, BussesInit, SettingsInit
<1>2. BussesInv /\ SettingsInv /\ [Step]_allVars => (BussesInv /\ SettingsInv)'
  BY StepsOfEach, BussesNext, SettingsNext
<1>3. BussesInv /\ SettingsInv => MemoryMatchesFiles
  BY BussesArePlain DEF SettingsInv, SecretsAreFiled, MemoryIsFiled, MemoryMatchesFiles,
     WithoutPlaceholders, MainConfiguration!RestartChangesNothing, MainFields, SecretFields,
     MainConfiguration!Fields, MainConfiguration!Secrets
<1> QED BY <1>1, <1>2, <1>3, PTL DEF PartsSpec

(***************************************************************************)
(* SpecificationFiles: without a fault there is one file, and a single fault leaves     *)
(* two of which the JSON file is the one that was written last.                      *)
(***************************************************************************)

(* What migrating makes of s.                                                    *)
Carries(m, s) ==
  /\ m \in OneFile!LaterVersion
  /\ m.number = s.number
  /\ OneFile!Place(m) = OneFile!Place(s)
  /\ OneFile!Reading(s) # None => OneFile!Reading(m) = OneFile!Reading(s)

MemoryIsLoaded == memory = OneFile!Loaded(yaml, json)

OneFileUndisturbed == faults = 0 => yaml = None \/ json = None

LatestIsThere ==
  /\ json = None => latest \in {None, yaml}
  /\ json = OneFile!Broken => latest # None
  /\ json \notin {None, OneFile!Broken} => latest = json

SpecificationInv ==
  /\ yaml \in OldFiles \cup {None} /\ writes \in Nat /\ faults \in 0 .. MaxFaults
  /\ MemoryIsLoaded /\ OneFileUndisturbed /\ LatestIsThere

LEMMA FilesFacts ==
  /\ \A y \in OldFiles : y = None \/ y \in OneFile!FirstVersion \/ y \in OneFile!LaterVersion
  /\ None \notin Nat /\ None \notin OneFile!Data /\ None \notin OneFile!LaterVersion
  /\ None # OneFile!Broken
  /\ MaxFaults \in Nat
<1>1. OneFile!FilesAssumption
  BY PartsAssumption
<1> QED BY <1>1 DEF OneFile!FilesAssumption, OneFile!Broken

LEMMA RegisterTypes ==
  ASSUME NEW fc PROVE OneFile!RegisterType(fc) \in {1, 3, 4, None}
BY DEF OneFile!RegisterType, OneFile!Coils, OneFile!HoldingRegister, OneFile!AnalogInputs

LEMMA PackedAddress ==
  /\ OneFile!FCOffset \in Nat /\ OneFile!FCOffset > 0
  /\ \A f \in Nat, a \in 0 .. OneFile!FCOffset - 1 :
       /\ (f * OneFile!FCOffset + a) \div OneFile!FCOffset = f
       /\ (f * OneFile!FCOffset + a) % OneFile!FCOffset = a
  /\ \A x \in Nat : x % OneFile!FCOffset \in Nat
<1>1. OneFile!FCOffset \in Nat /\ OneFile!FCOffset > 0
  BY SMT DEF OneFile!FCOffset
<1> DEFINE k == OneFile!FCOffset
<1> HIDE DEF k
<1>2. k \in Nat /\ k > 0
  BY <1>1 DEF k
<1>3. ASSUME NEW f \in Nat, NEW a \in 0 .. k - 1 PROVE (f * k + a) \div k = f /\ (f * k + a) % k = a
  BY <1>2, SMT
<1>4. ASSUME NEW x \in Nat PROVE x % k \in Nat
  BY <1>2, SMT
<1> QED BY <1>1, <1>3, <1>4 DEF k

LEMMA MigratedFields ==
  /\ \A fc : OneFile!Readonly(fc) \in BOOLEAN
  /\ \A name \in OneFile!Converters \cup {"sensor", "select_sensor", "binary_sensor"} :
       OneFile!ConverterName(name) \in OneFile!Converters
BY DEF OneFile!Readonly, OneFile!ConverterName, OneFile!Converters

(* From 0.1 the address and the kind of register stay, and what was read of them.     *)
LEMMA FirstAdvances ==
  ASSUME NEW s \in OneFile!FirstVersion
  PROVE  Carries(OneFile!Migrate01(s), s)
<1> DEFINE m == OneFile!Migrate01(s)
           fc == s.at[1]
           address == s.at[2]
           type == OneFile!RegisterType(s.testdata.at \div OneFile!FCOffset)
           place == s.testdata.at % OneFile!FCOffset
<1>1. /\ s.version = "0.1" /\ fc \in Nat /\ address \in 0 .. OneFile!FCOffset - 1 /\ s.number \in Nat
      /\ OneFile!RegisterType(fc) # None /\ s.testdata.at \in Nat
      /\ s.testdata.value \in OneFile!ValueType 
      /\ s.converter \in OneFile!Converters \cup {"sensor", "select_sensor", "binary_sensor"}
  BY DEF OneFile!FirstVersion
<1>0. s = [version |-> s.version, at |-> s.at, readonly |-> s.readonly,
           converter |-> s.converter, testdata |-> s.testdata, number |-> s.number]
  BY DEF OneFile!FirstVersion
<1>2. m = [version |-> "0.2", at |-> <<OneFile!RegisterType(fc), address>>,
           readonly |-> OneFile!Readonly(fc), converter |-> OneFile!ConverterName(s.converter),
           testdata |-> IF type = None THEN None ELSE OneFile!Datum(<<type, place>>, s.testdata.value),
           number |-> s.number]
  <2>1. m = [s EXCEPT !["version"] = "0.2", !["converter"] = OneFile!ConverterName(s.converter),
                      !["at"] = <<OneFile!RegisterType(fc), address>>,
                      !["readonly"] = OneFile!Readonly(fc),
                      !["testdata"] = IF type = None THEN None
                                      ELSE OneFile!Datum(<<type, place>>, s.testdata.value)]
    BY <1>1 DEF OneFile!Migrate01
  <2> HIDE DEF m, fc, address, type, place
  <2> QED BY <1>0, <2>1
<1> HIDE DEF m
<1>3. OneFile!RegisterType(fc) \in Nat /\ (type # None => type \in Nat)
  BY <1>1, RegisterTypes
<1>4. place \in Nat /\ address \in Nat
  <2>1. place \in Nat
    BY <1>1, PackedAddress
  <2>2. address \in Nat
    BY <1>1
  <2> QED BY <2>1, <2>2
<1>9. s.at = <<fc, address>>
  BY DEF OneFile!FirstVersion
<1> HIDE DEF fc, address, type
<1>5. type # None => m.testdata \in OneFile!Data
  BY <1>1, <1>2, <1>3, <1>4 DEF OneFile!Datum, OneFile!Data
<1>6. m \in OneFile!LaterVersion
  <2>1. OneFile!Readonly(fc) \in BOOLEAN /\ OneFile!ConverterName(s.converter) \in OneFile!Converters
    BY <1>1, MigratedFields
  <2>2. m.at \in Nat \X Nat /\ m.testdata \in OneFile!Data \cup {None}
    <3>1. CASE type = None
      BY <1>2, <1>3, <1>4, <3>1
    <3>2. CASE type # None
      BY <1>2, <1>3, <1>4, <1>5, <3>2
    <3> QED BY <3>1, <3>2
  <2>3. m = [version |-> "0.2", at |-> m.at, readonly |-> OneFile!Readonly(fc),
             converter |-> OneFile!ConverterName(s.converter), testdata |-> m.testdata, number |-> s.number]
    BY <1>2
  <2> QED BY <1>1, <2>1, <2>2, <2>3 DEF OneFile!LaterVersion
<1>7. OneFile!Place(m) = OneFile!Place(s)
  BY <1>1, <1>2, <1>9 DEF OneFile!Place
<1>8. ASSUME OneFile!Reading(s) # None PROVE OneFile!Reading(m) = OneFile!Reading(s)
  <2>1. s.testdata.at = fc * OneFile!FCOffset + address /\ OneFile!Reading(s) = s.testdata.value
    BY <1>1, <1>8, <1>9 DEF OneFile!Reading
  <2>2. s.testdata.at \div OneFile!FCOffset = fc /\ place = address
    <3>1. /\ (fc * OneFile!FCOffset + address) \div OneFile!FCOffset = fc
          /\ (fc * OneFile!FCOffset + address) % OneFile!FCOffset = address
      BY <1>1, PackedAddress
    <3> QED BY <2>1, <3>1 DEF place
  <2>3. type = OneFile!RegisterType(fc)
    BY <2>2 DEF type
  <2>4. m.testdata.at = m.at /\ m.testdata.value = s.testdata.value /\ m.testdata # None
    BY <1>1, <1>2, <1>5, <2>2, <2>3, FilesFacts DEF OneFile!Datum
  <2> QED BY <1>2, <2>1, <2>4 DEF OneFile!Reading
<1> QED BY <1>2, <1>6, <1>7, <1>8 DEF Carries, m

LEMMA LaterAdvances ==
  ASSUME NEW s \in OneFile!LaterVersion
  PROVE  OneFile!Advanced(s) = None \/ Carries(OneFile!Advanced(s), s)
<1>1. /\ s.version # "0.1" /\ s # None /\ s.at \in Nat \X Nat /\ s.number \in Nat
      /\ s.testdata \in OneFile!Data \cup {None}
  BY FilesFacts DEF OneFile!LaterVersion
<1>2. ASSUME NEW v \in {"0.4", "0.5"} PROVE Carries([s EXCEPT !.version = v], s)
  BY <1>1 DEF Carries, OneFile!LaterVersion, OneFile!Place, OneFile!Reading
<1>3. Carries(OneFile!Migrate02(s), s)
  <2> DEFINE data == IF s.testdata # None /\ s.testdata.value = None
                     THEN OneFile!Datum(s.testdata.at, OneFile!NoData) ELSE s.testdata
             m == [s EXCEPT !.version = "0.3", !.testdata = data]
  <2>1. data \in OneFile!Data \cup {None} /\ (s.testdata # None => data # None /\ data.at = s.testdata.at)
    BY <1>1, FilesFacts DEF OneFile!Data, OneFile!Datum, OneFile!ValueType
  <2>2. s.testdata # None /\ s.testdata.value # None => data = s.testdata
    OBVIOUS
  <2>3. m = OneFile!Migrate02(s)
    BY DEF OneFile!Migrate02
  <2> HIDE DEF data
  <2>4. m \in OneFile!LaterVersion /\ m.at = s.at /\ m.number = s.number /\ m.testdata = data
        /\ m.version = "0.3"
    <3>1. /\ s.readonly \in BOOLEAN /\ s.converter \in OneFile!Converters
          /\ s = [version |-> s.version, at |-> s.at, readonly |-> s.readonly,
                  converter |-> s.converter, testdata |-> s.testdata, number |-> s.number]
      BY DEF OneFile!LaterVersion
    <3>2. m = [version |-> "0.3", at |-> s.at, readonly |-> s.readonly,
               converter |-> s.converter, testdata |-> data, number |-> s.number]
      <4>1. m = [s EXCEPT !["version"] = "0.3", !["testdata"] = data]
        OBVIOUS
      <4> HIDE DEF m
      <4> QED BY <3>1, <4>1
    <3> QED BY <1>1, <2>1, <3>1, <3>2 DEF OneFile!LaterVersion
  <2> HIDE DEF m
  <2>5. OneFile!Place(m) = OneFile!Place(s)
    BY <1>1, <2>4 DEF OneFile!Place
  <2>6. OneFile!Reading(s) # None => OneFile!Reading(m) = OneFile!Reading(s)
    BY <1>1, <2>2, <2>4 DEF OneFile!Reading
  <2> QED BY <2>3, <2>4, <2>5, <2>6 DEF Carries
<1>4. Carries(s, s)
  BY DEF Carries
<1>6. Carries(OneFile!Migrate03(s), s) /\ Carries(OneFile!Migrate04(s), s)
  BY <1>2 DEF OneFile!Migrate03, OneFile!Migrate04
<1>7. OneFile!Advanced(s) \in {OneFile!Migrate02(s), OneFile!Migrate03(s), OneFile!Migrate04(s), s, None}
  BY <1>1 DEF OneFile!Advanced
<1> QED BY <1>3, <1>4, <1>6, <1>7

LEMMA MigratedFollows ==
  ASSUME NEW y \in OldFiles, y # None
  PROVE  OneFile!Migrated(y) = None \/ Carries(OneFile!Migrated(y), y)
<1> DEFINE Leads(m) == m = None \/ Carries(m, y)
<1>1. Leads(OneFile!Advanced(y))
  <2>1. CASE y \in OneFile!FirstVersion
    <3>1. OneFile!Advanced(y) = OneFile!Migrate01(y)
      BY <2>1 DEF OneFile!Advanced, OneFile!FirstVersion
    <3> QED BY <2>1, <3>1, FirstAdvances
  <2> QED BY <2>1, FilesFacts, LaterAdvances
<1>2. ASSUME NEW m, Leads(m) PROVE Leads(OneFile!Advanced(m))
  <2>1. CASE m = None
    BY <2>1 DEF OneFile!Advanced
  <2>2. CASE Carries(m, y)
    BY <2>2, LaterAdvances DEF Carries
  <2> QED BY <1>2, <2>1, <2>2
<1> HIDE DEF Leads
<1>3. Leads(OneFile!Migrated(y))
  BY <1>1, <1>2 DEF OneFile!Migrated
<1> QED BY <1>3 DEF Leads

LEMMA SpecificationInit == OneFile!Init => SpecificationInv
BY FilesFacts DEF OneFile!Init, SpecificationInv, MemoryIsLoaded, OneFileUndisturbed, LatestIsThere

LEMMA SpecificationNext ==
  ASSUME MaxFaults <= 1, SpecificationInv, [OneFile!Next]_fileVars
  PROVE  SpecificationInv'
<1> USE DEF SpecificationInv
<1>1. ASSUME OneFile!Write PROVE SpecificationInv'
  <2>1. PICK s : /\ s = OneFile!Specification("0.5", <<3, 7>>, FALSE, "number",
                                              OneFile!Datum(<<3, 7>>, 1), writes')
                 /\ OneFile!Written(s) /\ latest' = s /\ writes' = writes + 1
    BY <1>1 DEF OneFile!Write, OneFile!HoldingRegister
  <2>2. s # None /\ s # OneFile!Broken
    <3>1. OneFile!Datum(<<3, 7>>, 1) \in OneFile!Data /\ writes' \in Nat
      BY <2>1 DEF OneFile!Datum, OneFile!Data, OneFile!ValueType
    <3>2. s \in OneFile!LaterVersion /\ s.version = "0.5"
      BY <2>1, <3>1 DEF OneFile!Specification, OneFile!LaterVersion, OneFile!Converters
    <3> QED BY <3>2, FilesFacts DEF OneFile!Broken
  <2>3. \/ yaml' = None /\ json' = s /\ memory' = s /\ faults' = faults
        \/ yaml' = yaml /\ json' = s /\ memory' = s /\ OneFile!Fault
        \/ yaml' = yaml /\ json' \in {s, OneFile!Broken} /\ OneFile!Fault
           /\ memory' = OneFile!Loaded(yaml, json')
    BY <2>1 DEF OneFile!Written, OneFile!CrashWith, OneFile!Files
  <2>4. yaml' \in OldFiles \cup {None} /\ writes' \in Nat /\ faults' \in 0 .. MaxFaults
    <3>1. OneFile!Fault => faults' \in 0 .. MaxFaults
      BY FilesFacts DEF OneFile!Fault
    <3>2. faults \in 0 .. MaxFaults /\ yaml \in OldFiles \cup {None} /\ writes \in Nat
      OBVIOUS
    <3>3. faults' \in 0 .. MaxFaults /\ yaml' \in OldFiles \cup {None}
      BY <2>3, <3>1, <3>2
    <3> QED BY <2>1, <3>2, <3>3
  <2>5. MemoryIsLoaded'
    BY <2>2, <2>3 DEF MemoryIsLoaded, OneFile!Loaded
  <2>6. OneFileUndisturbed'
    BY <2>3, FilesFacts DEF OneFileUndisturbed, OneFile!Fault
  <2>7. LatestIsThere'
    BY <2>1, <2>2, <2>3, FilesFacts DEF LatestIsThere
  <2> QED BY <2>4, <2>5, <2>6, <2>7
<1>2. ASSUME OneFile!Delete PROVE SpecificationInv'
  <2>1. writes' = writes
        /\ \/ yaml' = None /\ json' = None /\ memory' = None /\ latest' = None /\ faults' = faults
           \/ yaml' = yaml /\ json' = None /\ memory' = OneFile!Loaded(yaml, None) /\ latest' = None
              /\ OneFile!Fault
           \/ yaml' = yaml /\ yaml # None /\ json' = None /\ memory' = OneFile!Loaded(yaml, None)
              /\ latest' = latest /\ OneFile!Fault
           \/ UNCHANGED <<yaml, json, latest>> /\ memory' = OneFile!Loaded(yaml, json) /\ OneFile!Fault
    BY <1>2 DEF OneFile!Delete, OneFile!CrashWith, OneFile!Files
  <2>2. yaml' \in OldFiles \cup {None} /\ writes' \in Nat /\ faults' \in 0 .. MaxFaults
    BY <2>1, FilesFacts DEF OneFile!Fault
  <2>3. MemoryIsLoaded'
    BY <2>1, FilesFacts DEF MemoryIsLoaded, OneFile!Loaded
  <2>4. OneFileUndisturbed'
    BY <2>1, FilesFacts DEF OneFileUndisturbed, OneFile!Fault
  <2>5. OneFile!Fault => faults = 0
    BY FilesFacts DEF OneFile!Fault
  <2>6. LatestIsThere'
    BY <2>1, <2>5, FilesFacts DEF LatestIsThere, OneFileUndisturbed
  <2> QED BY <2>2, <2>3, <2>4, <2>6
<1>3. ASSUME OneFile!Restart \/ UNCHANGED fileVars PROVE SpecificationInv'
  BY <1>3 DEF OneFile!Restart, fileVars, MemoryIsLoaded, OneFileUndisturbed, LatestIsThere
<1> QED BY <1>1, <1>2, <1>3 DEF OneFile!Next

(* Neither a single crash between two steps nor a single file that cannot be removed brings *)
(* back an older specification or the readings of another register, whatever version the    *)
(* old file has (specPersistence.ts: readFromDirectory, writeItem; migrator.ts).         *)
THEOREM OldFilesStayAway == MaxFaults <= 1 => (PartsSpec => []NothingOldComesBack)
<1> SUFFICES ASSUME MaxFaults <= 1 PROVE PartsSpec => []NothingOldComesBack
  OBVIOUS
<1>1. Begin => SpecificationInv
  BY BeginsWithEach, SpecificationInit
<1>2. SpecificationInv /\ [Step]_allVars => SpecificationInv'
  BY StepsOfEach, SpecificationNext
<1>3. SpecificationInv => NothingOldComesBack
  <2> SUFFICES ASSUME SpecificationInv PROVE OneFile!NothingOldComesBack
    BY DEF NothingOldComesBack
  <2> USE DEF SpecificationInv, MemoryIsLoaded, LatestIsThere
  <2>1. CASE json = None
    <3>1. CASE yaml = None
      BY <2>1, <3>1 DEF OneFile!Loaded, OneFile!NothingOldComesBack
    <3>2. CASE yaml # None
      <4>1. memory = OneFile!Migrated(yaml) /\ (memory = None \/ Carries(memory, yaml))
        BY <2>1, <3>2, FilesFacts, MigratedFollows DEF OneFile!Loaded
      <4> QED BY <2>1, <4>1 DEF Carries, OneFile!NothingOldComesBack
    <3> QED BY <3>1, <3>2
  <2>2. CASE json = OneFile!Broken
    BY <2>2 DEF OneFile!Loaded, OneFile!NothingOldComesBack
  <2>3. CASE json \notin {None, OneFile!Broken}
    BY <2>3 DEF OneFile!Loaded, OneFile!NothingOldComesBack
  <2> QED BY <2>1, <2>2, <2>3
<1> QED BY <1>1, <1>2, <1>3, PTL DEF PartsSpec

(***************************************************************************)
(* TcpBridge: while no update meets a server that is being closed, all servers but the  *)
(* last are closed, and what is to come after it is the configured port.            *)
(***************************************************************************)

BridgePorts == Ports \cup {None}

LastServer == servers[Len(servers)]

OlderAreClosed == \A i \in 1 .. Len(servers) - 1 : servers[i].state = "closed"

LastFollows ==
  IF Len(servers) = 0 THEN tcpBridgePort = None
  ELSE \/ LastServer.state = "open" /\ LastServer.port = tcpBridgePort /\ tcpBridgePort # None
          /\ LastServer.then = <<>>
       \/ LastServer.state = "closing" /\ LastServer.then = <<tcpBridgePort>>
       \/ LastServer.state = "closed" /\ tcpBridgePort = None

BridgeTyped ==
  /\ servers \in Seq(Bridge!Server) /\ tcpBridgePort \in BridgePorts
  /\ tcprtuBridge = Len(servers)

BridgeInv == disturbed \/ (BridgeTyped /\ OlderAreClosed /\ LastFollows)

(* The callback of one update that waited.                                         *)
LEMMA OneCallback ==
  ASSUME NEW svs, NEW p
  PROVE  Bridge!FoldLeft(Bridge!Start, svs, <<p>>) = Bridge!Start(svs, p)
<1> DEFINE after == Bridge!Start(svs, p)
           Def(g) == [s \in SUBSET {1} |->
                       IF s = {} THEN svs
                       ELSE LET x == Bridge!Max(s) IN Bridge!Start(g[s \ {x}], <<p>>[x])]
           g0 == [s \in SUBSET {1} |-> IF s = {} THEN svs ELSE after]
           iter == CHOOSE g : g = Def(g)
<1>1. Bridge!Max({1}) = 1
  <2>1. \A x \in {1} : x = 1
    OBVIOUS
  <2>2. \E x \in {1} : \A y \in {1} : x >= y
    OBVIOUS
  <2>3. Bridge!Max({1}) = CHOOSE x \in {1} : \A y \in {1} : x >= y
    BY Zenon DEF Bridge!Max
  <2>4. Bridge!Max({1}) \in {1}
    BY <2>2, <2>3, Zenon
  <2> QED BY <2>4
<1>2. DOMAIN <<p>> = {1} /\ {1} \ {1} = {} /\ <<p>>[1] = p
  OBVIOUS
<1>3. Bridge!FoldLeft(Bridge!Start, svs, <<p>>) = iter[DOMAIN <<p>>]
  BY <1>2 DEF Bridge!FoldLeft, Bridge!MapThenFoldSet
<1>4. SUBSET {1} = {{}, {1}}
  OBVIOUS
<1>5. g0 = Def(g0)
  <2>1. Bridge!Start(g0[{1} \ {Bridge!Max({1})}], <<p>>[Bridge!Max({1})]) = after
    BY <1>1, <1>2
  <2> HIDE DEF after
  <2>2. ASSUME NEW s \in SUBSET {1} PROVE g0[s] = Def(g0)[s]
    BY <1>4, <2>1
  <2>3. g0 = [s \in SUBSET {1} |-> g0[s]] /\ Def(g0) = [s \in SUBSET {1} |-> Def(g0)[s]]
    OBVIOUS
  <2> HIDE DEF g0, Def
  <2> QED BY <2>2, <2>3
<1>6. iter = Def(iter)
  <2> HIDE DEF Def, g0
  <2> QED BY <1>5, Zenon
<1> HIDE DEF iter
<1>7. iter[{}] = svs
  BY <1>6
<1>8. iter[{1}] = Bridge!Start(iter[{1} \ {Bridge!Max({1})}], <<p>>[Bridge!Max({1})])
  BY <1>6
<1> QED BY <1>1, <1>2, <1>3, <1>7, <1>8


(* The server that is started while all servers are closed has the port.               *)
LEMMA StartedAlone ==
  ASSUME NEW svs \in Seq(Bridge!Server), NEW p \in BridgePorts,
         \A i \in 1 .. Len(svs) : svs[i].state = "closed"
  PROVE  LET new == [port |-> p, state |-> "open", then |-> <<>>]
         IN  /\ new \in Bridge!Server
             /\ Bridge!Start(svs, p) = IF p = None THEN svs ELSE Append(svs, new)
<1>1. ~ \E i \in DOMAIN svs : Bridge!Holds(svs[i], p)
  BY DEF Bridge!Holds
<1>2. <<>> \in Seq(Ports \cup {None})
  OBVIOUS
<1> QED BY <1>1, <1>2 DEF Bridge!Start, Bridge!Server, BridgePorts

LEMMA BridgeInit == ASSUME Bridge!Init PROVE BridgeInv
<1>1. CASE tcpBridgePort = None
  BY <1>1 DEF Bridge!Init, BridgeInv, BridgeTyped, BridgePorts, OlderAreClosed, LastFollows
<1>2. CASE tcpBridgePort # None
  <2> DEFINE new == [port |-> tcpBridgePort, state |-> "open", then |-> <<>>]
  <2>1. new \in Bridge!Server
    BY DEF Bridge!Init, Bridge!Server
  <2>2. servers = <<new>>
    BY <1>2 DEF Bridge!Init
  <2>3. Len(servers) = 1 /\ servers[1] = new /\ servers \in Seq(Bridge!Server)
    BY <2>1, <2>2
  <2>4. LastFollows
    BY <1>2, <2>3 DEF LastFollows, LastServer
  <2> QED
    BY <2>3, <2>4 DEF Bridge!Init, BridgeInv, BridgeTyped, BridgePorts, OlderAreClosed
<1> QED BY <1>1, <1>2

LEMMA BridgeNext ==
  ASSUME BridgeInv, Bridge!BridgeAssumption, [Bridge!Next]_bridgeVars
  PROVE  BridgeInv'
<1> SUFFICES ASSUME ~disturbed' PROVE (BridgeTyped /\ OlderAreClosed /\ LastFollows)'
  BY DEF BridgeInv
<1>0. None \notin Ports
  BY DEF Bridge!BridgeAssumption
<1>1. ASSUME NEW p \in BridgePorts, Bridge!UpdateBus(p)
      PROVE (BridgeTyped /\ OlderAreClosed /\ LastFollows)'
  <2>1. ~disturbed /\ ~Bridge!Closing
    BY <1>1 DEF Bridge!UpdateBus
  <2>2. BridgeTyped /\ OlderAreClosed /\ LastFollows
    BY <2>1 DEF BridgeInv
  <2>3. Len(servers) \in Nat /\ tcprtuBridge = Len(servers)
    BY <2>2 DEF BridgeTyped
  <2>4. CASE Bridge!HasServer
    <3> DEFINE n == Len(servers)
    <3>1. n # 0 /\ n \in 1 .. n /\ LastServer.state # "closed"
      BY <2>3, <2>4 DEF Bridge!HasServer, LastServer
    <3>2. LastServer.state = "open" /\ LastServer.then = <<>> /\ LastServer \in Bridge!Server
      BY <2>1, <2>2, <3>1 DEF LastFollows, Bridge!Closing, LastServer, BridgeTyped
    <3> DEFINE after == [LastServer EXCEPT !.state = "closing", !.then = <<p>>]
    <3>3. servers' = [servers EXCEPT ![n] = after] /\ tcpBridgePort' = p
          /\ tcprtuBridge' = Bridge!Made(servers')
      <4>1. Append(LastServer.then, p) = <<p>>
        BY <3>2
      <4> QED BY <1>1, <2>3, <2>4, <4>1 DEF Bridge!UpdateBus, LastServer
    <3>4. after \in Bridge!Server
      <4>1. <<p>> \in Seq(Ports \cup {None})
        BY DEF BridgePorts
      <4> QED BY <3>2, <4>1 DEF Bridge!Server
    <3>5. after.state = "closing" /\ after.then = <<p>>
      BY <3>2 DEF Bridge!Server
    <3> HIDE DEF after
    <3>6. /\ servers' \in Seq(Bridge!Server) /\ Len(servers') = n /\ servers'[n] = after
          /\ \A i \in 1 .. n - 1 : servers'[i] = servers[i]
      BY <2>2, <3>1, <3>3, <3>4 DEF BridgeTyped
    <3>7. tcprtuBridge' = n
      BY <2>3, <3>3, <3>6 DEF Bridge!Made
    <3>8. OlderAreClosed'
      BY <2>2, <3>6 DEF OlderAreClosed
    <3> QED BY <3>1, <3>3, <3>5, <3>6, <3>7, <3>8 DEF BridgeTyped, LastFollows, LastServer
  <2>5. CASE ~Bridge!HasServer
    <3>1. \A i \in 1 .. Len(servers) : servers[i].state = "closed"
      BY <2>2, <2>3, <2>5 DEF Bridge!HasServer, OlderAreClosed
    <3> DEFINE new == [port |-> p, state |-> "open", then |-> <<>>]
    <3>2. servers \in Seq(Bridge!Server)
      BY <2>2 DEF BridgeTyped
    <3>3. new \in Bridge!Server
          /\ Bridge!Start(servers, p) = IF p = None THEN servers ELSE Append(servers, new)
      BY <3>1, <3>2, StartedAlone
    <3>4. servers' = Bridge!Start(servers, p) /\ tcpBridgePort' = p
          /\ tcprtuBridge' = Bridge!Made(servers')
      BY <1>1, <2>5 DEF Bridge!UpdateBus
    <3>5. CASE p = None
      <4>1. servers' = servers /\ tcprtuBridge' = tcprtuBridge
        BY <2>3, <3>3, <3>4, <3>5 DEF Bridge!Made
      <4> QED
        BY <2>2, <2>3, <3>1, <3>4, <3>5, <4>1
        DEF BridgeTyped, OlderAreClosed, LastFollows, LastServer
    <3>6. CASE p # None
      <4> HIDE DEF new
      <4>1. servers' = Append(servers, new)
        BY <3>3, <3>4, <3>6
      <4>2. /\ servers' \in Seq(Bridge!Server) /\ Len(servers') = Len(servers) + 1
            /\ servers'[Len(servers) + 1] = new
            /\ \A i \in 1 .. Len(servers) : servers'[i] = servers[i]
        BY <3>2, <3>3, <4>1
      <4>3. tcprtuBridge' = Len(servers')
        BY <2>3, <3>4, <4>2 DEF Bridge!Made
      <4>4. OlderAreClosed'
        BY <2>3, <3>1, <4>2 DEF OlderAreClosed
      <4>5. LastFollows'
        BY <2>3, <3>4, <3>6, <4>2 DEF LastFollows, LastServer, new
      <4> QED BY <3>4, <4>2, <4>3, <4>4, <4>5 DEF BridgeTyped
    <3> QED BY <3>5, <3>6
  <2> QED BY <2>4, <2>5
<1>2. ASSUME NEW i \in DOMAIN servers, Bridge!Closed(i)
      PROVE (BridgeTyped /\ OlderAreClosed /\ LastFollows)'
  <2>1. BridgeTyped /\ OlderAreClosed /\ LastFollows /\ tcpBridgePort' = tcpBridgePort
    BY <1>2 DEF BridgeInv, Bridge!Closed
  <2> DEFINE n == Len(servers)
             p == tcpBridgePort
             svs == [servers EXCEPT ![i].state = "closed", ![i].then = <<>>]
  <2>2. n \in Nat /\ tcprtuBridge = n /\ servers \in Seq(Bridge!Server) /\ p \in BridgePorts
    BY <2>1 DEF BridgeTyped
  <2>3. i = n /\ n \in 1 .. n
    <3>1. i \in 1 .. n /\ servers[i].state = "closing"
      BY <1>2, <2>2 DEF Bridge!Closed
    <3> QED BY <2>1, <2>2, <3>1 DEF OlderAreClosed
  <2>4. servers[n].then = <<p>>
    BY <1>2, <2>1, <2>3 DEF Bridge!Closed, LastFollows, LastServer
  <2>5. servers' = Bridge!Start(svs, p)
    <3>1. servers' = Bridge!FoldLeft(Bridge!Start, svs, servers[i].then)
      BY <1>2 DEF Bridge!Closed
    <3> HIDE DEF svs
    <3> QED BY <2>3, <2>4, <3>1, OneCallback
  <2> DEFINE after == [servers[n] EXCEPT !.state = "closed", !.then = <<>>]
  <2>6. after \in Bridge!Server /\ after.state = "closed"
    <3>1. servers[n] \in Bridge!Server /\ <<>> \in Seq(Ports \cup {None})
      BY <2>2, <2>3
    <3> QED BY <3>1 DEF Bridge!Server
  <2>7. svs = [servers EXCEPT ![n] = after]
    BY <2>3
  <2> HIDE DEF after, svs
  <2>8. svs \in Seq(Bridge!Server) /\ Len(svs) = n
        /\ \A j \in 1 .. n : svs[j].state = "closed"
    BY <2>1, <2>2, <2>3, <2>6, <2>7 DEF OlderAreClosed
  <2> DEFINE new == [port |-> p, state |-> "open", then |-> <<>>]
  <2>9. new \in Bridge!Server
        /\ Bridge!Start(svs, p) = IF p = None THEN svs ELSE Append(svs, new)
    BY <2>2, <2>8, StartedAlone
  <2>10. tcprtuBridge' = Bridge!Made(servers')
    BY <1>2 DEF Bridge!Closed
  <2>11. CASE p = None
    <3>1. servers' = svs /\ tcprtuBridge' = n
      BY <2>2, <2>5, <2>8, <2>9, <2>10, <2>11 DEF Bridge!Made
    <3> QED
      BY <2>1, <2>2, <2>3, <2>8, <2>11, <3>1
      DEF BridgeTyped, OlderAreClosed, LastFollows, LastServer
  <2>12. CASE p # None
    <3> HIDE DEF new
    <3>1. servers' = Append(svs, new)
      BY <2>5, <2>9, <2>12
    <3>2. /\ servers' \in Seq(Bridge!Server) /\ Len(servers') = n + 1
          /\ servers'[n + 1] = new /\ \A j \in 1 .. n : servers'[j] = svs[j]
      BY <2>2, <2>8, <2>9, <3>1
    <3>3. tcprtuBridge' = Len(servers')
      BY <2>2, <2>10, <3>2 DEF Bridge!Made
    <3>4. OlderAreClosed'
      BY <2>2, <2>8, <3>2 DEF OlderAreClosed
    <3>5. LastFollows'
      BY <2>1, <2>2, <2>12, <3>2 DEF LastFollows, LastServer, new
    <3> QED BY <2>1, <2>2, <3>2, <3>3, <3>4, <3>5 DEF BridgeTyped
  <2> QED BY <2>11, <2>12
<1>3. ASSUME UNCHANGED <<tcpBridgePort, servers, tcprtuBridge, disturbed>>
      PROVE (BridgeTyped /\ OlderAreClosed /\ LastFollows)'
  BY <1>3 DEF BridgeInv, BridgeTyped, OlderAreClosed, LastFollows, LastServer
<1>4. ASSUME NEW c \in Clients, \/ \E p \in Ports : Bridge!Read(c, p)
                                \/ \E outcome \in Bridge!Outcome : Bridge!Settle(c, outcome)
                                \/ Bridge!GiveUp(c)
      PROVE UNCHANGED <<tcpBridgePort, servers, tcprtuBridge, disturbed>>
  BY <1>4 DEF Bridge!Read, Bridge!Settle, Bridge!GiveUp
<1> QED BY <1>1, <1>2, <1>3, <1>4 DEF Bridge!Next, bridgeVars, BridgePorts

(* Once every close is complete, the bus serves the port that is configured, and no   *)
(* other, through the bridge it knows, unless an update met a server that was being closed *)
(* (bus.ts: updateBus; tcprtubridge.ts: stopServer).                              *)
THEOREM BridgeServesThePort == PartsSpec => []BridgeFollowsBus
<1>1. Begin => BridgeInv
  BY BeginsWithEach, BridgeInit
<1>2. BridgeInv /\ [Step]_allVars => BridgeInv'
  BY StepsOfEach, BridgeNext, PartsAssumption
<1>3. BridgeInv => BridgeFollowsBus
  <2> SUFFICES ASSUME BridgeInv, ~Bridge!Closing, ~disturbed
               PROVE  LET opened == {i \in DOMAIN servers : servers[i].state = "open"}
                      IN  IF tcpBridgePort = None THEN opened = {}
                          ELSE /\ opened = {tcprtuBridge}
                               /\ servers[tcprtuBridge].port = tcpBridgePort
    BY DEF BridgeFollowsBus, Bridge!BridgeFollowsBus
  <2>1. BridgeTyped /\ OlderAreClosed /\ LastFollows
    BY DEF BridgeInv
  <2>2. Len(servers) \in Nat /\ DOMAIN servers = 1 .. Len(servers) /\ tcprtuBridge = Len(servers)
    BY <2>1 DEF BridgeTyped
  <2> QED BY <2>1, <2>2 DEF OlderAreClosed, LastFollows, LastServer, Bridge!Closing
<1> QED BY <1>1, <1>2, <1>3, PTL DEF PartsSpec

(***************************************************************************)
(* SpecificationEditor: what is filed, loaded, shown or under way has an id for each     *)
(* entity.                                                                  *)
(***************************************************************************)

Entities == [id : Nat, key : Nat]

Editable == [entities : Seq(Entities), nextEntityId : Nat]

Sound(spec) == spec \in Editable /\ Editor!UniqueIds(spec)

EditorInv ==
  /\ Sound(file)
  /\ Sound(loaded)
  /\ shown = <<>> \/ (shown = <<shown[1]>> /\ Sound(shown[1]))
  /\ \A r \in requests : Sound(r.body)
  /\ made \in Nat

LEMMA HighestOf ==
  ASSUME NEW S \in SUBSET Nat, IsFiniteSet(S), S # {}
  PROVE  Editor!Max(S) \in Nat /\ \A y \in S : y <= Editor!Max(S)
<1>0. \A y \in S : y \in Nat
  OBVIOUS
<1>1. S \in SUBSET Int
  OBVIOUS
<1>2. \E x \in S : \A y \in S : x >= y
  BY <1>1, NumbersHaveHighest
<1>3. Editor!Max(S) = CHOOSE x \in S : \A y \in S : x >= y
  BY Zenon DEF Editor!Max
<1>4. Editor!Max(S) \in S /\ \A y \in S : Editor!Max(S) >= y
  BY <1>2, <1>3, Zenon
<1> QED BY <1>0, <1>4

(* postProcessSpec fills in nextEntityId with a number, and changes nothing else.       *)
LEMMA ProcessedKeeps ==
  ASSUME NEW spec, spec \in Editable
  PROVE  Editor!Processed(spec) \in Editable /\ Editor!Processed(spec).entities = spec.entities
<1> DEFINE n == Len(spec.entities)
           base == spec.nextEntityId
           Op(m, e) == IF m = 0 \/ e.id > m + 1 THEN e.id + 1 ELSE m
           F == [a \in Nat \X (1 .. n) |-> Op(a[1], spec.entities[a[2]])]
           Def(g) == [s \in SUBSET (1 .. n) |->
                       IF s = {} THEN base
                       ELSE Op(g[s \ {Editor!Max(s)}], spec.entities[Editor!Max(s)])]
           iter == CHOOSE g : g = Def(g)
<1>1. n \in Nat /\ base \in Nat /\ DOMAIN spec.entities = 1 .. n
      /\ \A i \in 1 .. n : spec.entities[i].id \in Nat
  <2> DEFINE es == spec.entities
  <2>1. es \in Seq(Entities) /\ base \in Nat
    BY DEF Editable
  <2>2. \A e \in Entities : e.id \in Nat
    BY DEF Entities
  <2> HIDE DEF base, es
  <2>3. Len(es) \in Nat /\ DOMAIN es = 1 .. Len(es) /\ \A i \in 1 .. Len(es) : es[i].id \in Nat
    BY <2>1, <2>2
  <2> QED BY <2>1, <2>3 DEF es
<1>2. ASSUME NEW m \in Nat, NEW i \in 1 .. n PROVE Op(m, spec.entities[i]) \in Nat
  BY <1>1
<1>3. ASSUME NEW m \in Nat, NEW i \in 1 .. n PROVE F[<<m, i>>] = Op(m, spec.entities[i])
  <2> HIDE DEF Op
  <2> QED OBVIOUS
<1>4. F \in [Nat \X (1 .. n) -> Nat]
  <2> HIDE DEF Op
  <2> QED BY <1>2
<1>5. \A s : Editor!Max(s) = Top(s)
  BY Zenon DEF Editor!Max, Top
<1> HIDE DEF Op, F, n, base
<1>6. PICK g \in [SUBSET (1 .. n) -> Nat] : Folds(g, n, base, F)
  <2>1. n \in Nat /\ base \in Nat
    BY <1>1
  <2> QED BY <2>1, <1>4, FoldIsThere
<1>7. g = Def(g)
  <2>1. ASSUME NEW s \in SUBSET (1 .. n), s # {}
        PROVE  g[s] = Op(g[s \ {Editor!Max(s)}], spec.entities[Editor!Max(s)])
    <3>1. Top(s) \in 1 .. n /\ g[s \ {Top(s)}] \in Nat
      BY <1>1, <2>1, TopOf
    <3>2. g[s] = F[<<g[s \ {Top(s)}], Top(s)>>]
      BY <1>6, <2>1 DEF Folds
    <3> QED BY <1>3, <1>5, <3>1, <3>2
  <2>2. g[{}] = base
    BY <1>6 DEF Folds
  <2>3. \A s \in SUBSET (1 .. n) : g[s] = Def(g)[s]
    BY <2>1, <2>2
  <2>4. g = [s \in SUBSET (1 .. n) |-> g[s]] /\ Def(g) = [s \in SUBSET (1 .. n) |-> Def(g)[s]]
    OBVIOUS
  <2> HIDE DEF Def
  <2> QED BY <2>3, <2>4
<1>8. iter = Def(iter)
  <2> HIDE DEF Def
  <2> QED BY <1>7, Zenon
<1> HIDE DEF iter
<1>9. iter[{}] = base
  BY <1>8
<1>10. ASSUME NEW k \in 1 .. n PROVE iter[1 .. k] = Op(iter[1 .. k - 1], spec.entities[k])
  <2>1. 1 .. k \in SUBSET (1 .. n) /\ 1 .. k # {} /\ Editor!Max(1 .. k) = k
        /\ (1 .. k) \ {Editor!Max(1 .. k)} = 1 .. k - 1
    BY <1>1, <1>5, FoldGoesOn
  <2>2. \A s \in SUBSET (1 .. n) :
          s # {} => iter[s] = Op(iter[s \ {Editor!Max(s)}], spec.entities[Editor!Max(s)])
    BY <1>8
  <2> QED BY <2>1, <2>2
<1>11. iter[1 .. n] \in Nat
  <2> DEFINE good == {k \in 0 .. n : iter[1 .. k] \in Nat}
  <2>1. 0 \in good
    <3>1. 1 .. 0 = {} /\ 0 \in 0 .. n
      BY <1>1
    <3> QED BY <1>1, <1>9, <3>1
  <2>2. ASSUME NEW k \in 0 .. n - 1, k \in good PROVE k + 1 \in good
    <3>1. k + 1 \in 1 .. n /\ k + 1 \in 0 .. n /\ (k + 1) - 1 = k /\ iter[1 .. k] \in Nat
      BY <1>1, <2>2
    <3>2. iter[1 .. k + 1] = Op(iter[1 .. k], spec.entities[k + 1])
      BY <1>10, <3>1
    <3> QED BY <1>2, <3>1, <3>2
  <2>3. good \in SUBSET (0 .. n)
    BY Zenon
  <2>4. n \in good
    <3>1. n \in 0 .. n
      BY <1>1
    <3> HIDE DEF good
    <3> QED BY <1>1, <3>1, <2>1, <2>2, <2>3, UpToByOne
  <2> QED BY <2>4
<1>12. Editor!Processed(spec) = [spec EXCEPT !.nextEntityId = iter[1 .. n]]
  BY <1>1 DEF Editor!Processed, Editor!FoldLeft, Editor!MapThenFoldSet, iter, Def, Op, base
<1> QED BY <1>11, <1>12 DEF Editable

LEMMA SoundIds ==
  ASSUME NEW spec, Sound(spec)
  PROVE  /\ spec.entities \in Seq(Entities) /\ spec.nextEntityId \in Nat
         /\ Len(spec.entities) \in Nat /\ DOMAIN spec.entities = 1 .. Len(spec.entities)
         /\ \A i \in 1 .. Len(spec.entities) :
              spec.entities[i] \in Entities /\ spec.entities[i].id \in Nat
         /\ \A i, j \in 1 .. Len(spec.entities) :
              spec.entities[i].id = spec.entities[j].id => i = j
<1>1. spec.entities \in Seq(Entities) /\ spec.nextEntityId \in Nat
  BY DEF Sound, Editable
<1>2. \A e \in Entities : e.id \in Nat
  BY DEF Entities
<1> DEFINE es == spec.entities
<1> HIDE DEF es
<1>3. Len(es) \in Nat /\ DOMAIN es = 1 .. Len(es) /\ \A i \in 1 .. Len(es) : es[i] \in Entities
  BY <1>1 DEF es
<1>4. \A i, j \in DOMAIN es : es[i].id = es[j].id => i = j
  BY DEF Sound, Editor!UniqueIds, es
<1> QED BY <1>1, <1>2, <1>3, <1>4 DEF es

LEMMA SoundAgain ==
  ASSUME NEW es \in Seq(Entities), NEW next \in Nat,
         \A i, j \in 1 .. Len(es) : es[i].id = es[j].id => i = j
  PROVE  Sound([entities |-> es, nextEntityId |-> next])
BY DEF Sound, Editable, Editor!UniqueIds

LEMMA EditedIs ==
  ASSUME NEW spec, Sound(spec), NEW es
  PROVE  [spec EXCEPT !.entities = es] = [entities |-> es, nextEntityId |-> spec.nextEntityId]
BY DEF Sound, Editable

(* The id of a new entity is higher than all others.                                *)
LEMMA IdsBelow ==
  ASSUME NEW spec, Sound(spec)
  PROVE  LET highest == Editor!Max(Editor!IdsOf(spec) \cup {1})
         IN  highest \in Nat /\ \A i \in 1 .. Len(spec.entities) : spec.entities[i].id <= highest
<1> DEFINE n == Len(spec.entities)
           ids == Editor!IdsOf(spec)
           f == [i \in 1 .. n |-> spec.entities[i].id]
<1>1. n \in Nat /\ DOMAIN spec.entities = 1 .. n /\ \A i \in 1 .. n : spec.entities[i].id \in Nat
  BY SoundIds
<1>2. ids = {spec.entities[i].id : i \in 1 .. n}
  BY <1>1, Zenon DEF Editor!IdsOf
<1> HIDE DEF n, ids
<1>3. f \in Surjection(1 .. n, ids)
  BY <1>2 DEF Surjection
<1>4. IsFiniteSet(1 .. n)
  BY <1>1, FS_Interval
<1>5. IsFiniteSet(ids)
  <2> HIDE DEF f
  <2> QED BY <1>3, <1>4, FS_Surjection
<1>6. IsFiniteSet(ids \cup {1})
  BY <1>5, FS_AddElement
<1>7. ids \cup {1} \in SUBSET Nat /\ ids \cup {1} # {}
  BY <1>1, <1>2
<1>8. Editor!Max(ids \cup {1}) \in Nat /\ \A y \in ids \cup {1} : y <= Editor!Max(ids \cup {1})
  BY <1>6, <1>7, HighestOf
<1> QED BY <1>2, <1>8 DEF n, ids

LEMMA AddedIsSound ==
  ASSUME EditorInv, shown # <<>>, NEW p \in {0} \cup DOMAIN shown[1].entities, Editor!AddEntity(p)
  PROVE  EditorInv'
<1> DEFINE spec == shown[1]
           es == spec.entities
           next == spec.nextEntityId
           above == Editor!Max(Editor!IdsOf(spec) \cup {1}) + 1
           id == IF next = 0 \/ above > next THEN above ELSE next
           e == Editor!Entity(id, made + 1)
           r == Editor!InsertAt(es, p + 1, e)
<1>1. Sound(spec) /\ made \in Nat
  BY DEF EditorInv
<1>2. /\ es \in Seq(Entities) /\ next \in Nat /\ Len(es) \in Nat /\ DOMAIN es = 1 .. Len(es)
      /\ \A i \in 1 .. Len(es) : es[i] \in Entities /\ es[i].id \in Nat
      /\ \A i, j \in 1 .. Len(es) : es[i].id = es[j].id => i = j
  BY <1>1, SoundIds
<1>3. above \in Nat /\ \A i \in 1 .. Len(es) : es[i].id < above
  <2> DEFINE highest == Editor!Max(Editor!IdsOf(spec) \cup {1})
  <2>1. highest \in Nat /\ \A i \in 1 .. Len(es) : es[i].id <= highest
    BY <1>1, IdsBelow
  <2> HIDE DEF highest
  <2>2. highest + 1 \in Nat /\ \A i \in 1 .. Len(es) : es[i].id < highest + 1
    BY <1>2, <2>1
  <2> QED BY <2>2 DEF highest
<1>4. Editor!Added(p, id)
  BY DEF Editor!AddEntity
<1>5. shown' = <<[entities |-> r, nextEntityId |-> id + 1]>> /\ made' = made + 1
      /\ UNCHANGED <<file, loaded, requests>>
  BY <1>4 DEF Editor!Added
<1> HIDE DEF above
<1>6. id \in Nat /\ \A i \in 1 .. Len(es) : es[i].id < id
  BY <1>2, <1>3
<1> HIDE DEF id
<1>7. e \in Entities /\ e.id = id
  BY <1>1, <1>6 DEF Editor!Entity, Entities
<1> HIDE DEF es, next
<1>8. r = Inserted(es, p + 1, e)
  BY DEF Editor!InsertAt, Inserted
<1> HIDE DEF e, r
<1>20. r \in Seq(Entities) /\ HasPut(r, es, p + 1, e)
  <2>1. p + 1 \in 1 .. Len(es) + 1
    BY <1>2 DEF es
  <2>2. es \in Seq(Entities)
    BY <1>2
  <2>3. e \in Entities
    BY <1>7
  <2> QED BY <1>8, <2>1, <2>2, <2>3, PutIn, Zenon
<1>9. /\ r \in Seq(Entities) /\ Len(r) = Len(es) + 1
      /\ \A k \in 1 .. Len(es) + 1 :
           r[k] = IF k < p + 1 THEN es[k] ELSE IF k = p + 1 THEN e ELSE es[k - 1]
  BY <1>20, Zenon DEF HasPut
<1>10. ASSUME NEW i \in 1 .. Len(r), NEW j \in 1 .. Len(r), r[i].id = r[j].id PROVE i = j
  <2>1. p \in Nat /\ p <= Len(es)
    BY <1>2 DEF es
  <2> DEFINE old(k) == IF k < p + 1 THEN k ELSE k - 1
  <2>2. ASSUME NEW k \in 1 .. Len(es) + 1, k # p + 1
        PROVE old(k) \in 1 .. Len(es) /\ r[k] = es[old(k)]
    <3>1. CASE k < p + 1
      BY <1>9, <2>1, <1>2, <3>1
    <3>2. CASE k > p + 1
      BY <1>9, <2>1, <1>2, <3>2
    <3> QED BY <2>1, <2>2, <3>1, <3>2
  <2>3. r[p + 1] = e
    BY <1>9, <1>2, <2>1
  <2>4. i \in 1 .. Len(es) + 1 /\ j \in 1 .. Len(es) + 1
    BY <1>9
  <2>5. CASE i # p + 1 /\ j # p + 1
    <3>1. old(i) \in 1 .. Len(es) /\ old(j) \in 1 .. Len(es) /\ es[old(i)].id = es[old(j)].id
      BY <1>10, <2>2, <2>4, <2>5
    <3>2. old(i) = old(j)
      <4> HIDE DEF old
      <4> QED BY <1>2, <3>1
    <3> QED BY <2>1, <2>4, <2>5, <3>2, <1>2
  <2>6. CASE i = p + 1 /\ j # p + 1
    <3>1. old(j) \in 1 .. Len(es) /\ es[old(j)].id = id
      BY <1>7, <1>10, <2>2, <2>3, <2>4, <2>6
    <3> HIDE DEF old
    <3> QED BY <1>2, <1>6, <3>1
  <2>7. CASE j = p + 1 /\ i # p + 1
    <3>1. old(i) \in 1 .. Len(es) /\ es[old(i)].id = id
      BY <1>7, <1>10, <2>2, <2>3, <2>4, <2>7
    <3> HIDE DEF old
    <3> QED BY <1>2, <1>6, <3>1
  <2> QED BY <2>5, <2>6, <2>7
<1>11. Sound([entities |-> r, nextEntityId |-> id + 1])
  <2>1. id + 1 \in Nat
    BY <1>6
  <2> QED BY <1>9, <1>10, <2>1, SoundAgain
<1> QED BY <1>1, <1>5, <1>11 DEF EditorInv

LEMMA DeletedIsSound ==
  ASSUME EditorInv, shown # <<>>, NEW p \in DOMAIN shown[1].entities, Editor!DeleteEntity(p)
  PROVE  EditorInv'
<1> DEFINE spec == shown[1]
           es == spec.entities
           r == Editor!RemoveAt(es, p)
<1>1. Sound(spec)
  BY DEF EditorInv
<1>2. /\ es \in Seq(Entities) /\ spec.nextEntityId \in Nat /\ Len(es) \in Nat
      /\ DOMAIN es = 1 .. Len(es)
      /\ \A i, j \in 1 .. Len(es) : es[i].id = es[j].id => i = j
  BY <1>1, SoundIds
<1>3. shown' = <<[spec EXCEPT !.entities = r]>> /\ UNCHANGED <<file, loaded, requests, made>>
  BY DEF Editor!DeleteEntity, Editor!Edited
<1>4. r = SubSeq(es, 1, p - 1) \o SubSeq(es, p + 1, Len(es))
  BY DEF Editor!RemoveAt
<1>5. p \in 1 .. Len(es)
  BY <1>2
<1> HIDE DEF es, r
<1>6. /\ r \in Seq(Entities) /\ Len(r) = Len(es) - 1
      /\ \A k \in 1 .. Len(es) - 1 : r[k] = IF k < p THEN es[k] ELSE es[k + 1]
  BY <1>2, <1>4, <1>5, TakenOut
<1>7. ASSUME NEW i \in 1 .. Len(r), NEW j \in 1 .. Len(r), r[i].id = r[j].id PROVE i = j
  <2> DEFINE old(k) == IF k < p THEN k ELSE k + 1
  <2>1. ASSUME NEW k \in 1 .. Len(r) PROVE old(k) \in 1 .. Len(es) /\ r[k] = es[old(k)]
    BY <1>2, <1>5, <1>6
  <2>2. old(i) = old(j)
    <3>1. old(i) \in 1 .. Len(es) /\ old(j) \in 1 .. Len(es) /\ es[old(i)].id = es[old(j)].id
      BY <1>7, <2>1
    <3> HIDE DEF old
    <3> QED BY <1>2, <3>1
  <2>3. i \in Int /\ j \in Int /\ p \in Int
    BY <1>2, <1>5, <1>6
  <2> QED BY <2>2, <2>3
<1>8. Sound([spec EXCEPT !.entities = r])
  <2>1. Sound([entities |-> r, nextEntityId |-> spec.nextEntityId])
    BY <1>2, <1>6, <1>7, SoundAgain
  <2> QED BY <1>1, <2>1, EditedIs
<1> QED BY <1>3, <1>8 DEF EditorInv

LEMMA DroppedIsSound ==
  ASSUME EditorInv, shown # <<>>, NEW p \in DOMAIN shown[1].entities,
         NEW q \in DOMAIN shown[1].entities, Editor!Drop(p, q)
  PROVE  EditorInv'
<1> DEFINE spec == shown[1]
           es == spec.entities
           m == Editor!RemoveAt(es, p)
           e == es[p]
           r == Editor!InsertAt(m, q, e)
<1>1. Sound(spec)
  BY DEF EditorInv
<1>2. /\ es \in Seq(Entities) /\ spec.nextEntityId \in Nat /\ Len(es) \in Nat
      /\ DOMAIN es = 1 .. Len(es)
      /\ \A i \in 1 .. Len(es) : es[i] \in Entities
      /\ \A i, j \in 1 .. Len(es) : es[i].id = es[j].id => i = j
  BY <1>1, SoundIds
<1>3. shown' = <<[spec EXCEPT !.entities = r]>> /\ UNCHANGED <<file, loaded, requests, made>>
  BY DEF Editor!Drop, Editor!Edited
<1>4. m = SubSeq(es, 1, p - 1) \o SubSeq(es, p + 1, Len(es))
  BY DEF Editor!RemoveAt
<1>5. p \in 1 .. Len(es) /\ q \in 1 .. Len(es) /\ e \in Entities
  BY <1>2
<1> HIDE DEF es, m
<1>6. /\ m \in Seq(Entities) /\ Len(m) = Len(es) - 1
      /\ \A k \in 1 .. Len(es) - 1 : m[k] = IF k < p THEN es[k] ELSE es[k + 1]
  BY <1>2, <1>4, <1>5, TakenOut
<1>7. r = Inserted(m, q, e)
  BY DEF Editor!InsertAt, Inserted
<1> HIDE DEF e, r
<1>20. r \in Seq(Entities) /\ HasPut(r, m, q, e)
  <2>1. q \in 1 .. Len(m) + 1
    BY <1>2, <1>5, <1>6
  <2>2. m \in Seq(Entities) /\ e \in Entities
    BY <1>5, <1>6
  <2> QED BY <1>7, <2>1, <2>2, PutIn, Zenon
<1>8. /\ r \in Seq(Entities) /\ Len(r) = Len(m) + 1
      /\ \A k \in 1 .. Len(m) + 1 :
           r[k] = IF k < q THEN m[k] ELSE IF k = q THEN e ELSE m[k - 1]
  BY <1>20, Zenon DEF HasPut
<1>9. ASSUME NEW i \in 1 .. Len(r), NEW j \in 1 .. Len(r), r[i].id = r[j].id PROVE i = j
  <2> DEFINE between(k) == IF k < p THEN k ELSE k + 1
             old(k) == IF k < q THEN between(k) ELSE IF k = q THEN p ELSE between(k - 1)
  <2>1. ASSUME NEW k \in 1 .. Len(es) - 1
        PROVE between(k) \in 1 .. Len(es) /\ between(k) # p /\ m[k] = es[between(k)]
    BY <1>2, <1>5, <1>6
  <2>2. ASSUME NEW k \in 1 .. Len(es) PROVE old(k) \in 1 .. Len(es) /\ r[k] = es[old(k)]
    <3>0. k \in 1 .. Len(m) + 1
      BY <1>2, <1>6
    <3>1. CASE k < q
      <4>1. k \in 1 .. Len(es) - 1 /\ r[k] = m[k]
        BY <1>2, <1>5, <1>8, <3>0, <3>1
      <4> HIDE DEF between
      <4> QED BY <2>1, <3>1, <4>1
    <3>2. CASE k = q
      BY <1>2, <1>5, <1>8, <3>0, <3>2 DEF e
    <3>3. CASE k > q
      <4>1. k - 1 \in 1 .. Len(es) - 1 /\ r[k] = m[k - 1]
        BY <1>2, <1>5, <1>8, <3>0, <3>3
      <4>2. old(k) = between(k - 1)
        <5>1. ~(k < q) /\ k # q
          BY <1>2, <1>5, <3>3
        <5> HIDE DEF between
        <5> QED BY <5>1
      <4> HIDE DEF between, old
      <4> QED BY <2>1, <4>1, <4>2
    <3> QED BY <1>2, <1>5, <3>1, <3>2, <3>3
  <2>3. i \in 1 .. Len(es) /\ j \in 1 .. Len(es)
    BY <1>2, <1>6, <1>8
  <2>4. old(i) = old(j)
    <3> HIDE DEF old
    <3>1. old(i) \in 1 .. Len(es) /\ old(j) \in 1 .. Len(es) /\ es[old(i)].id = es[old(j)].id
      BY <1>9, <2>2, <2>3
    <3> QED BY <1>2, <3>1
  <2>5. Len(es) \in Nat /\ p \in 1 .. Len(es) /\ q \in 1 .. Len(es)
    BY <1>2, <1>5
  <2> QED BY <2>3, <2>4, <2>5
<1>10. Sound([spec EXCEPT !.entities = r])
  <2>1. Sound([entities |-> r, nextEntityId |-> spec.nextEntityId])
    BY <1>2, <1>8, <1>9, SoundAgain
  <2> QED BY <1>1, <2>1, EditedIs
<1> QED BY <1>3, <1>10 DEF EditorInv

LEMMA ProcessedIsSound ==
  ASSUME NEW spec, Sound(spec)
  PROVE  Sound(Editor!Processed(spec))
<1>1. Editor!Processed(spec) \in Editable /\ Editor!Processed(spec).entities = spec.entities
  BY ProcessedKeeps DEF Sound
<1> QED BY <1>1 DEF Sound, Editor!UniqueIds

LEMMA EditorInit == ASSUME Editor!Init, Editor!EditorAssumption PROVE EditorInv
<1>1. Sound(file)
  BY DEF Editor!Init, Editor!EditorAssumption, Sound, Editable, Entities
<1>2. made \in Nat
  <2> DEFINE es == file.entities
             keys == {e.key : e \in Editor!ToSet(es)}
             f == [i \in 1 .. Len(es) |-> es[i].key]
  <2>1. es \in Seq(Entities)
    BY <1>1 DEF Sound, Editable
  <2>2. \A e \in Entities : e.key \in Nat
    BY DEF Entities
  <2> HIDE DEF es
  <2>3. Len(es) \in Nat /\ Editor!ToSet(es) = {es[i] : i \in 1 .. Len(es)}
        /\ \A i \in 1 .. Len(es) : es[i] \in Entities
    BY <2>1 DEF Editor!ToSet
  <2>4. f \in Surjection(1 .. Len(es), keys)
    BY <2>3 DEF Surjection
  <2>5. keys \in SUBSET Nat
    BY <2>2, <2>3
  <2> HIDE DEF f, keys
  <2>6. IsFiniteSet(keys \cup {0})
    <3>1. IsFiniteSet(1 .. Len(es))
      BY <2>3, FS_Interval
    <3>2. IsFiniteSet(keys)
      BY <2>4, <3>1, FS_Surjection
    <3> QED BY <3>2, FS_AddElement
  <2>7. keys \cup {0} \in SUBSET Nat /\ keys \cup {0} # {}
    BY <2>5
  <2>8. Editor!Max(keys \cup {0}) \in Nat
    BY <2>6, <2>7, HighestOf
  <2> QED BY <2>8 DEF Editor!Init, keys, es
<1>3. Sound(loaded)
  BY <1>1, ProcessedIsSound DEF Editor!Init
<1> QED BY <1>1, <1>2, <1>3 DEF Editor!Init, EditorInv

LEMMA EditorNext == ASSUME EditorInv, [Editor!Next]_editorVars PROVE EditorInv'
<1>1. CASE Editor!Restart
  BY <1>1, ProcessedIsSound DEF EditorInv, Editor!Restart
<1>2. CASE Editor!OpenPage
  BY <1>2 DEF EditorInv, Editor!OpenPage, Editor!Request
<1>3. CASE Editor!Save
  BY <1>3 DEF EditorInv, Editor!Save, Editor!Written, Editor!Request
<1>4. CASE Editor!ClosePage
  BY <1>4 DEF EditorInv, Editor!ClosePage
<1>5. ASSUME NEW r \in requests, Editor!Arrive(r) PROVE EditorInv'
  <2>1. UNCHANGED <<file, loaded, made>> /\ (shown' = shown \/ shown' = <<r.body>>)
    BY <1>5 DEF Editor!Arrive
  <2>2. \A x \in requests' : x \in requests \/ x.body = loaded
    BY <1>5 DEF Editor!Arrive, Editor!Request
  <2> QED BY <2>1, <2>2 DEF EditorInv
<1>6. CASE Editor!Edit
  BY <1>6, AddedIsSound, DeletedIsSound, DroppedIsSound DEF Editor!Edit
<1>7. CASE UNCHANGED editorVars
  BY <1>7 DEF EditorInv, editorVars
<1> QED BY <1>1, <1>2, <1>3, <1>4, <1>5, <1>6, <1>7 DEF Editor!Next

(* No two entities of a specification have one id, on the page or in its file, though    *)
(* the nextEntityId that is filled in for old files may be in use                    *)
(* (specification.component.ts: addEntity; specPersistence.ts: postProcessSpec).        *)
THEOREM EntitiesAreTold == PartsSpec => []EntityIdsUnique
<1>1. Begin => EditorInv
  BY BeginsWithEach, EditorInit, PartsAssumption
<1>2. EditorInv /\ [Step]_allVars => EditorInv'
  BY StepsOfEach, EditorNext
<1>3. EditorInv => EntityIdsUnique
  BY DEF EditorInv, Sound, EntityIdsUnique, Editor!EntityIdsUnique
<1> QED BY <1>1, <1>2, <1>3, PTL DEF PartsSpec

(***************************************************************************)
(* SlaveCards: what is here and what is under way fits, and what a list shows is of a     *)
(* specification that is here: no answer is waited for between showing and saving it.     *)
(***************************************************************************)

Announced == UNION {EntitiesOf[s] : s \in CardSpecs}

CardType(n, here) ==
  [id : CardIds, slave : Page!SlaveType, form : 1 .. n, listed : BOOLEAN, has : here \cup {None}]

FormType(here) ==
  [full : BOOLEAN, touched : BOOLEAN, spec : CardSpecs \cup {None}, chosen : SUBSET Announced,
   of : here \cup {None}]

StoredOk ==
  /\ DOMAIN stored \subseteq CardIds
  /\ \A id \in DOMAIN stored :
       stored[id] \in Page!SlaveType /\ stored[id].ref \in DOMAIN stored \cup {None}

(* What the server answers to saving is what was shown.                              *)
Faithful(slave, wanted) ==
  /\ slave.spec = wanted.spec
  /\ EntitiesOf[slave.spec] \ slave.hidden = wanted.chosen \cap EntitiesOf[slave.spec]

SpecOk(r, n) ==
  /\ r.card \in 1 .. n /\ r.spec \in CardSpecs /\ r.then \in {"show", "change", "save"}
  /\ r.wanted = None

SlaveOk(r) ==
  /\ r.id \in CardIds /\ r.slave \in Page!SlaveType
  /\ r.kind = "saved" /\ r.wanted # None => Faithful(r.slave, r.wanted)

ListOk(r) ==
  DOMAIN r.slaves \subseteq CardIds /\ \A id \in DOMAIN r.slaves : r.slaves[id] \in Page!SlaveType

RequestOk(r, n) ==
  \/ r.kind = "spec" /\ SpecOk(r, n)
  \/ r.kind = "list" /\ ListOk(r)
  \/ r.kind \in {"saved", "added", "polled"} /\ SlaveOk(r)
  \/ r.kind \in {"conflict", "deleted"} /\ r.id \in CardIds

PageInv ==
  /\ StoredOk
  /\ cache \subseteq CardSpecs
  /\ cards \in Seq(CardType(Len(forms), cache))
  /\ forms \in Seq(FormType(cache))
  /\ \A r \in sent : RequestOk(r, Len(cards))

LEMMA PageFacts ==
  ASSUME Page!CardsAssumption
  PROVE  /\ CardIds \in SUBSET Nat /\ IsFiniteSet(CardIds)
         /\ None \notin CardIds /\ None \notin CardSpecs
<1>1. Page!IsFiniteSet(CardIds)
  BY DEF Page!CardsAssumption
<1>2. IsFiniteSet(CardIds)
  BY <1>1, Zenon DEF Page!IsFiniteSet, IsFiniteSet
<1> QED BY <1>2 DEF Page!CardsAssumption

LEMMA PageCardinality == ASSUME NEW S PROVE Page!Cardinality(S) = Cardinality(S)
BY Zenon DEF Page!Cardinality, Cardinality

LEMMA PageUpwards ==
  ASSUME NEW S \in SUBSET CardIds, Page!CardsAssumption
  PROVE  /\ Cardinality(S) \in Nat
         /\ Page!Ascending(S) \in [1 .. Cardinality(S) -> S]
<1> DEFINE n == Cardinality(S)
           q == Page!Ascending(S)
<1>1. IsFiniteSet(S) /\ S \in SUBSET Int
  <2>1. IsFiniteSet(S)
    BY PageFacts, FS_Subset, Zenon
  <2> QED BY <2>1, PageFacts
<1>2. n \in Nat
  BY <1>1, FS_CardinalityType
<1>3. \E p \in [1 .. n -> S] : \A i, j \in 1 .. n : i < j => p[i] < p[j]
  BY <1>1, NumbersAreListed DEF Upwards
<1>4. q = CHOOSE p \in [1 .. n -> S] : \A i, j \in 1 .. n : i < j => p[i] < p[j]
  BY PageCardinality, Zenon DEF Page!Ascending
<1>5. q \in [1 .. n -> S]
  BY <1>3, <1>4, Zenon
<1> QED BY <1>2, <1>5

(* Types get wider only.                                                       *)
LEMMA WiderCards ==
  ASSUME NEW n \in Nat, NEW m \in Nat, n <= m, NEW here, NEW more, here \subseteq more
  PROVE  Seq(CardType(n, here)) \subseteq Seq(CardType(m, more))
<1>1. CardType(n, here) \subseteq CardType(m, more)
  BY DEF CardType
<1> HIDE DEF CardType
<1>2. ASSUME NEW q \in Seq(CardType(n, here)) PROVE q \in Seq(CardType(m, more))
  <2>1. Len(q) \in Nat /\ q = [i \in 1 .. Len(q) |-> q[i]] /\ \A i \in 1 .. Len(q) : q[i] \in CardType(n, here)
    OBVIOUS
  <2> QED BY <1>1, <2>1
<1> QED BY <1>2

LEMMA WiderForms ==
  ASSUME NEW here, NEW more, here \subseteq more
  PROVE  Seq(FormType(here)) \subseteq Seq(FormType(more))
<1>1. FormType(here) \subseteq FormType(more)
  BY DEF FormType
<1>2. ASSUME NEW q \in Seq(FormType(here)) PROVE q \in Seq(FormType(more))
  <2>1. Len(q) \in Nat /\ q = [i \in 1 .. Len(q) |-> q[i]] /\ \A i \in 1 .. Len(q) : q[i] \in FormType(here)
    OBVIOUS
  <2> QED BY <1>1, <2>1
<1> QED BY <1>2

LEMMA WiderRequests ==
  ASSUME NEW r, NEW n \in Nat, NEW m \in Nat, n <= m, RequestOk(r, n)
  PROVE  RequestOk(r, m)
BY DEF RequestOk, SpecOk

LEMMA CardFacts ==
  ASSUME PageInv, NEW k \in DOMAIN cards
  PROVE  /\ Len(cards) \in Nat /\ Len(forms) \in Nat /\ k \in 1 .. Len(cards)
         /\ cards[k] \in CardType(Len(forms), cache)
         /\ cards[k].id \in CardIds /\ cards[k].slave \in Page!SlaveType
         /\ cards[k].has \in cache \cup {None} /\ cards[k].form \in 1 .. Len(forms)
         /\ forms[cards[k].form] \in FormType(cache)
<1>1. Len(cards) \in Nat /\ Len(forms) \in Nat /\ k \in 1 .. Len(cards)
      /\ cards[k] \in CardType(Len(forms), cache)
  BY DEF PageInv
<1>2. cards[k].form \in 1 .. Len(forms)
  BY <1>1 DEF CardType
<1>3. forms[cards[k].form] \in FormType(cache)
  BY <1>2 DEF PageInv
<1> QED BY <1>1, <1>2, <1>3 DEF CardType

LEMMA SentIsSlave ==
  ASSUME NEW db, NEW id \in DOMAIN db, \A x \in DOMAIN db : db[x] \in Page!SlaveType
  PROVE  Page!Sent(db, id) \in Page!SlaveType
<1>1. \A s \in Page!SlaveType : s.spec \in CardSpecs \cup {None} /\ s.ref \in CardIds \cup {None}
                                 /\ s.hidden \in SUBSET Announced
  BY DEF Page!SlaveType, Announced
<1>2. ASSUME NEW s \in Page!SlaveType, NEW x \in Page!SlaveType
      PROVE  Page!Slave(s.ref, x.spec, x.hidden) \in Page!SlaveType
  BY <1>1 DEF Page!Slave, Page!SlaveType, Announced
<1> QED BY <1>2 DEF Page!Sent

LEMMA PostKeeps ==
  ASSUME PageInv, Page!CardsAssumption, NEW id \in CardIds, NEW slave \in Page!SlaveType,
         NEW kind \in {"saved", "added"}, NEW wanted, NEW others \in SUBSET sent,
         wanted = None \/ (slave.ref = None /\ Faithful(slave, wanted)),
         Page!Post(id, slave, kind, wanted, others)
  PROVE  StoredOk' /\ \A r \in sent' : RequestOk(r, Len(cards))
<1>0. \A r \in others : RequestOk(r, Len(cards))
  BY DEF PageInv
<1>1. CASE ~Page!MayStore(id, slave)
  BY <1>0, <1>1 DEF Page!Post, PageInv, StoredOk
<1>2. CASE Page!MayStore(id, slave)
  <2> DEFINE new == Page!Request(kind, id, Page!Sent(stored', id), wanted)
  <2>1. stored' = [x \in DOMAIN stored \cup {id} |-> IF x = id THEN Page!Kept(slave) ELSE stored[x]]
        /\ sent' = others \cup {new}
    BY <1>2 DEF Page!Post, Page!WithSlave
  <2>2. StoredOk
    BY DEF PageInv
  <2>3. Page!Kept(slave) \in Page!SlaveType /\ Page!Kept(slave).ref = slave.ref
        /\ (slave.ref = None => Page!Kept(slave) = slave)
    BY DEF Page!Kept, Page!IsReference, Page!Slave, Page!SlaveType
  <2>4. slave.ref \in DOMAIN stored \cup {None}
    BY <1>2 DEF Page!MayStore, Page!IsReference
  <2>5. StoredOk'
    <3>1. DOMAIN stored' = DOMAIN stored \cup {id} /\ stored'[id] = Page!Kept(slave)
          /\ \A x \in DOMAIN stored \ {id} : stored'[x] = stored[x]
      BY <2>1
    <3> QED BY <2>2, <2>3, <2>4, <3>1 DEF StoredOk
  <2>6. Page!Sent(stored', id) \in Page!SlaveType
    <3>1. id \in DOMAIN stored' /\ \A x \in DOMAIN stored' : stored'[x] \in Page!SlaveType
      BY <2>1, <2>5 DEF StoredOk
    <3> QED BY <3>1, SentIsSlave
  <2>7. slave.ref = None => Page!Sent(stored', id) = slave
    BY <2>1, <2>3 DEF Page!Sent, Page!IsReference
  <2>8. RequestOk(new, Len(cards))
    BY <2>6, <2>7 DEF RequestOk, SlaveOk, Page!Request
  <2> QED BY <1>0, <2>1, <2>5, <2>8
<1> QED BY <1>1, <1>2

LEMMA DeleteKeeps ==
  ASSUME PageInv, Page!CardsAssumption, NEW id \in CardIds, NEW detach \in BOOLEAN,
         NEW others \in SUBSET sent, Page!PostDelete(id, detach, others)
  PROVE  StoredOk' /\ \A r \in sent' : RequestOk(r, Len(cards))
<1>0. (\A r \in others : RequestOk(r, Len(cards))) /\ StoredOk
  BY DEF PageInv
<1>1. CASE Page!References(id) # {} /\ ~detach
  <2>1. sent' = others \cup {[kind |-> "conflict", id |-> id]} /\ UNCHANGED stored
    BY <1>1 DEF Page!PostDelete
  <2>2. RequestOk([kind |-> "conflict", id |-> id], Len(cards))
    BY DEF RequestOk
  <2> QED BY <1>0, <2>1, <2>2 DEF StoredOk
<1>2. CASE ~(Page!References(id) # {} /\ ~detach)
  <2>1. sent' = others \cup {[kind |-> "deleted", id |-> id]}
        /\ stored' = [x \in DOMAIN stored \ {id} |->
                       IF stored[x].ref = id THEN Page!Slave(None, stored[id].spec, stored[id].hidden)
                       ELSE stored[x]]
    BY <1>2 DEF Page!PostDelete, Page!WithoutSlave
  <2>2. RequestOk([kind |-> "deleted", id |-> id], Len(cards))
    BY DEF RequestOk
  <2>3. StoredOk'
    <3>1. ASSUME NEW x \in DOMAIN stored \ {id}
          PROVE  stored'[x] \in Page!SlaveType /\ stored'[x].ref \in (DOMAIN stored \ {id}) \cup {None}
      <4>1. CASE stored[x].ref = id
        <5>1. id \in DOMAIN stored /\ stored[id] \in Page!SlaveType
          BY <1>0, <4>1, PageFacts DEF StoredOk
        <5>2. stored'[x] = Page!Slave(None, stored[id].spec, stored[id].hidden)
          BY <2>1, <4>1
        <5> QED BY <5>1, <5>2 DEF Page!Slave, Page!SlaveType
      <4>2. CASE stored[x].ref # id
        BY <1>0, <2>1, <4>2 DEF StoredOk
      <4> QED BY <4>1, <4>2
    <3>2. DOMAIN stored' = DOMAIN stored \ {id}
      BY <2>1
    <3> QED BY <1>0, <3>1, <3>2 DEF StoredOk
  <2> QED BY <1>0, <2>1, <2>2, <2>3
<1> QED BY <1>1, <1>2

LEMMA CardsStay ==
  ASSUME PageInv, StoredOk', UNCHANGED <<cards, forms, cache>>, \A r \in sent' : RequestOk(r, Len(cards))
  PROVE  PageInv'
BY DEF PageInv

(* buildDiscoverEntityList.                                                     *)
LEMMA ListingIs ==
  ASSUME NEW here \in SUBSET CardSpecs, NEW form \in FormType(here), NEW card, card.has \in here
  PROVE  Page!Listing(form, card) \in FormType(here)
<1>1. EntitiesOf[card.has] \ card.slave.hidden \in SUBSET Announced
  BY DEF Announced
<1> QED BY <1>1 DEF Page!Listing, FormType

LEMMA ReachesKeeps ==
  ASSUME PageInv, Page!CardsAssumption, NEW k \in DOMAIN cards,
         NEW card \in CardType(Len(forms), cache), NEW spec \in CardSpecs,
         NEW then \in {"show", "change", "save"}, NEW chosen, NEW wanted,
         NEW others \in SUBSET sent,
         wanted = None \/ (card.slave.ref = None /\ card.slave.spec = spec
                           /\ wanted = [spec |-> spec, chosen |-> chosen]),
         Page!Reaches(k, card, spec, then, chosen, wanted, others)
  PROVE  PageInv'
<1> DEFINE hidden == Page!Hidden(card.slave.hidden, spec, then, chosen)
           c == [card EXCEPT !.has = spec, !.slave.hidden = hidden]
           more == cache \cup {spec}
           n == Len(forms)
<1>1. /\ cards' = [cards EXCEPT ![k] = c] /\ cache' = more
      /\ IF then = "save" THEN Page!Post(c.id, c.slave, "saved", wanted, others) /\ UNCHANGED forms
         ELSE /\ forms' = [forms EXCEPT ![c.form] = Page!Listing(@, c)]
              /\ sent' = others
              /\ UNCHANGED stored
  BY DEF Page!Reaches
<1>2. /\ card.id \in CardIds /\ card.slave \in Page!SlaveType /\ card.form \in 1 .. n
      /\ n \in Nat /\ Len(cards) \in Nat /\ k \in 1 .. Len(cards)
  BY CardFacts DEF CardType
<1>3. hidden \in SUBSET Announced
  <2>1. card.slave.hidden \in SUBSET Announced
    BY <1>2 DEF Page!SlaveType, Announced
  <2>2. EntitiesOf[spec] \ chosen \in SUBSET Announced
    BY DEF Announced
  <2> QED BY <2>1, <2>2 DEF Page!Hidden
<1> HIDE DEF hidden
<1>4. [card.slave EXCEPT !.hidden = hidden] \in Page!SlaveType
      /\ [card.slave EXCEPT !.hidden = hidden].hidden = hidden
      /\ [card.slave EXCEPT !.hidden = hidden].spec = card.slave.spec
      /\ [card.slave EXCEPT !.hidden = hidden].ref = card.slave.ref
  BY <1>2, <1>3 DEF Page!SlaveType, Announced
<1>5. c \in CardType(n, more) /\ c.id = card.id /\ c.form = card.form /\ c.has = spec
      /\ c.slave = [card.slave EXCEPT !.hidden = hidden]
  <2>1. c = [[card EXCEPT !.has = spec] EXCEPT !.slave = [card.slave EXCEPT !.hidden = hidden]]
    BY DEF CardType
  <2> DEFINE s == [card.slave EXCEPT !.hidden = hidden]
  <2> HIDE DEF s
  <2>2. [[card EXCEPT !.has = spec] EXCEPT !.slave = s]
          = [id |-> card.id, slave |-> s, form |-> card.form, listed |-> card.listed, has |-> spec]
    <3> DEFINE u == [card EXCEPT !.has = spec]
    <3>1. u = [id |-> card.id, slave |-> card.slave, form |-> card.form,
               listed |-> card.listed, has |-> spec]
      BY DEF CardType
    <3> HIDE DEF u
    <3>2. [u EXCEPT !.slave = s]
            = [id |-> card.id, slave |-> s, form |-> card.form, listed |-> card.listed, has |-> spec]
      BY <3>1
    <3> QED BY <3>2 DEF u
  <2>3. s \in Page!SlaveType
    BY <1>4 DEF s
  <2> HIDE DEF c
  <2>4. c = [id |-> card.id, slave |-> s, form |-> card.form, listed |-> card.listed, has |-> spec]
    BY <2>1, <2>2 DEF s
  <2> QED BY <1>2, <2>3, <2>4 DEF CardType, s
<1> HIDE DEF c
<1>6. cache \in SUBSET CardSpecs /\ cards \in Seq(CardType(n, cache)) /\ forms \in Seq(FormType(cache))
  BY DEF PageInv
<1>7. cards \in Seq(CardType(n, more)) /\ forms \in Seq(FormType(more))
  BY <1>2, <1>6, WiderCards, WiderForms
<1>8. cards' \in Seq(CardType(n, more)) /\ Len(cards') = Len(cards)
  BY <1>1, <1>2, <1>5, <1>7
<1>9. cache' \subseteq CardSpecs
  BY <1>1, <1>6
<1>10. CASE then = "save"
  <2>1. Page!Post(card.id, c.slave, "saved", wanted, others) /\ UNCHANGED forms
    BY <1>1, <1>5, <1>10
  <2>2. wanted = None \/ (c.slave.ref = None /\ Faithful(c.slave, wanted))
    <3>1. hidden = EntitiesOf[spec] \ chosen
      BY <1>10 DEF Page!Hidden, hidden
    <3> QED BY <1>4, <1>5, <3>1 DEF Faithful
  <2>3. c.slave \in Page!SlaveType
    BY <1>4, <1>5
  <2>4. StoredOk' /\ \A r \in sent' : RequestOk(r, Len(cards))
    BY <1>2, <2>1, <2>2, <2>3, PostKeeps
  <2> QED BY <1>1, <1>7, <1>8, <1>9, <2>1, <2>4 DEF PageInv
<1>11. CASE then # "save"
  <2>1. forms' = [forms EXCEPT ![card.form] = Page!Listing(forms[card.form], c)] /\ sent' = others
        /\ UNCHANGED stored
    BY <1>1, <1>5, <1>11
  <2>2. forms[card.form] \in FormType(more)
    BY <1>2, <1>7
  <2>3. Page!Listing(forms[card.form], c) \in FormType(more)
    BY <1>5, <1>6, <2>2, ListingIs
  <2>4. forms' \in Seq(FormType(more)) /\ Len(forms') = n
    BY <1>2, <1>7, <2>1, <2>3
  <2> QED BY <1>1, <1>8, <1>9, <2>1, <2>4 DEF PageInv, StoredOk
<1> QED BY <1>10, <1>11

(* The first card of a slave, if there is one.                                     *)
LEMMA FirstIsCard ==
  ASSUME PageInv, NEW id, Page!First(id) # {}
  PROVE  \E k \in DOMAIN cards : Page!First(id) = {k} /\ Page!Min(Page!First(id)) = k
                                 /\ cards[k].id = id
<1> DEFINE ks == {k \in Page!Shown : cards[k].id = id}
<1>1. Page!First(id) = {Page!Min(ks)} /\ ks # {}
  BY DEF Page!First
<1>2. Len(cards) \in Nat /\ DOMAIN cards = 1 .. Len(cards)
  BY DEF PageInv
<1>3. ks \in SUBSET (1 .. Len(cards))
  BY <1>2 DEF Page!Shown
<1>4. \E x \in ks : \A y \in ks : x <= y
  <2> DEFINE low == {0 - x : x \in ks}
             f == [x \in ks |-> 0 - x]
  <2>1. low \in SUBSET Int /\ low # {}
    BY <1>1, <1>2, <1>3
  <2>2. IsFiniteSet(ks)
    <3>1. IsFiniteSet(1 .. Len(cards))
      BY <1>2, FS_Interval
    <3> HIDE DEF ks
    <3> QED BY <1>3, <3>1, FS_Subset, Zenon
  <2>3. f \in Surjection(ks, low)
    <3> HIDE DEF ks
    <3> QED BY DEF Surjection
  <2> HIDE DEF f
  <2>4. IsFiniteSet(low)
    <3> HIDE DEF low, ks
    <3> QED BY <2>2, <2>3, FS_Surjection
  <2>5. PICK y \in low : \A z \in low : y >= z
    <3> HIDE DEF low
    <3> QED BY <2>1, <2>4, NumbersHaveHighest
  <2>6. PICK x \in ks : y = 0 - x
    <3> HIDE DEF ks
    <3> QED OBVIOUS
  <2>7. ASSUME NEW z \in ks PROVE x <= z
    <3>1. 0 - z \in low
      <4> HIDE DEF ks
      <4> QED OBVIOUS
    <3>2. 0 - x >= 0 - z
      BY <2>5, <2>6, <3>1
    <3>3. x \in Int /\ z \in Int
      BY <1>2, <1>3
    <3> QED BY <3>2, <3>3
  <2> HIDE DEF ks
  <2> QED BY <2>7
<1> HIDE DEF ks
<1>5. Page!Min(ks) = CHOOSE x \in ks : \A y \in ks : x =< y
  BY Zenon DEF Page!Min
<1>6. Page!Min(ks) \in ks
  BY <1>4, <1>5, Zenon
<1>7. ASSUME NEW k \in Int PROVE Page!Min({k}) = k
  <2>1. Page!Min({k}) = CHOOSE x \in {k} : \A y \in {k} : x =< y
    BY Zenon DEF Page!Min
  <2>2. \E x \in {k} : \A y \in {k} : x =< y
    OBVIOUS
  <2>3. Page!Min({k}) \in {k}
    BY <2>1, <2>2, Zenon
  <2> QED BY <2>3
<1>8. Page!Min(ks) \in DOMAIN cards /\ cards[Page!Min(ks)].id = id
  BY <1>2, <1>3, <1>6 DEF ks
<1>9. Page!Min(ks) \in Int
  BY <1>2, <1>8
<1> QED BY <1>1, <1>7, <1>8, <1>9

LEMMA UnlistedAre ==
  ASSUME PageInv, NEW ks
  PROVE  /\ Page!Unlisted(ks) \in Seq(CardType(Len(forms), cache))
         /\ Len(Page!Unlisted(ks)) = Len(cards)
<1> DEFINE T == CardType(Len(forms), cache)
           u == Page!Unlisted(ks)
<1>1. Len(cards) \in Nat /\ DOMAIN cards = 1 .. Len(cards) /\ \A k \in 1 .. Len(cards) : cards[k] \in T
  <2> HIDE DEF T
  <2> QED BY DEF PageInv, T
<1>2. ASSUME NEW c \in T, NEW b \in BOOLEAN PROVE [c EXCEPT !.listed = b] \in T
  BY DEF CardType
<1>3. \A c : [c EXCEPT !.listed = @ /\ FALSE] = [c EXCEPT !.listed = c.listed /\ FALSE]
  OBVIOUS
<1>4. u = [k \in 1 .. Len(cards) |-> [cards[k] EXCEPT !.listed = cards[k].listed /\ k \notin ks]]
  BY <1>1, Zenon DEF Page!Unlisted
<1>5. ASSUME NEW k \in 1 .. Len(cards)
      PROVE  [cards[k] EXCEPT !.listed = cards[k].listed /\ k \notin ks] \in T
  <2>1. (cards[k].listed /\ k \notin ks) \in BOOLEAN
    BY Zenon
  <2> HIDE DEF T
  <2> QED BY <1>1, <1>2, <2>1
<1> HIDE DEF T, u
<1>6. u \in Seq(T) /\ Len(u) = Len(cards)
  BY <1>1, <1>4, <1>5
<1> QED BY <1>6 DEF T, u

LEMMA ShowKeeps ==
  ASSUME PageInv, Page!CardsAssumption, NEW answer, DOMAIN answer \subseteq CardIds,
         \A id \in DOMAIN answer : answer[id] \in Page!SlaveType,
         NEW ks, NEW others \in SUBSET sent, Page!Show(answer, ks, others)
  PROVE  PageInv'
<1> DEFINE ids == Page!Ascending(DOMAIN answer)
           m == Cardinality(DOMAIN answer)
           n == Len(cards)
           f == Len(forms)
           old == Page!Unlisted(ks)
           new == [i \in 1 .. m |-> Page!Card(ids[i], answer[ids[i]], f + i)]
           newForms == [i \in 1 .. m |-> Page!Form(answer[ids[i]])]
           missing == {i \in DOMAIN ids : ~Page!IsReference(answer[ids[i]])
                                            /\ answer[ids[i]].spec \notin cache \cup {None}}
<1>1. m \in Nat /\ ids \in [1 .. m -> DOMAIN answer] /\ DOMAIN ids = 1 .. m
  BY PageUpwards
<1>2. n \in Nat /\ f \in Nat /\ cards \in Seq(CardType(f, cache)) /\ forms \in Seq(FormType(cache))
      /\ cache \in SUBSET CardSpecs
  BY DEF PageInv
<1>3. cards' = old \o new /\ forms' = forms \o newForms /\ UNCHANGED <<stored, cache>>
      /\ sent' = others \cup {Page!SpecRequest(n + i, answer[ids[i]].spec, "show", {}, None) : i \in missing}
  BY <1>1 DEF Page!Show
<1>4. ASSUME NEW i \in 1 .. m
      PROVE  /\ ids[i] \in CardIds /\ answer[ids[i]] \in Page!SlaveType
             /\ answer[ids[i]].spec \in CardSpecs \cup {None}
  <2>1. ids[i] \in DOMAIN answer
    BY <1>1
  <2> QED BY <2>1 DEF Page!SlaveType
<1> HIDE DEF ids, m, n, f
<1>5. ASSUME NEW i \in 1 .. m
      PROVE  Page!Card(ids[i], answer[ids[i]], f + i) \in CardType(f + m, cache)
  <2>1. f + i \in 1 .. f + m
    BY <1>1, <1>2
  <2> QED BY <1>4, <2>1 DEF Page!Card, CardType
<1>6. ASSUME NEW i \in 1 .. m PROVE Page!Form(answer[ids[i]]) \in FormType(cache)
  <2>1. \A s \in CardSpecs : \A h : EntitiesOf[s] \ h \in SUBSET Announced
    BY DEF Announced
  <2>2. answer[ids[i]].spec \in cache => answer[ids[i]].spec \in CardSpecs
    BY <1>2
  <2> QED BY <1>4, <2>1, <2>2 DEF Page!Form, FormType, Page!IsReference
<1>7. new \in Seq(CardType(f + m, cache)) /\ Len(new) = m
  <2> DEFINE C(i) == Page!Card(ids[i], answer[ids[i]], f + i)
             T == CardType(f + m, cache)
  <2>1. \A i \in 1 .. m : C(i) \in T
    BY <1>5
  <2> HIDE DEF C, T
  <2>2. [i \in 1 .. m |-> C(i)] \in Seq(T) /\ Len([i \in 1 .. m |-> C(i)]) = m
    BY <1>1, <2>1
  <2> QED BY <2>2 DEF C, T
<1>8. newForms \in Seq(FormType(cache)) /\ Len(newForms) = m
  <2> DEFINE C(i) == Page!Form(answer[ids[i]])
             T == FormType(cache)
  <2>1. \A i \in 1 .. m : C(i) \in T
    BY <1>6
  <2> HIDE DEF C, T
  <2>2. [i \in 1 .. m |-> C(i)] \in Seq(T) /\ Len([i \in 1 .. m |-> C(i)]) = m
    BY <1>1, <2>1
  <2> QED BY <2>2 DEF C, T
<1>9. old \in Seq(CardType(f + m, cache)) /\ Len(old) = n
  <2>1. old \in Seq(CardType(f, cache)) /\ Len(old) = n
    BY UnlistedAre DEF f, n
  <2>2. f + m \in Nat /\ f <= f + m
    BY <1>1, <1>2
  <2>3. Seq(CardType(f, cache)) \subseteq Seq(CardType(f + m, cache))
    BY <1>2, <2>2, WiderCards
  <2> QED BY <2>1, <2>3
<1> HIDE DEF old, new, newForms
<1>10. cards' \in Seq(CardType(f + m, cache)) /\ Len(cards') = n + m
  <2> DEFINE T == CardType(f + m, cache)
  <2> HIDE DEF T
  <2>1. old \in Seq(T) /\ new \in Seq(T)
    BY <1>7, <1>9 DEF T
  <2>2. old \o new \in Seq(T) /\ Len(old \o new) = Len(old) + Len(new)
    BY <2>1, ConcatProperties
  <2> QED BY <1>3, <1>7, <1>9, <2>2 DEF T
<1>11. forms' \in Seq(FormType(cache)) /\ Len(forms') = f + m
  <2> DEFINE T == FormType(cache)
  <2> HIDE DEF T
  <2>1. forms \in Seq(T) /\ newForms \in Seq(T)
    BY <1>2, <1>8 DEF T
  <2>2. forms \o newForms \in Seq(T) /\ Len(forms \o newForms) = Len(forms) + Len(newForms)
    BY <2>1, ConcatProperties
  <2> QED BY <1>3, <1>8, <2>2 DEF T, f
<1>12. ASSUME NEW r \in sent' PROVE RequestOk(r, n + m)
  <2>1. CASE r \in others
    <3>1. RequestOk(r, n)
      BY <2>1 DEF PageInv, n
    <3>2. n + m \in Nat /\ n <= n + m
      BY <1>1, <1>2
    <3> QED BY <1>2, <3>1, <3>2, WiderRequests
  <2>2. CASE r \notin others
    <3>1. PICK i \in missing : r = Page!SpecRequest(n + i, answer[ids[i]].spec, "show", {}, None)
      BY <1>3, <2>2
    <3>2. i \in 1 .. m /\ answer[ids[i]].spec \in CardSpecs
      <4>1. i \in 1 .. m /\ answer[ids[i]].spec # None
        BY <1>1
      <4> QED BY <1>4, <4>1
    <3>3. n + i \in 1 .. n + m
      BY <1>1, <1>2, <3>2
    <3> HIDE DEF missing
    <3> QED BY <3>1, <3>2, <3>3 DEF Page!SpecRequest, RequestOk, SpecOk
  <2> QED BY <2>1, <2>2
<1>13. StoredOk' /\ cache' \subseteq CardSpecs
  BY <1>3 DEF PageInv, StoredOk
<1> QED BY <1>3, <1>10, <1>11, <1>12, <1>13 DEF PageInv

LEMMA ShowDataKeeps ==
  ASSUME PageInv, Page!CardsAssumption, NEW r \in sent, r.kind = "polled",
         NEW others \in SUBSET sent, Page!ShowData(r, others)
  PROVE  PageInv'
<1>1. sent' = others /\ UNCHANGED <<stored, cache, forms>>
  BY DEF Page!ShowData
<1>2. \A q \in sent' : RequestOk(q, Len(cards))
  BY <1>1 DEF PageInv
<1>3. CASE Page!First(r.id) = {}
  <2>1. UNCHANGED cards
    BY <1>3 DEF Page!ShowData
  <2> QED BY <1>1, <1>2, <2>1 DEF PageInv, StoredOk
<1>4. CASE Page!First(r.id) # {}
  <2>1. PICK k \in DOMAIN cards : Page!Min(Page!First(r.id)) = k
    BY <1>4, FirstIsCard
  <2> DEFINE new == [cards[k] EXCEPT !.slave = r.slave, !.has = None]
             old == Page!Unlisted({k})
             T == CardType(Len(forms), cache)
  <2>2. cards' = Append(old, new)
    BY <1>4, <2>1 DEF Page!ShowData
  <2>3. r.slave \in Page!SlaveType
    BY DEF PageInv, RequestOk, SlaveOk
  <2>4. new \in T
    BY <2>3, CardFacts DEF CardType
  <2>5. old \in Seq(T) /\ Len(old) = Len(cards)
    BY UnlistedAre
  <2> HIDE DEF old, new, T
  <2>6. cards' \in Seq(T) /\ Len(cards') = Len(cards) + 1
    BY <2>2, <2>4, <2>5
  <2>7. Len(cards) \in Nat /\ Len(cards) + 1 \in Nat /\ Len(cards) <= Len(cards) + 1
    BY DEF PageInv
  <2>8. \A q \in sent' : RequestOk(q, Len(cards'))
    BY <1>2, <2>6, <2>7, WiderRequests
  <2> QED BY <1>1, <2>6, <2>8 DEF PageInv, StoredOk, T
<1> QED BY <1>3, <1>4

LEMMA ArriveKeeps ==
  ASSUME PageInv, Page!CardsAssumption, NEW r \in sent, Page!Arrive(r)
  PROVE  PageInv'
<1> DEFINE others == sent \ {r}
<1>0. others \in SUBSET sent /\ RequestOk(r, Len(cards)) /\ Len(cards) \in Nat
  BY DEF PageInv
<1>1. CASE r.kind = "spec"
  <2>1. Page!Reaches(r.card, cards[r.card], r.spec, r.then, r.chosen, r.wanted, others)
    BY <1>1 DEF Page!Arrive
  <2>2. SpecOk(r, Len(cards))
    BY <1>0, <1>1 DEF RequestOk
  <2>3. r.card \in DOMAIN cards
    BY <1>0, <2>2 DEF SpecOk, PageInv
  <2>4. cards[r.card] \in CardType(Len(forms), cache)
    BY <2>3, CardFacts
  <2>5. r.spec \in CardSpecs /\ r.then \in {"show", "change", "save"} /\ r.wanted = None
    BY <2>2 DEF SpecOk
  <2> QED BY <1>0, <2>1, <2>3, <2>4, <2>5, ReachesKeeps
<1>2. CASE r.kind = "list"
  <2>1. Page!Show(r.slaves, Page!Shown, others)
    BY <1>2 DEF Page!Arrive
  <2>2. ListOk(r)
    BY <1>0, <1>2 DEF RequestOk
  <2> QED BY <1>0, <2>1, <2>2, ShowKeeps DEF ListOk
<1>3. CASE r.kind \in {"saved", "added"}
  <2> DEFINE answer == [id \in {r.id} |-> r.slave]
  <2>1. \E ks : Page!Show(answer, ks, others)
    BY <1>3 DEF Page!Arrive
  <2>2. SlaveOk(r)
    BY <1>0, <1>3 DEF RequestOk
  <2>3. DOMAIN answer \subseteq CardIds /\ \A id \in DOMAIN answer : answer[id] \in Page!SlaveType
    BY <2>2 DEF SlaveOk
  <2> HIDE DEF answer
  <2> QED BY <1>0, <2>1, <2>3, ShowKeeps
<1>4. CASE r.kind = "polled"
  <2>1. Page!ShowData(r, others)
    BY <1>4 DEF Page!Arrive
  <2> QED BY <1>0, <1>4, <2>1, ShowDataKeeps
<1>5. CASE r.kind = "conflict"
  <2>1. Page!PostDelete(r.id, TRUE, others) /\ UNCHANGED <<cards, forms, cache>>
    BY <1>5 DEF Page!Arrive
  <2>2. r.id \in CardIds
    BY <1>0, <1>5 DEF RequestOk
  <2> QED BY <1>0, <2>1, <2>2, DeleteKeeps, CardsStay
<1>6. CASE r.kind = "deleted"
  <2>1. sent' = others \cup {Page!ListRequest(stored)} /\ UNCHANGED <<stored, cards, forms, cache>>
    BY <1>6 DEF Page!Arrive
  <2>2. StoredOk
    BY DEF PageInv
  <2>3. ListOk(Page!ListRequest(stored)) /\ Page!ListRequest(stored).kind = "list"
    <3>1. \A id \in DOMAIN stored : Page!Sent(stored, id) \in Page!SlaveType
      BY <2>2, SentIsSlave DEF StoredOk
    <3> QED BY <2>2, <3>1 DEF ListOk, Page!ListRequest, StoredOk
  <2>4. \A q \in sent' : RequestOk(q, Len(cards))
    BY <2>1, <2>3 DEF PageInv, RequestOk
  <2> QED BY <2>1, <2>2, <2>4, CardsStay DEF StoredOk
<1> QED BY <1>0, <1>1, <1>2, <1>3, <1>4, <1>5, <1>6 DEF RequestOk

(* A step at a card changes its form or what the card has.                           *)
LEMMA FormChanges ==
  ASSUME PageInv, NEW k \in DOMAIN cards, NEW form \in FormType(cache),
         forms' = [forms EXCEPT ![cards[k].form] = form], UNCHANGED <<stored, cards, cache, sent>>
  PROVE  PageInv'
<1>1. cards[k].form \in 1 .. Len(forms) /\ Len(forms) \in Nat
  BY CardFacts
<1>2. forms' \in Seq(FormType(cache)) /\ Len(forms') = Len(forms)
  <2> DEFINE T == FormType(cache)
  <2>1. forms \in Seq(T) /\ form \in T
    BY DEF PageInv
  <2> HIDE DEF T
  <2>2. forms' \in Seq(T) /\ Len(forms') = Len(forms)
    BY <1>1, <2>1
  <2> QED BY <2>2 DEF T
<1> QED BY <1>2 DEF PageInv, StoredOk

LEMMA ChooseKeeps ==
  ASSUME PageInv, NEW k \in DOMAIN cards, Page!Touch(k) \/ Page!Choose(k) \/ Page!Cancel(k)
  PROVE  PageInv'
<1> DEFINE form == Page!FormOf(k)
<1>1. form \in FormType(cache) /\ cards[k].slave \in Page!SlaveType
      /\ cards[k].has \in cache \cup {None} /\ cache \in SUBSET CardSpecs
  BY CardFacts DEF Page!FormOf, PageInv
<1>2. ASSUME NEW b \in BOOLEAN PROVE [form EXCEPT !.touched = b] \in FormType(cache)
  <2> HIDE DEF form
  <2> QED BY <1>1 DEF FormType
<1>3. CASE Page!Touch(k)
  BY <1>2, <1>3, FormChanges DEF Page!Touch, Page!Touched
<1>4. CASE Page!Choose(k)
  <2>1. PICK chosen \in SUBSET EntitiesOf[form.of] : Page!Touched(k, [form EXCEPT !.chosen = chosen])
    BY <1>4 DEF Page!Choose
  <2>2. form.of # None /\ UNCHANGED <<stored, cards, cache, sent>>
    BY <1>4 DEF Page!Choose
  <2> HIDE DEF form
  <2>3. form.of \in CardSpecs
    BY <1>1, <2>2 DEF FormType
  <2>4. chosen \in SUBSET Announced
    BY <2>1, <2>3 DEF Announced
  <2>5. [[form EXCEPT !.chosen = chosen] EXCEPT !.touched = TRUE] \in FormType(cache)
    <3>1. [form EXCEPT !.chosen = chosen] \in FormType(cache)
      BY <1>1, <2>4 DEF FormType
    <3> QED BY <3>1 DEF FormType
  <2>6. forms' = [forms EXCEPT ![cards[k].form] = [[form EXCEPT !.chosen = chosen] EXCEPT !.touched = TRUE]]
    BY <2>1 DEF Page!Touched
  <2> QED BY <2>2, <2>5, <2>6, FormChanges
<1>5. CASE Page!Cancel(k)
  <2> DEFINE card == cards[k]
             back == [form EXCEPT !.touched = FALSE]
             empty == [back EXCEPT !.spec = card.slave.spec, !.chosen = {}, !.of = None]
             full == [back EXCEPT !.spec = card.slave.spec]
  <2>1. UNCHANGED <<stored, cards, cache, sent>>
        /\ forms' = [forms EXCEPT ![card.form] =
             IF Page!IsReference(card.slave) \/ ~back.full THEN back
             ELSE IF card.has = None THEN empty ELSE Page!Listing(full, card)]
    BY <1>5 DEF Page!Cancel
  <2>2. card.slave.spec \in CardSpecs \cup {None}
    BY <1>1 DEF Page!SlaveType
  <2>3. back \in FormType(cache)
    BY <1>2
  <2> HIDE DEF form, card, back
  <2>4. empty \in FormType(cache)
    BY <2>2, <2>3 DEF FormType
  <2>5. full \in FormType(cache)
    BY <2>2, <2>3 DEF FormType
  <2> HIDE DEF full, empty
  <2>6. card.has # None => Page!Listing(full, card) \in FormType(cache)
    BY <1>1, <2>5, ListingIs DEF card
  <2>7. (IF Page!IsReference(card.slave) \/ ~back.full THEN back
         ELSE IF card.has = None THEN empty ELSE Page!Listing(full, card)) \in FormType(cache)
    BY <2>3, <2>4, <2>6
  <2> QED BY <2>1, <2>7, FormChanges DEF card
<1> QED BY <1>3, <1>4, <1>5

LEMMA ChangeKeeps ==
  ASSUME PageInv, Page!CardsAssumption, NEW k \in DOMAIN cards,
         NEW spec \in CardSpecs \cup {None}, Page!ChangeSpecification(k, spec)
  PROVE  PageInv'
<1> DEFINE n == Len(forms)
           T == CardType(n, cache)
           card == [cards[k] EXCEPT !.slave.spec = spec, !.has = IF spec = None THEN None ELSE @]
           form == [Page!FormOf(k) EXCEPT !.spec = spec, !.touched = TRUE]
           slave == [cards[k].slave EXCEPT !.spec = spec]
           has == IF spec = None THEN None ELSE cards[k].has
           shownCard == [card EXCEPT !.has = spec, !.slave.hidden = {}]
<1>1. /\ cards[k] \in T /\ cards[k].slave \in Page!SlaveType /\ cards[k].has \in cache \cup {None}
      /\ cards[k].form \in 1 .. n /\ n \in Nat /\ Len(cards) \in Nat /\ k \in 1 .. Len(cards)
      /\ Page!FormOf(k) \in FormType(cache)
  BY CardFacts DEF Page!FormOf
<1>2. form \in FormType(cache)
  <2> DEFINE old == Page!FormOf(k)
  <2> HIDE DEF old
  <2>1. [old EXCEPT !.spec = spec, !.touched = TRUE] \in FormType(cache)
    BY <1>1 DEF FormType, old
  <2> QED BY <2>1 DEF old
<1>3. slave \in Page!SlaveType /\ [slave EXCEPT !.hidden = {}] \in Page!SlaveType
      /\ slave.hidden = cards[k].slave.hidden
  BY <1>1 DEF Page!SlaveType
<1>4. /\ card = [id |-> cards[k].id, slave |-> slave, form |-> cards[k].form,
                 listed |-> cards[k].listed, has |-> has]
      /\ card \in T
  <2> DEFINE c0 == cards[k]
             u == [c0 EXCEPT !.slave = slave]
  <2> HIDE DEF slave, has, c0
  <2>1. u = [id |-> c0.id, slave |-> slave, form |-> c0.form, listed |-> c0.listed, has |-> c0.has]
    BY <1>1 DEF CardType, c0
  <2>2. card = [u EXCEPT !.has = has]
    BY <1>1, <2>1 DEF CardType, slave, has, c0
  <2> HIDE DEF u, card
  <2>3. card = [id |-> c0.id, slave |-> slave, form |-> c0.form, listed |-> c0.listed, has |-> has]
    BY <2>1, <2>2
  <2>4. has \in cache \cup {None}
    BY <1>1 DEF has
  <2> QED BY <1>1, <1>3, <2>3, <2>4 DEF CardType, c0
<1>5. shownCard \in CardType(n, cache \cup {spec}) /\ shownCard.form = cards[k].form
      /\ shownCard.has = spec
  <2> DEFINE u == [card EXCEPT !.has = spec]
             s == [slave EXCEPT !.hidden = {}]
  <2> HIDE DEF s, card, slave
  <2>1. u = [id |-> cards[k].id, slave |-> slave, form |-> cards[k].form,
             listed |-> cards[k].listed, has |-> spec]
    BY <1>4
  <2>2. shownCard = [u EXCEPT !.slave = s]
    BY <1>4, <2>1 DEF s
  <2> HIDE DEF u, shownCard
  <2>3. shownCard = [id |-> cards[k].id, slave |-> s, form |-> cards[k].form,
                     listed |-> cards[k].listed, has |-> spec]
    BY <2>1, <2>2
  <2>4. s \in Page!SlaveType
    BY <1>3 DEF s
  <2> QED BY <1>1, <2>3, <2>4 DEF CardType
<1>6. cards[k].form = card.form
  <2> HIDE DEF card
  <2> QED BY <1>4
<1>7. cache \in SUBSET CardSpecs /\ cards \in Seq(T) /\ forms \in Seq(FormType(cache)) /\ StoredOk
      /\ \A r \in sent : RequestOk(r, Len(cards))
  BY DEF PageInv
<1>8. /\ UNCHANGED <<stored, cache>>
      /\ IF spec \in cache
         THEN /\ cards' = [cards EXCEPT ![k] = shownCard]
              /\ forms' = [forms EXCEPT ![card.form] = Page!Listing(form, cards'[k])]
              /\ UNCHANGED sent
         ELSE /\ cards' = [cards EXCEPT ![k] = card]
              /\ forms' = [forms EXCEPT ![card.form] = form]
              /\ sent' = IF spec = None THEN sent
                         ELSE sent \cup {Page!SpecRequest(k, spec, "change", {}, None)}
  BY DEF Page!ChangeSpecification
<1> HIDE DEF card, form, shownCard, slave, has, n, T
<1>9. CASE spec \in cache
  <2>1. cache \cup {spec} = cache
    BY <1>9
  <2>2. shownCard \in T
    BY <1>5, <2>1 DEF T
  <2>3. cards' \in Seq(T) /\ Len(cards') = Len(cards) /\ cards'[k] = shownCard
    BY <1>1, <1>7, <1>8, <1>9, <2>2
  <2>4. Page!Listing(form, shownCard) \in FormType(cache)
    BY <1>2, <1>5, <1>7, <1>9, ListingIs
  <2>5. forms' = [forms EXCEPT ![cards[k].form] = Page!Listing(form, shownCard)]
    BY <1>6, <1>8, <1>9, <2>3
  <2> DEFINE F == FormType(cache)
             new == Page!Listing(form, shownCard)
  <2> HIDE DEF F, new
  <2>6. forms \in Seq(F) /\ new \in F /\ n = Len(forms)
    BY <1>7, <2>4 DEF F, new, n
  <2>7. forms' \in Seq(F) /\ Len(forms') = n
    BY <1>1, <2>5, <2>6 DEF new
  <2> QED BY <1>7, <1>8, <1>9, <2>3, <2>7 DEF PageInv, StoredOk, T, F
<1>10. CASE spec \notin cache
  <2>1. cards' \in Seq(T) /\ Len(cards') = Len(cards)
    BY <1>1, <1>4, <1>7, <1>8, <1>10
  <2> DEFINE F == FormType(cache)
  <2> HIDE DEF F
  <2>2. forms \in Seq(F) /\ form \in F /\ n = Len(forms)
    BY <1>2, <1>7 DEF F, n
  <2>3. forms' \in Seq(F) /\ Len(forms') = n
    <3>1. forms' = [forms EXCEPT ![cards[k].form] = form] /\ cards[k].form \in 1 .. n
      BY <1>1, <1>6, <1>8, <1>10
    <3> QED BY <2>2, <3>1
  <2>4. ASSUME NEW r \in sent' PROVE RequestOk(r, Len(cards))
    <3>1. CASE r \in sent
      BY <1>7, <3>1
    <3>2. CASE r \notin sent
      <4>1. r = Page!SpecRequest(k, spec, "change", {}, None) /\ spec # None
        BY <1>8, <1>10, <3>2
      <4> QED BY <1>1, <4>1 DEF Page!SpecRequest, RequestOk, SpecOk
    <3> QED BY <3>1, <3>2
  <2> QED BY <1>7, <1>8, <2>1, <2>3, <2>4 DEF PageInv, StoredOk, T, F
<1> QED BY <1>9, <1>10

LEMMA SaveKeeps ==
  ASSUME PageInv, Page!CardsAssumption, NEW k \in DOMAIN cards, Page!Save(k)
  PROVE  PageInv'
<1> DEFINE card == cards[k]
           form == Page!FormOf(k)
           slave == [card.slave EXCEPT !.spec = form.spec]
           new == [card EXCEPT !.slave.spec = form.spec]
<1>1. /\ card \in CardType(Len(forms), cache) /\ card.slave \in Page!SlaveType /\ card.id \in CardIds
      /\ form \in FormType(cache) /\ Len(cards) \in Nat /\ k \in 1 .. Len(cards)
  BY CardFacts DEF Page!FormOf
<1>2. CASE Page!IsReference(card.slave) \/ form.spec = None
  <2>1. Page!Post(card.id, card.slave, "saved", None, sent) /\ UNCHANGED <<cards, forms, cache>>
    BY <1>2 DEF Page!Save
  <2> QED BY <1>1, <2>1, PostKeeps, CardsStay
<1>3. CASE ~(Page!IsReference(card.slave) \/ form.spec = None)
  <2>1. Page!AddSpecification(k, new, "save", form.chosen, Page!Wanted(form))
    BY <1>3 DEF Page!Save
  <2>2. card.slave.ref = None /\ form.spec \in CardSpecs
    BY <1>1, <1>3 DEF Page!IsReference, FormType
  <2>3. slave \in Page!SlaveType /\ slave.ref = None /\ slave.spec = form.spec
    <3> HIDE DEF card, form
    <3> QED BY <1>1, <2>2 DEF Page!SlaveType
  <2>4. new \in CardType(Len(forms), cache) /\ new.slave = slave
    <3>1. new = [card EXCEPT !.slave = slave]
      BY <1>1 DEF CardType
    <3> HIDE DEF slave, new, card
    <3>2. [card EXCEPT !.slave = slave] \in CardType(Len(forms), cache)
          /\ [card EXCEPT !.slave = slave].slave = slave
      BY <1>1, <2>3 DEF CardType
    <3> QED BY <3>1, <3>2
  <2>5. Page!Wanted(form) = None
        \/ (form.of = form.spec /\ Page!Wanted(form) = [spec |-> form.spec, chosen |-> form.chosen])
    BY DEF Page!Wanted
  <2> HIDE DEF card, form, slave, new
  <2>6. CASE form.spec \in cache
    <3>1. Page!Reaches(k, new, form.spec, "save", form.chosen, Page!Wanted(form), sent)
      BY <2>1, <2>3, <2>4, <2>6 DEF Page!AddSpecification
    <3> QED BY <2>2, <2>3, <2>4, <2>5, <3>1, ReachesKeeps
  <2>7. CASE form.spec \notin cache
    <3>1. cards' = [cards EXCEPT ![k] = new] /\ UNCHANGED <<stored, forms, cache>>
          /\ sent' = sent \cup {Page!SpecRequest(k, form.spec, "save", form.chosen, Page!Wanted(form))}
      BY <2>1, <2>3, <2>4, <2>7 DEF Page!AddSpecification
    <3>2. Page!Wanted(form) = None
      BY <1>1, <2>2, <2>5, <2>7, PageFacts DEF FormType
    <3> DEFINE T == CardType(Len(forms), cache)
    <3> HIDE DEF T
    <3>3. cards \in Seq(T) /\ new \in T
      BY <2>4 DEF PageInv, T
    <3>4. cards' \in Seq(T) /\ Len(cards') = Len(cards)
      BY <1>1, <3>1, <3>3
    <3>5. RequestOk(Page!SpecRequest(k, form.spec, "save", form.chosen, None), Len(cards))
      BY <1>1, <2>2 DEF Page!SpecRequest, RequestOk, SpecOk
    <3>6. \A r \in sent' : RequestOk(r, Len(cards))
      BY <3>1, <3>2, <3>5 DEF PageInv
    <3> QED BY <3>1, <3>4, <3>6 DEF PageInv, StoredOk, T
  <2> QED BY <2>6, <2>7
<1> QED BY <1>2, <1>3

LEMMA PollKeeps ==
  ASSUME PageInv, NEW k \in DOMAIN cards, Page!Poll(k)
  PROVE  PageInv'
<1> DEFINE id == cards[k].id
<1>1. sent' = sent \cup {Page!Request("polled", id, Page!Sent(stored, id), None)}
      /\ UNCHANGED <<stored, cards, forms, cache>> /\ id \in DOMAIN stored
  BY DEF Page!Poll
<1>2. Page!Sent(stored, id) \in Page!SlaveType /\ id \in CardIds
  BY <1>1, SentIsSlave DEF PageInv, StoredOk
<1>3. RequestOk(Page!Request("polled", id, Page!Sent(stored, id), None), Len(cards))
  BY <1>2 DEF RequestOk, SlaveOk, Page!Request
<1> QED BY <1>1, <1>3, CardsStay DEF PageInv, StoredOk

LEMMA DetachKeeps ==
  ASSUME PageInv, Page!CardsAssumption, NEW k \in DOMAIN cards, Page!Detach(k)
  PROVE  PageInv'
<1> DEFINE card == cards[k]
           slave == [card.slave EXCEPT !.ref = None]
           new == [card EXCEPT !.slave.ref = None]
           T == CardType(Len(forms), cache)
<1>1. card \in T /\ card.slave \in Page!SlaveType /\ card.id \in CardIds
      /\ Len(cards) \in Nat /\ k \in 1 .. Len(cards) /\ cards \in Seq(T)
  BY CardFacts DEF PageInv
<1>2. slave \in Page!SlaveType
  <2> HIDE DEF card
  <2> QED BY <1>1 DEF Page!SlaveType
<1>3. new \in T /\ new.slave = slave
  <2>1. new = [card EXCEPT !.slave = slave]
    BY <1>1 DEF CardType
  <2> HIDE DEF slave, new, card
  <2>2. [card EXCEPT !.slave = slave] \in T /\ [card EXCEPT !.slave = slave].slave = slave
    BY <1>1, <1>2 DEF CardType
  <2> QED BY <2>1, <2>2
<1>4. cards' = [cards EXCEPT ![k] = new] /\ Page!Post(card.id, cards'[k].slave, "saved", None, sent)
      /\ UNCHANGED <<forms, cache>>
  <2>1. cards' = [cards EXCEPT ![k].slave.ref = None]
    BY DEF Page!Detach
  <2>2. [cards EXCEPT ![k].slave.ref = None] = [cards EXCEPT ![k] = new]
    BY <1>1
  <2> QED BY <2>1, <2>2 DEF Page!Detach
<1> HIDE DEF card, new, slave, T
<1>5. cards' \in Seq(T) /\ Len(cards') = Len(cards) /\ cards'[k].slave = slave
  BY <1>1, <1>3, <1>4
<1>6. StoredOk' /\ \A r \in sent' : RequestOk(r, Len(cards))
  BY <1>1, <1>2, <1>4, <1>5, PostKeeps
<1> QED BY <1>4, <1>5, <1>6 DEF PageInv, T

LEMMA AddKeeps ==
  ASSUME PageInv, Page!CardsAssumption, NEW id \in CardIds, NEW ref \in CardIds \cup {None},
         Page!Add(id, ref)
  PROVE  PageInv'
<1>1. Page!Post(id, Page!Slave(ref, None, {}), "added", None, sent) /\ UNCHANGED <<cards, forms, cache>>
  BY DEF Page!Add
<1>2. Page!Slave(ref, None, {}) \in Page!SlaveType
  BY DEF Page!Slave, Page!SlaveType
<1> QED BY <1>1, <1>2, PostKeeps, CardsStay

LEMMA PageInit == ASSUME Page!Init, Page!CardsAssumption PROVE PageInv
<1>1. StoredOk
  BY DEF Page!Init, Page!CardsAssumption, StoredOk
<1>2. ListOk(Page!ListRequest(stored)) /\ Page!ListRequest(stored).kind = "list"
  <2>1. \A id \in DOMAIN stored : Page!Sent(stored, id) \in Page!SlaveType
    BY <1>1, SentIsSlave DEF StoredOk
  <2> QED BY <1>1, <2>1 DEF ListOk, Page!ListRequest, StoredOk
<1> QED BY <1>1, <1>2 DEF Page!Init, PageInv, RequestOk

LEMMA PageNext ==
  ASSUME PageInv, Page!CardsAssumption, [Page!Next]_pageVars PROVE PageInv'
<1>1. CASE Page!UserStep
  <2>1. ASSUME NEW k \in Page!Shown, Page!Touch(k) \/ Page!Choose(k) \/ Page!Cancel(k) PROVE PageInv'
    BY <2>1, ChooseKeeps DEF Page!Shown
  <2>2. ASSUME NEW k \in Page!Shown, NEW spec \in CardSpecs \cup {None}, Page!ChangeSpecification(k, spec)
        PROVE PageInv'
    BY <2>2, ChangeKeeps DEF Page!Shown
  <2>3. ASSUME NEW k \in Page!Shown, Page!Save(k) PROVE PageInv'
    BY <2>3, SaveKeeps DEF Page!Shown
  <2>4. ASSUME NEW k \in Page!Shown, Page!Poll(k) PROVE PageInv'
    BY <2>4, PollKeeps DEF Page!Shown
  <2>5. ASSUME NEW k \in Page!Shown, Page!Detach(k) PROVE PageInv'
    BY <2>5, DetachKeeps DEF Page!Shown
  <2>6. ASSUME NEW k \in Page!Shown, Page!Delete(k) PROVE PageInv'
    <3>1. Page!PostDelete(cards[k].id, FALSE, sent) /\ UNCHANGED <<cards, forms, cache>>
      BY <2>6 DEF Page!Delete
    <3>2. cards[k].id \in CardIds
      BY CardFacts DEF Page!Shown
    <3> QED BY <3>1, <3>2, DeleteKeeps, CardsStay
  <2> QED BY <1>1, <2>1, <2>2, <2>3, <2>4, <2>5, <2>6, AddKeeps DEF Page!UserStep
<1>2. CASE Page!Answer
  BY <1>2, ArriveKeeps DEF Page!Answer
<1>3. CASE UNCHANGED pageVars
  BY <1>3 DEF PageInv, StoredOk, pageVars
<1> QED BY <1>1, <1>2, <1>3 DEF Page!Next

(* What the server has stored is what the user saw when saving, however answers, polls,  *)
(* cancelled edits and replaced cards interleave (saveSlave).                        *)
THEOREM ShownIsSaved == PartsSpec => []SavesWhatIsShown
<1>1. Begin => PageInv
  BY BeginsWithEach, PageInit, PartsAssumption
<1>2. PageInv /\ [Step]_allVars => PageInv'
  BY StepsOfEach, PageNext, PartsAssumption
<1>3. PageInv => SavesWhatIsShown
  BY DEF PageInv, RequestOk, SlaveOk, Faithful, SavesWhatIsShown, Page!SavesWhatIsShown
<1> QED BY <1>1, <1>2, <1>3, PTL DEF PartsSpec
=============================================================================
