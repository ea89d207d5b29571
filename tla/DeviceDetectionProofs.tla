------------------------ MODULE DeviceDetectionProofs ------------------------
(***************************************************************************)
(* What a detection reads (DeviceDetection), for all values of the constants.        *)
(***************************************************************************)
EXTENDS ManagementParts, FiniteSetTheorems, SequenceTheorems, FoldProofs, TLAPS

(***************************************************************************)
(* Registers have an order.                                                      *)
(***************************************************************************)

LEMMA DetectionCardinality == ASSUME NEW S PROVE Detection!Cardinality(S) = Cardinality(S)
BY Zenon DEF Detection!Cardinality, Cardinality

LEMMA DetectionFinite == ASSUME NEW S PROVE Detection!IsFiniteSet(S) <=> IsFiniteSet(S)
BY Zenon DEF Detection!IsFiniteSet, IsFiniteSet

Rising(q, S) ==
  /\ q \in [1 .. Cardinality(S) -> S]
  /\ \A i, j \in 1 .. Cardinality(S) : i < j => Detection!Before(q[i], q[j])

LEMMA OrderOfRegisters ==
  ASSUME NEW r \in Nat \X Nat, NEW s \in Nat \X Nat
  PROVE  /\ ~Detection!Before(r, r)
         /\ r = s \/ Detection!Before(r, s) \/ Detection!Before(s, r)
         /\ ~(Detection!Before(r, s) /\ Detection!Before(s, r))
         /\ \A t \in Nat \X Nat :
              Detection!Before(t, r) /\ Detection!Before(r, s) => Detection!Before(t, s)
BY DEF Detection!Before

(* However registers are given, there is one way to sort them, and none is left out.         *)
LEMMA RegistersAreSorted ==
  ASSUME NEW S \in SUBSET (Nat \X Nat), IsFiniteSet(S)
  PROVE  Rising(Detection!Sorted(S), S) /\ \A x \in S : \E i \in 1 .. Cardinality(S) : Detection!Sorted(S)[i] = x
<1> DEFINE n == Cardinality(S)
           upTo(x) == {y \in S : y = x \/ Detection!Before(y, x)}
           rank == [x \in S |-> Cardinality(upTo(x))]
           q == [i \in 1 .. n |-> CHOOSE x \in S : rank[x] = i]
           sorted == Detection!Sorted(S)
<1>0. \A x \in S : x \in Nat \X Nat
  OBVIOUS
<1>1. n \in Nat
  BY FS_CardinalityType
<1>2. ASSUME NEW x \in S PROVE IsFiniteSet(upTo(x)) /\ rank[x] \in 1 .. n
  <2>1. upTo(x) \in SUBSET S /\ x \in upTo(x)
    OBVIOUS
  <2>2. IsFiniteSet(upTo(x)) /\ Cardinality(upTo(x)) <= n /\ Cardinality(upTo(x)) \in Nat
    BY <2>1, FS_Subset, FS_CardinalityType
  <2>3. Cardinality(upTo(x)) # 0
    BY <2>1, <2>2, FS_EmptySet
  <2>4. rank[x] = Cardinality(upTo(x))
    OBVIOUS
  <2> HIDE DEF upTo, rank, n
  <2> QED BY <2>2, <2>3, <2>4, <1>1
<1>3. ASSUME NEW x \in S, NEW y \in S, Detection!Before(x, y) PROVE rank[x] < rank[y]
  <2>1. upTo(x) \in SUBSET upTo(y) /\ y \in upTo(y) \ upTo(x)
    <3>1. ASSUME NEW z \in S, z = x \/ Detection!Before(z, x) PROVE Detection!Before(z, y)
      BY <1>0, <1>3, <3>1, OrderOfRegisters
    <3>2. ~(y = x \/ Detection!Before(y, x))
      BY <1>0, <1>3, OrderOfRegisters
    <3> QED BY <3>1, <3>2
  <2>2. Cardinality(upTo(x)) <= Cardinality(upTo(y)) /\ Cardinality(upTo(x)) # Cardinality(upTo(y))
    BY <1>2, <2>1, FS_Subset
  <2>3. rank[x] = Cardinality(upTo(x)) /\ rank[y] = Cardinality(upTo(y))
    OBVIOUS
  <2>4. rank[x] \in 1 .. n /\ rank[y] \in 1 .. n
    BY <1>2
  <2> HIDE DEF upTo, rank, n
  <2> QED BY <1>1, <2>2, <2>3, <2>4
<1>4. rank \in [S -> 1 .. n]
  BY <1>2
<1> HIDE DEF rank, n
<1>5. rank \in Surjection(S, 1 .. n)
  <2>1. rank \in Injection(S, 1 .. n)
    <3>1. ASSUME NEW x \in S, NEW y \in S, rank[x] = rank[y] PROVE x = y
      <4>1. rank[x] \in Int /\ rank[y] \in Int
        BY <1>1, <1>4
      <4>2. ~Detection!Before(x, y) /\ ~Detection!Before(y, x)
        BY <1>3, <3>1, <4>1
      <4> QED BY <1>0, <4>2, OrderOfRegisters
    <3> QED BY <1>4, <3>1 DEF Injection, IsInjective
  <2>2. IsFiniteSet(1 .. n) /\ Cardinality(1 .. n) = Cardinality(S)
    BY <1>1, FS_Interval DEF n
  <2> QED BY <2>1, <2>2, FS_Injection
<1>6. ASSUME NEW i \in 1 .. n PROVE q[i] \in S /\ rank[q[i]] = i
  BY <1>5 DEF Surjection
<1> HIDE DEF q
<1>7. q \in [1 .. n -> S]
  BY <1>6 DEF q
<1>8. ASSUME NEW i \in 1 .. n, NEW j \in 1 .. n, i < j PROVE Detection!Before(q[i], q[j])
  <2>1. q[i] \in S /\ q[j] \in S /\ rank[q[i]] = i /\ rank[q[j]] = j
    BY <1>6
  <2>2. ~Detection!Before(q[j], q[i])
    <3>1. Detection!Before(q[j], q[i]) => rank[q[j]] < rank[q[i]]
      BY <1>3, <2>1
    <3> QED BY <1>1, <1>8, <2>1, <3>1
  <2>3. q[i] # q[j]
    BY <1>1, <1>8, <2>1
  <2> QED BY <1>0, <2>1, <2>2, <2>3, OrderOfRegisters
<1>9. Rising(q, S)
  BY <1>7, <1>8 DEF Rising, n
<1>10. Rising(sorted, S)
  <2>1. sorted = CHOOSE f \in [1 .. Cardinality(S) -> S] :
                   \A i, j \in 1 .. Cardinality(S) : i < j => Detection!Before(f[i], f[j])
    BY DetectionCardinality DEF Detection!Sorted
  <2> HIDE DEF sorted
  <2> QED BY <1>9, <2>1 DEF Rising
<1> HIDE DEF sorted
<1>11. sorted \in Injection(1 .. n, S)
  <2>1. ASSUME NEW i \in 1 .. n, NEW j \in 1 .. n, sorted[i] = sorted[j] PROVE i = j
    <3>1. sorted[i] \in Nat \X Nat
      BY <1>0, <1>10 DEF Rising, n
    <3>2. ~(i < j) /\ ~(j < i)
      BY <1>10, <2>1, <3>1, OrderOfRegisters DEF Rising, n
    <3> QED BY <1>1, <3>2
  <2> QED BY <1>10, <2>1 DEF Rising, n, Injection, IsInjective
<1>12. sorted \in Surjection(1 .. n, S)
  <2>1. IsFiniteSet(1 .. n) /\ Cardinality(1 .. n) = Cardinality(S)
    BY <1>1, FS_Interval DEF n
  <2> QED BY <1>11, <2>1, FS_Injection
<1> QED BY <1>10, <1>12 DEF Surjection, n, sorted

(***************************************************************************)
(* Requests: what Prepare and AddressCount fold, step by step.                           *)
(***************************************************************************)

Asked == [type : Nat, address : Nat, length : Int]

JoinedTo(qs, r) ==
  IF qs # <<>> /\ Detection!Joins(Detection!Last(qs), r)
  THEN [qs EXCEPT ![Len(qs)].length = r[2] - Detection!Last(qs).address + 1]
  ELSE Append(qs, Detection!Request(r))

LEMMA JoinedTyped ==
  ASSUME NEW qs \in Seq(Asked), NEW r \in Nat \X Nat
  PROVE  JoinedTo(qs, r) \in Seq(Asked)
<1>1. CASE qs # <<>> /\ Detection!Joins(Detection!Last(qs), r)
  <2> DEFINE n == Len(qs)
             q == [qs[n] EXCEPT !.length = r[2] - qs[n].address + 1]
  <2>1. n \in DOMAIN qs /\ qs[n] \in Asked
    BY <1>1
  <2>2. q \in Asked
    <3>1. qs[n].address \in Nat /\ r[2] \in Nat
      BY <2>1 DEF Asked
    <3>2. r[2] - qs[n].address + 1 \in Int
      BY <3>1
    <3> HIDE DEF n
    <3> QED BY <2>1, <3>2 DEF Asked
  <2>3. JoinedTo(qs, r) = [qs EXCEPT ![n] = q]
    BY <1>1 DEF JoinedTo, Detection!Last
  <2> HIDE DEF q, n
  <2> QED BY <2>1, <2>2, <2>3
<1>2. CASE ~(qs # <<>> /\ Detection!Joins(Detection!Last(qs), r))
  <2>1. Detection!Request(r) \in Asked
    BY DEF Detection!Request, Asked
  <2> QED BY <1>2, <2>1 DEF JoinedTo
<1> QED BY <1>1, <1>2

(* Requests grow by one register after the other.                                      *)
GrowsTo(qs, n, s, whole) ==
  /\ qs[0] = <<>> /\ qs[n] = whole
  /\ \A k \in 0 .. n : qs[k] \in Seq(Asked)
  /\ \A k \in 1 .. n : qs[k] = JoinedTo(qs[k - 1], s[k])

LEMMA PreparedStepwise ==
  ASSUME NEW S, NEW n \in Nat, n = Cardinality(S), NEW s, s = Detection!Sorted(S),
         s \in [1 .. n -> Nat \X Nat]
  PROVE  \E qs : GrowsTo(qs, n, s, Detection!Prepare(S))
<1> DEFINE T == Seq(Asked)
           numbers == 1 .. n
           F == [a \in T \X numbers |-> JoinedTo(a[1], s[a[2]])]
           Grown(f, m) == IF m = {} THEN <<>>
                          ELSE JoinedTo(f[m \ {Detection!Max(m)}], s[Detection!Max(m)])
           Def(f) == [m \in SUBSET (DOMAIN s) |-> Grown(f, m)]
           iter == CHOOSE f : f = Def(f)
<1>1. DOMAIN s = numbers
  OBVIOUS
<1>2. ASSUME NEW m PROVE Detection!Max(m) = Greatest(m)
  BY Zenon DEF Detection!Max, Greatest
<1>3. <<>> \in T
  OBVIOUS
<1>4. ASSUME NEW t \in T, NEW k \in numbers PROVE JoinedTo(t, s[k]) \in T
  <2>1. s[k] \in Nat \X Nat
    OBVIOUS
  <2> QED BY <2>1, JoinedTyped
<1> HIDE DEF T
<1>5. F \in [T \X numbers -> T]
      /\ \A t \in T : \A k \in numbers : F[<<t, k>>] = JoinedTo(t, s[k])
  <2> HIDE DEF numbers
  <2> QED BY <1>4
<1> HIDE DEF F
<1>6. PICK f \in [SUBSET numbers -> T] : FoldsDown(f, numbers, <<>>, F)
  <2>1. numbers = 1 .. n
    OBVIOUS
  <2> HIDE DEF numbers
  <2> QED BY <1>3, <1>5, <2>1, FoldedUpTo
<1>8. f = Def(f)
  <2>1. ASSUME NEW m \in SUBSET numbers, m # {}
        PROVE  f[m] = JoinedTo(f[m \ {Detection!Max(m)}], s[Detection!Max(m)])
    <3>1. Greatest(m) \in m /\ f[m] = F[<<f[m \ {Greatest(m)}], Greatest(m)>>]
      BY <1>6, <2>1 DEF FoldsDown
    <3>2. Greatest(m) \in numbers /\ f[m \ {Greatest(m)}] \in T
      <4> HIDE DEF numbers
      <4> QED BY <1>6, <3>1
    <3> QED BY <1>2, <1>5, <3>1, <3>2
  <2>2. f[{}] = <<>>
    BY <1>6 DEF FoldsDown
  <2> HIDE DEF numbers
  <2>3. \A m \in SUBSET numbers : f[m] = Grown(f, m)
    BY <2>1, <2>2
  <2> HIDE DEF Grown
  <2>4. f = [m \in SUBSET numbers |-> f[m]] /\ Def(f) = [m \in SUBSET numbers |-> Grown(f, m)]
    BY <1>1, <1>6
  <2> HIDE DEF Def
  <2> QED BY <2>3, <2>4
<1>9. iter = Def(iter)
  <2> HIDE DEF Def
  <2> QED BY <1>8, Zenon
<1>10. Detection!Prepare(S) = iter[numbers]
  <2>1. Detection!Prepare(S) = iter[DOMAIN s]
    BY DEF Detection!Prepare, Detection!FoldLeft, Detection!MapThenFoldSet, JoinedTo
  <2> HIDE DEF iter
  <2> QED BY <1>1, <2>1
<1> HIDE DEF iter
<1>11. ASSUME NEW m \in SUBSET numbers PROVE iter[m] = Grown(iter, m)
  <2> HIDE DEF numbers, Grown
  <2> QED BY <1>1, <1>9
<1>12. iter[1 .. 0] = <<>>
  <2>1. 1 .. 0 = {} /\ {} \in SUBSET numbers
    OBVIOUS
  <2> QED BY <1>11, <2>1
<1>13. ASSUME NEW k \in 1 .. n PROVE iter[1 .. k] = JoinedTo(iter[1 .. k - 1], s[k])
  <2>1. 1 .. k \in SUBSET numbers /\ 1 .. k # {} /\ Greatest(1 .. k) = k /\ (1 .. k) \ {k} = 1 .. k - 1
    BY GreatestUpTo
  <2> HIDE DEF numbers
  <2> QED BY <1>2, <1>11, <2>1
<1> DEFINE qs == [k \in 0 .. n |-> iter[1 .. k]]
<1>14. qs[0] = <<>>
  <2>1. 0 \in 0 .. n
    OBVIOUS
  <2> QED BY <1>12, <2>1
<1>15. qs[n] = Detection!Prepare(S)
  BY <1>10
<1>16. ASSUME NEW k \in 1 .. n PROVE qs[k] = JoinedTo(qs[k - 1], s[k])
  <2>1. k \in 0 .. n /\ k - 1 \in 0 .. n
    OBVIOUS
  <2> QED BY <1>13, <2>1
<1> HIDE DEF qs
<1>17. \A k \in 0 .. n : qs[k] \in Seq(Asked)
  <2> DEFINE good == {k \in 0 .. n : qs[k] \in Seq(Asked)}
  <2>1. 0 \in good
    <3>1. 0 \in 0 .. n /\ <<>> \in Seq(Asked)
      OBVIOUS
    <3> QED BY <1>14, <3>1
  <2>2. ASSUME NEW k \in 0 .. n - 1, k \in good PROVE k + 1 \in good
    <3>1. k + 1 \in 1 .. n /\ k + 1 \in 0 .. n /\ (k + 1) - 1 = k
      OBVIOUS
    <3>2. qs[k + 1] = JoinedTo(qs[k], s[k + 1]) /\ s[k + 1] \in Nat \X Nat
      BY <1>16, <3>1
    <3> QED BY <2>2, <3>1, <3>2, JoinedTyped
  <2>3. good \in SUBSET (0 .. n)
    OBVIOUS
  <2> HIDE DEF good
  <2>4. \A k \in 0 .. n : k \in good
    BY <2>1, <2>2, <2>3, UpToByOne
  <2> QED BY <2>4 DEF good
<1> QED BY <1>14, <1>15, <1>16, <1>17 DEF GrowsTo

(***************************************************************************)
(* What is asked for: requests of legal length, one behind the other, that leave no            *)
(* register out.                                                                  *)
(***************************************************************************)

Behind(q, p) == p.type < q.type \/ (p.type = q.type /\ p.address + p.length <= q.address)

InOrder(qs) ==
  /\ qs \in Seq(Asked)
  /\ \A i \in 1 .. Len(qs) : qs[i].length \in 1 .. MaxRegisters
  /\ \A i, j \in 1 .. Len(qs) : i < j => Behind(qs[j], qs[i])

EndsAt(qs, r) ==
  /\ qs # <<>>
  /\ qs[Len(qs)].type = r[1]
  /\ qs[Len(qs)].address + qs[Len(qs)].length - 1 = r[2]

Covered(qs) == UNION {Detection!Registers(qs[i]) : i \in 1 .. Len(qs)}

LEMMA IsRegister ==
  ASSUME NEW q \in Asked, NEW x
  PROVE  x \in Detection!Registers(q) <=>
           \E a \in Nat : x = <<q.type, a>> /\ q.address <= a /\ a < q.address + q.length
BY DEF Detection!Registers, Asked

(* Behind is an order.                                                                *)
LEMMA FarBehind ==
  ASSUME NEW q, NEW p, NEW o,
         q.type \in Nat, p.type \in Nat, o.type \in Nat,
         q.address \in Nat, p.address \in Nat, o.address \in Nat,
         p.length \in Nat, o.length \in Nat, Behind(q, p), Behind(p, o)
  PROVE  Behind(q, o)
BY DEF Behind

LEMMA JoinedKeeps ==
  ASSUME MaxRegisters \in Nat \ {0}, NEW qs, InOrder(qs), NEW r \in Nat \X Nat,
         qs # <<>> => \E s \in Nat \X Nat : EndsAt(qs, s) /\ Detection!Before(s, r)
  PROVE  /\ InOrder(JoinedTo(qs, r)) /\ EndsAt(JoinedTo(qs, r), r)
         /\ Covered(qs) \subseteq Covered(JoinedTo(qs, r)) /\ r \in Covered(JoinedTo(qs, r))
<1> DEFINE n == Len(qs)
           new == JoinedTo(qs, r)
<1>0. n \in Nat /\ r[1] \in Nat /\ r[2] \in Nat /\ r = <<r[1], r[2]>>
  BY DEF InOrder
<1>1. CASE qs # <<>> /\ Detection!Joins(Detection!Last(qs), r)
  <2> DEFINE q == qs[n]
             longer == [q EXCEPT !.length = r[2] - q.address + 1]
  <2>1. n > 0 /\ q \in Asked /\ q.length \in 1 .. MaxRegisters
    BY <1>1 DEF InOrder
  <2>2. PICK s \in Nat \X Nat : EndsAt(qs, s) /\ Detection!Before(s, r)
    BY <1>1
  <2>3. /\ q.type \in Nat /\ q.address \in Nat /\ q.length \in Int
        /\ r[1] = q.type /\ r[2] - q.address + 1 <= MaxRegisters
        /\ q.address + q.length - 1 < r[2]
    <3>1. r[1] = q.type /\ r[2] - q.address + 1 <= MaxRegisters
      BY <1>1 DEF Detection!Joins, Detection!Last
    <3>2. s[1] = q.type /\ q.address + q.length - 1 = s[2]
      BY <2>2 DEF EndsAt
    <3>3. s[1] < r[1] \/ (s[1] = r[1] /\ s[2] < r[2])
      BY <2>2 DEF Detection!Before
    <3>4. q.type \in Nat /\ q.address \in Nat /\ q.length \in Int
      BY <2>1 DEF Asked
    <3> HIDE DEF q, n
    <3> QED BY <1>0, <3>1, <3>2, <3>3, <3>4
  <2>4. /\ longer \in Asked
        /\ longer.type = q.type /\ longer.address = q.address /\ longer.length = r[2] - q.address + 1
    <3>1. r[2] - q.address + 1 \in Int
      BY <1>0, <2>3
    <3> HIDE DEF q
    <3> QED BY <2>1, <3>1 DEF Asked
  <2>5. new = [qs EXCEPT ![n] = longer]
    BY <1>1 DEF JoinedTo, Detection!Last
  <2> HIDE DEF longer, new, n, q
  <2>6. /\ qs \in Seq(Asked) /\ n = Len(qs)
        /\ \A i \in 1 .. n : qs[i] \in Asked /\ qs[i].length \in 1 .. MaxRegisters
        /\ \A i, j \in 1 .. n : i < j => Behind(qs[j], qs[i])
    BY DEF InOrder, n
  <2>7. new \in Seq(Asked) /\ Len(new) = n /\ new[n] = longer /\ \A i \in 1 .. n - 1 : new[i] = qs[i]
    BY <1>0, <2>1, <2>4, <2>5, <2>6
  <2>8. longer.length \in 1 .. MaxRegisters
    BY <1>0, <2>1, <2>3, <2>4
  <2>9. \A i, j \in 1 .. n : i < j => Behind(new[j], new[i])
    <3> SUFFICES ASSUME NEW i \in 1 .. n, NEW j \in 1 .. n, i < j PROVE Behind(new[j], new[i])
      OBVIOUS
    <3>1. new[i] = qs[i] /\ Behind(qs[j], qs[i])
      BY <1>0, <2>6, <2>7
    <3>2. new[j].type = qs[j].type /\ new[j].address = qs[j].address
      <4>1. CASE j = n
        BY <2>4, <2>7, <4>1 DEF q
      <4>2. CASE j # n
        BY <1>0, <2>7, <4>2
      <4> QED BY <4>1, <4>2
    <3> QED BY <3>1, <3>2 DEF Behind
  <2>10. InOrder(new)
    <3>1. ASSUME NEW i \in 1 .. n PROVE new[i].length \in 1 .. MaxRegisters
      <4>1. i = n \/ i \in 1 .. n - 1
        BY <1>0
      <4> QED BY <2>6, <2>7, <2>8, <4>1
    <3> QED BY <2>7, <2>9, <3>1 DEF InOrder
  <2>11. EndsAt(new, r)
    <3>1. new # <<>>
      BY <2>1, <2>7
    <3>2. longer.address + longer.length - 1 = r[2]
      BY <1>0, <2>3, <2>4
    <3> QED BY <2>3, <2>4, <2>7, <3>1, <3>2 DEF EndsAt
  <2>12. Covered(qs) \subseteq Covered(new)
    <3> SUFFICES ASSUME NEW i \in 1 .. n, NEW x \in Detection!Registers(qs[i]) PROVE x \in Covered(new)
      BY <2>6 DEF Covered
    <3>1. x \in Detection!Registers(new[i])
      <4>1. CASE i # n
        BY <1>0, <2>7, <4>1
      <4>2. CASE i = n
        <5>1. PICK a \in Nat : x = <<q.type, a>> /\ q.address <= a /\ a < q.address + q.length
          BY <2>1, <4>2, IsRegister DEF q
        <5>2. a < longer.address + longer.length
          BY <1>0, <2>3, <2>4, <5>1
        <5> QED BY <2>4, <2>7, <4>2, <5>1, <5>2, IsRegister
      <4> QED BY <4>1, <4>2
    <3> QED BY <2>7, <3>1 DEF Covered
  <2>13. r \in Covered(new)
    <3>1. longer.address <= r[2] /\ r[2] < longer.address + longer.length
      BY <1>0, <2>1, <2>3, <2>4
    <3>2. r \in Detection!Registers(longer)
      BY <1>0, <2>3, <2>4, <3>1, IsRegister
    <3>3. n \in 1 .. Len(new)
      BY <1>0, <2>1, <2>7
    <3> QED BY <2>7, <3>2, <3>3 DEF Covered
  <2> QED BY <2>10, <2>11, <2>12, <2>13 DEF new
<1>2. CASE ~(qs # <<>> /\ Detection!Joins(Detection!Last(qs), r))
  <2> DEFINE q == Detection!Request(r)
  <2>1. q \in Asked /\ q.type = r[1] /\ q.address = r[2] /\ q.length = 1
    BY DEF Detection!Request, Asked
  <2>2. new = Append(qs, q)
    BY <1>2 DEF JoinedTo
  <2> HIDE DEF q, new, n
  <2>3. /\ qs \in Seq(Asked) /\ n = Len(qs)
        /\ \A i \in 1 .. n : qs[i] \in Asked /\ qs[i].length \in 1 .. MaxRegisters
        /\ \A i, j \in 1 .. n : i < j => Behind(qs[j], qs[i])
    BY DEF InOrder, n
  <2>4. new \in Seq(Asked) /\ Len(new) = n + 1 /\ new[n + 1] = q /\ \A i \in 1 .. n : new[i] = qs[i]
    BY <2>1, <2>2, <2>3
  <2>5. ASSUME NEW i \in 1 .. n PROVE Behind(q, qs[i])
    <3>1. n > 0 /\ n \in 1 .. n /\ qs # <<>>
      BY <1>0, <2>3
    <3>2. PICK s \in Nat \X Nat : EndsAt(qs, s) /\ Detection!Before(s, r)
      BY <3>1
    <3>3. s[1] < r[1] \/ (s[1] = r[1] /\ s[2] < r[2])
      BY <3>2 DEF Detection!Before
    <3>4. qs[n].type = s[1] /\ qs[n].address + qs[n].length - 1 = s[2]
      BY <2>3, <3>2 DEF EndsAt
    <3>5. /\ qs[n].type \in Nat /\ qs[n].address \in Nat /\ qs[n].length \in 1 .. MaxRegisters
          /\ qs[i].type \in Nat /\ qs[i].address \in Nat /\ qs[i].length \in 1 .. MaxRegisters
          /\ s[1] \in Nat /\ s[2] \in Nat
      BY <2>3, <3>1 DEF Asked
    <3>6. Behind(q, qs[n])
      <4> DEFINE p == qs[n]
      <4>1. p.type = s[1] /\ p.address + p.length - 1 = s[2] /\ p.address \in Nat /\ p.length \in Int
        BY <3>4, <3>5
      <4> HIDE DEF p
      <4>2. p.address + p.length <= r[2] \/ s[1] < r[1]
        BY <1>0, <3>3, <3>5, <4>1
      <4>3. s[1] = r[1] \/ s[1] < r[1]
        BY <3>3
      <4>4. Behind(q, p)
        BY <2>1, <4>1, <4>2, <4>3 DEF Behind
      <4> QED BY <4>4 DEF p
    <3>7. CASE i = n
      BY <3>6, <3>7
    <3>8. CASE i # n
      <4>1. Behind(qs[n], qs[i])
        BY <1>0, <2>3, <3>1, <3>8
      <4>2. q.type \in Nat /\ q.address \in Nat
        BY <1>0, <2>1
      <4>3. qs[n].length \in Nat /\ qs[i].length \in Nat
        BY <3>5
      <4> QED BY <3>5, <3>6, <4>1, <4>2, <4>3, FarBehind
    <3> QED BY <3>7, <3>8
  <2>6. InOrder(new)
    <3>1. ASSUME NEW i \in 1 .. n + 1 PROVE new[i].length \in 1 .. MaxRegisters
      <4>1. CASE i = n + 1
        BY <2>1, <2>4, <4>1
      <4>2. CASE i \in 1 .. n
        BY <2>3, <2>4, <4>2
      <4> QED BY <1>0, <4>1, <4>2
    <3>2. ASSUME NEW i \in 1 .. n + 1, NEW j \in 1 .. n + 1, i < j PROVE Behind(new[j], new[i])
      <4>1. i \in 1 .. n /\ new[i] = qs[i]
        BY <1>0, <2>4, <3>2
      <4>2. CASE j = n + 1
        BY <2>4, <2>5, <4>1, <4>2
      <4>3. CASE j \in 1 .. n
        BY <2>3, <2>4, <3>2, <4>1, <4>3
      <4> QED BY <1>0, <4>2, <4>3
    <3> QED BY <2>4, <3>1, <3>2 DEF InOrder
  <2>7. EndsAt(new, r)
    <3>1. new # <<>> /\ q.address + q.length - 1 = r[2]
      BY <1>0, <2>1, <2>4
    <3> QED BY <2>1, <2>4, <3>1 DEF EndsAt
  <2>8. Covered(qs) \subseteq Covered(new)
    <3> SUFFICES ASSUME NEW i \in 1 .. n, NEW x \in Detection!Registers(qs[i]) PROVE x \in Covered(new)
      BY <2>3 DEF Covered
    <3>1. i \in 1 .. Len(new) /\ new[i] = qs[i]
      BY <1>0, <2>4
    <3> QED BY <3>1 DEF Covered
  <2>9. r \in Covered(new)
    <3>1. q.address <= r[2] /\ r[2] < q.address + q.length
      BY <1>0, <2>1
    <3>2. r \in Detection!Registers(q)
      BY <1>0, <2>1, <3>1, IsRegister
    <3>3. n + 1 \in 1 .. Len(new)
      BY <1>0, <2>4
    <3> QED BY <2>4, <3>2, <3>3 DEF Covered
  <2> QED BY <2>6, <2>7, <2>8, <2>9 DEF new
<1> QED BY <1>1, <1>2

(* Sorted registers are joined to requests that are in order and cover them.                 *)
LEMMA PreparedInOrder ==
  ASSUME MaxRegisters \in Nat \ {0}, NEW S \in SUBSET (Nat \X Nat), IsFiniteSet(S)
  PROVE  InOrder(Detection!Prepare(S)) /\ S \subseteq Covered(Detection!Prepare(S))
<1> DEFINE n == Cardinality(S)
           s == Detection!Sorted(S)
<1>0. s = Detection!Sorted(S) /\ n = Cardinality(S)
  OBVIOUS
<1>1. Rising(s, S) /\ \A x \in S : \E i \in 1 .. n : s[i] = x
  BY RegistersAreSorted
<1>2. n \in Nat
  BY FS_CardinalityType
<1> HIDE DEF s
<1>3. s \in [1 .. n -> Nat \X Nat] /\ \A i, j \in 1 .. n : i < j => Detection!Before(s[i], s[j])
  BY <1>1 DEF Rising
<1>4. PICK qs :
        /\ qs[0] = <<>> /\ qs[n] = Detection!Prepare(S)
        /\ \A k \in 0 .. n : qs[k] \in Seq(Asked)
        /\ \A k \in 1 .. n : qs[k] = JoinedTo(qs[k - 1], s[k])
  <2> HIDE DEF n
  <2>1. \E qs : GrowsTo(qs, n, s, Detection!Prepare(S))
    BY <1>0, <1>2, <1>3, PreparedStepwise
  <2> QED BY <2>1 DEF GrowsTo
<1> HIDE DEF n
<1> DEFINE fine(k) ==
             /\ InOrder(qs[k])
             /\ k = 0 => qs[k] = <<>>
             /\ k > 0 => EndsAt(qs[k], s[k])
             /\ \A i \in 1 .. k : s[i] \in Covered(qs[k])
           good == {k \in 0 .. n : fine(k)}
<1>5. 0 \in good
  <2>1. InOrder(<<>>)
    BY DEF InOrder
  <2>2. 0 \in 0 .. n /\ ~(0 > 0) /\ 1 .. 0 = {}
    BY <1>2
  <2> QED BY <1>4, <2>1, <2>2
<1>6. ASSUME NEW k \in 0 .. n - 1, k \in good PROVE k + 1 \in good
  <2>1. k + 1 \in 1 .. n /\ k + 1 \in 0 .. n /\ (k + 1) - 1 = k /\ k + 1 > 0 /\ k + 1 # 0
    BY <1>2
  <2>2. qs[k + 1] = JoinedTo(qs[k], s[k + 1]) /\ s[k + 1] \in Nat \X Nat
    BY <1>3, <1>4, <2>1
  <2>3. fine(k)
    BY <1>6
  <2>4. qs[k] # <<>> => \E r \in Nat \X Nat : EndsAt(qs[k], r) /\ Detection!Before(r, s[k + 1])
    <3> SUFFICES ASSUME k > 0
                 PROVE  \E r \in Nat \X Nat : EndsAt(qs[k], r) /\ Detection!Before(r, s[k + 1])
      BY <1>2, <2>3
    <3>1. k \in 1 .. n /\ k < k + 1
      BY <1>2
    <3> QED BY <1>3, <2>1, <2>3, <3>1
  <2>5. /\ InOrder(qs[k + 1]) /\ EndsAt(qs[k + 1], s[k + 1])
        /\ Covered(qs[k]) \subseteq Covered(qs[k + 1]) /\ s[k + 1] \in Covered(qs[k + 1])
    <3>1. InOrder(qs[k])
      BY <2>3
    <3> HIDE DEF fine, good
    <3> QED BY <2>2, <2>4, <3>1, JoinedKeeps
  <2>6. ASSUME NEW i \in 1 .. k + 1 PROVE s[i] \in Covered(qs[k + 1])
    <3>1. i = k + 1 \/ i \in 1 .. k
      BY <1>2
    <3> QED BY <2>3, <2>5, <3>1
  <2> QED BY <2>1, <2>5, <2>6
<1>7. fine(n)
  <2>1. good \in SUBSET (0 .. n)
    OBVIOUS
  <2> HIDE DEF fine
  <2>2. n \in good
    <3> HIDE DEF good
    <3>1. n \in 0 .. n
      BY <1>2
    <3> QED BY <1>2, <1>5, <1>6, <2>1, <3>1, UpToByOne
  <2> QED BY <2>2
<1>8. S \subseteq Covered(qs[n])
  BY <1>1, <1>7 DEF n
<1> QED BY <1>4, <1>7, <1>8

(***************************************************************************)
(* As many addresses are counted as there are registers.                                 *)
(***************************************************************************)

CountsTo(c, n, qs) ==
  /\ c[0] = 0 /\ c[n] = Detection!AddressCount(qs)
  /\ \A k \in 0 .. n : c[k] \in Int
  /\ \A k \in 1 .. n : c[k] = c[k - 1] + qs[k].length

LEMMA CountedStepwise ==
  ASSUME NEW qs \in Seq(Asked), NEW n, n = Len(qs)
  PROVE  \E c : CountsTo(c, n, qs)
<1> DEFINE numbers == 1 .. n
           F == [a \in Int \X numbers |-> a[1] + qs[a[2]].length]
           Grown(f, m) == IF m = {} THEN 0 ELSE f[m \ {Detection!Max(m)}] + qs[Detection!Max(m)].length
           Def(f) == [m \in SUBSET (DOMAIN qs) |-> Grown(f, m)]
           iter == CHOOSE f : f = Def(f)
<1>1. n \in Nat /\ DOMAIN qs = numbers
  OBVIOUS
<1>2. ASSUME NEW m PROVE Detection!Max(m) = Greatest(m)
  BY Zenon DEF Detection!Max, Greatest
<1>3. ASSUME NEW k \in numbers PROVE qs[k].length \in Int
  <2>1. qs[k] \in Asked
    OBVIOUS
  <2> QED BY <2>1 DEF Asked
<1>4. ASSUME NEW t \in Int, NEW k \in numbers PROVE t + qs[k].length \in Int
  BY <1>3
<1>5. F \in [Int \X numbers -> Int]
      /\ \A t \in Int : \A k \in numbers : F[<<t, k>>] = t + qs[k].length
  <2> HIDE DEF numbers
  <2> QED BY <1>4
<1> HIDE DEF F
<1>6. PICK f \in [SUBSET numbers -> Int] : FoldsDown(f, numbers, 0, F)
  <2>1. numbers = 1 .. n /\ 0 \in Int
    OBVIOUS
  <2> HIDE DEF numbers
  <2> QED BY <1>1, <1>5, <2>1, FoldedUpTo
<1>7. f = Def(f)
  <2>1. ASSUME NEW m \in SUBSET numbers, m # {}
        PROVE  f[m] = f[m \ {Detection!Max(m)}] + qs[Detection!Max(m)].length
    <3>1. Greatest(m) \in m /\ f[m] = F[<<f[m \ {Greatest(m)}], Greatest(m)>>]
      BY <1>6, <2>1 DEF FoldsDown
    <3>2. Greatest(m) \in numbers /\ f[m \ {Greatest(m)}] \in Int
      <4> HIDE DEF numbers
      <4> QED BY <1>6, <3>1
    <3> QED BY <1>2, <1>5, <3>1, <3>2
  <2>2. f[{}] = 0
    BY <1>6 DEF FoldsDown
  <2> HIDE DEF numbers
  <2>3. \A m \in SUBSET numbers : f[m] = Grown(f, m)
    BY <2>1, <2>2
  <2> HIDE DEF Grown
  <2>4. f = [m \in SUBSET numbers |-> f[m]] /\ Def(f) = [m \in SUBSET numbers |-> Grown(f, m)]
    BY <1>1, <1>6
  <2> HIDE DEF Def
  <2> QED BY <2>3, <2>4
<1>8. iter = Def(iter)
  <2> HIDE DEF Def
  <2> QED BY <1>7, Zenon
<1>9. Detection!AddressCount(qs) = iter[numbers]
  <2>1. Detection!AddressCount(qs) = iter[DOMAIN qs]
    BY DEF Detection!AddressCount, Detection!FoldLeft, Detection!MapThenFoldSet
  <2> HIDE DEF iter
  <2> QED BY <1>1, <2>1
<1> HIDE DEF iter
<1>10. ASSUME NEW m \in SUBSET numbers PROVE iter[m] = Grown(iter, m)
  <2> HIDE DEF numbers, Grown
  <2> QED BY <1>1, <1>8
<1>11. iter[1 .. 0] = 0
  <2>1. 1 .. 0 = {} /\ {} \in SUBSET numbers
    OBVIOUS
  <2> QED BY <1>10, <2>1
<1>12. ASSUME NEW k \in 1 .. n PROVE iter[1 .. k] = iter[1 .. k - 1] + qs[k].length
  <2>1. 1 .. k \in SUBSET numbers /\ 1 .. k # {} /\ Greatest(1 .. k) = k /\ (1 .. k) \ {k} = 1 .. k - 1
    BY <1>1, GreatestUpTo
  <2> HIDE DEF numbers
  <2> QED BY <1>2, <1>10, <2>1
<1> DEFINE c == [k \in 0 .. n |-> iter[1 .. k]]
<1>13. c[0] = 0
  <2>1. 0 \in 0 .. n
    BY <1>1
  <2> QED BY <1>11, <2>1
<1>14. c[n] = Detection!AddressCount(qs)
  BY <1>1, <1>9
<1>15. ASSUME NEW k \in 1 .. n PROVE c[k] = c[k - 1] + qs[k].length
  <2>1. k \in 0 .. n /\ k - 1 \in 0 .. n
    BY <1>1
  <2> QED BY <1>12, <2>1
<1> HIDE DEF c
<1>16. \A k \in 0 .. n : c[k] \in Int
  <2> DEFINE good == {k \in 0 .. n : c[k] \in Int}
  <2>1. 0 \in good
    BY <1>1, <1>13
  <2>2. ASSUME NEW k \in 0 .. n - 1, k \in good PROVE k + 1 \in good
    <3>1. k + 1 \in 1 .. n /\ k + 1 \in 0 .. n /\ (k + 1) - 1 = k
      BY <1>1
    <3>2. c[k + 1] = c[k] + qs[k + 1].length /\ qs[k + 1].length \in Int
      BY <1>3, <1>15, <3>1
    <3> QED BY <2>2, <3>1, <3>2
  <2>3. good \in SUBSET (0 .. n)
    OBVIOUS
  <2> HIDE DEF good
  <2>4. \A k \in 0 .. n : k \in good
    BY <1>1, <2>1, <2>2, <2>3, UpToByOne
  <2> QED BY <2>4 DEF good
<1> QED BY <1>13, <1>14, <1>15, <1>16 DEF CountsTo

(* Requests of at least one register each, that have none in common.                          *)
Apart(qs) ==
  /\ qs \in Seq(Asked)
  /\ \A i \in 1 .. Len(qs) : qs[i].length \in Nat /\ qs[i].length > 0
  /\ \A i, j \in 1 .. Len(qs) :
       i # j => Detection!Registers(qs[i]) \cap Detection!Registers(qs[j]) = {}

LEMMA InOrderIsApart ==
  ASSUME MaxRegisters \in Nat \ {0}, NEW qs, InOrder(qs)
  PROVE  Apart(qs)
<1>1. qs \in Seq(Asked) /\ \A i \in 1 .. Len(qs) : qs[i] \in Asked /\ qs[i].length \in Nat /\ qs[i].length > 0
  BY DEF InOrder
<1>2. ASSUME NEW i \in 1 .. Len(qs), NEW j \in 1 .. Len(qs), i < j,
             NEW x \in Detection!Registers(qs[i]), x \in Detection!Registers(qs[j])
      PROVE  FALSE
  <2> DEFINE q == qs[i]
             p == qs[j]
  <2>1. q \in Asked /\ p \in Asked /\ Behind(p, q)
    BY <1>1, <1>2 DEF InOrder
  <2> HIDE DEF p, q
  <2>2. PICK a \in Nat : x = <<q.type, a>> /\ q.address <= a /\ a < q.address + q.length
    BY <1>2, <2>1, IsRegister DEF q
  <2>3. PICK b \in Nat : x = <<p.type, b>> /\ p.address <= b /\ b < p.address + p.length
    BY <1>2, <2>1, IsRegister DEF p
  <2>4. q.type = p.type /\ a = b
    BY <2>2, <2>3
  <2>5. q.type \in Nat /\ q.address + q.length <= p.address
    BY <2>1, <2>4 DEF Behind, Asked
  <2>6. q.address \in Nat /\ q.length \in Int /\ p.address \in Nat
    BY <2>1 DEF Asked
  <2> QED BY <2>2, <2>3, <2>4, <2>5, <2>6
<1>3. ASSUME NEW i \in 1 .. Len(qs), NEW j \in 1 .. Len(qs), i # j
      PROVE  Detection!Registers(qs[i]) \cap Detection!Registers(qs[j]) = {}
  <2>1. i < j \/ j < i
    BY <1>1, <1>3
  <2> QED BY <1>2, <2>1
<1> QED BY <1>1, <1>3 DEF Apart

LEMMA RegistersCount ==
  ASSUME NEW q \in Asked, q.length > 0
  PROVE  IsFiniteSet(Detection!Registers(q)) /\ Cardinality(Detection!Registers(q)) = q.length
<1> DEFINE places == q.address .. q.address + q.length - 1
           f == [a \in places |-> <<q.type, a>>]
           R == Detection!Registers(q)
<1>1. q.type \in Nat /\ q.address \in Nat /\ q.length \in Int
  BY DEF Asked
<1>2. IsFiniteSet(places) /\ Cardinality(places) = q.length
  <2> DEFINE b == q.address + q.length - 1
  <2>1. q.address \in Int /\ b \in Int /\ ~(q.address > b) /\ b - q.address + 1 = q.length
    BY <1>1
  <2> HIDE DEF b
  <2>2. IsFiniteSet(q.address .. b) /\ Cardinality(q.address .. b) = q.length
    BY <2>1, FS_Interval
  <2> QED BY <2>2 DEF b
<1>3. R = {<<q.type, a>> : a \in places}
  BY DEF Detection!Registers
<1> HIDE DEF places, R
<1>4. f \in Bijection(places, R)
  BY <1>3 DEF Bijection, Injection, Surjection, IsInjective
<1> HIDE DEF f
<1>5. ExistsBijection(places, R)
  BY <1>4 DEF ExistsBijection
<1> QED BY <1>2, <1>5, FS_Bijection DEF R

LEMMA CountIsExact ==
  ASSUME NEW qs, Apart(qs)
  PROVE  IsFiniteSet(Covered(qs)) /\ Cardinality(Covered(qs)) = Detection!AddressCount(qs)
<1> DEFINE n == Len(qs)
           R(i) == Detection!Registers(qs[i])
           firstOf(k) == UNION {R(i) : i \in 1 .. k}
<1>1. /\ n \in Nat
      /\ \A i \in 1 .. n : qs[i] \in Asked /\ qs[i].length \in Nat /\ qs[i].length > 0
      /\ \A i, j \in 1 .. n : i # j => R(i) \cap R(j) = {}
  <2>1. qs \in Seq(Asked) /\ \A i \in 1 .. n : qs[i].length \in Nat /\ qs[i].length > 0
    BY DEF Apart
  <2>2. \A i, j \in 1 .. n : i # j => R(i) \cap R(j) = {}
    BY Zenon DEF Apart
  <2>3. n \in Nat /\ \A i \in 1 .. n : qs[i] \in Asked
    BY <2>1
  <2> HIDE DEF R, n
  <2> QED BY <2>1, <2>2, <2>3
<1>2. PICK c : CountsTo(c, n, qs)
  <2>1. qs \in Seq(Asked) /\ n = Len(qs)
    BY DEF Apart
  <2> HIDE DEF n
  <2> QED BY <2>1, CountedStepwise
<1>3. \A i \in 1 .. n : IsFiniteSet(R(i)) /\ Cardinality(R(i)) = qs[i].length
  BY <1>1, RegistersCount
<1>4. Covered(qs) = firstOf(n)
  BY DEF Covered
<1> HIDE DEF R, n
<1> DEFINE fine(k) == IsFiniteSet(firstOf(k)) /\ Cardinality(firstOf(k)) = c[k]
           good == {k \in 0 .. n : fine(k)}
<1>5. 0 \in good
  <2>1. firstOf(0) = {}
    <3>1. 1 .. 0 = {}
      OBVIOUS
    <3> QED BY <3>1
  <2>2. c[0] = 0 /\ 0 \in 0 .. n
    BY <1>1, <1>2 DEF CountsTo
  <2> HIDE DEF firstOf
  <2> QED BY <2>1, <2>2, FS_EmptySet
<1>6. ASSUME NEW k \in 0 .. n - 1, k \in good PROVE k + 1 \in good
  <2>1. k + 1 \in 1 .. n /\ k + 1 \in 0 .. n /\ (k + 1) - 1 = k
    BY <1>1
  <2>2. 1 .. k + 1 = (1 .. k) \cup {k + 1}
    BY <1>1
  <2>3. firstOf(k + 1) = firstOf(k) \cup R(k + 1)
    BY <2>2
  <2>4. firstOf(k) \cap R(k + 1) = {}
    <3> SUFFICES ASSUME NEW i \in 1 .. k PROVE R(i) \cap R(k + 1) = {}
      OBVIOUS
    <3>1. i \in 1 .. n /\ i # k + 1
      BY <1>1
    <3> QED BY <1>1, <2>1, <3>1
  <2>5. c[k + 1] = c[k] + qs[k + 1].length /\ c[k] \in Int
    <3>1. k \in 0 .. n
      BY <1>1
    <3> QED BY <1>2, <2>1, <3>1 DEF CountsTo
  <2>6. fine(k)
    BY <1>6
  <2> HIDE DEF firstOf
  <2>7. /\ IsFiniteSet(firstOf(k + 1))
        /\ Cardinality(firstOf(k + 1)) = Cardinality(firstOf(k)) + Cardinality(R(k + 1)) - Cardinality({})
    <3>1. IsFiniteSet(R(k + 1))
      BY <1>3, <2>1
    <3> QED BY <2>3, <2>4, <2>6, <3>1, FS_Union
  <2>8. Cardinality({}) = 0
    BY FS_EmptySet
  <2>9. Cardinality(R(k + 1)) = qs[k + 1].length /\ qs[k + 1].length \in Nat
    BY <1>1, <1>3, <2>1
  <2> QED BY <2>1, <2>5, <2>6, <2>7, <2>8, <2>9
<1>7. fine(n)
  <2>1. good \in SUBSET (0 .. n)
    OBVIOUS
  <2> HIDE DEF fine
  <2>2. n \in good
    <3> HIDE DEF good
    <3>1. n \in 0 .. n
      BY <1>1
    <3> QED BY <1>1, <1>5, <1>6, <2>1, <3>1, UpToByOne
  <2> QED BY <2>2
<1>8. c[n] = Detection!AddressCount(qs)
  BY <1>2 DEF CountsTo
<1> HIDE DEF firstOf
<1> QED BY <1>4, <1>7, <1>8

(***************************************************************************)
(* Queued requests: one is answered, or split, and those behind it stay as they are.           *)
(***************************************************************************)

LEMMA TailIsApart ==
  ASSUME NEW qs, Apart(qs), qs # <<>>
  PROVE  /\ Head(qs) \in Asked /\ Head(qs).length \in Nat /\ Head(qs).length > 0
         /\ Apart(Tail(qs))
         /\ Covered(qs) = Detection!Registers(Head(qs)) \cup Covered(Tail(qs))
         /\ Detection!Registers(Head(qs)) \cap Covered(Tail(qs)) = {}
<1> DEFINE n == Len(qs)
           rest == Tail(qs)
           R(q) == Detection!Registers(q)
<1>1. /\ qs \in Seq(Asked)
      /\ \A i \in 1 .. Len(qs) : qs[i].length \in Nat /\ qs[i].length > 0
      /\ \A i, j \in 1 .. Len(qs) : i # j => R(qs[i]) \cap R(qs[j]) = {}
  BY DEF Apart
<1> HIDE DEF R
<1>2. n \in Nat /\ n > 0 /\ Head(qs) = qs[1] /\ qs[1] \in Asked
  BY <1>1
<1>3. rest \in Seq(Asked) /\ Len(rest) = n - 1 /\ \A i \in 1 .. n - 1 : rest[i] = qs[i + 1]
  BY <1>1, <1>2
<1> HIDE DEF rest, n
<1>4. \A i \in 1 .. n - 1 : i + 1 \in 1 .. n /\ i + 1 # 1
  BY <1>2
<1>5. Apart(rest)
  <2>1. \A i \in 1 .. Len(rest) : rest[i].length \in Nat /\ rest[i].length > 0
    BY <1>1, <1>3, <1>4 DEF n
  <2>2. ASSUME NEW i \in 1 .. Len(rest), NEW j \in 1 .. Len(rest), i # j
        PROVE  R(rest[i]) \cap R(rest[j]) = {}
    <3>1. i + 1 \in 1 .. n /\ j + 1 \in 1 .. n /\ i + 1 # j + 1
      BY <1>2, <1>3, <2>2
    <3>2. rest[i] = qs[i + 1] /\ rest[j] = qs[j + 1]
      BY <1>3
    <3> QED BY <1>1, <3>1, <3>2 DEF n
  <2> QED BY <1>3, <2>1, <2>2 DEF Apart, R
<1>6. Covered(qs) = R(qs[1]) \cup Covered(rest)
  <2>1. ASSUME NEW x PROVE x \in Covered(qs) <=> x \in R(qs[1]) \/ x \in Covered(rest)
    <3>1. x \in Covered(qs) <=> \E i \in 1 .. n : x \in R(qs[i])
      BY DEF Covered, R, n
    <3>2. x \in Covered(rest) <=> \E i \in 1 .. n - 1 : x \in R(qs[i + 1])
      BY <1>3 DEF Covered, R
    <3>3. \A i \in 1 .. n : i = 1 \/ (i - 1 \in 1 .. n - 1 /\ (i - 1) + 1 = i)
      BY <1>2
    <3>4. 1 \in 1 .. n
      BY <1>2
    <3> QED BY <1>4, <3>1, <3>2, <3>3, <3>4
  <2> QED BY <2>1
<1>7. R(qs[1]) \cap Covered(rest) = {}
  <2> SUFFICES ASSUME NEW i \in 1 .. n - 1 PROVE R(qs[1]) \cap R(qs[i + 1]) = {}
    BY <1>3 DEF Covered, R
  <2>1. 1 \in 1 .. n
    BY <1>2
  <2> QED BY <1>1, <1>4, <2>1 DEF n
<1>8. qs[1].length \in Nat /\ qs[1].length > 0
  BY <1>1, <1>2 DEF n
<1> QED BY <1>2, <1>5, <1>6, <1>7, <1>8 DEF R, rest

LEMMA JoinedIsApart ==
  ASSUME NEW qs, Apart(qs), NEW ps, Apart(ps), Covered(qs) \cap Covered(ps) = {}
  PROVE  Apart(qs \o ps) /\ Covered(qs \o ps) = Covered(qs) \cup Covered(ps)
<1> DEFINE n == Len(qs)
           m == Len(ps)
           all == qs \o ps
           R(q) == Detection!Registers(q)
<1>1. /\ qs \in Seq(Asked) /\ ps \in Seq(Asked)
      /\ \A i \in 1 .. n : qs[i].length \in Nat /\ qs[i].length > 0
      /\ \A i \in 1 .. m : ps[i].length \in Nat /\ ps[i].length > 0
      /\ \A i, j \in 1 .. n : i # j => R(qs[i]) \cap R(qs[j]) = {}
      /\ \A i, j \in 1 .. m : i # j => R(ps[i]) \cap R(ps[j]) = {}
  BY DEF Apart
<1>2. /\ n \in Nat /\ m \in Nat /\ all \in Seq(Asked) /\ Len(all) = n + m
      /\ \A i \in 1 .. n : all[i] = qs[i]
      /\ \A i \in 1 .. m : all[n + i] = ps[i]
  BY <1>1
<1>3. /\ \A x : x \in Covered(qs) <=> \E i \in 1 .. n : x \in R(qs[i])
      /\ \A x : x \in Covered(ps) <=> \E i \in 1 .. m : x \in R(ps[i])
      /\ \A x : x \in Covered(all) <=> \E i \in 1 .. Len(all) : x \in R(all[i])
  BY DEF Covered
<1> HIDE DEF n, m, all, R
<1>4. ASSUME NEW i \in 1 .. n + m
      PROVE  \/ i \in 1 .. n /\ all[i] = qs[i]
             \/ i - n \in 1 .. m /\ all[i] = ps[i - n]
  <2>1. CASE i \in 1 .. n
    BY <1>2, <2>1
  <2>2. CASE i \notin 1 .. n
    <3>1. i - n \in 1 .. m /\ n + (i - n) = i
      BY <1>2, <2>2
    <3> QED BY <1>2, <3>1
  <2> QED BY <2>1, <2>2
<1>5. \A i \in 1 .. n : i \in 1 .. n + m
  BY <1>2
<1>6. \A i \in 1 .. m : n + i \in 1 .. n + m
  BY <1>2
<1>7. \A i \in 1 .. Len(all) : all[i].length \in Nat /\ all[i].length > 0
  BY <1>1, <1>2, <1>4
<1>8. ASSUME NEW i \in 1 .. n + m, NEW j \in 1 .. n + m, i # j, NEW x \in R(all[i]), x \in R(all[j])
      PROVE  FALSE
  <2>1. CASE i \in 1 .. n /\ all[i] = qs[i] /\ j \in 1 .. n /\ all[j] = qs[j]
    BY <1>1, <1>8, <2>1
  <2>2. CASE i - n \in 1 .. m /\ all[i] = ps[i - n] /\ j - n \in 1 .. m /\ all[j] = ps[j - n]
    <3>1. i - n # j - n
      BY <1>2, <1>8
    <3> QED BY <1>1, <1>8, <2>2, <3>1
  <2>3. CASE i \in 1 .. n /\ all[i] = qs[i] /\ j - n \in 1 .. m /\ all[j] = ps[j - n]
    BY <1>3, <1>8, <2>3
  <2>4. CASE j \in 1 .. n /\ all[j] = qs[j] /\ i - n \in 1 .. m /\ all[i] = ps[i - n]
    BY <1>3, <1>8, <2>4
  <2> QED BY <1>4, <2>1, <2>2, <2>3, <2>4
<1>9. Apart(all)
  <2>1. \A i, j \in 1 .. Len(all) : i # j => R(all[i]) \cap R(all[j]) = {}
    BY <1>2, <1>8
  <2> QED BY <1>2, <1>7, <2>1 DEF Apart, R
<1>10. Covered(all) = Covered(qs) \cup Covered(ps)
  <2>1. ASSUME NEW x PROVE x \in Covered(all) <=> x \in Covered(qs) \/ x \in Covered(ps)
    <3>1. ASSUME x \in Covered(all) PROVE x \in Covered(qs) \/ x \in Covered(ps)
      BY <1>2, <1>3, <1>4, <3>1
    <3>2. ASSUME x \in Covered(qs) \/ x \in Covered(ps) PROVE x \in Covered(all)
      BY <1>2, <1>3, <1>5, <1>6, <3>2
    <3> QED BY <3>1, <3>2
  <2> QED BY <2>1
<1> QED BY <1>9, <1>10 DEF all

Pieces(q) == [i \in 1 .. q.length |-> [q EXCEPT !.address = @ + i - 1, !.length = 1]]

LEMMA PiecesAreApart ==
  ASSUME NEW q \in Asked, q.length \in Nat
  PROVE  Apart(Pieces(q)) /\ Covered(Pieces(q)) = Detection!Registers(q)
<1> DEFINE n == q.length
           ps == Pieces(q)
<1>1. n \in Nat /\ q.type \in Nat /\ q.address \in Nat
  BY DEF Asked
<1>2. ASSUME NEW i \in 1 .. n
      PROVE  /\ ps[i] \in Asked /\ ps[i].type = q.type /\ ps[i].address = (q.address + i) - 1
             /\ ps[i].length = 1
  <2>1. ps[i] = [q EXCEPT !.address = q.address + i - 1, !.length = 1]
    BY DEF Pieces
  <2>2. (q.address + i) - 1 \in Nat /\ 1 \in Int /\ q.address + i - 1 = (q.address + i) - 1
    BY <1>1
  <2> HIDE DEF ps
  <2> QED BY <2>1, <2>2 DEF Asked
<1>3. ps = [i \in 1 .. n |-> ps[i]]
  BY DEF Pieces
<1> HIDE DEF ps, n
<1>4. ps \in Seq(Asked) /\ Len(ps) = n
  BY <1>1, <1>2, <1>3
<1>5. ASSUME NEW i \in 1 .. n, NEW x
      PROVE  x \in Detection!Registers(ps[i]) <=> x = <<q.type, (q.address + i) - 1>>
  <2> DEFINE a == (q.address + i) - 1
  <2>1. a \in Nat /\ \A b \in Nat : a <= b /\ b < a + 1 <=> b = a
    BY <1>1
  <2> HIDE DEF a
  <2>2. ps[i] \in Asked /\ ps[i].type = q.type /\ ps[i].address = a /\ ps[i].length = 1
    BY <1>2 DEF a
  <2>3. x \in Detection!Registers(ps[i]) <=> \E b \in Nat : x = <<q.type, b>> /\ a <= b /\ b < a + 1
    BY <2>2, IsRegister
  <2>4. x \in Detection!Registers(ps[i]) <=> x = <<q.type, a>>
    BY <2>1, <2>3
  <2> QED BY <2>4 DEF a
<1>6. Apart(ps)
  <2>1. ASSUME NEW i \in 1 .. n, NEW j \in 1 .. n, i # j
        PROVE  Detection!Registers(ps[i]) \cap Detection!Registers(ps[j]) = {}
    <3>1. (q.address + i) - 1 # (q.address + j) - 1
      BY <1>1, <2>1
    <3> QED BY <1>5, <3>1
  <2>2. \A i \in 1 .. n : ps[i].length \in Nat /\ ps[i].length > 0
    BY <1>2
  <2> QED BY <1>4, <2>1, <2>2 DEF Apart
<1>7. ASSUME NEW x PROVE x \in Covered(ps) <=> x \in Detection!Registers(q)
  <2>1. x \in Covered(ps) <=> \E i \in 1 .. n : x \in Detection!Registers(ps[i])
    BY <1>4 DEF Covered
  <2>2. x \in Covered(ps) <=> \E i \in 1 .. n : x = <<q.type, (q.address + i) - 1>>
    BY <1>5, <2>1
  <2>3. ASSUME NEW i \in 1 .. n
        PROVE  (q.address + i) - 1 \in Nat /\ q.address <= (q.address + i) - 1
               /\ (q.address + i) - 1 < q.address + n
    BY <1>1
  <2>4. ASSUME NEW b \in Nat, q.address <= b, b < q.address + n
        PROVE  (b - q.address) + 1 \in 1 .. n /\ (q.address + ((b - q.address) + 1)) - 1 = b
    BY <1>1, <2>4
  <2>5. x \in Detection!Registers(q) <=>
          \E b \in Nat : x = <<q.type, b>> /\ q.address <= b /\ b < q.address + n
    BY IsRegister DEF n
  <2>6. ASSUME NEW i \in 1 .. n, x = <<q.type, (q.address + i) - 1>> PROVE x \in Detection!Registers(q)
    BY <2>3, <2>5, <2>6
  <2>7. ASSUME x \in Detection!Registers(q) PROVE \E i \in 1 .. n : x = <<q.type, (q.address + i) - 1>>
    <3>1. PICK b \in Nat : x = <<q.type, b>> /\ q.address <= b /\ b < q.address + n
      BY <2>5, <2>7
    <3>2. (b - q.address) + 1 \in 1 .. n /\ (q.address + ((b - q.address) + 1)) - 1 = b
      BY <2>4, <3>1
    <3> QED BY <3>1, <3>2
  <2> QED BY <2>2, <2>6, <2>7
<1> QED BY <1>6, <1>7 DEF ps

(***************************************************************************)
(* A detection.                                                                   *)
(***************************************************************************)

Results == values.data \cup values.error

(* While a detection reads, its results and what is still open make up what it asks for.      *)
Reading ==
  /\ InOrder(reads)
  /\ collected[1] \subseteq Covered(reads)
  /\ Apart(open)
  /\ Results \cup Covered(open) = Covered(reads)
  /\ Results \cap Covered(open) = {}
  /\ phase = "resolved" => open = <<>>
  /\ phase = "reading" /\ reads # <<>> => open # <<>>

DetectionInv ==
  /\ layout \in [Detectable -> Layouts]
  /\ collected # <<>> =>
       \E S \in SUBSET (Nat \X Nat) : IsFiniteSet(S) /\ collected = <<S>>
  /\ phase \in {"idle", "reading", "resolved"}
  /\ DOMAIN values = {"data", "error"}
  /\ phase = "idle" => open = <<>>
  /\ phase # "idle" => Reading

LEMMA DetectionBegins == Detection!Init => DetectionInv
<1> SUFFICES ASSUME Detection!Init PROVE DetectionInv
  OBVIOUS
<1>1. /\ layout \in [Detectable -> Layouts] /\ collected = <<>> /\ open = <<>> /\ phase = "idle"
      /\ values = [data |-> {}, error |-> {}]
  BY DEF Detection!Init
<1>2. DOMAIN values = {"data", "error"}
  BY <1>1
<1> QED BY <1>1, <1>2 DEF DetectionInv

(* What all specifications use is finite.                                                 *)
LEMMA AllRegistersFinite ==
  ASSUME DetectionInv
  PROVE  Detection!AllRegisters \in SUBSET (Nat \X Nat) /\ IsFiniteSet(Detection!AllRegisters)
<1> DEFINE L == {layout[s] : s \in Detectable}
<1>1. IsFiniteSet(Detectable) /\ \A l \in Layouts : l \in SUBSET (Nat \X Nat) /\ IsFiniteSet(l)
  BY PartsAssumption, DetectionFinite DEF Detection!DetectionAssumption
<1>2. \A l \in L : l \in SUBSET (Nat \X Nat) /\ IsFiniteSet(l)
  BY <1>1 DEF DetectionInv
<1>3. IsFiniteSet(L)
  <2> DEFINE f == [s \in Detectable |-> layout[s]]
  <2>1. f \in Surjection(Detectable, L)
    BY DEF Surjection
  <2> HIDE DEF f, L
  <2> QED BY <1>1, <2>1, FS_Surjection
<1>4. Detection!AllRegisters = UNION L
  BY DEF Detection!AllRegisters
<1> HIDE DEF L
<1>5. IsFiniteSet(UNION L)
  BY <1>2, <1>3, FS_UNION
<1> QED BY <1>2, <1>4, <1>5

LEMMA DetectKeeps ==
  ASSUME DetectionInv, Detection!Detect
  PROVE  DetectionInv'
<1>1. /\ collected' = IF collected = <<>> THEN <<Detection!AllRegisters>> ELSE collected
      /\ reads' = Detection!Prepare(collected'[1]) /\ open' = reads'
      /\ values' = [data |-> {}, error |-> {}]
      /\ phase' = "reading" /\ layout' = layout
  BY DEF Detection!Detect
<1>2. PICK S \in SUBSET (Nat \X Nat) : IsFiniteSet(S) /\ collected' = <<S>>
  BY <1>1, AllRegistersFinite DEF DetectionInv
<1>3. MaxRegisters \in Nat \ {0}
  BY PartsAssumption DEF Detection!DetectionAssumption
<1>4. InOrder(reads') /\ S \subseteq Covered(reads')
  <2>1. reads' = Detection!Prepare(S)
    BY <1>1, <1>2
  <2> QED BY <1>2, <1>3, <2>1, PreparedInOrder
<1>5. Apart(open')
  BY <1>1, <1>3, <1>4, InOrderIsApart
<1>6. Results' = {} /\ DOMAIN values' = {"data", "error"}
  BY <1>1 DEF Results
<1>7. collected'[1] \subseteq Covered(reads')
  BY <1>2, <1>4
<1>8. Reading'
  BY <1>1, <1>4, <1>5, <1>6, <1>7 DEF Reading
<1>9. collected' # <<>> => \E T \in SUBSET (Nat \X Nat) : IsFiniteSet(T) /\ collected' = <<T>>
  BY <1>2
<1> QED BY <1>1, <1>6, <1>8, <1>9 DEF DetectionInv

LEMMA AnsweredKeeps ==
  ASSUME DetectionInv, NEW outcome \in {"data", "error"}, Detection!Answered(outcome)
  PROVE  DetectionInv'
<1> DEFINE q == Head(open)
           all == Results \cup Detection!Registers(q)
<1>1. /\ open # <<>> /\ open' = Tail(open)
      /\ values' = [values EXCEPT ![outcome] = @ \cup Detection!Registers(q)]
      /\ layout' = layout /\ collected' = collected /\ reads' = reads
      /\ IF Detection!Cardinality(values'.data \cup values'.error) = Detection!AddressCount(reads)
         THEN phase' = "resolved" ELSE phase' = phase
  BY DEF Detection!Answered
<1>2. Reading /\ phase # "idle"
  BY <1>1 DEF DetectionInv
<1>3. /\ q \in Asked /\ q.length > 0
      /\ Apart(open')
      /\ Covered(open) = Detection!Registers(q) \cup Covered(open')
      /\ Detection!Registers(q) \cap Covered(open') = {}
  BY <1>1, <1>2, TailIsApart DEF Reading
<1>4. Results' = all /\ DOMAIN values' = {"data", "error"}
  BY <1>1 DEF DetectionInv, Results
<1>5. all \cup Covered(open') = Covered(reads) /\ all \cap Covered(open') = {}
  BY <1>2, <1>3 DEF Reading
<1>6. /\ IsFiniteSet(Covered(reads)) /\ Cardinality(Covered(reads)) = Detection!AddressCount(reads)
  BY <1>2, PartsAssumption, InOrderIsApart, CountIsExact DEF Reading, Detection!DetectionAssumption
<1> HIDE DEF all, q
<1>7. ASSUME open' # <<>> PROVE Covered(open') # {}
  <2>1. open'[1] \in Asked /\ open'[1].length > 0 /\ 1 \in 1 .. Len(open')
    BY <1>3, <1>7 DEF Apart
  <2>2. <<open'[1].type, open'[1].address>> \in Detection!Registers(open'[1])
    <3> DEFINE p == open'[1]
    <3>1. p.address \in Nat /\ p.length \in Int /\ p.length > 0 /\ p \in Asked
      BY <2>1 DEF Asked
    <3> HIDE DEF p
    <3>2. p.address <= p.address /\ p.address < p.address + p.length
      BY <3>1
    <3>3. <<p.type, p.address>> \in Detection!Registers(p)
      BY <3>1, <3>2, IsRegister
    <3> QED BY <3>3 DEF p
  <2> QED BY <2>1, <2>2 DEF Covered
<1>8. Cardinality(all) = Detection!AddressCount(reads) <=> open' = <<>>
  <2>1. ASSUME open' = <<>> PROVE all = Covered(reads)
    <3>1. Covered(open') = {}
      BY <2>1 DEF Covered
    <3> QED BY <1>5, <3>1
  <2>2. ASSUME open' # <<>> PROVE Cardinality(all) # Cardinality(Covered(reads))
    <3>1. all \subseteq Covered(reads) /\ all # Covered(reads)
      BY <1>5, <1>7, <2>2
    <3> QED BY <1>6, <3>1, FS_Subset
  <2> QED BY <1>6, <2>1, <2>2
<1>9. phase' = IF open' = <<>> THEN "resolved" ELSE phase
  <2>1. Detection!Cardinality(values'.data \cup values'.error) = Cardinality(all)
    BY <1>4, DetectionCardinality DEF Results
  <2> QED BY <1>1, <1>8, <2>1
<1>10. phase = "reading"
  BY <1>1, <1>2 DEF DetectionInv, Reading
<1>11. Reading'
  BY <1>1, <1>2, <1>3, <1>4, <1>5, <1>9, <1>10 DEF Reading
<1> QED BY <1>1, <1>4, <1>9, <1>10, <1>11 DEF DetectionInv

LEMMA SplitKeeps ==
  ASSUME DetectionInv, Detection!Split
  PROVE  DetectionInv'
<1> DEFINE q == Head(open)
<1>1. /\ open # <<>> /\ open' = Tail(open) \o Pieces(q)
      /\ layout' = layout /\ collected' = collected /\ reads' = reads
      /\ values' = values /\ phase' = phase
  BY DEF Detection!Split, Pieces
<1>2. q.length > 1
  BY DEF Detection!Split
<1>3. Reading /\ phase # "idle"
  BY <1>1 DEF DetectionInv
<1>4. /\ q \in Asked /\ q.length \in Nat
      /\ Apart(Tail(open))
      /\ Covered(open) = Detection!Registers(q) \cup Covered(Tail(open))
      /\ Detection!Registers(q) \cap Covered(Tail(open)) = {}
  BY <1>1, <1>3, TailIsApart DEF Reading
<1> HIDE DEF q
<1>5. Apart(Pieces(q)) /\ Covered(Pieces(q)) = Detection!Registers(q)
  BY <1>4, PiecesAreApart
<1>6. Apart(open') /\ Covered(open') = Covered(open)
  BY <1>1, <1>4, <1>5, JoinedIsApart
<1>7. open' # <<>>
  <2>1. Len(open') = Len(Tail(open)) + Len(Pieces(q)) /\ Len(Tail(open)) \in Nat /\ Len(Pieces(q)) \in Nat
    BY <1>1, <1>4, <1>5 DEF Apart
  <2>2. Len(Pieces(q)) = q.length
    BY <1>4 DEF Pieces
  <2> QED BY <1>2, <1>4, <2>1, <2>2
<1>8. Results' = Results
  BY <1>1 DEF Results
<1>9. phase = "reading"
  BY <1>1, <1>3 DEF DetectionInv, Reading
<1>10. Reading'
  BY <1>1, <1>3, <1>6, <1>7, <1>8, <1>9 DEF Reading
<1> QED BY <1>1, <1>9, <1>10 DEF DetectionInv

LEMMA DetectionKeeps == DetectionInv /\ [Detection!Next]_detectionVars => DetectionInv'
<1>1. ASSUME DetectionInv, NEW s \in Detectable, NEW l \in Layouts, Detection!EditSpecification(s, l)
      PROVE  DetectionInv'
  <2>1. /\ layout' = [layout EXCEPT ![s] = l]
        /\ collected' = collected /\ reads' = reads /\ open' = open /\ values' = values /\ phase' = phase
    BY <1>1 DEF Detection!EditSpecification
  <2>2. layout' \in [Detectable -> Layouts]
    BY <1>1, <2>1 DEF DetectionInv
  <2>3. Results' = Results
    BY <2>1 DEF Results
  <2>4. phase # "idle" => Reading'
    BY <1>1, <2>1, <2>3 DEF DetectionInv, Reading
  <2> QED BY <1>1, <2>1, <2>2, <2>4 DEF DetectionInv
<1>2. ASSUME DetectionInv, UNCHANGED detectionVars PROVE DetectionInv'
  <2>1. /\ layout' = layout /\ collected' = collected /\ reads' = reads /\ open' = open
        /\ values' = values /\ phase' = phase
    BY <1>2 DEF detectionVars
  <2>2. Results' = Results
    BY <2>1 DEF Results
  <2>3. phase # "idle" => Reading'
    BY <1>2, <2>1, <2>2 DEF DetectionInv, Reading
  <2> QED BY <1>2, <2>1, <2>3 DEF DetectionInv
<1> QED BY <1>1, <1>2, DetectKeeps, AnsweredKeeps, SplitKeeps DEF Detection!Next

(* A detection that resolves has a result for each register it was asked for, and resolves      *)
(* with the last answer, however registers were joined, requests split and specifications       *)
(* edited meanwhile; and no request is longer than allowed (ModbusRTUProcessor.execute).        *)
THEOREM DetectionReadsAll == PartsSpec => []ReadsAreExact
<1>1. Begin => DetectionInv
  BY DetectionBegins DEF Begin
<1>2. DetectionInv /\ [Step]_allVars => DetectionInv'
  <2>1. [Step]_allVars => [Detection!Next]_detectionVars
    BY DEF Step, allVars, Slaves, LocalDirectory, FilesOfSpecification, Contributing,
           EditingSpecification, EditingSlaves, Starting, Detecting, Bridging, Configuring
  <2> QED BY <2>1, DetectionKeeps
<1>3. DetectionInv => ReadsAreExact
  <2> SUFFICES ASSUME DetectionInv, phase # "idle", reads # <<>>
               PROVE  /\ phase = "resolved" <=> open = <<>>
                      /\ phase = "resolved" => collected[1] \subseteq values.data \cup values.error
                      /\ \A i \in DOMAIN reads : reads[i].length <= MaxRegisters
    BY DEF ReadsAreExact, Detection!ReadsAreExact
  <2>1. Reading /\ phase \in {"reading", "resolved"}
    BY DEF DetectionInv
  <2>2. phase = "resolved" <=> open = <<>>
    BY <2>1 DEF Reading
  <2>3. ASSUME phase = "resolved" PROVE collected[1] \subseteq Results
    <3>1. Covered(open) = {}
      BY <2>2, <2>3 DEF Covered
    <3> QED BY <2>1, <3>1 DEF Reading
  <2>4. ASSUME NEW i \in DOMAIN reads PROVE reads[i].length <= MaxRegisters
    <3>1. i \in 1 .. Len(reads) /\ reads[i].length \in 1 .. MaxRegisters
      BY <2>1 DEF Reading, InOrder
    <3>2. MaxRegisters \in Nat
      BY PartsAssumption DEF Detection!DetectionAssumption
    <3> QED BY <3>1, <3>2
  <2> QED BY <2>2, <2>3, <2>4 DEF Results
<1> QED BY <1>1, <1>2, <1>3, PTL DEF PartsSpec
=============================================================================
