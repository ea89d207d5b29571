-------------------------- MODULE RtuWorkerProofs --------------------------
(***************************************************************************)
(* Theorems about RtuWorker for all callers, registers, jobs and retry       *)
(* limits.                                                                   *)
(***************************************************************************)
EXTENDS RtuWorker, FiniteSetTheorems, TLAPS

(***************************************************************************)
(* Registers, jobs and entries.                                             *)
(***************************************************************************)

LEMMA MaxRetriesBounds ==
  /\ MaxRetries \in Nat
  /\ MaxErrorRetriesCrc <= MaxRetries
  /\ MaxErrorRetriesTimeout <= MaxRetries
  /\ MaxErrorRetriesOther <= MaxRetries
<1> DEFINE limits == {MaxErrorRetriesCrc, MaxErrorRetriesTimeout, MaxErrorRetriesOther}
           top(m) == m \in limits /\ \A n \in limits : n <= m
<1>1. \E m : top(m)
  BY RetriesAssumption
<1>2. top(MaxRetries)
  <2>1. MaxRetries = CHOOSE m : top(m)
    BY Zenon DEF MaxRetries
  <2> QED BY <1>1, <2>1
<1> QED BY <1>2, RetriesAssumption

LEMMA EntryRegisters ==
  ASSUME NEW e \in Entry
  PROVE  Registers(e) # {}
BY DEF Entry, Registers

(* The entries of a job lie apart and cover what it asks for.                *)
LEMMA JobEntries ==
  ASSUME NEW r \in Requests, NEW j \in Jobs
  PROVE  LET es == Entries(r, j) IN
         /\ es \in Seq(Entry)
         /\ es # <<>>
         /\ \A i \in DOMAIN es : es[i].req = r /\ Registers(es[i]) \subseteq Asked(j)
         /\ \A i, k \in DOMAIN es : i # k => Apart(es[i], es[k])
         /\ \A a \in Asked(j) : \E i \in DOMAIN es : a \in Registers(es[i])
<1> DEFINE es == Entries(r, j)
<1>1. /\ IsJob(j)
      /\ j \in JobRecord
  BY JobsAssumption
<1>2. /\ j.ranges \in Seq(Span)
      /\ j.ranges # <<>>
      /\ DOMAIN es = DOMAIN j.ranges
      /\ DOMAIN es = 1 .. Len(j.ranges)
      /\ \A i \in DOMAIN es : j.ranges[i] \in Span
  BY <1>1 DEF IsJob, JobRecord, Entries
<1>3. ASSUME NEW i \in DOMAIN es
      PROVE  /\ es[i] \in Entry
             /\ es[i].req = r
             /\ Registers(es[i]) = Registers(j.ranges[i])
  <2>1. es[i] = [req |-> r, task |-> j.task, op |-> j.op,
                 lo |-> j.ranges[i].lo, len |-> j.ranges[i].len,
                 split |-> Splits(j.task), retry |-> Retries(j.task),
                 useCache |-> UseCache(j.task), errorCount |-> 0]
    BY <1>2 DEF Entries
  <2>2. /\ j.task \in Tasks
        /\ j.op \in Operations
        /\ j.ranges[i].lo \in Nat
        /\ j.ranges[i].len \in Nat \ {0}
    BY <1>1, <1>2 DEF JobRecord, Span
  <2>3. /\ Splits(j.task) \in BOOLEAN
        /\ Retries(j.task) \in BOOLEAN
        /\ UseCache(j.task) \in BOOLEAN
        /\ 0 \in 0 .. MaxRetries
    BY MaxRetriesBounds DEF Splits, Retries, UseCache
  <2> QED BY <2>1, <2>2, <2>3 DEF Entry, Registers
<1>4. es \in Seq(Entry)
  <2>1. es = [i \in 1 .. Len(j.ranges) |-> es[i]]
    BY <1>2 DEF Entries
  <2>2. \A i \in 1 .. Len(j.ranges) : es[i] \in Entry
    BY <1>2, <1>3
  <2> HIDE DEF es
  <2> QED BY <2>1, <2>2, <1>2
<1>5. es # <<>>
  BY <1>2
<1>6. ASSUME NEW i \in DOMAIN es
      PROVE  Registers(es[i]) \subseteq Asked(j)
  BY <1>2, <1>3 DEF Asked
<1>7. ASSUME NEW i \in DOMAIN es, NEW k \in DOMAIN es, i # k
      PROVE  Apart(es[i], es[k])
  BY <1>1, <1>2, <1>3, <1>7 DEF IsJob, Apart
<1>8. ASSUME NEW a \in Asked(j)
      PROVE  \E i \in DOMAIN es : a \in Registers(es[i])
  BY <1>2, <1>3 DEF Asked
<1> HIDE DEF es
<1> QED BY <1>3, <1>4, <1>5, <1>6, <1>7, <1>8 DEF es

(* Splitting hands every register of an entry to one new entry.              *)
LEMMA SplitEntriesPartition ==
  ASSUME NEW e \in Entry
  PROVE  LET es == SplitEntries(e) IN
         /\ es \in Seq(Entry)
         /\ \A i \in DOMAIN es : es[i].req = e.req /\ Registers(es[i]) \subseteq Registers(e)
         /\ \A i, k \in DOMAIN es : i # k => Apart(es[i], es[k])
         /\ \A a \in Registers(e) : \E i \in DOMAIN es : a \in Registers(es[i])
<1> DEFINE es == SplitEntries(e)
<1>1. e.lo \in Nat /\ e.len \in Nat \ {0}
  BY DEF Entry
<1>2. DOMAIN es = 1 .. e.len
  BY DEF SplitEntries
<1>3. ASSUME NEW i \in 1 .. e.len
      PROVE  /\ es[i] \in Entry
             /\ es[i].req = e.req
             /\ Registers(es[i]) = {e.lo + i - 1}
  <2>1. es[i] = Part(e, e.lo + i - 1)
    BY DEF SplitEntries
  <2>2. e.lo + i - 1 \in Nat /\ 0 \in 0 .. MaxRetries /\ "splitted" \in Tasks
    BY <1>1, MaxRetriesBounds DEF Tasks, Priority
  <2>3. e.req \in Requests /\ e.useCache \in BOOLEAN /\ "read" \in Operations
    BY DEF Entry, Operations
  <2> QED BY <2>1, <2>2, <2>3 DEF Part, Entry, Registers
<1>4. es \in Seq(Entry)
  <2> DEFINE n == e.len
  <2>1. es = [i \in 1 .. n |-> es[i]]
    BY <1>2 DEF SplitEntries
  <2>2. \A i \in 1 .. n : es[i] \in Entry
    BY <1>3
  <2>3. n \in Nat
    BY <1>1
  <2> HIDE DEF es, n
  <2>4. es \in [1 .. n -> Entry]
    BY <2>1, <2>2
  <2> QED BY <2>3, <2>4
<1>5. \A i \in 1 .. e.len : e.lo + i - 1 \in Registers(e)
  BY <1>1 DEF Registers
<1>6. \A i, k \in 1 .. e.len : i # k => Apart(es[i], es[k])
  BY <1>1, <1>3 DEF Apart
<1>7. ASSUME NEW a \in Registers(e)
      PROVE  \E i \in 1 .. e.len : a \in Registers(es[i])
  <2>1. a \in Nat /\ a - e.lo + 1 \in 1 .. e.len /\ a = e.lo + (a - e.lo + 1) - 1
    BY <1>1 DEF Registers
  <2> QED BY <2>1, <1>3
<1> HIDE DEF es
<1> QED BY <1>2, <1>3, <1>4, <1>5, <1>6, <1>7 DEF es

(***************************************************************************)
(* The queue.                                                               *)
(***************************************************************************)

(* The entries of s are those of q with those of es inserted behind the nth.  *)
Inserted(s, q, es, n) ==
  /\ n \in 0 .. Len(q)
  /\ s \in Seq(Entry)
  /\ Len(s) = Len(q) + Len(es)
  /\ \A i \in 1 .. n : s[i] = q[i]
  /\ \A i \in 1 .. Len(es) : s[n + i] = es[i]
  /\ \A i \in n + 1 .. Len(q) : s[Len(es) + i] = q[i]

LEMMA Concatenation ==
  ASSUME NEW s \in Seq(Entry), NEW t \in Seq(Entry)
  PROVE  /\ s \o t \in Seq(Entry)
         /\ Len(s \o t) = Len(s) + Len(t)
         /\ \A i \in 1 .. Len(s) : (s \o t)[i] = s[i]
         /\ \A i \in 1 .. Len(t) : (s \o t)[Len(s) + i] = t[i]
OBVIOUS

(* The number of entries that are at least as urgent as task.                *)
Ahead(q, task) == Cardinality({i \in DOMAIN q : Priority[q[i].task] >= Priority[task]})

LEMMA EnqueueBehindAhead ==
  ASSUME NEW q \in Seq(Entry), NEW es \in Seq(Entry), NEW task
  PROVE  Inserted(Enqueue(q, es, task), q, es, Ahead(q, task))
<1> DEFINE ahead == {i \in DOMAIN q : Priority[q[i].task] >= Priority[task]}
           n == Cardinality(ahead)
           before == SubSeq(q, 1, n)
           after == SubSeq(q, n + 1, Len(q))
           s == before \o es \o after
<1>1. n \in 0 .. Len(q)
  <2>1. IsFiniteSet(1 .. Len(q)) /\ Cardinality(1 .. Len(q)) = Len(q)
    BY FS_Interval
  <2>2. ahead \subseteq 1 .. Len(q)
    OBVIOUS
  <2>3. n <= Cardinality(1 .. Len(q)) /\ n \in Nat
    BY <2>1, <2>2, FS_Subset, FS_CardinalityType
  <2> QED BY <2>1, <2>3
<1>2. s = Enqueue(q, es, task)
  BY DEF Enqueue
<1> HIDE DEF ahead, n
<1>3. /\ before \in Seq(Entry) /\ Len(before) = n
      /\ \A i \in 1 .. n : before[i] = q[i]
  BY <1>1
<1>4. /\ after \in Seq(Entry) /\ Len(after) = Len(q) - n
      /\ \A i \in 1 .. Len(q) - n : after[i] = q[n + i]
  BY <1>1
<1> HIDE DEF before, after
<1>5. /\ s \in Seq(Entry)
      /\ Len(s) = Len(q) + Len(es)
      /\ \A i \in 1 .. n : s[i] = before[i]
      /\ \A i \in 1 .. Len(es) : s[n + i] = es[i]
      /\ \A i \in 1 .. Len(q) - n : s[Len(es) + n + i] = after[i]
  <2> DEFINE mid == before \o es
  <2>1. /\ mid \in Seq(Entry) /\ Len(mid) = n + Len(es)
        /\ \A i \in 1 .. n : mid[i] = before[i]
        /\ \A i \in 1 .. Len(es) : mid[n + i] = es[i]
    BY <1>1, <1>3
  <2>2. s = mid \o after
    OBVIOUS
  <2> HIDE DEF mid, s
  <2>3. /\ s \in Seq(Entry)
        /\ Len(s) = Len(mid) + Len(after)
        /\ \A i \in 1 .. Len(mid) : s[i] = mid[i]
        /\ \A i \in 1 .. Len(after) : s[Len(mid) + i] = after[i]
    BY <1>4, <2>1, <2>2, Concatenation
  <2>4. /\ \A i \in 1 .. n : s[i] = before[i]
        /\ \A i \in 1 .. Len(es) : s[n + i] = es[i]
    <3>1. /\ \A i \in 1 .. n : i \in 1 .. Len(mid)
          /\ \A i \in 1 .. Len(es) : n + i \in 1 .. Len(mid)
      BY <1>1, <2>1
    <3> QED BY <2>1, <2>3, <3>1
  <2>5. \A i \in 1 .. Len(q) - n : s[Len(es) + n + i] = after[i]
    <3> TAKE i \in 1 .. Len(q) - n
    <3>1. i \in 1 .. Len(after) /\ Len(es) + n + i = Len(mid) + i
      BY <1>1, <1>4, <2>1
    <3> QED BY <2>3, <3>1
  <2>6. Len(s) = Len(q) + Len(es)
    BY <1>1, <1>4, <2>1, <2>3
  <2> QED BY <2>3, <2>4, <2>5, <2>6
<1>6. \A i \in n + 1 .. Len(q) : s[Len(es) + i] = q[i]
  <2> TAKE i \in n + 1 .. Len(q)
  <2>1. i - n \in 1 .. Len(q) - n /\ n + (i - n) = i /\ Len(es) + n + (i - n) = Len(es) + i
    BY <1>1
  <2> HIDE DEF s
  <2> QED BY <1>4, <1>5, <2>1
<1> HIDE DEF s
<1>7. Inserted(s, q, es, n)
  <2>1. \A i \in 1 .. n : s[i] = q[i]
    BY <1>3, <1>5
  <2> QED BY <1>1, <1>5, <1>6, <2>1 DEF Inserted
<1>8. n = Ahead(q, task)
  BY DEF n, ahead, Ahead
<1> QED BY <1>2, <1>7, <1>8, Zenon

LEMMA EnqueueInserts ==
  ASSUME NEW q \in Seq(Entry), NEW es \in Seq(Entry), NEW task
  PROVE  \E n : Inserted(Enqueue(q, es, task), q, es, n)
BY EnqueueBehindAhead

(* No entry is invented and none is lost.                                    *)
LEMMA EnqueueEntries ==
  ASSUME NEW q \in Seq(Entry), NEW es \in Seq(Entry), NEW task
  PROVE  LET s == Enqueue(q, es, task) IN
         /\ s \in Seq(Entry)
         /\ \A i \in DOMAIN s : \/ \E k \in DOMAIN q : s[i] = q[k]
                              \/ \E k \in DOMAIN es : s[i] = es[k]
         /\ \A k \in DOMAIN q : \E i \in DOMAIN s : s[i] = q[k]
         /\ \A k \in DOMAIN es : \E i \in DOMAIN s : s[i] = es[k]
<1> DEFINE s == Enqueue(q, es, task)
<1> HIDE DEF s
<1>1. PICK n : Inserted(s, q, es, n)
  BY EnqueueInserts DEF s
<1>2. ASSUME NEW i \in DOMAIN s
      PROVE  \/ \E k \in DOMAIN q : s[i] = q[k]
             \/ \E k \in DOMAIN es : s[i] = es[k]
  <2>1. CASE i <= n
    <3>1. i \in DOMAIN q /\ s[i] = q[i]
      BY <1>1, <2>1 DEF Inserted
    <3> QED BY <3>1, Zenon
  <2>2. CASE n < i /\ i <= n + Len(es)
    <3>1. i - n \in 1 .. Len(es) /\ i = n + (i - n)
      BY <1>1, <2>2 DEF Inserted
    <3>2. i - n \in DOMAIN es /\ s[i] = es[i - n]
      BY <1>1, <3>1 DEF Inserted
    <3> QED BY <3>2, Zenon
  <2>3. CASE n + Len(es) < i
    <3>1. i - Len(es) \in n + 1 .. Len(q) /\ i = Len(es) + (i - Len(es))
      BY <1>1, <2>3 DEF Inserted
    <3>2. i - Len(es) \in DOMAIN q /\ s[i] = q[i - Len(es)]
      BY <1>1, <3>1 DEF Inserted
    <3> QED BY <3>2, Zenon
  <2> QED BY <1>1, <2>1, <2>2, <2>3 DEF Inserted
<1>3. ASSUME NEW k \in DOMAIN q
      PROVE  \E i \in DOMAIN s : s[i] = q[k]
  <2>1. CASE k <= n
    <3>1. k \in DOMAIN s /\ s[k] = q[k]
      BY <1>1, <2>1 DEF Inserted
    <3> QED BY <3>1, Zenon
  <2>2. CASE n < k
    <3>1. k \in n + 1 .. Len(q) /\ Len(es) + k \in DOMAIN s
      BY <1>1, <2>2 DEF Inserted
    <3>2. s[Len(es) + k] = q[k]
      BY <1>1, <3>1 DEF Inserted
    <3> QED BY <3>1, <3>2, Zenon
  <2> QED BY <1>1, <2>1, <2>2 DEF Inserted
<1>4. ASSUME NEW k \in DOMAIN es
      PROVE  \E i \in DOMAIN s : s[i] = es[k]
  <2>1. k \in 1 .. Len(es) /\ n + k \in 1 .. Len(s) /\ DOMAIN s = 1 .. Len(s)
    BY <1>1 DEF Inserted
  <2>2. s[n + k] = es[k]
    BY <1>1, <2>1 DEF Inserted
  <2> QED BY <2>1, <2>2, Zenon
<1> QED BY <1>1, <1>2, <1>3, <1>4 DEF Inserted, s

LEMMA EnqueueOnEmpty ==
  ASSUME NEW es \in Seq(Entry), NEW task
  PROVE  Enqueue(<<>>, es, task) = es
<1> DEFINE s == Enqueue(<<>>, es, task)
<1> HIDE DEF s
<1>1. <<>> \in Seq(Entry)
  OBVIOUS
<1>2. PICK n : Inserted(s, <<>>, es, n)
  BY <1>1, EnqueueInserts DEF s
<1>3. n = 0 /\ s \in Seq(Entry) /\ Len(s) = Len(es)
  BY <1>2 DEF Inserted
<1>4. \A i \in 1 .. Len(es) : s[i] = es[i]
  BY <1>2, <1>3 DEF Inserted
<1> QED BY <1>3, <1>4 DEF s

(* Entries that lie apart stay apart.                                        *)
LEMMA EnqueueApart ==
  ASSUME NEW q \in Seq(Entry), NEW es \in Seq(Entry), NEW task,
         \A i, k \in DOMAIN q : i # k => Apart(q[i], q[k]),
         \A i, k \in DOMAIN es : i # k => Apart(es[i], es[k]),
         \A i \in DOMAIN q, k \in DOMAIN es : Apart(q[i], es[k])
  PROVE  LET s == Enqueue(q, es, task) IN
         \A i, k \in DOMAIN s : i # k => Apart(s[i], s[k])
<1> DEFINE s == Enqueue(q, es, task)
<1> HIDE DEF s
<1>1. PICK n : Inserted(s, q, es, n)
  BY EnqueueInserts DEF s
<1> DEFINE old(i) == IF i <= n THEN i ELSE i - Len(es)
           new(i) == i - n
           isNew(i) == n < i /\ i <= n + Len(es)
<1>2. n \in Nat /\ Len(es) \in Nat
  BY <1>1 DEF Inserted
<1>3. ASSUME NEW i \in DOMAIN s, isNew(i)
      PROVE  new(i) \in DOMAIN es /\ s[i] = es[new(i)]
  <2>1. i - n \in 1 .. Len(es) /\ i = n + (i - n)
    BY <1>1, <1>3 DEF Inserted
  <2> QED BY <1>1, <2>1 DEF Inserted
<1>4. ASSUME NEW i \in DOMAIN s, ~isNew(i)
      PROVE  old(i) \in DOMAIN q /\ s[i] = q[old(i)]
  <2>1. CASE i <= n
    BY <1>1, <2>1 DEF Inserted
  <2>2. CASE n + Len(es) < i
    <3>1. i - Len(es) \in n + 1 .. Len(q) /\ i = Len(es) + (i - Len(es)) /\ ~(i <= n)
      BY <1>1, <2>2 DEF Inserted
    <3> QED BY <1>1, <3>1 DEF Inserted
  <2> QED BY <1>1, <1>2, <1>4, <2>1, <2>2 DEF Inserted
<1>5. \A e, f : Apart(e, f) => Apart(f, e)
  BY DEF Apart
<1>6. ASSUME NEW i \in DOMAIN s, NEW k \in DOMAIN s, i # k
      PROVE  Apart(s[i], s[k])
  <2>0. i \in Nat /\ k \in Nat
    BY <1>1 DEF Inserted
  <2>1. CASE isNew(i) /\ isNew(k)
    <3>1. new(i) # new(k)
      BY <1>2, <1>6, <2>0
    <3> QED BY <1>3, <2>1, <3>1
  <2>2. CASE isNew(i) /\ ~isNew(k)
    BY <1>3, <1>4, <1>5, <2>2
  <2>3. CASE ~isNew(i) /\ isNew(k)
    BY <1>3, <1>4, <2>3
  <2>4. CASE ~isNew(i) /\ ~isNew(k)
    <3>1. old(i) # old(k)
      BY <1>2, <1>6, <2>0, <2>4
    <3> QED BY <1>4, <2>4, <3>1
  <2> QED BY <2>1, <2>2, <2>3, <2>4
<1> QED BY <1>6 DEF s

(***************************************************************************)
(* The inductive invariant.  OwedOnce needs that one chain at most holds an   *)
(* entry, and that a call not yet made has no answers; the former needs that  *)
(* a worker that is not running has no chain, and the proof for a call that   *)
(* wakes it up uses that it has no queue either.                             *)
(***************************************************************************)

IdleHasNoWork == ~isRunning => chains = {} /\ queue = <<>>

FreshCalls == \A r \in Requests : status[r] = "idle" => job[r] = NoJob /\ DOMAIN result[r] = {}

IInv ==
  /\ TypeOK
  /\ OneInFlight
  /\ OwedOnce
  /\ IdleHasNoWork
  /\ FreshCalls

LEMMA AskedAddresses ==
  ASSUME NEW j \in Jobs \cup {NoJob}
  PROVE  Asked(j) \subseteq Addresses
<1>1. CASE j \in Jobs
  BY <1>1, JobsAssumption DEF IsJob
<1>2. CASE j = NoJob
  BY <1>2 DEF NoJob, Asked
<1> QED BY <1>1, <1>2

LEMMA NoJobAsksNothing == Asked(NoJob) = {}
BY DEF NoJob, Asked

(* What a step of the worker does to the call it serves with the entry e: it  *)
(* answers registers of e or leaves e in hand, and touches no other call.    *)
Served(e) ==
  /\ result' \in [Requests -> ResultMaps]
  /\ status' \in [Requests -> {"idle", "open", "settled"}]
  /\ status'[e.req] # "idle"
  /\ \A r \in Requests \ {e.req} : result'[r] = result[r] /\ status'[r] = status[r]
  /\ DOMAIN result[e.req] \subseteq DOMAIN result'[e.req]
  /\ DOMAIN result'[e.req] \subseteq DOMAIN result[e.req] \cup Registers(e)

(* The chains after such a step.                                             *)
Holds(e) ==
  /\ chains' \subseteq Chain
  /\ \A c, d \in chains' : c = d
  /\ handlers' \in Nat
  /\ \A c \in chains' : Busy(c) =>
       /\ c.entry.req = e.req
       /\ Registers(c.entry) = Registers(e)
       /\ DOMAIN result'[e.req] = DOMAIN result[e.req]

LEMMA GiveServes ==
  ASSUME result \in [Requests -> ResultMaps],
         status \in [Requests -> {"idle", "open", "settled"}],
         NEW e \in Entry, NEW f \in ResultMaps,
         DOMAIN f \subseteq Registers(e),
         Give(e, f)
  PROVE  /\ Served(e)
         /\ DOMAIN result'[e.req] = DOMAIN result[e.req] \cup DOMAIN f
         /\ (f = NoResults) => result' = result
<1> DEFINE all == Merge(result[e.req], f)
<1>1. e.req \in Requests /\ result[e.req] \in ResultMaps
  BY DEF Entry
<1>2. PICK S \in SUBSET Addresses : result[e.req] \in [S -> Results]
  BY <1>1 DEF ResultMaps
<1>3. PICK T \in SUBSET Addresses : f \in [T -> Results]
  BY DEF ResultMaps
<1>4. all \in [S \cup T -> Results]
  BY <1>2, <1>3 DEF Merge
<1>5. all \in ResultMaps /\ DOMAIN all = DOMAIN result[e.req] \cup DOMAIN f
  BY <1>2, <1>3, <1>4 DEF ResultMaps
<1> HIDE DEF all
<1>6. /\ result' = [result EXCEPT ![e.req] = all]
      /\ status' = [status EXCEPT ![e.req] =
                      IF Complete(all, job'[e.req]) THEN "settled" ELSE "open"]
  BY DEF Give, all
<1>7. (f = NoResults) => all = result[e.req]
  BY <1>2 DEF all, NoResults, Merge
<1>8. (f = NoResults) => result' = result
  BY <1>1, <1>6, <1>7
<1> QED BY <1>1, <1>5, <1>6, <1>8 DEF Served

LEMMA NoResultsTyped == NoResults \in ResultMaps /\ DOMAIN NoResults = {}
<1>1. NoResults \in [{} -> Results]
  BY DEF NoResults
<1> QED BY <1>1 DEF ResultMaps, NoResults

LEMMA UniformTyped ==
  ASSUME NEW e \in Entry, Registers(e) \subseteq Addresses, NEW v \in Results
  PROVE  Uniform(e, v) \in ResultMaps /\ DOMAIN Uniform(e, v) = Registers(e)
<1>1. Uniform(e, v) \in [Registers(e) -> Results]
  BY DEF Uniform
<1> QED BY <1>1 DEF ResultMaps, Uniform

LEMMA FromCacheTyped ==
  ASSUME NEW e \in Entry, Registers(e) \subseteq Addresses
  PROVE  FromCache(e) \in ResultMaps /\ DOMAIN FromCache(e) = Registers(e)
<1>1. FromCache(e) \in [Registers(e) -> Results]
  BY DEF FromCache, Results
<1> QED BY <1>1 DEF ResultMaps, FromCache

LEMMA ExecuteServes ==
  ASSUME result \in [Requests -> ResultMaps],
         status \in [Requests -> {"idle", "open", "settled"}],
         handlers \in Nat,
         NEW e \in Entry, Registers(e) \subseteq Addresses,
         Execute(e, {})
  PROVE  Served(e) /\ Holds(e) /\ chains' # {}
<1>1. CASE InCache(e)
  <2>1. /\ chains' = {At(e, "next")}
        /\ handlers' = handlers + 1
        /\ Give(e, FromCache(e))
    BY <1>1 DEF Execute
  <2>2. Served(e)
    BY <2>1, FromCacheTyped, GiveServes
  <2>3. Holds(e)
    BY <2>1 DEF Holds, At, Chain, Stages, Busy
  <2> QED BY <2>1, <2>2, <2>3
<1>2. CASE ~InCache(e)
  <2>1. /\ chains' = {At(e, "wire")}
        /\ handlers' = handlers
        /\ Give(e, NoResults)
    BY <1>2 DEF Execute
  <2>2. Served(e) /\ result' = result
    BY <2>1, NoResultsTyped, GiveServes
  <2>3. Holds(e)
    BY <2>1, <2>2 DEF Holds, At, Chain, Stages
  <2> QED BY <2>1, <2>2, <2>3
<1> QED BY <1>1, <1>2

LEMMA BeginServes ==
  ASSUME result \in [Requests -> ResultMaps],
         status \in [Requests -> {"idle", "open", "settled"}],
         handlers \in Nat,
         NEW e \in Entry, Registers(e) \subseteq Addresses,
         Begin(e, {})
  PROVE  Served(e) /\ Holds(e)
<1>1. CASE Execute(e, {})
  BY <1>1, ExecuteServes
<1>2. CASE Give(e, NoResults)
  <2>1. Served(e) /\ result' = result
    BY <1>2, NoResultsTyped, GiveServes
  <2>2. /\ \/ chains' = {At(e, "wire")}
           \/ chains' = {At(e, "next")}
           \/ chains' = {}
        /\ handlers' \in Nat
    BY DEF Begin, Execute
  <2>3. Holds(e)
    BY <2>1, <2>2 DEF Holds, At, Chain, Stages
  <2> QED BY <2>1, <2>3
<1> QED BY <1>1, <1>2 DEF Begin

(* The part of the invariant that a served entry puts at stake.              *)
LEMMA ServingKeepsOwedOnce ==
  ASSUME NEW e \in Entry, Served(e), Holds(e),
         result \in [Requests -> ResultMaps],
         queue' \in Seq(Entry),
         \A i, k \in DOMAIN queue' : i # k => Apart(queue'[i], queue'[k]),
         \A i \in DOMAIN queue' : Apart(e, queue'[i]),
         \A i \in DOMAIN queue' :
           Registers(queue'[i]) \subseteq Asked(job'[queue'[i].req]) \ DOMAIN result[queue'[i].req],
         Registers(e) \subseteq Asked(job'[e.req]) \ DOMAIN result[e.req]
  PROVE  OwedOnce' /\ OneInFlight'
<1>1. OneInFlight'
  BY DEF Holds, OneInFlight
<1>2. ASSUME NEW i \in DOMAIN queue'
      PROVE  Unanswered(queue[i])'
  <2> DEFINE f == queue'[i]
  <2>0. f \in Entry
    OBVIOUS
  <2>1. f.req \in Requests
    <3> HIDE DEF f
    <3> QED BY <2>0 DEF Entry
  <2>2. Registers(f) \subseteq Asked(job'[f.req]) \ DOMAIN result[f.req]
    OBVIOUS
  <2>3. Apart(e, f)
    OBVIOUS
  <2> HIDE DEF f
  <2>4. Registers(f) \cap DOMAIN result'[f.req] = {}
    <3>1. CASE f.req # e.req
      <4>1. result'[f.req] = result[f.req]
        BY <2>1, <3>1 DEF Served
      <4> QED BY <2>2, <4>1
    <3>2. CASE f.req = e.req
      <4>1. Registers(e) \cap Registers(f) = {}
        BY <2>3, <3>2 DEF Apart
      <4>2. DOMAIN result'[f.req] \subseteq DOMAIN result[f.req] \cup Registers(e)
        BY <3>2 DEF Served
      <4> QED BY <2>2, <4>1, <4>2
    <3> QED BY <3>1, <3>2
  <2>5. Registers(f) \subseteq Asked(job'[f.req]) \ DOMAIN result'[f.req]
    BY <2>2, <2>4
  <2> QED BY <2>5 DEF Unanswered, f
<1>3. ASSUME NEW c \in chains', Busy(c)
      PROVE  /\ Unanswered(c.entry)'
             /\ \A i \in DOMAIN queue' : Apart(c.entry, queue'[i])
  <2>1. /\ c.entry.req = e.req
        /\ Registers(c.entry) = Registers(e)
        /\ DOMAIN result'[e.req] = DOMAIN result[e.req]
    BY <1>3 DEF Holds
  <2>2. Registers(c.entry) \subseteq Asked(job'[c.entry.req]) \ DOMAIN result'[c.entry.req]
    BY <2>1
  <2>3. \A i \in DOMAIN queue' : Apart(c.entry, queue'[i])
    BY <2>1 DEF Apart
  <2> QED BY <2>2, <2>3 DEF Unanswered
<1>4. OwedOnce'
  <2>1. \A i, k \in DOMAIN queue' : i # k => Apart(queue'[i], queue'[k])
    OBVIOUS
  <2>2. \A i \in DOMAIN queue' : Unanswered(queue[i])'
    BY <1>2
  <2>3. \A c \in chains' : Busy(c) =>
          /\ Unanswered(c.entry)'
          /\ \A i \in DOMAIN queue' : Apart(c.entry, queue'[i])
    BY <1>3
  <2> QED BY <2>1, <2>2, <2>3 DEF OwedOnce, Busy, Apart, Unanswered
<1> QED BY <1>1, <1>4

(* Retrying keeps the entry but for the number of its errors.                *)
LEMMA RetryEntry ==
  ASSUME NEW e \in Entry, NEW error \in ReadErrors, Remedy(e, error) = "retry"
  PROVE  /\ Retried(e) \in Entry
         /\ Retried(e).req = e.req
         /\ Registers(Retried(e)) = Registers(e)
<1>1. e.errorCount < RetryLimit(error)
  BY DEF Remedy
<1>2. RetryLimit(error) \in Nat /\ RetryLimit(error) <= MaxRetries
  BY MaxRetriesBounds, RetriesAssumption DEF RetryLimit, ReadErrors
<1>3. e.errorCount + 1 \in 0 .. MaxRetries
  BY <1>1, <1>2, MaxRetriesBounds DEF Entry
<1>4. Retried(e) \in Entry
  BY <1>3 DEF Retried, Entry
<1>5. Retried(e).req = e.req /\ Retried(e).lo = e.lo /\ Retried(e).len = e.len
  BY DEF Retried, Entry
<1> QED BY <1>4, <1>5 DEF Registers

LEMMA InitIInv == Init => IInv
<1> SUFFICES ASSUME Init
             PROVE  IInv
  OBVIOUS
<1>1. TypeOK
  <2>1. cache \in [Addresses -> CacheEntry]
    BY DEF Init, CacheEntry, Uncached, Ages
  <2>2. result \in [Requests -> ResultMaps]
    BY NoResultsTyped DEF Init
  <2>3. queue \in Seq(Entry)
    BY DEF Init
  <2>4. job \in [Requests -> Jobs \cup {NoJob}]
    BY DEF Init
  <2>5. status \in [Requests -> {"idle", "open", "settled"}]
    BY DEF Init
  <2> QED BY <2>1, <2>2, <2>3, <2>4, <2>5 DEF Init, TypeOK
<1>2. OneInFlight /\ OwedOnce /\ IdleHasNoWork
  BY DEF Init, OneInFlight, OwedOnce, IdleHasNoWork
<1>3. FreshCalls
  BY NoResultsTyped DEF Init, FreshCalls
<1> QED BY <1>1, <1>2, <1>3 DEF IInv

(* The entries in the queue and in hand stay on registers of the bus.        *)
LEMMA EntriesKnown ==
  ASSUME IInv
  PROVE  /\ \A i \in DOMAIN queue : queue[i] \in Entry /\ Registers(queue[i]) \subseteq Addresses
         /\ \A c \in chains : c.entry \in Entry /\ (Busy(c) => Registers(c.entry) \subseteq Addresses)
<1>1. \A r \in Requests : Asked(job[r]) \subseteq Addresses
  BY AskedAddresses DEF IInv, TypeOK
<1>2. \A i \in DOMAIN queue : queue[i] \in Entry
  BY DEF IInv, TypeOK
<1>3. \A c \in chains : c.entry \in Entry
  BY DEF IInv, TypeOK, Chain
<1>4. \A e \in Entry : e.req \in Requests
  BY DEF Entry
<1> QED BY <1>1, <1>2, <1>3, <1>4 DEF IInv, OwedOnce, Unanswered

(* The entries of q would be fit to wait in the queue of the next state, if no *)
(* more results were given.                                                  *)
Fit(q) ==
  /\ q \in Seq(Entry)
  /\ \A i, k \in DOMAIN q : i # k => Apart(q[i], q[k])
  /\ \A i \in DOMAIN q : Registers(q[i]) \subseteq Asked(job'[q[i].req]) \ DOMAIN result[q[i].req]

LEMMA FitQueue ==
  ASSUME IInv, \A i \in DOMAIN queue : job'[queue[i].req] = job[queue[i].req]
  PROVE  Fit(queue)
BY DEF IInv, TypeOK, OwedOnce, Unanswered, Fit

LEMMA FitTail ==
  ASSUME NEW q, Fit(q), q # <<>>
  PROVE  /\ Fit(Tail(q))
         /\ Head(q) \in Entry
         /\ Registers(Head(q)) \subseteq Asked(job'[Head(q).req]) \ DOMAIN result[Head(q).req]
         /\ \A i \in DOMAIN Tail(q) : Apart(Head(q), Tail(q)[i])
<1>1. /\ q \in Seq(Entry)
      /\ Head(q) = q[1] /\ 1 \in DOMAIN q
      /\ Tail(q) \in Seq(Entry)
      /\ \A i \in DOMAIN Tail(q) : i + 1 \in DOMAIN q /\ Tail(q)[i] = q[i + 1] /\ 1 # i + 1
      /\ \A i, k \in DOMAIN Tail(q) : i # k => i + 1 # k + 1
  BY DEF Fit
<1> DEFINE t == Tail(q)
           h == Head(q)
<1> HIDE DEF t, h
<1>2. \A i, k \in DOMAIN t : i # k => Apart(t[i], t[k])
  BY <1>1 DEF Fit, t
<1>3. \A i \in DOMAIN t : Registers(t[i]) \subseteq Asked(job'[t[i].req]) \ DOMAIN result[t[i].req]
  BY <1>1 DEF Fit, t
<1>4. \A i \in DOMAIN t : Apart(h, t[i])
  BY <1>1 DEF Fit, t, h
<1>5. h \in Entry /\ Registers(h) \subseteq Asked(job'[h.req]) \ DOMAIN result[h.req]
  BY <1>1 DEF Fit, h
<1> QED BY <1>1, <1>2, <1>3, <1>4, <1>5 DEF Fit, t, h

LEMMA FitEnqueue ==
  ASSUME NEW q, NEW es, NEW task, Fit(q), Fit(es),
         \A i \in DOMAIN q, k \in DOMAIN es : Apart(q[i], es[k])
  PROVE  Fit(Enqueue(q, es, task))
<1> DEFINE s == Enqueue(q, es, task)
<1> HIDE DEF s
<1>1. q \in Seq(Entry) /\ es \in Seq(Entry)
  BY DEF Fit
<1>2. /\ s \in Seq(Entry)
      /\ \A i \in DOMAIN s : \/ \E k \in DOMAIN q : s[i] = q[k]
                           \/ \E k \in DOMAIN es : s[i] = es[k]
  BY <1>1, EnqueueEntries DEF s
<1>3. \A i, k \in DOMAIN s : i # k => Apart(s[i], s[k])
  BY <1>1, EnqueueApart DEF Fit, s
<1>4. ASSUME NEW i \in DOMAIN s
      PROVE  Registers(s[i]) \subseteq Asked(job'[s[i].req]) \ DOMAIN result[s[i].req]
  <2>1. CASE \E k \in DOMAIN q : s[i] = q[k]
    BY <2>1 DEF Fit
  <2>2. CASE \E k \in DOMAIN es : s[i] = es[k]
    BY <2>2 DEF Fit
  <2> QED BY <1>2, <2>1, <2>2
<1> QED BY <1>2, <1>3, <1>4 DEF Fit, s

(* An entry with a register to answer belongs to a call that was made.       *)
LEMMA MadeCalls ==
  ASSUME IInv, NEW e \in Entry, Unanswered(e)
  PROVE  e.req \in Requests /\ status[e.req] # "idle"
<1>1. e.req \in Requests
  BY DEF Entry
<1>2. job[e.req] # NoJob
  BY EntryRegisters, NoJobAsksNothing DEF Unanswered
<1> QED BY <1>1, <1>2 DEF IInv, FreshCalls

(* A step that serves e keeps the invariant.                                 *)
LEMMA ServingKeepsIInv ==
  ASSUME IInv, NEW e \in Entry, Served(e), Holds(e), Fit(queue'),
         \A i \in DOMAIN queue' : Apart(e, queue'[i]),
         Registers(e) \subseteq Asked(job'[e.req]) \ DOMAIN result[e.req],
         isRunning',
         cache' \in [Addresses -> CacheEntry],
         reported' \subseteq Requests \X Addresses,
         job' \in [Requests -> Jobs \cup {NoJob}],
         \A r \in Requests \ {e.req} : job'[r] = job[r],
         isRunning' \in BOOLEAN
  PROVE  IInv'
<1>1. OwedOnce' /\ OneInFlight'
  BY ServingKeepsOwedOnce DEF IInv, TypeOK, Fit
<1>2. TypeOK'
  BY DEF TypeOK, Fit, Served, Holds
<1>3. IdleHasNoWork'
  BY DEF IdleHasNoWork
<1>4. FreshCalls'
  BY DEF IInv, FreshCalls, Served
<1> QED BY <1>1, <1>2, <1>3, <1>4 DEF IInv

(* So does a step that answers nothing and leaves no chain with an entry.    *)
LEMMA QuietKeepsIInv ==
  ASSUME IInv, Fit(queue'),
         chains' \subseteq Chain, \A c, d \in chains' : c = d, \A c \in chains' : ~Busy(c),
         handlers' \in Nat,
         isRunning' \in BOOLEAN, ~isRunning' => chains' = {} /\ queue' = <<>>,
         cache' = cache,
         reported' \subseteq Requests \X Addresses,
         job' = job, result' = result, status' = status
  PROVE  IInv'
<1>1. OneInFlight'
  BY DEF OneInFlight
<1>2. TypeOK'
  BY DEF IInv, TypeOK, Fit
<1>3. IdleHasNoWork'
  BY DEF IdleHasNoWork
<1>4. FreshCalls'
  BY DEF IInv, FreshCalls
<1>5. OwedOnce'
  <2>1. \A i, k \in DOMAIN queue' : i # k => Apart(queue'[i], queue'[k])
    BY DEF Fit
  <2>2. \A i \in DOMAIN queue' : Unanswered(queue[i])'
    BY DEF Fit, Unanswered
  <2> QED BY <2>1, <2>2 DEF OwedOnce, Busy, Apart, Unanswered
<1> QED BY <1>1, <1>2, <1>3, <1>4, <1>5 DEF IInv

(***************************************************************************)
(* The actions keep the invariant.                                          *)
(***************************************************************************)

(* What is known of the entry a chain works on.                              *)
LEMMA BusyChain ==
  ASSUME IInv, NEW c \in chains, Busy(c)
  PROVE  /\ chains = {c}
         /\ chains \ {c} = {}
         /\ isRunning
         /\ c.entry \in Entry
         /\ Registers(c.entry) \subseteq Asked(job[c.entry.req]) \ DOMAIN result[c.entry.req]
         /\ Registers(c.entry) \subseteq Addresses
         /\ \A i \in DOMAIN queue : Apart(c.entry, queue[i])
         /\ status[c.entry.req] # "idle"
<1>1. chains = {c} /\ isRunning
  BY DEF IInv, OneInFlight, IdleHasNoWork
<1>2. c.entry \in Entry /\ Registers(c.entry) \subseteq Addresses
  BY EntriesKnown
<1>3. Unanswered(c.entry) /\ \A i \in DOMAIN queue : Apart(c.entry, queue[i])
  BY DEF IInv, OwedOnce
<1>4. status[c.entry.req] # "idle"
  BY <1>2, <1>3, MadeCalls
<1> QED BY <1>1, <1>2, <1>3, <1>4 DEF Unanswered

LEMMA FitUnchanged ==
  ASSUME IInv, UNCHANGED <<queue, job>>
  PROVE  Fit(queue')
BY FitQueue

(* The chain answers its entry and moves on.                                 *)
LEMMA AnswerKeepsIInv ==
  ASSUME IInv, NEW c \in chains, Busy(c), NEW v \in Results,
         Give(c.entry, Uniform(c.entry, v)),
         chains' = (chains \ {c}) \cup {At(c.entry, "next")},
         handlers' \in Nat,
         cache' \in [Addresses -> CacheEntry],
         UNCHANGED <<queue, isRunning, job, reported>>
  PROVE  IInv'
<1> DEFINE e == c.entry
<1>1. /\ chains' = {At(e, "next")}
      /\ isRunning
      /\ e \in Entry
      /\ Registers(e) \subseteq Asked(job[e.req]) \ DOMAIN result[e.req]
      /\ Registers(e) \subseteq Addresses
      /\ \A i \in DOMAIN queue : Apart(e, queue[i])
  BY BusyChain
<1> HIDE DEF e
<1>2. Served(e)
  <2>1. Give(e, Uniform(e, v))
    BY DEF e
  <2> QED BY <1>1, <2>1, UniformTyped, GiveServes DEF IInv, TypeOK
<1>3. Holds(e)
  BY <1>1 DEF Holds, At, Chain, Stages, Busy
<1>4. Fit(queue')
  BY FitUnchanged
<1> QED BY <1>1, <1>2, <1>3, <1>4, ServingKeepsIInv DEF IInv, TypeOK

LEMMA WithDataTyped ==
  ASSUME TypeOK, NEW e
  PROVE  /\ WithData(e) \in [Addresses -> CacheEntry]
         /\ WithErrors(e) \in [Addresses -> CacheEntry]
<1>1. Data \in CacheEntry /\ Error \in CacheEntry
  BY DEF Data, Error, CacheEntry, Ages
<1> QED BY <1>1 DEF TypeOK, WithData, WithErrors

LEMMA ReadSucceedsKeepsIInv ==
  ASSUME IInv, NEW c \in chains, ReadSucceeds(c)
  PROVE  IInv'
<1>1. /\ Busy(c)
      /\ handlers' \in Nat
      /\ cache' \in [Addresses -> CacheEntry]
      /\ "value" \in Results
  BY WithDataTyped DEF IInv, TypeOK, ReadSucceeds, Done, Busy, Results
<1> QED BY <1>1, AnswerKeepsIInv DEF ReadSucceeds, Done

LEMMA FailPermanentlyKeepsIInv ==
  ASSUME IInv, NEW c \in chains, FailPermanently(c)
  PROVE  IInv'
<1>1. /\ Busy(c)
      /\ handlers' \in Nat
      /\ cache' \in [Addresses -> CacheEntry]
  BY WithDataTyped DEF IInv, TypeOK, FailPermanently, Done, Busy
<1>2. FailureResult(c.entry, cache') \in Results
  BY DEF FailureResult, Results
<1> QED BY <1>1, <1>2, AnswerKeepsIInv DEF FailPermanently, Done

LEMMA WriteKeepsIInv ==
  ASSUME IInv, NEW c \in chains, WriteSucceeds(c) \/ WriteFails(c)
  PROVE  IInv'
<1>1. /\ Busy(c)
      /\ handlers' \in Nat
      /\ cache' \in [Addresses -> CacheEntry]
      /\ "value" \in Results
      /\ "error" \in Results
  BY DEF IInv, TypeOK, WriteSucceeds, WriteFails, Done, Busy, Results
<1>2. CASE WriteSucceeds(c)
  BY <1>1, <1>2, AnswerKeepsIInv DEF WriteSucceeds, Done
<1>3. CASE WriteFails(c)
  BY <1>1, <1>3, AnswerKeepsIInv DEF WriteFails
<1> QED BY <1>2, <1>3

LEMMA ReadFailsKeepsIInv ==
  ASSUME IInv, NEW c \in chains, NEW error \in ReadErrors, ReadFails(c, error)
  PROVE  IInv'
<1> DEFINE e == c.entry
<1>1. /\ c.stage = "wire"
      /\ Report(e, error)
      /\ UNCHANGED <<isRunning, job, cache>>
  BY DEF ReadFails
<1>2. Busy(c)
  BY <1>1 DEF Busy
<1>3. /\ chains \ {c} = {}
      /\ isRunning
      /\ e \in Entry
      /\ Registers(e) \subseteq Asked(job[e.req]) \ DOMAIN result[e.req]
      /\ Registers(e) \subseteq Addresses
      /\ \A i \in DOMAIN queue : Apart(e, queue[i])
      /\ status[e.req] # "idle"
  BY <1>2, BusyChain
<1>4. TypeOK
  BY DEF IInv
<1>5. e.req \in Requests
  BY <1>3 DEF Entry
<1>6. reported' \subseteq Requests \X Addresses
  BY <1>1, <1>3, <1>4, <1>5 DEF Report, TypeOK
<1>7. Fit(queue)
  BY <1>1, FitQueue
<1>8. CASE /\ queue' = Enqueue(queue, SplitEntries(e), "splitted")
           /\ Done(c)
           /\ UNCHANGED <<result, status>>
  <2> DEFINE es == SplitEntries(e)
  <2>1. /\ es \in Seq(Entry)
        /\ \A i \in DOMAIN es : es[i].req = e.req /\ Registers(es[i]) \subseteq Registers(e)
        /\ \A i, k \in DOMAIN es : i # k => Apart(es[i], es[k])
    BY <1>3, SplitEntriesPartition
  <2> HIDE DEF es
  <2>2. Fit(es)
    BY <1>1, <1>3, <2>1 DEF Fit
  <2>3. \A i \in DOMAIN queue, k \in DOMAIN es : Apart(queue[i], es[k])
    BY <1>3, <2>1 DEF Apart
  <2>4. Fit(queue')
    BY <1>7, <1>8, <2>2, <2>3, FitEnqueue DEF es
  <2>5. chains' = {At(e, "next")} /\ handlers' \in Nat
    BY <1>3, <1>4, <1>8 DEF Done, TypeOK
  <2>6. chains' \subseteq Chain /\ \A d \in chains' : ~Busy(d)
    BY <1>3, <2>5 DEF At, Chain, Stages, Busy
  <2> QED BY <1>1, <1>3, <1>4, <1>6, <1>8, <2>4, <2>5, <2>6, QuietKeepsIInv DEF TypeOK
<1>9. CASE /\ Remedy(e, error) = "retry"
           /\ Execute(Retried(e), chains \ {c})
           /\ UNCHANGED queue
  <2> DEFINE f == Retried(e)
  <2>1. f \in Entry /\ f.req = e.req /\ Registers(f) = Registers(e)
    BY <1>3, <1>9, RetryEntry
  <2> HIDE DEF f
  <2>2. Execute(f, {})
    BY <1>3, <1>9 DEF f
  <2>3. Served(f) /\ Holds(f)
    BY <1>3, <1>4, <2>1, <2>2, ExecuteServes DEF TypeOK
  <2>4. \A i \in DOMAIN queue : Apart(f, queue[i])
    BY <1>3, <2>1 DEF Apart
  <2>5. Registers(f) \subseteq Asked(job'[f.req]) \ DOMAIN result[f.req]
    BY <1>1, <1>3, <2>1
  <2> QED BY <1>1, <1>3, <1>4, <1>6, <1>7, <1>9, <2>1, <2>3, <2>4, <2>5, ServingKeepsIInv DEF TypeOK
<1>10. CASE /\ chains' = (chains \ {c}) \cup {At(e, "failed")}
            /\ UNCHANGED <<queue, handlers, result, status>>
  <2>1. Served(e)
    BY <1>3, <1>4, <1>5, <1>10 DEF Served, TypeOK
  <2>2. chains' = {At(e, "failed")}
    BY <1>3, <1>10
  <2>3. Holds(e)
    BY <1>3, <1>4, <1>10, <2>2 DEF Holds, At, Chain, Stages, TypeOK
  <2> QED BY <1>1, <1>3, <1>4, <1>6, <1>7, <1>10, <2>1, <2>3, ServingKeepsIInv DEF TypeOK
<1> QED BY <1>8, <1>9, <1>10 DEF ReadFails

LEMMA ProceedKeepsIInv ==
  ASSUME IInv, NEW c \in chains, Proceed(c)
  PROVE  IInv'
<1>1. /\ chains \ {c} = {}
      /\ isRunning
      /\ ~Busy(c)
      /\ TypeOK
      /\ UNCHANGED <<job, cache, reported>>
  BY DEF IInv, OneInFlight, IdleHasNoWork, Proceed, Busy
<1>2. Fit(queue)
  BY <1>1, FitQueue
<1>3. CASE /\ queue # <<>>
           /\ queue' = Tail(queue)
           /\ Begin(Head(queue), chains \ {c})
           /\ UNCHANGED isRunning
  <2> DEFINE e == Head(queue)
  <2>1. /\ Fit(queue')
        /\ e \in Entry
        /\ Registers(e) \subseteq Asked(job'[e.req]) \ DOMAIN result[e.req]
        /\ \A i \in DOMAIN queue' : Apart(e, queue'[i])
    BY <1>2, <1>3, FitTail
  <2>2. Begin(e, {})
    BY <1>1, <1>3
  <2> HIDE DEF e
  <2>3. e.req \in Requests
    BY <2>1 DEF Entry
  <2>4. Registers(e) \subseteq Addresses
    BY <1>1, <2>1, <2>3, AskedAddresses DEF TypeOK
  <2>5. Served(e) /\ Holds(e)
    BY <1>1, <2>1, <2>2, <2>4, BeginServes DEF TypeOK
  <2> QED BY <1>1, <1>3, <2>1, <2>5, ServingKeepsIInv DEF TypeOK
<1>4. CASE Finish(c)
  <2>1. /\ chains' = {} /\ queue' = <<>> /\ handlers' \in Nat /\ isRunning' \in BOOLEAN
        /\ UNCHANGED <<queue, result, status>>
    BY <1>1, <1>4 DEF Finish
  <2> QED BY <1>1, <1>2, <2>1, QuietKeepsIInv DEF TypeOK
<1> QED BY <1>3, <1>4 DEF Proceed

(* A call that finds the worker idle is started at once.                     *)
LEMMA IdleSubmit ==
  ASSUME IInv, NEW r \in Requests, NEW j \in Jobs, Submit(r, j), MayStart
  PROVE  /\ queue' = Tail(Entries(r, j))
         /\ Begin(Head(Entries(r, j)), {})
<1> DEFINE es == Entries(r, j)
           first == <<Head(es)>>
           rest == Tail(es)
           list == Enqueue(queue, first, j.task)
<1>1. es \in Seq(Entry) /\ es # <<>>
  BY JobEntries
<1>2. queue = <<>> /\ chains = {}
  BY DEF MayStart, IInv, IdleHasNoWork
<1> HIDE DEF es
<1>3. Head(es) \in Entry /\ first \in Seq(Entry) /\ rest \in Seq(Entry)
  BY <1>1
<1>4. list = first
  BY <1>2, <1>3, EnqueueOnEmpty
<1>5. Head(list) = Head(es) /\ Tail(list) = <<>>
  <2>1. \A x : Head(<<x>>) = x
    OBVIOUS
  <2>2. \A x \in Entry : Tail(<<x>>) = <<>>
    OBVIOUS
  <2> HIDE DEF list
  <2> QED BY <1>3, <1>4, <2>1, <2>2
<1>6. /\ queue' = Enqueue(<<>>, rest, j.task)
      /\ Begin(Head(es), {})
  BY <1>2, <1>5 DEF Submit, es
<1>7. queue' = rest
  BY <1>3, <1>6, EnqueueOnEmpty
<1> QED BY <1>6, <1>7 DEF es

LEMMA SubmitKeepsIInv ==
  ASSUME IInv, NEW r \in Requests, NEW j \in Jobs, Submit(r, j)
  PROVE  IInv'
<1> DEFINE es == Entries(r, j)
           rest == Tail(es)
<1>1. /\ TypeOK
      /\ status[r] = "idle"
      /\ job' = [job EXCEPT ![r] = j]
      /\ isRunning' = TRUE
      /\ UNCHANGED <<cache, reported>>
  BY DEF IInv, Submit
<1>2. job[r] = NoJob /\ DOMAIN result[r] = {}
  BY <1>1 DEF IInv, FreshCalls
<1>3. /\ job' \in [Requests -> Jobs \cup {NoJob}]
      /\ job'[r] = j
      /\ \A q \in Requests \ {r} : job'[q] = job[q]
  BY <1>1 DEF TypeOK
<1>4. /\ es \in Seq(Entry)
      /\ es # <<>>
      /\ \A i \in DOMAIN es : es[i].req = r /\ Registers(es[i]) \subseteq Asked(j)
      /\ \A i, k \in DOMAIN es : i # k => Apart(es[i], es[k])
  BY JobEntries
<1> HIDE DEF es
<1>5. Fit(es)
  BY <1>2, <1>3, <1>4 DEF Fit
<1>6. ASSUME NEW e \in Entry, Unanswered(e)
      PROVE  e.req \in Requests \ {r}
  BY <1>1, <1>6, MadeCalls
<1>7. \A i \in DOMAIN queue : queue[i] \in Entry /\ queue[i].req \in Requests \ {r}
  BY <1>1, <1>6 DEF IInv, OwedOnce, TypeOK
<1>8. Fit(queue)
  BY <1>3, <1>7, FitQueue
<1>9. /\ Head(es) \in Entry /\ Head(es).req = r
      /\ Registers(Head(es)) \subseteq Asked(j)
      /\ Fit(rest)
      /\ \A i \in DOMAIN rest : Apart(Head(es), rest[i])
      /\ \A i \in DOMAIN rest : rest[i].req = r
  <2>1. 1 \in DOMAIN es /\ Head(es) = es[1]
    BY <1>4
  <2>2. \A i \in DOMAIN rest : i + 1 \in DOMAIN es /\ rest[i] = es[i + 1]
    BY <1>4
  <2>3. Fit(rest) /\ \A i \in DOMAIN rest : Apart(Head(es), rest[i])
    BY <1>4, <1>5, FitTail
  <2> HIDE DEF rest
  <2> QED BY <1>4, <2>1, <2>2, <2>3
<1> HIDE DEF rest
<1>10. CASE MayStart
  <2> DEFINE e == Head(es)
  <2>1. queue' = rest /\ Begin(e, {})
    BY <1>10, IdleSubmit DEF es, rest
  <2>2. /\ e \in Entry
        /\ e.req = r
        /\ Registers(e) \subseteq Asked(j)
        /\ \A i \in DOMAIN queue' : Apart(e, queue'[i])
    BY <1>9, <2>1
  <2> HIDE DEF e
  <2>3. Registers(e) \subseteq Addresses
    BY <2>2, AskedAddresses
  <2>4. Served(e) /\ Holds(e)
    BY <1>1, <2>1, <2>2, <2>3, BeginServes DEF TypeOK
  <2>5. Registers(e) \subseteq Asked(job'[e.req]) \ DOMAIN result[e.req]
    BY <1>2, <1>3, <2>2
  <2>6. Fit(queue')
    BY <1>9, <2>1
  <2> QED BY <1>1, <1>3, <2>2, <2>4, <2>5, <2>6, ServingKeepsIInv DEF TypeOK
<1>11. CASE ~MayStart
  <2>1. /\ queue' = Enqueue(queue, es, j.task)
        /\ status' = [status EXCEPT ![r] = "open"]
        /\ UNCHANGED <<chains, handlers, result>>
    BY <1>11 DEF Submit, es
  <2>2. \A i \in DOMAIN queue, k \in DOMAIN es : Apart(queue[i], es[k])
    BY <1>4, <1>7 DEF Apart
  <2>3. Fit(queue')
    BY <1>5, <1>8, <2>1, <2>2, FitEnqueue
  <2>4. \A i \in DOMAIN queue' : \/ \E k \in DOMAIN queue : queue'[i] = queue[k]
                               \/ \E k \in DOMAIN es : queue'[i] = es[k]
    BY <1>1, <1>4, <2>1, EnqueueEntries DEF TypeOK
  <2>5. TypeOK'
    BY <1>1, <1>3, <2>1, <2>3 DEF TypeOK, Fit
  <2>6. OneInFlight' /\ IdleHasNoWork' /\ FreshCalls'
    BY <1>1, <1>3, <2>1 DEF IInv, OneInFlight, IdleHasNoWork, FreshCalls, TypeOK
  <2>7. ASSUME NEW c \in chains, Busy(c)
        PROVE  /\ Registers(c.entry) \subseteq Asked(job'[c.entry.req]) \ DOMAIN result[c.entry.req]
               /\ \A i \in DOMAIN queue' : Apart(c.entry, queue'[i])
    <3>1. /\ c.entry \in Entry
          /\ Unanswered(c.entry)
          /\ \A i \in DOMAIN queue : Apart(c.entry, queue[i])
      BY <2>7, BusyChain DEF Unanswered
    <3>2. c.entry.req \in Requests \ {r}
      BY <1>6, <3>1
    <3>3. \A k \in DOMAIN es : Apart(c.entry, es[k])
      BY <1>4, <3>2 DEF Apart
    <3>4. Registers(c.entry) \subseteq Asked(job'[c.entry.req]) \ DOMAIN result[c.entry.req]
      BY <1>3, <3>1, <3>2 DEF Unanswered
    <3> QED BY <2>4, <3>1, <3>3, <3>4
  <2>8. OwedOnce'
    <3>1. \A i, k \in DOMAIN queue' : i # k => Apart(queue'[i], queue'[k])
      BY <2>3 DEF Fit
    <3>2. \A i \in DOMAIN queue' : Unanswered(queue[i])'
      BY <2>1, <2>3 DEF Fit, Unanswered
    <3>3. \A c \in chains' : Busy(c) =>
            /\ Unanswered(c.entry)'
            /\ \A i \in DOMAIN queue' : Apart(c.entry, queue'[i])
      BY <2>1, <2>7 DEF Unanswered
    <3> QED BY <3>1, <3>2, <3>3 DEF OwedOnce, Busy, Apart, Unanswered
  <2> QED BY <2>5, <2>6, <2>8 DEF IInv
<1> QED BY <1>10, <1>11

(* Time touches the cache only.                                              *)
LEMMA AgeingKeepsIInv ==
  ASSUME IInv, CleanupCache \/ \E a \in Addresses : GrowOld(a)
  PROVE  IInv'
<1>1. /\ UNCHANGED <<queue, isRunning, chains, handlers, reported, job, result, status>>
  BY DEF GrowOld, CleanupCache, workVars, callVars
<1>2. cache' \in [Addresses -> CacheEntry]
  <2>1. TypeOK
    BY DEF IInv
  <2>2. CASE CleanupCache
    BY <2>1, <2>2 DEF CleanupCache, TypeOK, Uncached, CacheEntry, Ages
  <2>3. ASSUME NEW a \in Addresses, GrowOld(a)
        PROVE  cache' \in [Addresses -> CacheEntry]
    <3>1. cache[a] \in CacheEntry /\ cache[a].age + 1 \in Ages
      BY <2>1, <2>3, MaxAgeAssumption DEF GrowOld, TypeOK, CacheEntry, Ages
    <3>2. [kind |-> cache[a].kind, age |-> cache[a].age + 1] \in CacheEntry
      BY <3>1 DEF CacheEntry
    <3> QED BY <2>1, <2>3, <3>2 DEF GrowOld, TypeOK
  <2> QED BY <2>2, <2>3
<1>3. TypeOK'
  BY <1>1, <1>2 DEF IInv, TypeOK
<1>4. OneInFlight' /\ IdleHasNoWork' /\ FreshCalls'
  BY <1>1 DEF IInv, OneInFlight, IdleHasNoWork, FreshCalls
<1>5. OwedOnce'
  BY <1>1 DEF IInv, OwedOnce, Busy, Apart, Unanswered
<1> QED BY <1>3, <1>4, <1>5 DEF IInv

LEMMA NextKeepsIInv == IInv /\ [Next]_vars => IInv'
<1> SUFFICES ASSUME IInv, [Next]_vars
             PROVE  IInv'
  OBVIOUS
<1>1. CASE \E r \in Requests, j \in Jobs : Submit(r, j)
  BY <1>1, SubmitKeepsIInv
<1>2. ASSUME NEW c \in chains, Proceed(c) \/ DeviceAnswers(c) \/ FailPermanently(c)
      PROVE  IInv'
  <2>1. CASE Proceed(c)
    BY <2>1, ProceedKeepsIInv
  <2>2. CASE ReadSucceeds(c)
    BY <2>2, ReadSucceedsKeepsIInv
  <2>3. CASE \E error \in ReadErrors : ReadFails(c, error)
    BY <2>3, ReadFailsKeepsIInv
  <2>4. CASE WriteSucceeds(c) \/ WriteFails(c)
    BY <2>4, WriteKeepsIInv
  <2>5. CASE FailPermanently(c)
    BY <2>5, FailPermanentlyKeepsIInv
  <2> QED BY <1>2, <2>1, <2>2, <2>3, <2>4, <2>5 DEF DeviceAnswers
<1>3. CASE CleanupCache \/ \E a \in Addresses : GrowOld(a)
  BY <1>3, AgeingKeepsIInv
<1>4. CASE UNCHANGED vars
  <2>1. UNCHANGED <<queue, isRunning, chains, handlers, cache, reported, job, result, status>>
    BY <1>4 DEF vars, workVars, callVars
  <2>2. TypeOK'
    BY <2>1 DEF IInv, TypeOK
  <2>3. OneInFlight' /\ IdleHasNoWork' /\ FreshCalls'
    BY <2>1 DEF IInv, OneInFlight, IdleHasNoWork, FreshCalls
  <2>4. OwedOnce'
    BY <2>1 DEF IInv, OwedOnce, Busy, Apart, Unanswered
  <2> QED BY <2>2, <2>3, <2>4 DEF IInv
<1> QED BY <1>1, <1>2, <1>3, <1>4 DEF Next, WorkerStep

LEMMA SpecIInv == Spec => []IInv
BY InitIInv, NextKeepsIInv, PTL DEF Spec

(***************************************************************************)
(* Theorems.                                                                *)
(***************************************************************************)

(* Every variable keeps its type; in particular no entry is retried more      *)
(* often than the largest of the limits of retry() allows.                   *)
THEOREM TypeCorrect == Spec => []TypeOK
<1>1. IInv => TypeOK
  BY DEF IInv
<1> QED BY SpecIInv, <1>1, PTL

(* isRunning keeps the runs of processOneEntry apart, whatever calls reach    *)
(* the queue of the bus, and whatever the device answers.                    *)
THEOREM OneRequestAtATime == Spec => []OneInFlight
<1>1. IInv => OneInFlight
  BY DEF IInv
<1> QED BY SpecIInv, <1>1, PTL

(* Splitting, retrying and answering hand the registers of a call on without  *)
(* ever copying one: execute can count its results to know that it is done.  *)
THEOREM NoRegisterOwedTwice == Spec => []OwedOnce
<1>1. IInv => OwedOnce
  BY DEF IInv
<1> QED BY SpecIInv, <1>1, PTL

(***************************************************************************)
(* What callers get: RtuWorker implements RequestService, and tells them of    *)
(* every read that failed, for all callers, registers, jobs and retry limits. *)
(***************************************************************************)

(* A promise is settled exactly when no register is left to answer.          *)
SettledWhenComplete ==
  \A r \in Requests :
    status[r] # "idle" => (status[r] = "settled" <=> DOMAIN result[r] = Asked(job[r]))

(* No call has answers for registers it did not ask for.                     *)
OnlyAsked == \A r \in Requests : DOMAIN result[r] \subseteq Asked(job[r])

SInv == IInv /\ SettledWhenComplete /\ OnlyAsked

askedBar == [r \in Requests |-> Asked(job[r])]

LEMMA InitService == Init => Service!Init
<1> SUFFICES ASSUME Init
             PROVE  Service!Init
  OBVIOUS
<1>1. askedBar = [r \in Requests |-> {}]
  BY NoJobAsksNothing DEF Init, askedBar
<1>2. Service!NoResults = NoResults
  BY DEF Service!NoResults, NoResults
<1> QED BY <1>1, <1>2 DEF Init, Service!Init, askedBar

LEMMA InitSInv == Init => SInv
<1>1. Init => SettledWhenComplete
  BY DEF Init, SettledWhenComplete
<1>2. Init => OnlyAsked
  BY NoResultsTyped DEF Init, OnlyAsked
<1> QED BY <1>1, <1>2, InitIInv DEF SInv

LEMMA SameMerge ==
  ASSUME NEW f, NEW g
  PROVE  Service!Merge(f, g) = Merge(f, g)
BY DEF Merge, Service!Merge

Answers(e) == \E f \in ResultMaps : DOMAIN f \subseteq Registers(e) /\ Give(e, f)

LEMMA BeginAnswers ==
  ASSUME NEW e \in Entry, Registers(e) \subseteq Addresses, NEW others,
         Begin(e, others) \/ Execute(e, others)
  PROVE  Answers(e)
<1>1. Give(e, NoResults) \/ Give(e, FromCache(e))
  BY DEF Begin, Execute
<1> QED BY <1>1, NoResultsTyped, FromCacheTyped DEF Answers

(* What a step of the worker means to the callers: an entry that is owed gets *)
(* some answers, or nothing happens.                                         *)
LEMMA WorkerAnswers ==
  ASSUME IInv, WorkerStep
  PROVE  /\ UNCHANGED job
         /\ \/ UNCHANGED <<result, status>>
            \/ \E e \in Entry : Unanswered(e) /\ Answers(e)
<1>1. PICK c \in chains : Proceed(c) \/ DeviceAnswers(c) \/ FailPermanently(c)
  BY DEF WorkerStep
<1> DEFINE goal == /\ UNCHANGED job
                   /\ \/ UNCHANGED <<result, status>>
                      \/ \E e \in Entry : Unanswered(e) /\ Answers(e)
<1>2. Busy(c) => /\ c.entry \in Entry
                 /\ Unanswered(c.entry)
                 /\ Registers(c.entry) \subseteq Addresses
  BY BusyChain DEF Unanswered
<1>3. ASSUME Busy(c), NEW v \in Results, Give(c.entry, Uniform(c.entry, v))
      PROVE  Answers(c.entry)
  BY <1>2, <1>3, UniformTyped DEF Answers
<1>4. CASE Proceed(c)
  <2>1. CASE Finish(c)
    BY <1>4, <2>1 DEF Proceed, Finish
  <2>2. CASE queue # <<>> /\ Begin(Head(queue), chains \ {c})
    <3>1. Head(queue) = queue[1] /\ 1 \in DOMAIN queue
      BY <2>2 DEF IInv, TypeOK
    <3>2. /\ Head(queue) \in Entry
          /\ Unanswered(Head(queue))
          /\ Registers(Head(queue)) \subseteq Addresses
      BY <3>1, EntriesKnown DEF IInv, OwedOnce
    <3>3. Answers(Head(queue))
      BY <2>2, <3>2, BeginAnswers
    <3> QED BY <1>4, <3>2, <3>3 DEF Proceed
  <2> QED BY <1>4, <2>1, <2>2 DEF Proceed
<1>5. CASE ReadSucceeds(c) \/ WriteSucceeds(c) \/ WriteFails(c) \/ FailPermanently(c)
  <2>1. Busy(c) /\ UNCHANGED job
    BY <1>5 DEF ReadSucceeds, WriteSucceeds, WriteFails, FailPermanently, Busy
  <2>2. \E v \in Results : Give(c.entry, Uniform(c.entry, v))
    <3>1. FailureResult(c.entry, cache') \in Results
      BY DEF FailureResult, Results
    <3>2. "value" \in Results /\ "error" \in Results
      BY DEF Results
    <3> QED BY <1>5, <3>1, <3>2 DEF ReadSucceeds, WriteSucceeds, WriteFails, FailPermanently
  <2>3. Answers(c.entry)
    BY <1>3, <2>1, <2>2
  <2> QED BY <1>2, <2>1, <2>3
<1>6. ASSUME NEW error \in ReadErrors, ReadFails(c, error)
      PROVE  goal
  <2>1. Busy(c) /\ UNCHANGED job
    BY <1>6 DEF ReadFails, Busy
  <2>2. CASE UNCHANGED <<result, status>>
    BY <2>1, <2>2
  <2>3. CASE Remedy(c.entry, error) = "retry" /\ Execute(Retried(c.entry), chains \ {c})
    <3>1. /\ Retried(c.entry) \in Entry
          /\ Retried(c.entry).req = c.entry.req
          /\ Registers(Retried(c.entry)) = Registers(c.entry)
      BY <1>2, <2>1, <2>3, RetryEntry
    <3>2. Answers(Retried(c.entry))
      BY <1>2, <2>1, <2>3, <3>1, BeginAnswers
    <3>3. Unanswered(Retried(c.entry))
      BY <1>2, <2>1, <3>1 DEF Unanswered
    <3> QED BY <2>1, <3>1, <3>2, <3>3
  <2> QED BY <1>6, <2>2, <2>3 DEF ReadFails
<1> QED BY <1>1, <1>4, <1>5, <1>6 DEF DeviceAnswers

(* What a call means to its caller.                                          *)
LEMMA SubmitAnswers ==
  ASSUME IInv, NEW r \in Requests, NEW j \in Jobs, Submit(r, j)
  PROVE  /\ status[r] = "idle"
         /\ DOMAIN result[r] = {}
         /\ job' = [job EXCEPT ![r] = j]
         /\ Asked(j) \in (SUBSET Addresses) \ {{}}
         /\ \/ /\ result' = result
               /\ status' = [status EXCEPT ![r] = "open"]
            \/ \E e \in Entry : /\ e.req = r
                                /\ Registers(e) \subseteq Asked(j)
                                /\ Answers(e)
<1> DEFINE es == Entries(r, j)
           e == Head(es)
<1>1. /\ es \in Seq(Entry)
      /\ es # <<>>
      /\ \A i \in DOMAIN es : es[i].req = r /\ Registers(es[i]) \subseteq Asked(j)
  BY JobEntries
<1>2. status[r] = "idle" /\ job' = [job EXCEPT ![r] = j]
  BY DEF Submit
<1>3. DOMAIN result[r] = {}
  BY <1>2 DEF IInv, FreshCalls
<1> HIDE DEF es
<1>5. e = es[1] /\ 1 \in DOMAIN es
  BY <1>1
<1> HIDE DEF e
<1>6. /\ e \in Entry /\ e.req = r
      /\ Registers(e) \subseteq Asked(j) /\ Registers(e) # {}
  BY <1>1, <1>5, EntryRegisters
<1>7. Asked(j) \in (SUBSET Addresses) \ {{}}
  BY <1>6, AskedAddresses
<1>8. CASE ~MayStart
  BY <1>2, <1>3, <1>7, <1>8 DEF Submit
<1>9. CASE MayStart
  <2>1. Begin(e, {})
    BY <1>9, IdleSubmit DEF e, es
  <2>2. Answers(e)
    BY <1>6, <1>7, <2>1, BeginAnswers
  <2> QED BY <1>2, <1>3, <1>6, <1>7, <2>2
<1> QED BY <1>8, <1>9

LEMMA AnswersDeliver ==
  ASSUME SInv, NEW e \in Entry, Answers(e),
         NEW j, job'[e.req] = j,
         Registers(e) \subseteq Asked(j) \ DOMAIN result[e.req]
  PROVE  /\ Service!Deliver(e.req, Asked(j))
         /\ DOMAIN result[e.req] \subseteq Asked(j) => DOMAIN result'[e.req] \subseteq Asked(j)
         /\ status'[e.req] = "settled" <=> DOMAIN result'[e.req] = Asked(j)
         /\ \A r \in Requests \ {e.req} : result'[r] = result[r] /\ status'[r] = status[r]
<1>1. PICK f \in ResultMaps : DOMAIN f \subseteq Registers(e) /\ Give(e, f)
  BY DEF Answers
<1>2. e.req \in Requests /\ result[e.req] \in ResultMaps
  BY DEF Entry, SInv, IInv, TypeOK
<1> DEFINE all == Merge(result[e.req], f)
<1>3. /\ result' = [result EXCEPT ![e.req] = all]
      /\ status' = [status EXCEPT ![e.req] = IF DOMAIN all = Asked(j) THEN "settled" ELSE "open"]
  BY <1>1 DEF Give, Complete
<1>4. f \in [DOMAIN f -> Results] /\ DOMAIN f \in SUBSET (Asked(j) \ DOMAIN result[e.req])
  BY <1>1 DEF ResultMaps
<1>5. DOMAIN all = DOMAIN result[e.req] \cup DOMAIN f
  BY DEF Merge
<1>6. all = Service!Merge(result[e.req], f)
  BY SameMerge
<1> HIDE DEF all
<1>7. Service!Deliver(e.req, Asked(j))
  BY <1>3, <1>4, <1>6 DEF Service!Deliver
<1>8. /\ result'[e.req] = all
      /\ status'[e.req] = IF DOMAIN all = Asked(j) THEN "settled" ELSE "open"
      /\ \A r \in Requests \ {e.req} : result'[r] = result[r] /\ status'[r] = status[r]
  BY <1>2, <1>3 DEF SInv, IInv, TypeOK
<1> QED BY <1>4, <1>5, <1>7, <1>8

LEMMA WorkerImplements ==
  ASSUME SInv, WorkerStep
  PROVE  /\ Service!Next \/ UNCHANGED Service!vars
         /\ SettledWhenComplete' /\ OnlyAsked'
<1>1. IInv
  BY DEF SInv
<1>2. UNCHANGED job
  BY <1>1, WorkerAnswers
<1>3. askedBar' = askedBar
  BY <1>2 DEF askedBar
<1>4. CASE UNCHANGED <<result, status>>
  <2>1. UNCHANGED Service!vars
    BY <1>3, <1>4 DEF Service!vars, askedBar
  <2>2. SettledWhenComplete' /\ OnlyAsked'
    BY <1>2, <1>4 DEF SInv, SettledWhenComplete, OnlyAsked
  <2> QED BY <2>1, <2>2
<1>5. ASSUME NEW e \in Entry, Unanswered(e), Answers(e)
      PROVE  /\ Service!Next
             /\ SettledWhenComplete' /\ OnlyAsked'
  <2>1. e.req \in Requests
    BY DEF Entry
  <2>2. Registers(e) \subseteq Asked(job[e.req]) \ DOMAIN result[e.req]
    BY <1>5 DEF Unanswered
  <2>3. status[e.req] = "open"
    BY <1>1, <1>5, <2>1, <2>2, MadeCalls, EntryRegisters
       DEF SInv, SettledWhenComplete, IInv, TypeOK
  <2>4. /\ Service!Deliver(e.req, Asked(job[e.req]))
        /\ DOMAIN result[e.req] \subseteq Asked(job[e.req])
             => DOMAIN result'[e.req] \subseteq Asked(job[e.req])
        /\ status'[e.req] = "settled" <=> DOMAIN result'[e.req] = Asked(job[e.req])
        /\ \A r \in Requests \ {e.req} : result'[r] = result[r] /\ status'[r] = status[r]
    BY <1>2, <1>5, <2>2, AnswersDeliver
  <2>5. Service!Answer(e.req)
    BY <1>3, <2>1, <2>3, <2>4 DEF Service!Answer, askedBar
  <2>6. SettledWhenComplete' /\ OnlyAsked'
    BY <1>2, <2>1, <2>4 DEF SInv, SettledWhenComplete, OnlyAsked
  <2> QED BY <2>1, <2>5, <2>6 DEF Service!Next
<1> QED BY <1>1, <1>4, <1>5, WorkerAnswers

LEMMA SubmitImplements ==
  ASSUME SInv, NEW r \in Requests, NEW j \in Jobs, Submit(r, j)
  PROVE  /\ Service!Next
         /\ SettledWhenComplete' /\ OnlyAsked'
<1>1. /\ status[r] = "idle"
      /\ DOMAIN result[r] = {}
      /\ job' = [job EXCEPT ![r] = j]
      /\ Asked(j) \in (SUBSET Addresses) \ {{}}
      /\ \/ /\ result' = result
            /\ status' = [status EXCEPT ![r] = "open"]
         \/ \E e \in Entry : /\ e.req = r
                             /\ Registers(e) \subseteq Asked(j)
                             /\ Answers(e)
  BY SubmitAnswers DEF SInv
<1>2. /\ job'[r] = j
      /\ \A q \in Requests \ {r} : job'[q] = job[q]
      /\ askedBar' = [askedBar EXCEPT ![r] = Asked(j)]
  BY <1>1 DEF SInv, IInv, TypeOK, askedBar
<1>3. ASSUME Service!Deliver(r, Asked(j)),
             DOMAIN result'[r] \subseteq Asked(j),
             status'[r] = "settled" <=> DOMAIN result'[r] = Asked(j),
             \A q \in Requests \ {r} : result'[q] = result[q] /\ status'[q] = status[q]
      PROVE  Service!Next /\ SettledWhenComplete' /\ OnlyAsked'
  <2>1. Service!Submit(r)
    BY <1>1, <1>2, <1>3 DEF Service!Submit, askedBar
  <2>2. SettledWhenComplete' /\ OnlyAsked'
    BY <1>2, <1>3 DEF SInv, SettledWhenComplete, OnlyAsked
  <2> QED BY <2>1, <2>2 DEF Service!Next
<1>4. CASE result' = result /\ status' = [status EXCEPT ![r] = "open"]
  <2>1. result[r] \in ResultMaps
    BY DEF SInv, IInv, TypeOK
  <2>2. Merge(result[r], NoResults) = result[r]
    BY <2>1 DEF NoResults, Merge, ResultMaps
  <2>3. Service!Merge(result[r], NoResults) = result[r]
    BY <2>2, SameMerge
  <2>4. /\ {} \in SUBSET (Asked(j) \ DOMAIN result[r])
        /\ NoResults \in [{} -> Results]
        /\ DOMAIN result[r] # Asked(j)
    BY <1>1 DEF NoResults
  <2>5. /\ result' = [result EXCEPT ![r] = Service!Merge(result[r], NoResults)]
        /\ status' = [status EXCEPT ![r] =
             IF DOMAIN Service!Merge(result[r], NoResults) = Asked(j) THEN "settled" ELSE "open"]
    BY <1>4, <2>3, <2>4 DEF SInv, IInv, TypeOK
  <2>6. Service!Deliver(r, Asked(j))
    BY <2>4, <2>5 DEF Service!Deliver
  <2>7. /\ status'[r] = "open"
        /\ \A q \in Requests \ {r} : result'[q] = result[q] /\ status'[q] = status[q]
    BY <1>4 DEF SInv, IInv, TypeOK
  <2> QED BY <1>1, <1>3, <1>4, <2>4, <2>6, <2>7
<1>5. ASSUME NEW e \in Entry, e.req = r, Registers(e) \subseteq Asked(j), Answers(e)
      PROVE  Service!Next /\ SettledWhenComplete' /\ OnlyAsked'
  <2>1. /\ Service!Deliver(e.req, Asked(j))
        /\ DOMAIN result[e.req] \subseteq Asked(j) => DOMAIN result'[e.req] \subseteq Asked(j)
        /\ status'[e.req] = "settled" <=> DOMAIN result'[e.req] = Asked(j)
        /\ \A q \in Requests \ {e.req} : result'[q] = result[q] /\ status'[q] = status[q]
    BY <1>1, <1>2, <1>5, AnswersDeliver
  <2> QED BY <1>1, <1>3, <1>5, <2>1
<1> QED BY <1>1, <1>4, <1>5

LEMMA NextImplements ==
  SInv /\ [Next]_vars => /\ Service!Next \/ UNCHANGED Service!vars
                         /\ SInv'
<1> SUFFICES ASSUME SInv, [Next]_vars
             PROVE  /\ Service!Next \/ UNCHANGED Service!vars
                    /\ SettledWhenComplete' /\ OnlyAsked'
  BY NextKeepsIInv DEF SInv
<1>1. CASE \E r \in Requests, j \in Jobs : Submit(r, j)
  BY <1>1, SubmitImplements
<1>2. CASE WorkerStep
  BY <1>2, WorkerImplements
<1>3. CASE UNCHANGED callVars
  <2>1. UNCHANGED <<job, result, status>>
    BY <1>3 DEF callVars
  <2>2. UNCHANGED Service!vars
    BY <2>1 DEF Service!vars
  <2> QED BY <2>1, <2>2 DEF SInv, SettledWhenComplete, OnlyAsked
<1> QED BY <1>1, <1>2, <1>3 DEF Next, GrowOld, CleanupCache, vars

(* Whatever the worker does with its queue, its retries, its splits and its   *)
(* cache, its callers see the service they rely on: each register gets one    *)
(* result, none is revised, and the promise settles with the last of them.   *)
THEOREM WorkerImplementsService == Spec => ImplementsService
<1>1. Spec => []SInv
  BY InitSInv, NextImplements, PTL DEF Spec
<1>2. SInv /\ [Next]_vars => [Service!Next]_Service!vars
  BY NextImplements
<1> QED BY <1>1, <1>2, InitService, PTL DEF Spec, ImplementsService, Service!Spec

(***************************************************************************)
(* What callers are told of reads that failed.  An entry carries the options    *)
(* of its call through every split and retry, a read reaches its catch only     *)
(* after addError, and so every error in the cache was reported by somebody.    *)
(***************************************************************************)

(* e does what the call j asks for, and takes from the cache or splits only if  *)
(* j does.                                                                  *)
Genuine(e, j) ==
  /\ e.op = j.op
  /\ e.useCache <=> UseCache(j.task)
  /\ e.split => Splits(j.task)
  /\ e.task # j.task => e.task = "splitted" /\ Splits(j.task)

GenuineWork ==
  /\ \A i \in DOMAIN queue : Genuine(queue[i], job[queue[i].req])
  /\ \A c \in chains : Busy(c) => Genuine(c.entry, job[c.entry.req])

ReportedFailures ==
  \A c \in chains : c.stage = "failed" =>
    c.entry.op = "read" /\ {c.entry.req} \X Registers(c.entry) \subseteq reported

ReportedErrors ==
  \A a \in Addresses : cache[a].kind = "error" => \E q \in Requests : <<q, a>> \in reported

RInv ==
  /\ IInv
  /\ GenuineWork
  /\ ReportedFailures
  /\ ReportedErrors
  /\ FailuresAreReported

(* What FailuresAreReported asks of the answer v for register a of call r.      *)
Told(r, a, v, j, list) ==
  /\ v = "lastKnown" => j.task = "poll" /\ <<r, a>> \in list
  /\ v = "error" /\ j.op = "read" =>
       \E q \in Requests : <<q, a>> \in list /\ (q = r \/ UseCache(j.task))

(* What NoHoleWhileYoung asks of it.                                         *)
Excused(v, j, before) ==
  j.task = "poll" /\ j.op = "read" /\ v = "error" => \E b \in Asked(before) : cache[b] # Data

(* A step that gives the answers f to the call of e, for good reasons.          *)
Truthful(e, f) ==
  /\ f \in ResultMaps
  /\ Give(e, f)
  /\ \A a \in DOMAIN f : /\ Told(e.req, a, f[a], job'[e.req], reported')
                         /\ Excused(f[a], job'[e.req], job[e.req])

(* One step, for NoHoleWhileYoung.                                           *)
ExcusedStep ==
  \A r \in Requests : \A a \in DOMAIN result'[r] \ DOMAIN result[r] :
    Excused(result'[r][a], job'[r], job[r])

LEMMA TruthfulKeepsReports ==
  ASSUME result \in [Requests -> ResultMaps], FailuresAreReported,
         reported \subseteq reported',
         \A r \in Requests : DOMAIN result[r] # {} => job'[r] = job[r],
         NEW e \in Entry, NEW f, Truthful(e, f)
  PROVE  FailuresAreReported' /\ ExcusedStep
<1> DEFINE all == Merge(result[e.req], f)
<1>1. e.req \in Requests /\ result' = [result EXCEPT ![e.req] = all]
  BY DEF Truthful, Give, Entry
<1>2. \A a \in DOMAIN all : \/ a \in DOMAIN f /\ all[a] = f[a]
                            \/ a \in DOMAIN result[e.req] /\ all[a] = result[e.req][a]
  BY DEF Merge
<1> HIDE DEF all
<1>3. ASSUME NEW r \in Requests, NEW a \in DOMAIN result'[r]
      PROVE  /\ Told(r, a, result'[r][a], job'[r], reported')
             /\ a \notin DOMAIN result[r] => Excused(result'[r][a], job'[r], job[r])
  <2>1. CASE r = e.req /\ a \in DOMAIN f /\ result'[r][a] = f[a]
    BY <2>1 DEF Truthful
  <2>2. CASE a \in DOMAIN result[r] /\ result'[r][a] = result[r][a]
    <3>1. Told(r, a, result[r][a], job[r], reported)
      BY <2>2 DEF FailuresAreReported, Told
    <3>2. job'[r] = job[r]
      BY <2>2
    <3> QED
      BY <2>2, <3>1, <3>2 DEF Told
  <2>3. CASE r = e.req
    BY <1>1, <1>2, <2>1, <2>2, <2>3
  <2> QED
    BY <1>1, <2>2, <2>3
<1> QED
  BY <1>3 DEF FailuresAreReported, ExcusedStep, Told

LEMMA QuietKeepsReports ==
  ASSUME FailuresAreReported, result' = result, reported \subseteq reported',
         \A r \in Requests : DOMAIN result[r] # {} => job'[r] = job[r]
  PROVE  FailuresAreReported' /\ ExcusedStep
BY DEF FailuresAreReported, ExcusedStep

(* The answers of a genuine entry.                                           *)
LEMMA NoResultsTruthful ==
  ASSUME NEW e \in Entry, Give(e, NoResults)
  PROVE  Truthful(e, NoResults)
BY NoResultsTyped DEF Truthful

LEMMA FromCacheTruthful ==
  ASSUME ReportedErrors, NEW e \in Entry, Registers(e) \subseteq Addresses,
         reported \subseteq reported', cache \in [Addresses -> CacheEntry],
         Genuine(e, job'[e.req]), InCache(e), Give(e, FromCache(e))
  PROVE  Truthful(e, FromCache(e))
<1>1. UseCache(job'[e.req].task)
  BY DEF InCache, Genuine
<1>2. ASSUME NEW a \in Registers(e)
      PROVE  /\ FromCache(e)[a] # "lastKnown"
             /\ FromCache(e)[a] = "error" => \E q \in Requests : <<q, a>> \in reported'
  BY <1>2 DEF FromCache, InCache, ReportedErrors, CacheEntry
<1> QED
  BY <1>1, <1>2, FromCacheTyped DEF Truthful, Told, Excused, UseCache

LEMMA ValueTruthful ==
  ASSUME NEW e \in Entry, Registers(e) \subseteq Addresses, Give(e, Uniform(e, "value"))
  PROVE  Truthful(e, Uniform(e, "value"))
<1>1. "value" \in Results /\ \A a \in Registers(e) : Uniform(e, "value")[a] = "value"
  BY DEF Results, Uniform
<1> QED
  BY <1>1, UniformTyped DEF Truthful, Told, Excused

(* A write that failed is not a read that failed.                             *)
LEMMA WriteErrorTruthful ==
  ASSUME NEW e \in Entry, Registers(e) \subseteq Addresses, Give(e, Uniform(e, "error")),
         Genuine(e, job'[e.req]), e.op # "read"
  PROVE  Truthful(e, Uniform(e, "error"))
<1>1. "error" \in Results /\ \A a \in Registers(e) : Uniform(e, "error")[a] = "error"
  BY DEF Results, Uniform
<1> QED
  BY <1>1, UniformTyped DEF Truthful, Told, Excused, Genuine

(* A poll whose registers are all cached for less than errorTimeout keeps the   *)
(* values: WithErrors does not touch them.                                    *)
LEMMA FailureTruthful ==
  ASSUME NEW e \in Entry, Registers(e) \subseteq Addresses,
         Registers(e) \subseteq Asked(job[e.req]),
         {e.req} \X Registers(e) \subseteq reported',
         Genuine(e, job'[e.req]), cache \in [Addresses -> CacheEntry], cache' = WithErrors(e),
         Give(e, Uniform(e, FailureResult(e, cache')))
  PROVE  Truthful(e, Uniform(e, FailureResult(e, cache')))
<1> DEFINE v == FailureResult(e, cache')
<1>1. v \in Results /\ \A a \in Registers(e) : Uniform(e, v)[a] = v
  BY DEF FailureResult, Results, Uniform
<1>2. e.req \in Requests
  BY DEF Entry
<1>3. v = "lastKnown" => job'[e.req].task = "poll"
  BY DEF FailureResult, Genuine
<1>4. ASSUME job'[e.req].task = "poll", v = "error"
      PROVE  \E b \in Asked(job[e.req]) : cache[b] # Data
  <2>1. e.task = "poll"
    BY <1>4 DEF Genuine, Splits
  <2>2. PICK b \in Registers(e) : cache'[b].kind # "data"
    BY <1>4, <2>1 DEF FailureResult
  <2>3. cache[b] # Data
    BY <2>2 DEF WithErrors, Data
  <2> QED
    BY <2>3
<1> HIDE DEF v
<1> QED
  BY <1>1, <1>2, <1>3, <1>4, UniformTyped DEF Truthful, Told, Excused, v

LEMMA BeginTruthful ==
  ASSUME RInv, UNCHANGED cache, reported \subseteq reported',
         NEW e \in Entry, Registers(e) \subseteq Addresses, Genuine(e, job'[e.req]),
         Begin(e, {}) \/ Execute(e, {})
  PROVE  /\ \E f : Truthful(e, f)
         /\ \A c \in chains' : c.entry = e /\ c.stage # "failed"
<1>1. \A c \in chains' : c.entry = e /\ c.stage # "failed"
  BY DEF Begin, Execute, At
<1>2. CASE Give(e, NoResults)
  BY <1>1, <1>2, NoResultsTruthful
<1>3. CASE InCache(e) /\ Give(e, FromCache(e))
  BY <1>1, <1>3, FromCacheTruthful DEF RInv, IInv, TypeOK
<1> QED
  BY <1>1, <1>2, <1>3 DEF Begin, Execute

LEMMA GenuineEntries ==
  ASSUME NEW r \in Requests, NEW j \in Jobs
  PROVE  \A i \in DOMAIN Entries(r, j) : Genuine(Entries(r, j)[i], j)
BY DEF Entries, Genuine

LEMMA GenuineParts ==
  ASSUME NEW e \in Entry, NEW j, Genuine(e, j), e.op = "read", CanSplit(e)
  PROVE  \A i \in DOMAIN SplitEntries(e) :
           SplitEntries(e)[i].req = e.req /\ Genuine(SplitEntries(e)[i], j)
BY DEF SplitEntries, Part, Genuine, CanSplit

(* An entry that is still to be answered belongs to a call that is made.       *)
LEMMA WorkIsCalled ==
  ASSUME IInv
  PROVE  \A i \in DOMAIN queue : queue[i].req \in Requests /\ status[queue[i].req] # "idle"
<1> SUFFICES ASSUME NEW i \in DOMAIN queue
             PROVE  queue[i].req \in Requests /\ status[queue[i].req] # "idle"
  OBVIOUS
<1>1. queue[i] \in Entry /\ Unanswered(queue[i])
  BY EntriesKnown DEF IInv, OwedOnce
<1> QED
  BY <1>1, MadeCalls

LEMMA SubmitKeepsRInv ==
  ASSUME RInv, NEW r \in Requests, NEW j \in Jobs, Submit(r, j)
  PROVE  GenuineWork' /\ ReportedFailures' /\ ReportedErrors' /\ FailuresAreReported' /\ ExcusedStep
<1> DEFINE es == Entries(r, j)
<1>1. /\ IInv /\ TypeOK /\ status[r] = "idle" /\ DOMAIN result[r] = {}
      /\ job' = [job EXCEPT ![r] = j] /\ job'[r] = j
      /\ UNCHANGED <<cache, reported>>
      /\ \A q \in Requests \ {r} : job'[q] = job[q]
  BY DEF RInv, IInv, TypeOK, FreshCalls, Submit
<1>2. /\ es \in Seq(Entry) /\ es # <<>>
      /\ \A i \in DOMAIN es : es[i].req = r /\ Registers(es[i]) \subseteq Addresses
      /\ \A i \in DOMAIN es : Genuine(es[i], job'[es[i].req])
  BY <1>1, JobEntries, GenuineEntries, AskedAddresses
<1>3. \A i \in DOMAIN queue : Genuine(queue[i], job'[queue[i].req])
  BY <1>1, WorkIsCalled DEF RInv, GenuineWork
<1>4. ReportedErrors'
  BY <1>1 DEF RInv, ReportedErrors
<1>5. reported \subseteq reported' /\ \A q \in Requests : DOMAIN result[q] # {} => job'[q] = job[q]
  BY <1>1
<1> HIDE DEF es
<1>6. CASE MayStart
  <2> DEFINE e == Head(es)
  <2>1. queue' = Tail(es) /\ Begin(e, {})
    BY <1>1, <1>6, IdleSubmit DEF es
  <2>2. /\ e = es[1] /\ 1 \in DOMAIN es
        /\ \A i \in DOMAIN Tail(es) : i + 1 \in DOMAIN es /\ Tail(es)[i] = es[i + 1]
    BY <1>2
  <2>3. /\ e \in Entry /\ Registers(e) \subseteq Addresses /\ Genuine(e, job'[e.req])
        /\ \A i \in DOMAIN queue' : Genuine(queue'[i], job'[queue'[i].req])
    BY <1>2, <2>1, <2>2
  <2> HIDE DEF e
  <2>4. /\ \E f : Truthful(e, f)
        /\ \A c \in chains' : c.entry = e /\ c.stage # "failed"
    BY <1>1, <1>5, <2>1, <2>3, BeginTruthful
  <2>5. FailuresAreReported' /\ ExcusedStep
    BY <1>1, <1>5, <2>3, <2>4, TruthfulKeepsReports DEF RInv, TypeOK
  <2> QED
    BY <1>4, <2>3, <2>4, <2>5 DEF GenuineWork, ReportedFailures
<1>7. CASE ~MayStart
  <2>1. queue' = Enqueue(queue, es, j.task) /\ UNCHANGED <<chains, result>>
    BY <1>7 DEF Submit, es
  <2>2. \A i \in DOMAIN queue' : Genuine(queue'[i], job'[queue'[i].req])
    <3>1. \A i \in DOMAIN queue' : \/ \E k \in DOMAIN queue : queue'[i] = queue[k]
                                  \/ \E k \in DOMAIN es : queue'[i] = es[k]
      BY <1>1, <1>2, <2>1, EnqueueEntries DEF TypeOK
    <3> QED
      BY <1>2, <1>3, <3>1
  <2>3. ASSUME NEW c \in chains, Busy(c) PROVE job'[c.entry.req] = job[c.entry.req]
    <3>1. c.entry.req \in Requests /\ status[c.entry.req] # "idle"
      BY <1>1, <2>3, BusyChain DEF Entry
    <3> QED
      BY <1>1, <3>1
  <2>4. FailuresAreReported' /\ ExcusedStep
    BY <1>5, <2>1, QuietKeepsReports DEF RInv
  <2>5. GenuineWork'
    BY <2>1, <2>2, <2>3 DEF RInv, GenuineWork
  <2>6. ReportedFailures'
    BY <1>1, <2>1 DEF RInv, ReportedFailures
  <2> QED
    BY <1>4, <2>4, <2>5, <2>6
<1> QED
  BY <1>6, <1>7

(* A chain answers its entry: nothing else changes but the cache.              *)
LEMMA AnswerKeepsRInv ==
  ASSUME RInv, NEW c \in chains, Busy(c), UNCHANGED <<queue, job, reported>>, ReportedErrors',
         chains' = (chains \ {c}) \cup {At(c.entry, "next")},
         \E f : Truthful(c.entry, f)
  PROVE  GenuineWork' /\ ReportedFailures' /\ ReportedErrors' /\ FailuresAreReported' /\ ExcusedStep
<1>1. IInv /\ TypeOK /\ c.entry \in Entry
  BY BusyChain DEF RInv, IInv
<1>2. FailuresAreReported' /\ ExcusedStep
  BY <1>1, TruthfulKeepsReports DEF RInv, TypeOK
<1>3. \A d \in chains' : d \in chains \/ d.stage = "next"
  BY DEF At
<1>4. GenuineWork'
  BY <1>3 DEF RInv, GenuineWork, Busy
<1>5. ReportedFailures'
  BY <1>3 DEF RInv, ReportedFailures
<1> QED
  BY <1>2, <1>4, <1>5

LEMMA AnswersKeepRInv ==
  ASSUME RInv, NEW c \in chains,
         ReadSucceeds(c) \/ WriteSucceeds(c) \/ WriteFails(c) \/ FailPermanently(c)
  PROVE  GenuineWork' /\ ReportedFailures' /\ ReportedErrors' /\ FailuresAreReported' /\ ExcusedStep
<1> DEFINE e == c.entry
<1>1. Busy(c) /\ UNCHANGED <<queue, job, reported>> /\ chains' = (chains \ {c}) \cup {At(e, "next")}
  BY DEF ReadSucceeds, WriteSucceeds, WriteFails, FailPermanently, Done, Busy
<1>2. /\ IInv /\ TypeOK /\ e \in Entry /\ Registers(e) \subseteq Addresses
      /\ Registers(e) \subseteq Asked(job[e.req])
      /\ Genuine(e, job'[e.req])
  BY <1>1, BusyChain DEF RInv, IInv, GenuineWork
<1>3. CASE ReadSucceeds(c)
  <2>1. ReportedErrors'
    BY <1>3 DEF ReadSucceeds, WithData, Data, RInv, ReportedErrors
  <2>2. \E f : Truthful(e, f)
    BY <1>2, <1>3, ValueTruthful DEF ReadSucceeds
  <2> QED
    BY <1>1, <2>1, <2>2, AnswerKeepsRInv
<1>4. CASE WriteSucceeds(c) \/ WriteFails(c)
  <2>1. ReportedErrors'
    BY <1>4 DEF WriteSucceeds, WriteFails, RInv, ReportedErrors
  <2>2. \E f : Truthful(e, f)
    BY <1>2, <1>4, ValueTruthful, WriteErrorTruthful DEF WriteSucceeds, WriteFails
  <2> QED
    BY <1>1, <2>1, <2>2, AnswerKeepsRInv
<1>5. CASE FailPermanently(c)
  <2>1. {e.req} \X Registers(e) \subseteq reported /\ e.req \in Requests
    BY <1>2, <1>5 DEF FailPermanently, RInv, ReportedFailures, Entry
  <2>2. ReportedErrors'
    BY <1>5, <2>1 DEF FailPermanently, WithErrors, RInv, ReportedErrors
  <2>3. \E f : Truthful(e, f)
    <3>1. {e.req} \X Registers(e) \subseteq reported'
      BY <1>1, <2>1
    <3> QED
      BY <1>2, <1>5, <3>1, FailureTruthful DEF FailPermanently, TypeOK
  <2> QED
    BY <1>1, <2>2, <2>3, AnswerKeepsRInv
<1> QED
  BY <1>3, <1>4, <1>5

LEMMA ReadFailsKeepsRInv ==
  ASSUME RInv, NEW c \in chains, NEW error \in ReadErrors, ReadFails(c, error)
  PROVE  GenuineWork' /\ ReportedFailures' /\ ReportedErrors' /\ FailuresAreReported' /\ ExcusedStep
<1> DEFINE e == c.entry
<1>1. Busy(c) /\ UNCHANGED <<job, cache>> /\ e.op = "read" /\ Report(e, error)
  BY DEF ReadFails, Busy
<1>2. /\ IInv /\ TypeOK /\ e \in Entry /\ Registers(e) \subseteq Addresses
      /\ chains \ {c} = {}
      /\ Genuine(e, job[e.req])
  BY <1>1, BusyChain DEF RInv, IInv, GenuineWork
<1>3. reported \subseteq reported'
  BY <1>1 DEF Report
<1>4. ReportedErrors'
  BY <1>1, <1>3 DEF RInv, ReportedErrors
<1>5. CASE /\ Remedy(e, error) = "split"
           /\ queue' = Enqueue(queue, SplitEntries(e), "splitted")
           /\ Done(c)
           /\ UNCHANGED <<result, status>>
  <2>1. CanSplit(e) /\ SplitEntries(e) \in Seq(Entry)
    BY <1>2, <1>5, SplitEntriesPartition DEF Remedy
  <2>2. \A i \in DOMAIN queue' : Genuine(queue'[i], job[queue'[i].req])
    <3>1. \A i \in DOMAIN SplitEntries(e) :
            SplitEntries(e)[i].req = e.req /\ Genuine(SplitEntries(e)[i], job[e.req])
      BY <1>1, <1>2, <2>1, GenuineParts
    <3>2. \A i \in DOMAIN queue' : \/ \E k \in DOMAIN queue : queue'[i] = queue[k]
                                  \/ \E k \in DOMAIN SplitEntries(e) : queue'[i] = SplitEntries(e)[k]
      BY <1>2, <1>5, <2>1, EnqueueEntries DEF TypeOK
    <3> QED
      BY <3>1, <3>2 DEF RInv, GenuineWork
  <2>3. \A d \in chains' : d.stage = "next"
    BY <1>2, <1>5 DEF Done, At
  <2>4. FailuresAreReported' /\ ExcusedStep
    BY <1>1, <1>3, <1>5, QuietKeepsReports DEF RInv
  <2> QED
    BY <1>1, <1>4, <2>2, <2>3, <2>4 DEF GenuineWork, ReportedFailures, Busy
<1>6. CASE /\ Remedy(e, error) = "retry"
           /\ Execute(Retried(e), chains \ {c})
           /\ UNCHANGED queue
  <2>1. /\ Retried(e) \in Entry /\ Registers(Retried(e)) \subseteq Addresses
        /\ Retried(e).req = e.req /\ Genuine(Retried(e), job'[e.req])
    <3>1. Genuine(Retried(e), job[e.req])
      BY <1>2 DEF Genuine, Retried
    <3> QED
      BY <1>1, <1>2, <1>6, <3>1, RetryEntry
  <2>2. /\ \E f : Truthful(Retried(e), f)
        /\ \A d \in chains' : d.entry = Retried(e) /\ d.stage # "failed"
    BY <1>1, <1>2, <1>3, <1>6, <2>1, BeginTruthful
  <2>3. FailuresAreReported' /\ ExcusedStep
    BY <1>1, <1>2, <1>3, <2>1, <2>2, TruthfulKeepsReports DEF RInv, TypeOK
  <2>4. GenuineWork' /\ ReportedFailures'
    BY <1>1, <1>6, <2>1, <2>2 DEF RInv, GenuineWork, ReportedFailures
  <2> QED
    BY <1>4, <2>3, <2>4
<1>7. CASE /\ Remedy(e, error) = "giveUp"
           /\ chains' = (chains \ {c}) \cup {At(e, "failed")}
           /\ UNCHANGED <<queue, handlers, result, status>>
  <2>1. \A d \in chains' : d.entry = e
    BY <1>2, <1>7 DEF At
  <2>2. {e.req} \X Registers(e) \subseteq reported'
    BY <1>1, <1>7 DEF Report, Remedy, ReadErrors
  <2>3. FailuresAreReported' /\ ExcusedStep
    BY <1>1, <1>3, <1>7, QuietKeepsReports DEF RInv
  <2>4. GenuineWork'
    BY <1>1, <1>2, <1>7, <2>1 DEF RInv, GenuineWork
  <2>5. ReportedFailures'
    BY <1>1, <2>1, <2>2 DEF ReportedFailures
  <2> QED
    BY <1>4, <2>3, <2>4, <2>5
<1> QED
  BY <1>5, <1>6, <1>7 DEF ReadFails

LEMMA ProceedKeepsRInv ==
  ASSUME RInv, NEW c \in chains, Proceed(c)
  PROVE  GenuineWork' /\ ReportedFailures' /\ ReportedErrors' /\ FailuresAreReported' /\ ExcusedStep
<1>1. IInv /\ TypeOK /\ chains \ {c} = {} /\ UNCHANGED <<job, cache, reported>>
  BY DEF RInv, IInv, OneInFlight, Proceed
<1>2. ReportedErrors'
  BY <1>1 DEF RInv, ReportedErrors
<1>3. CASE Finish(c)
  <2>1. FailuresAreReported' /\ ExcusedStep
    BY <1>1, <1>3, QuietKeepsReports DEF RInv, Finish
  <2> QED
    BY <1>1, <1>2, <1>3, <2>1 DEF Finish, RInv, GenuineWork, ReportedFailures
<1>4. CASE queue # <<>> /\ queue' = Tail(queue) /\ Begin(Head(queue), chains \ {c})
  <2> DEFINE e == Head(queue)
  <2>1. /\ e = queue[1] /\ 1 \in DOMAIN queue
        /\ \A i \in DOMAIN queue' : i + 1 \in DOMAIN queue /\ queue'[i] = queue[i + 1]
    BY <1>1, <1>4 DEF TypeOK
  <2>2. e \in Entry /\ Registers(e) \subseteq Addresses /\ Genuine(e, job'[e.req])
    BY <1>1, <2>1, EntriesKnown DEF RInv, GenuineWork
  <2>3. \A i \in DOMAIN queue' : Genuine(queue'[i], job'[queue'[i].req])
    BY <1>1, <2>1 DEF RInv, GenuineWork
  <2> HIDE DEF e
  <2>4. /\ \E f : Truthful(e, f)
        /\ \A d \in chains' : d.entry = e /\ d.stage # "failed"
    BY <1>1, <1>4, <2>2, BeginTruthful DEF e
  <2>5. FailuresAreReported' /\ ExcusedStep
    BY <1>1, <2>2, <2>4, TruthfulKeepsReports DEF RInv, TypeOK
  <2> QED
    BY <1>2, <2>2, <2>3, <2>4, <2>5 DEF GenuineWork, ReportedFailures
<1> QED
  BY <1>3, <1>4 DEF Proceed

LEMMA RestKeepsRInv ==
  ASSUME RInv, (\E a \in Addresses : GrowOld(a)) \/ CleanupCache \/ UNCHANGED vars
  PROVE  GenuineWork' /\ ReportedFailures' /\ ReportedErrors' /\ FailuresAreReported' /\ ExcusedStep
<1>1. UNCHANGED <<queue, chains, reported, job, result>>
  BY DEF GrowOld, CleanupCache, vars, workVars, callVars
<1>2. \A a \in Addresses : cache'[a].kind = "error" => cache[a].kind = "error"
  BY DEF RInv, IInv, TypeOK, GrowOld, CleanupCache, vars, Uncached
<1>3. FailuresAreReported' /\ ExcusedStep
  BY <1>1, QuietKeepsReports DEF RInv
<1> QED
  BY <1>1, <1>2, <1>3 DEF RInv, GenuineWork, ReportedFailures, ReportedErrors

LEMMA NextKeepsRInv == RInv /\ [Next]_vars => RInv' /\ ExcusedStep
<1> SUFFICES ASSUME RInv, [Next]_vars
             PROVE  /\ GenuineWork' /\ ReportedFailures' /\ ReportedErrors'
                    /\ FailuresAreReported' /\ ExcusedStep
  BY NextKeepsIInv DEF RInv
<1>1. CASE \E r \in Requests, j \in Jobs : Submit(r, j)
  BY <1>1, SubmitKeepsRInv
<1>2. ASSUME NEW c \in chains, Proceed(c) \/ DeviceAnswers(c) \/ FailPermanently(c)
      PROVE  /\ GenuineWork' /\ ReportedFailures' /\ ReportedErrors'
             /\ FailuresAreReported' /\ ExcusedStep
  BY <1>2, ProceedKeepsRInv, AnswersKeepRInv, ReadFailsKeepsRInv DEF DeviceAnswers
<1> QED
  BY <1>1, <1>2, RestKeepsRInv DEF Next, WorkerStep

LEMMA InitRInv == Init => RInv
<1> SUFFICES ASSUME Init PROVE RInv
  OBVIOUS
<1>1. GenuineWork /\ ReportedFailures
  BY DEF Init, GenuineWork, ReportedFailures
<1>2. ReportedErrors /\ FailuresAreReported
  BY NoResultsTyped DEF Init, ReportedErrors, FailuresAreReported, Uncached
<1> QED
  BY <1>1, <1>2, InitIInv DEF RInv

(* No read fails in silence, whatever is split, retried or answered from the    *)
(* cache: for any number of callers, jobs, registers and retries, an error was  *)
(* put on the error list before a caller gets to see it.                      *)
THEOREM NoSilentFailure == Spec => []FailuresAreReported
<1>1. RInv => FailuresAreReported
  BY DEF RInv
<1> QED
  BY <1>1, InitRInv, NextKeepsRInv, PTL DEF Spec

(* A poll whose registers were all read within errorTimeout is never told an     *)
(* error, in whatever order the cache ages, and device detections, other polls   *)
(* and writes fail or succeed in between.                                    *)
THEOREM YoungValuesHold == Spec => NoHoleWhileYoung
<1>1. RInv /\ [Next]_vars => RInv' /\ [ExcusedStep]_vars
  BY NextKeepsRInv
<1>2. [ExcusedStep]_vars =>
        [\A r \in Requests : \A a \in DOMAIN result'[r] \ DOMAIN result[r] :
           job'[r].task = "poll" /\ job'[r].op = "read" /\ result'[r][a] = "error"
             => \E b \in Asked(job[r]) : cache[b] # Data]_vars
  BY DEF ExcusedStep, Excused
<1> QED
  BY <1>1, <1>2, InitRInv, PTL DEF Spec, NoHoleWhileYoung

(***************************************************************************)
(* In which order the work gets done, and that it does.  Nothing gets stuck in *)
(* RtuWorker as long as every write has a function code: the premise          *)
(* AllWritable of the theorems about it.  Without it the entry of a call can  *)
(* be dropped, see the run RtuWorkerWedge.                                   *)
(***************************************************************************)

AllWritable == \A j \in Jobs : j.op # "writeReadOnly"

Executable(e) == e.op # "writeReadOnly"

ExecutableWork ==
  /\ \A i \in DOMAIN queue : Executable(queue[i])
  /\ \A c \in chains : Executable(c.entry)

PInv == IInv /\ ExecutableWork /\ NeverWedged /\ NothingLost

(* The registers of e are answered or still owed after the step.             *)
Kept(e) ==
  \A r \in Requests : e.req = r => Registers(e) \subseteq DOMAIN result'[r] \cup Owed(r)'

LEMMA InitPInv == Init => PInv
<1> SUFFICES ASSUME Init
             PROVE  PInv
  OBVIOUS
<1>1. ExecutableWork /\ NeverWedged
  BY DEF Init, ExecutableWork, NeverWedged
<1>2. NothingLost
  BY NoJobAsksNothing DEF Init, NothingLost
<1> QED BY <1>1, <1>2, InitIInv DEF PInv

LEMMA HeldIsKept ==
  ASSUME NEW e, Registers(e) \subseteq Addresses,
         NEW c \in chains', Busy(c),
         c.entry.req = e.req, Registers(c.entry) = Registers(e)
  PROVE  Kept(e)
BY DEF Kept, Owed, Busy, Registers

LEMMA QueuedIsKept ==
  ASSUME NEW e, Registers(e) \subseteq Addresses,
         \A a \in Registers(e) :
           \E i \in DOMAIN queue' : queue'[i].req = e.req /\ a \in Registers(queue'[i])
  PROVE  Kept(e)
BY DEF Kept, Owed, Registers

(* A step that keeps what was owed loses nothing, if it keeps also what a new *)
(* call asks for.                                                            *)
LEMMA KeepingLosesNothing ==
  ASSUME NothingLost,
         \A r \in Requests : \A a \in Asked(job'[r]) :
           a \in Asked(job[r]) \/ a \in DOMAIN result'[r] \cup Owed(r)',
         \A r \in Requests : DOMAIN result[r] \subseteq DOMAIN result'[r],
         \A i \in DOMAIN queue : Kept(queue[i]),
         \A c \in chains : Busy(c) => Kept(c.entry)
  PROVE  NothingLost'
<1>1. ASSUME NEW r \in Requests, NEW a \in Asked(job[r])
      PROVE  a \in DOMAIN result'[r] \cup Owed(r)'
  <2>1. a \in DOMAIN result[r] \cup Owed(r)
    BY <1>1 DEF NothingLost
  <2>2. CASE a \in DOMAIN result[r]
    BY <2>2
  <2>3. ASSUME NEW i \in DOMAIN queue, queue[i].req = r, a \in Registers(queue[i])
        PROVE  a \in DOMAIN result'[r] \cup Owed(r)'
    BY <2>3 DEF Kept
  <2>4. ASSUME NEW c \in chains, Busy(c), c.entry.req = r, a \in Registers(c.entry)
        PROVE  a \in DOMAIN result'[r] \cup Owed(r)'
    BY <2>4 DEF Kept
  <2> QED BY <2>1, <2>2, <2>3, <2>4 DEF Owed
<1>2. \A r \in Requests : Asked(job'[r]) \subseteq DOMAIN result'[r] \cup Owed(r)'
  BY <1>1
<1> QED BY <1>2 DEF NothingLost

LEMMA GiveKeeps ==
  ASSUME IInv, NEW e \in Entry, NEW f \in ResultMaps, DOMAIN f \subseteq Registers(e),
         Give(e, f)
  PROVE  /\ \A r \in Requests : DOMAIN result[r] \subseteq DOMAIN result'[r]
         /\ DOMAIN f = Registers(e) => Kept(e)
<1>1. /\ Served(e)
      /\ DOMAIN result'[e.req] = DOMAIN result[e.req] \cup DOMAIN f
  BY GiveServes DEF IInv, TypeOK
<1>2. \A r \in Requests : DOMAIN result[r] \subseteq DOMAIN result'[r]
  BY <1>1 DEF Served
<1> QED BY <1>1, <1>2 DEF Kept

(* An entry that is begun or retried is answered or in hand, if it can be     *)
(* executed at all.                                                          *)
LEMMA BeginKeeps ==
  ASSUME IInv, NEW e \in Entry, Registers(e) \subseteq Addresses, NEW others,
         \/ Begin(e, others) /\ Executable(e)
         \/ Execute(e, others)
  PROVE  /\ Kept(e)
         /\ \E stage \in {"wire", "next"} : chains' = others \cup {At(e, stage)}
         /\ \A r \in Requests : DOMAIN result[r] \subseteq DOMAIN result'[r]
<1>1. CASE Give(e, FromCache(e)) /\ chains' = others \cup {At(e, "next")}
  <2>1. FromCache(e) \in ResultMaps /\ DOMAIN FromCache(e) = Registers(e)
    BY FromCacheTyped
  <2>2. /\ \A r \in Requests : DOMAIN result[r] \subseteq DOMAIN result'[r]
        /\ Kept(e)
    BY <1>1, <2>1, GiveKeeps
  <2> QED BY <1>1, <2>2
<1>2. CASE Give(e, NoResults) /\ chains' = others \cup {At(e, "wire")}
  <2>1. \A r \in Requests : DOMAIN result[r] \subseteq DOMAIN result'[r]
    BY <1>2, NoResultsTyped, GiveKeeps
  <2>2. At(e, "wire") \in chains'
    BY <1>2
  <2>3. /\ Busy(At(e, "wire"))
        /\ At(e, "wire").entry.req = e.req
        /\ Registers(At(e, "wire").entry) = Registers(e)
    BY DEF Busy, At
  <2>4. Kept(e)
    BY <2>2, <2>3, HeldIsKept
  <2> QED BY <1>2, <2>1, <2>4
<1> QED BY <1>1, <1>2 DEF Begin, Execute, Executable

(* The worker steps, but for the queue.                                      *)
LEMMA AnswerKeeps ==
  ASSUME IInv, NEW c \in chains, Busy(c), NEW v \in Results,
         Give(c.entry, Uniform(c.entry, v))
  PROVE  /\ Kept(c.entry)
         /\ \A r \in Requests : DOMAIN result[r] \subseteq DOMAIN result'[r]
<1>1. c.entry \in Entry /\ Registers(c.entry) \subseteq Addresses
  BY BusyChain
<1>2. /\ Uniform(c.entry, v) \in ResultMaps
      /\ DOMAIN Uniform(c.entry, v) = Registers(c.entry)
  BY <1>1, UniformTyped
<1> QED BY <1>1, <1>2, GiveKeeps

LEMMA QueueKept ==
  ASSUME IInv, queue' = queue
  PROVE  \A i \in DOMAIN queue : Kept(queue[i])
<1> TAKE i \in DOMAIN queue
<1> DEFINE e == queue[i]
<1>1. Registers(e) \subseteq Addresses
  BY EntriesKnown
<1>2. \A a \in Registers(e) :
        \E k \in DOMAIN queue' : queue'[k].req = e.req /\ a \in Registers(queue'[k])
  BY Zenon
<1> HIDE DEF e
<1>3. Kept(e)
  BY <1>1, <1>2, QueuedIsKept
<1> QED BY <1>3 DEF e

(* What NextKeepsIInv leaves of PInv.                                        *)
Progresses == ExecutableWork' /\ NeverWedged' /\ NothingLost'

LEMMA AnsweringProgresses ==
  ASSUME PInv, NEW c \in chains, Busy(c), NEW v \in Results,
         Give(c.entry, Uniform(c.entry, v)),
         chains' = (chains \ {c}) \cup {At(c.entry, "next")},
         UNCHANGED <<queue, isRunning, job>>
  PROVE  Progresses
<1>1. chains = {c} /\ chains \ {c} = {}
  BY BusyChain DEF PInv
<1>2. ExecutableWork'
  BY <1>1 DEF PInv, ExecutableWork, At, Executable
<1>3. NeverWedged'
  BY DEF PInv, NeverWedged
<1>4. NothingLost'
  <2>1. /\ Kept(c.entry)
        /\ \A r \in Requests : DOMAIN result[r] \subseteq DOMAIN result'[r]
    BY AnswerKeeps DEF PInv
  <2>2. \A i \in DOMAIN queue : Kept(queue[i])
    BY QueueKept DEF PInv
  <2> QED BY <1>1, <2>1, <2>2, KeepingLosesNothing DEF PInv
<1> QED BY <1>2, <1>3, <1>4 DEF Progresses

LEMMA AnswersProgress ==
  ASSUME PInv, NEW c \in chains,
         ReadSucceeds(c) \/ WriteSucceeds(c) \/ WriteFails(c) \/ FailPermanently(c)
  PROVE  Progresses
<1>1. Busy(c)
  BY DEF ReadSucceeds, WriteSucceeds, WriteFails, FailPermanently, Busy
<1>2. /\ chains' = (chains \ {c}) \cup {At(c.entry, "next")}
      /\ UNCHANGED <<queue, isRunning, job>>
  BY DEF ReadSucceeds, WriteSucceeds, WriteFails, FailPermanently, Done
<1>3. \E v \in Results : Give(c.entry, Uniform(c.entry, v))
  <2>1. FailureResult(c.entry, cache') \in Results
    BY DEF FailureResult, Results
  <2>2. "value" \in Results /\ "error" \in Results
    BY DEF Results
  <2> QED BY <2>1, <2>2 DEF ReadSucceeds, WriteSucceeds, WriteFails, FailPermanently
<1> QED BY <1>1, <1>2, <1>3, AnsweringProgresses

LEMMA SplitParts ==
  ASSUME NEW e \in Entry, NEW i \in DOMAIN SplitEntries(e)
  PROVE  Executable(SplitEntries(e)[i])
BY DEF SplitEntries, Part, Executable

LEMMA ReadFailsProgresses ==
  ASSUME PInv, NEW c \in chains, NEW error \in ReadErrors, ReadFails(c, error)
  PROVE  Progresses
<1> DEFINE e == c.entry
<1>1. /\ Busy(c)
      /\ UNCHANGED <<isRunning, job>>
      /\ IInv
  BY DEF ReadFails, Busy, PInv
<1>2. /\ chains = {c} /\ chains \ {c} = {}
      /\ isRunning
      /\ e \in Entry
      /\ Registers(e) \subseteq Addresses
      /\ queue \in Seq(Entry)
  BY <1>1, BusyChain DEF IInv, TypeOK
<1>3. Executable(e) /\ \A i \in DOMAIN queue : Executable(queue[i])
  BY DEF PInv, ExecutableWork
<1>4. ASSUME NEW f, NEW stage, f \in Entry, Executable(f), chains' = {At(f, stage)},
             \A i \in DOMAIN queue' : Executable(queue'[i]),
             \A i \in DOMAIN queue : Kept(queue[i]),
             Kept(e),
             \A r \in Requests : DOMAIN result[r] \subseteq DOMAIN result'[r]
      PROVE  Progresses
  <2>1. ExecutableWork'
    BY <1>4 DEF ExecutableWork, At, Executable
  <2>2. NeverWedged'
    BY <1>1, <1>2, <1>4 DEF NeverWedged
  <2>3. NothingLost'
    BY <1>1, <1>2, <1>4, KeepingLosesNothing DEF PInv
  <2> QED BY <2>1, <2>2, <2>3 DEF Progresses
<1>5. CASE /\ queue' = Enqueue(queue, SplitEntries(e), "splitted")
           /\ Done(c)
           /\ UNCHANGED <<result, status>>
  <2> DEFINE es == SplitEntries(e)
  <2>1. /\ es \in Seq(Entry)
        /\ \A i \in DOMAIN es : es[i].req = e.req /\ Executable(es[i])
        /\ \A a \in Registers(e) : \E i \in DOMAIN es : a \in Registers(es[i])
    BY <1>2, SplitEntriesPartition, SplitParts
  <2> HIDE DEF es
  <2>2. /\ \A i \in DOMAIN queue' : \/ \E k \in DOMAIN queue : queue'[i] = queue[k]
                                  \/ \E k \in DOMAIN es : queue'[i] = es[k]
        /\ \A k \in DOMAIN queue : \E i \in DOMAIN queue' : queue'[i] = queue[k]
        /\ \A k \in DOMAIN es : \E i \in DOMAIN queue' : queue'[i] = es[k]
    BY <1>2, <1>5, <2>1, EnqueueEntries DEF es
  <2>3. \A a \in Registers(e) :
          \E i \in DOMAIN queue' : queue'[i].req = e.req /\ a \in Registers(queue'[i])
    BY <2>1, <2>2
  <2>4. Kept(e)
    BY <1>2, <2>3, QueuedIsKept
  <2>5. ASSUME NEW k \in DOMAIN queue
        PROVE  Kept(queue[k])
    <3>1. Registers(queue[k]) \subseteq Addresses
      BY <1>1, EntriesKnown
    <3>2. \A a \in Registers(queue[k]) :
            \E i \in DOMAIN queue' : queue'[i].req = queue[k].req /\ a \in Registers(queue'[i])
      BY <2>2
    <3> QED BY <3>1, <3>2, QueuedIsKept
  <2>6. \A i \in DOMAIN queue' : Executable(queue'[i])
    BY <1>3, <2>1, <2>2
  <2>7. chains' = {At(e, "next")}
    BY <1>2, <1>5 DEF Done
  <2> QED BY <1>2, <1>3, <1>4, <1>5, <2>4, <2>5, <2>6, <2>7
<1>6. CASE /\ Remedy(e, error) = "retry"
           /\ Execute(Retried(e), chains \ {c})
           /\ UNCHANGED queue
  <2> DEFINE f == Retried(e)
  <2>1. f \in Entry /\ f.req = e.req /\ Registers(f) = Registers(e)
    BY <1>2, <1>6, RetryEntry
  <2>2. Executable(f)
    BY <1>3 DEF Retried, Executable
  <2>3. Execute(f, {})
    BY <1>2, <1>6
  <2> HIDE DEF f
  <2>4. /\ Kept(f)
        /\ \E stage \in {"wire", "next"} : chains' = {At(f, stage)}
        /\ \A r \in Requests : DOMAIN result[r] \subseteq DOMAIN result'[r]
    BY <1>1, <1>2, <2>1, <2>3, BeginKeeps
  <2>5. Kept(e)
    BY <2>1, <2>4 DEF Kept
  <2>6. \A i \in DOMAIN queue : Kept(queue[i])
    BY <1>1, <1>6, QueueKept
  <2> QED BY <1>3, <1>4, <1>6, <2>1, <2>2, <2>4, <2>5, <2>6
<1>7. CASE /\ chains' = (chains \ {c}) \cup {At(e, "failed")}
           /\ UNCHANGED <<queue, handlers, result, status>>
  <2>1. chains' = {At(e, "failed")}
    BY <1>2, <1>7
  <2>2. /\ At(e, "failed") \in chains'
        /\ Busy(At(e, "failed"))
        /\ At(e, "failed").entry = e
    BY <2>1 DEF Busy, At
  <2>3. Kept(e)
    BY <1>2, <2>2, HeldIsKept
  <2>4. \A i \in DOMAIN queue : Kept(queue[i])
    BY <1>1, <1>7, QueueKept
  <2> QED BY <1>2, <1>3, <1>4, <1>7, <2>1, <2>3, <2>4
<1> QED BY <1>5, <1>6, <1>7 DEF ReadFails

LEMMA ProceedProgresses ==
  ASSUME PInv, NEW c \in chains, Proceed(c)
  PROVE  Progresses
<1>1. /\ IInv
      /\ chains = {c} /\ chains \ {c} = {}
      /\ isRunning
      /\ ~Busy(c)
      /\ UNCHANGED job
  BY DEF PInv, IInv, OneInFlight, IdleHasNoWork, Proceed, Busy
<1>2. queue \in Seq(Entry)
  BY <1>1 DEF IInv, TypeOK
<1>3. CASE queue # <<>> /\ queue' = Tail(queue) /\ Begin(Head(queue), {}) /\ UNCHANGED isRunning
  <2> DEFINE e == Head(queue)
  <2>1. /\ 1 \in DOMAIN queue /\ e = queue[1]
        /\ e \in Entry /\ Registers(e) \subseteq Addresses /\ Executable(e)
    BY <1>1, <1>2, <1>3, EntriesKnown DEF PInv, ExecutableWork
  <2>2. /\ \A i \in DOMAIN queue' : i + 1 \in DOMAIN queue /\ queue'[i] = queue[i + 1]
        /\ \A i \in DOMAIN queue : i # 1 => i - 1 \in DOMAIN queue' /\ queue'[i - 1] = queue[i]
    BY <1>2, <1>3
  <2> HIDE DEF e
  <2>3. Begin(e, {})
    BY <1>3 DEF e
  <2>4. /\ Kept(e)
        /\ \E stage \in {"wire", "next"} : chains' = {At(e, stage)}
        /\ \A r \in Requests : DOMAIN result[r] \subseteq DOMAIN result'[r]
    BY <1>1, <2>1, <2>3, BeginKeeps
  <2>5. ASSUME NEW i \in DOMAIN queue
        PROVE  Kept(queue[i])
    <3>1. CASE i = 1
      BY <2>1, <2>4, <3>1
    <3>2. CASE i # 1
      <4>1. Registers(queue[i]) \subseteq Addresses
        BY <1>1, EntriesKnown
      <4>2. \A a \in Registers(queue[i]) :
              \E k \in DOMAIN queue' : queue'[k].req = queue[i].req /\ a \in Registers(queue'[k])
        BY <2>2, <3>2
      <4> QED BY <4>1, <4>2, QueuedIsKept
    <3> QED BY <3>1, <3>2
  <2>6. ExecutableWork'
    <3>1. \A i \in DOMAIN queue' : Executable(queue'[i])
      BY <2>2 DEF PInv, ExecutableWork
    <3>2. \A d \in chains' : d.entry = e
      BY <2>4 DEF At
    <3> QED BY <2>1, <3>1, <3>2 DEF ExecutableWork, Executable
  <2>7. NeverWedged'
    BY <1>1, <1>3, <2>4 DEF NeverWedged
  <2>8. NothingLost'
    BY <1>1, <2>4, <2>5, KeepingLosesNothing DEF PInv
  <2> QED BY <2>6, <2>7, <2>8 DEF Progresses
<1>4. CASE Finish(c)
  <2>1. /\ queue = <<>> /\ queue' = <<>>
        /\ chains' = {}
        /\ ~isRunning'
        /\ UNCHANGED result
    BY <1>1, <1>4 DEF Finish
  <2>2. ExecutableWork' /\ NeverWedged'
    BY <2>1 DEF ExecutableWork, NeverWedged
  <2>3. NothingLost'
    BY <1>1, <2>1, KeepingLosesNothing DEF PInv
  <2> QED BY <2>2, <2>3 DEF Progresses
<1> QED BY <1>1, <1>3, <1>4 DEF Proceed

LEMMA WritableEntries ==
  ASSUME AllWritable, NEW r \in Requests, NEW j \in Jobs
  PROVE  \A i \in DOMAIN Entries(r, j) : Executable(Entries(r, j)[i])
BY DEF AllWritable, Entries, Executable

LEMMA SubmitProgresses ==
  ASSUME AllWritable, PInv, NEW r \in Requests, NEW j \in Jobs, Submit(r, j)
  PROVE  Progresses
<1> DEFINE es == Entries(r, j)
<1>1. /\ IInv
      /\ job' = [job EXCEPT ![r] = j]
      /\ job \in [Requests -> Jobs \cup {NoJob}]
      /\ isRunning' = TRUE
      /\ queue \in Seq(Entry)
  BY DEF PInv, IInv, TypeOK, Submit
<1>2. /\ es \in Seq(Entry)
      /\ es # <<>>
      /\ \A i \in DOMAIN es : /\ es[i].req = r
                              /\ Registers(es[i]) \subseteq Addresses
                              /\ Executable(es[i])
      /\ \A a \in Asked(j) : \E i \in DOMAIN es : a \in Registers(es[i])
  <2>1. Asked(j) \subseteq Addresses
    BY JobsAssumption DEF IsJob
  <2> QED BY <2>1, JobEntries, WritableEntries
<1> HIDE DEF es
<1>3. ASSUME \A i \in DOMAIN es : Kept(es[i])
      PROVE  \A q \in Requests : \A a \in Asked(job'[q]) :
               a \in Asked(job[q]) \/ a \in DOMAIN result'[q] \cup Owed(q)'
  <2> TAKE q \in Requests
  <2> TAKE a \in Asked(job'[q])
  <2>1. CASE q = r
    <3>1. a \in Asked(j)
      BY <1>1, <2>1
    <3>2. PICK i \in DOMAIN es : a \in Registers(es[i])
      BY <1>2, <3>1
    <3> QED BY <1>2, <1>3, <2>1, <3>2 DEF Kept
  <2>2. CASE q # r
    BY <1>1, <2>2
  <2> QED BY <2>1, <2>2
<1>4. CASE MayStart
  <2>1. queue = <<>> /\ chains = {}
    BY <1>1, <1>4 DEF MayStart, IInv, IdleHasNoWork
  <2>2. queue' = Tail(es) /\ Begin(Head(es), {})
    BY <1>1, <1>4, IdleSubmit DEF es
  <2> DEFINE e == Head(es)
  <2>3. /\ e = es[1]
        /\ e \in Entry /\ Registers(e) \subseteq Addresses /\ Executable(e)
    BY <1>2
  <2>4. /\ \A i \in DOMAIN queue' : i + 1 \in DOMAIN es /\ queue'[i] = es[i + 1]
        /\ \A i \in DOMAIN es : i # 1 => i - 1 \in DOMAIN queue' /\ queue'[i - 1] = es[i]
    BY <1>2, <2>2
  <2> HIDE DEF e
  <2>5. Begin(e, {})
    BY <2>2 DEF e
  <2>6. /\ Kept(e)
        /\ \E stage \in {"wire", "next"} : chains' = {At(e, stage)}
        /\ \A q \in Requests : DOMAIN result[q] \subseteq DOMAIN result'[q]
    BY <1>1, <2>3, <2>5, BeginKeeps
  <2>7. ASSUME NEW i \in DOMAIN es
        PROVE  Kept(es[i])
    <3>1. CASE i = 1
      BY <2>3, <2>6, <3>1
    <3>2. CASE i # 1
      <4>1. \A a \in Registers(es[i]) :
              \E k \in DOMAIN queue' : queue'[k].req = es[i].req /\ a \in Registers(queue'[k])
        BY <2>4, <3>2
      <4>2. Registers(es[i]) \subseteq Addresses
        BY <1>2
      <4> QED BY <4>1, <4>2, QueuedIsKept
    <3> QED BY <3>1, <3>2
  <2>8. ExecutableWork'
    <3>1. \A i \in DOMAIN queue' : Executable(queue'[i])
      BY <1>2, <2>4
    <3>2. \A d \in chains' : d.entry = e
      BY <2>6 DEF At
    <3> QED BY <2>3, <3>1, <3>2 DEF ExecutableWork
  <2>9. NeverWedged'
    BY <1>1, <2>6 DEF NeverWedged
  <2>10. NothingLost'
    <3>1. \A q \in Requests : \A a \in Asked(job'[q]) :
            a \in Asked(job[q]) \/ a \in DOMAIN result'[q] \cup Owed(q)'
      BY <1>3, <2>7
    <3> QED BY <2>1, <2>6, <3>1, KeepingLosesNothing DEF PInv
  <2> QED BY <2>8, <2>9, <2>10 DEF Progresses
<1>5. CASE ~MayStart
  <2>1. /\ queue' = Enqueue(queue, es, j.task)
        /\ UNCHANGED <<chains, result>>
        /\ isRunning
    BY <1>1, <1>5 DEF Submit, es, MayStart
  <2>2. /\ \A i \in DOMAIN queue' : \/ \E k \in DOMAIN queue : queue'[i] = queue[k]
                                  \/ \E k \in DOMAIN es : queue'[i] = es[k]
        /\ \A k \in DOMAIN queue : \E i \in DOMAIN queue' : queue'[i] = queue[k]
        /\ \A k \in DOMAIN es : \E i \in DOMAIN queue' : queue'[i] = es[k]
    <3>1. queue \in Seq(Entry) /\ es \in Seq(Entry)
      BY <1>1, <1>2
    <3>2. \A i \in DOMAIN queue' : \/ \E k \in DOMAIN queue : queue'[i] = queue[k]
                                 \/ \E k \in DOMAIN es : queue'[i] = es[k]
      BY <2>1, <3>1, EnqueueEntries
    <3>3. \A k \in DOMAIN queue : \E i \in DOMAIN queue' : queue'[i] = queue[k]
      BY <2>1, <3>1, EnqueueEntries
    <3>4. \A k \in DOMAIN es : \E i \in DOMAIN queue' : queue'[i] = es[k]
      BY <2>1, <3>1, EnqueueEntries
    <3> QED BY <3>2, <3>3, <3>4
  <2>3. ASSUME NEW e, Registers(e) \subseteq Addresses,
               \E i \in DOMAIN queue' : queue'[i] = e
        PROVE  Kept(e)
    BY <2>3, QueuedIsKept
  <2>4. /\ \A i \in DOMAIN es : Kept(es[i])
        /\ \A i \in DOMAIN queue : Kept(queue[i])
    BY <1>1, <1>2, <2>2, <2>3, EntriesKnown
  <2>5. \A c \in chains : Busy(c) => Kept(c.entry)
    BY <1>1, <2>1, EntriesKnown, HeldIsKept
  <2>6. ExecutableWork'
    BY <1>2, <2>1, <2>2 DEF PInv, ExecutableWork
  <2>7. NeverWedged'
    BY <1>1, <2>1 DEF PInv, NeverWedged
  <2>8. NothingLost'
    <3>1. \A q \in Requests : \A a \in Asked(job'[q]) :
            a \in Asked(job[q]) \/ a \in DOMAIN result'[q] \cup Owed(q)'
      BY <1>3, <2>4
    <3> QED BY <2>1, <2>4, <2>5, <3>1, KeepingLosesNothing DEF PInv
  <2> QED BY <2>6, <2>7, <2>8 DEF Progresses
<1> QED BY <1>4, <1>5

LEMMA RestProgresses ==
  ASSUME PInv, UNCHANGED <<workVars, callVars>>
  PROVE  Progresses
BY DEF PInv, Progresses, ExecutableWork, Executable, NeverWedged, NothingLost, Owed,
       workVars, callVars

LEMMA NextKeepsPInv == AllWritable /\ PInv /\ [Next]_vars => PInv'
<1> SUFFICES ASSUME AllWritable, PInv, [Next]_vars
             PROVE  Progresses
  BY NextKeepsIInv DEF PInv, Progresses
<1>1. CASE \E r \in Requests, j \in Jobs : Submit(r, j)
  BY <1>1, SubmitProgresses
<1>2. CASE WorkerStep
  <2>1. PICK c \in chains : Proceed(c) \/ DeviceAnswers(c) \/ FailPermanently(c)
    BY <1>2 DEF WorkerStep
  <2> QED BY <2>1, ProceedProgresses, AnswersProgress, ReadFailsProgresses DEF DeviceAnswers
<1>3. CASE (\E a \in Addresses : GrowOld(a)) \/ CleanupCache
  BY <1>3, RestProgresses DEF GrowOld, CleanupCache
<1>4. CASE UNCHANGED vars
  BY <1>4, RestProgresses DEF vars
<1> QED BY <1>1, <1>2, <1>3, <1>4 DEF Next

LEMMA SpecPInv ==
  ASSUME AllWritable
  PROVE  Spec => []PInv
<1>1. Init => PInv
  BY InitPInv
<1>2. PInv /\ [Next]_vars => PInv'
  BY NextKeepsPInv
<1> QED BY <1>1, <1>2, PTL DEF Spec

(* If every write has a function code, no register of a call is ever forgotten *)
(* by a split, a retry or a new call: it is answered or an entry will answer   *)
(* it.                                                                        *)
THEOREM NothingGetsLost ==
  ASSUME AllWritable
  PROVE  Spec => []NothingLost
<1>1. PInv => NothingLost
  BY DEF PInv
<1> QED BY <1>1, SpecPInv, PTL

(* If every write has a function code, the worker never claims to be running   *)
(* with no promise chain left to go on, and never sleeps on a queue.          *)
THEOREM WorkerNeverWedged ==
  ASSUME AllWritable
  PROVE  Spec => []NeverWedged
<1>1. PInv => NeverWedged
  BY DEF PInv
<1> QED BY <1>1, SpecPInv, PTL

(***************************************************************************)
(* The order of the queue.  The list is sorted whenever a callback is over, so *)
(* that the sort of Enqueue only has to place what is pushed.                *)
(***************************************************************************)

Urgency(e) == Priority[e.task]

Sorted(q) == \A i, k \in DOMAIN q : i < k => Urgency(q[k]) <= Urgency(q[i])

OInv == IInv /\ Sorted(queue)

LEMMA UrgencyType ==
  /\ \A t \in Tasks : Priority[t] \in 0 .. 6
  /\ \A e \in Entry : e.task \in Tasks /\ Urgency(e) \in 0 .. 6
<1>1. \A t \in Tasks : Priority[t] \in 0 .. 6
  BY DEF Tasks, Priority
<1> QED
  BY <1>1 DEF Entry, Urgency

(* In a sorted list the entries that are at least as urgent as task are a      *)
(* prefix: a set of positions that has all positions before each of its own    *)
(* is as long as it has elements.                                           *)
LEMMA AheadIsPrefix ==
  ASSUME NEW q \in Seq(Entry), Sorted(q), NEW task \in Tasks
  PROVE  /\ Ahead(q, task) \in 0 .. Len(q)
         /\ \A i \in 1 .. Ahead(q, task) : Urgency(q[i]) >= Priority[task]
         /\ \A i \in Ahead(q, task) + 1 .. Len(q) : Urgency(q[i]) < Priority[task]
<1> DEFINE ahead == {i \in 1 .. Len(q) : Urgency(q[i]) >= Priority[task]}
           n == Ahead(q, task)
<1>1. Priority[task] \in Int /\ \A i \in 1 .. Len(q) : Urgency(q[i]) \in Int
  BY UrgencyType
<1>2. n = Cardinality(ahead)
  <2>1. DOMAIN q = 1 .. Len(q)
    OBVIOUS
  <2> QED
    BY <2>1, Zenon DEF Ahead, Urgency
<1>3. \A i \in ahead : 1 .. i \subseteq ahead
  BY <1>1 DEF Sorted
<1>4. IsFiniteSet(ahead) /\ n \in Nat /\ n <= Len(q)
  <2>1. IsFiniteSet(1 .. Len(q)) /\ Cardinality(1 .. Len(q)) = Len(q)
    <3>1. Len(q) \in Nat
      OBVIOUS
    <3> QED
      BY <3>1, FS_Interval
  <2> QED
    BY <1>2, <2>1, FS_Subset, FS_CardinalityType
<1>5. ASSUME NEW i \in ahead PROVE i \in 1 .. n
  <2>1. IsFiniteSet(1 .. i) /\ Cardinality(1 .. i) = i
    BY FS_Interval
  <2> QED
    BY <1>2, <1>3, <1>4, <2>1, FS_Subset
<1>6. ahead = 1 .. n
  <2>1. IsFiniteSet(1 .. n) /\ Cardinality(1 .. n) = n
    BY <1>4, FS_Interval
  <2> HIDE DEF ahead, n
  <2> QED
    BY <1>2, <1>5, <2>1, FS_Subset
<1> QED
  BY <1>1, <1>4, <1>6

LEMMA EnqueueKeepsSorted ==
  ASSUME NEW q \in Seq(Entry), NEW es \in Seq(Entry), NEW task \in Tasks,
         Sorted(q), \A i \in DOMAIN es : es[i].task = task
  PROVE  Sorted(Enqueue(q, es, task))
<1> DEFINE s == Enqueue(q, es, task)
           n == Ahead(q, task)
           m == Len(es)
<1> SUFFICES Sorted(s)
  OBVIOUS
<1>1. /\ n \in 0 .. Len(q)
      /\ \A i \in 1 .. n : Urgency(q[i]) >= Priority[task]
      /\ \A i \in n + 1 .. Len(q) : Urgency(q[i]) < Priority[task]
  BY AheadIsPrefix
<1>2. Inserted(s, q, es, n)
  BY EnqueueBehindAhead
<1>3. /\ Priority[task] \in Int
      /\ \A i \in 1 .. Len(q) : Urgency(q[i]) \in Int
      /\ \A i \in 1 .. m : Urgency(es[i]) = Priority[task]
  BY UrgencyType DEF Urgency
<1> HIDE DEF s, n
<1>4. /\ DOMAIN s = 1 .. Len(q) + m
      /\ \A i \in 1 .. n : s[i] = q[i]
      /\ \A i \in n + 1 .. n + m : s[i] = es[i - n]
      /\ \A i \in n + m + 1 .. Len(q) + m : s[i] = q[i - m]
  <2>1. m \in Nat /\ Len(q) \in Nat
    OBVIOUS
  <2>2. /\ s \in Seq(Entry)
        /\ Len(s) = Len(q) + m
        /\ \A i \in 1 .. n : s[i] = q[i]
    BY <1>2 DEF Inserted
  <2>3. \A i \in 1 .. m : s[n + i] = es[i]
    BY <1>2 DEF Inserted
  <2>4. \A i \in n + 1 .. Len(q) : s[m + i] = q[i]
    BY <1>2 DEF Inserted
  <2> HIDE DEF m
  <2>5. ASSUME NEW i \in n + 1 .. n + m PROVE s[i] = es[i - n]
    <3>1. i - n \in 1 .. m /\ n + (i - n) = i
      BY <1>1, <2>1
    <3> QED
      BY <2>3, <3>1
  <2>6. ASSUME NEW i \in n + m + 1 .. Len(q) + m PROVE s[i] = q[i - m]
    <3>1. i - m \in n + 1 .. Len(q) /\ m + (i - m) = i
      BY <1>1, <2>1
    <3> QED
      BY <2>4, <3>1
  <2>7. DOMAIN s = 1 .. Len(q) + m
    BY <2>2
  <2> QED
    BY <2>2, <2>5, <2>6, <2>7
<1> SUFFICES ASSUME NEW i \in 1 .. Len(q) + m, NEW k \in 1 .. Len(q) + m, i < k
             PROVE  Urgency(s[k]) <= Urgency(s[i])
  BY <1>4 DEF Sorted
<1>5. m \in Nat /\ Len(q) \in Nat /\ \A a, b \in 1 .. Len(q) : a < b => Urgency(q[b]) <= Urgency(q[a])
  BY DEF Sorted
<1> HIDE DEF m
<1>6. CASE i \in 1 .. n
  <2>1. s[i] = q[i] /\ i \in 1 .. Len(q) /\ Urgency(q[i]) >= Priority[task]
    BY <1>1, <1>4, <1>6, <1>5
  <2>2. CASE k \in 1 .. n
    BY <1>1, <1>4, <1>5, <2>1, <2>2
  <2>3. CASE k \in n + 1 .. n + m
    <3>1. k - n \in 1 .. m /\ s[k] = es[k - n]
      BY <1>1, <1>4, <1>5, <2>3
    <3> QED
      BY <1>3, <2>1, <3>1
  <2>4. CASE k \in n + m + 1 .. Len(q) + m
    <3>1. k - m \in 1 .. Len(q) /\ s[k] = q[k - m] /\ i < k - m
      BY <1>1, <1>4, <1>5, <1>6, <2>4
    <3> QED
      BY <1>5, <2>1, <3>1
  <2> QED
    BY <1>1, <1>5, <2>2, <2>3, <2>4
<1>7. CASE i \in n + 1 .. n + m
  <2>1. i - n \in 1 .. m /\ s[i] = es[i - n]
    BY <1>1, <1>4, <1>5, <1>7
  <2>2. CASE k \in n + 1 .. n + m
    <3>1. k - n \in 1 .. m /\ s[k] = es[k - n]
      BY <1>1, <1>4, <1>5, <2>2
    <3> QED
      BY <1>3, <2>1, <3>1
  <2>3. CASE k \in n + m + 1 .. Len(q) + m
    <3>1. k - m \in n + 1 .. Len(q) /\ k - m \in 1 .. Len(q) /\ s[k] = q[k - m]
      BY <1>1, <1>4, <1>5, <2>3
    <3> QED
      BY <1>1, <1>3, <2>1, <3>1
  <2> QED
    BY <1>1, <1>5, <1>7, <2>2, <2>3
<1>8. CASE i \in n + m + 1 .. Len(q) + m
  <2>1. /\ i - m \in 1 .. Len(q) /\ s[i] = q[i - m]
        /\ k - m \in 1 .. Len(q) /\ s[k] = q[k - m]
        /\ i - m < k - m
    BY <1>1, <1>4, <1>5, <1>8
  <2> QED
    BY <1>5, <2>1
<1> QED
  BY <1>1, <1>5, <1>6, <1>7, <1>8

LEMMA TailKeepsSorted ==
  ASSUME NEW q \in Seq(Entry), q # <<>>, Sorted(q)
  PROVE  /\ Sorted(Tail(q))
         /\ \A i \in DOMAIN Tail(q) : Urgency(Tail(q)[i]) <= Urgency(Head(q))
<1>1. /\ DOMAIN q = 1 .. Len(q) /\ Head(q) = q[1] /\ 1 \in 1 .. Len(q)
      /\ DOMAIN Tail(q) = 1 .. Len(q) - 1
      /\ \A i \in DOMAIN Tail(q) : i + 1 \in 1 .. Len(q) /\ 1 < i + 1 /\ Tail(q)[i] = q[i + 1]
  OBVIOUS
<1>2. \A i, k \in 1 .. Len(q) : i < k => Urgency(q[k]) <= Urgency(q[i])
  BY <1>1 DEF Sorted
<1>3. \A i, k \in DOMAIN Tail(q) : i < k => i + 1 < k + 1
  BY <1>1
<1> QED
  BY <1>1, <1>2, <1>3 DEF Sorted

(* The entries of one task are sorted in any order.                          *)
LEMMA UniformSorted ==
  ASSUME NEW es \in Seq(Entry), NEW task, \A i \in DOMAIN es : es[i].task = task
  PROVE  Sorted(es)
<1>1. \A i \in DOMAIN es : Urgency(es[i]) = Priority[task] /\ Urgency(es[i]) \in 0 .. 6
  BY UrgencyType DEF Urgency
<1> QED
  BY <1>1 DEF Sorted

LEMMA JobTask ==
  ASSUME NEW j \in Jobs, NEW r \in Requests
  PROVE  /\ j.task \in Tasks
         /\ Entries(r, j) \in Seq(Entry) /\ Entries(r, j) # <<>>
         /\ \A i \in DOMAIN Entries(r, j) : Entries(r, j)[i].task = j.task
<1>1. j.task \in Tasks
  BY JobsAssumption DEF IsJob
<1> QED
  BY <1>1, JobEntries DEF Entries

LEMMA SubmitKeepsSorted ==
  ASSUME OInv, NEW r \in Requests, NEW j \in Jobs, Submit(r, j)
  PROVE  /\ Sorted(queue')
         /\ \A c \in chains' \ chains : \A i \in DOMAIN queue' :
              Urgency(queue'[i]) <= Urgency(c.entry)
<1> DEFINE es == Entries(r, j)
<1>1. /\ IInv /\ queue \in Seq(Entry) /\ Sorted(queue)
      /\ j.task \in Tasks
      /\ es \in Seq(Entry) /\ es # <<>>
      /\ \A i \in DOMAIN es : es[i].task = j.task
  BY JobTask DEF OInv, IInv, TypeOK
<1>2. CASE MayStart
  <2>1. queue' = Tail(es) /\ Begin(Head(es), {})
    BY <1>1, <1>2, IdleSubmit
  <2> HIDE DEF es
  <2>2. /\ Tail(es) \in Seq(Entry)
        /\ Head(es) \in Entry /\ Head(es).task = j.task
        /\ \A i \in DOMAIN Tail(es) : Tail(es)[i].task = j.task
    <3>1. \A i \in DOMAIN Tail(es) : i + 1 \in DOMAIN es /\ Tail(es)[i] = es[i + 1]
      BY <1>1
    <3> QED
      BY <1>1, <3>1
  <2>3. \A c \in chains' : c.entry = Head(es)
    BY <2>1 DEF Begin, Execute, At
  <2>4. \A i \in DOMAIN Tail(es) : Urgency(Tail(es)[i]) <= Urgency(Head(es))
    BY <1>1, <2>2, UrgencyType DEF Urgency
  <2> QED
    BY <2>1, <2>2, <2>3, <2>4, UniformSorted
<1>3. CASE ~MayStart
  <2>1. queue' = Enqueue(queue, es, j.task) /\ chains' = chains
    BY <1>3 DEF Submit
  <2> QED
    BY <1>1, <2>1, EnqueueKeepsSorted
<1> QED
  BY <1>2, <1>3

LEMMA WorkerKeepsSorted ==
  ASSUME OInv, NEW c \in chains, Proceed(c) \/ DeviceAnswers(c) \/ FailPermanently(c)
  PROVE  /\ Sorted(queue')
         /\ \A d \in chains' \ chains : d.stage = "wire" /\ d.entry.errorCount = 0 =>
              \A i \in DOMAIN queue' : Urgency(queue'[i]) <= Urgency(d.entry)
<1>1. IInv /\ queue \in Seq(Entry) /\ Sorted(queue) /\ c.entry \in Entry
  BY EntriesKnown DEF OInv, IInv, TypeOK
<1>2. CASE Proceed(c)
  <2>1. CASE queue # <<>> /\ queue' = Tail(queue) /\ Begin(Head(queue), chains \ {c})
    <3>1. \A d \in chains' \ chains : d.entry = Head(queue)
      BY <2>1 DEF Begin, Execute, At
    <3> QED
      BY <1>1, <2>1, <3>1, TailKeepsSorted
  <2>2. CASE Finish(c)
    BY <1>1, <2>2 DEF Finish
  <2> QED
    BY <1>2, <2>1, <2>2 DEF Proceed
<1>3. ASSUME NEW error \in ReadErrors, ReadFails(c, error)
      PROVE  /\ Sorted(queue')
             /\ \A d \in chains' \ chains : d.stage = "wire" => d.entry.errorCount # 0
  <2>1. CASE /\ queue' = Enqueue(queue, SplitEntries(c.entry), "splitted")
             /\ Done(c)
    <3>1. /\ SplitEntries(c.entry) \in Seq(Entry) /\ "splitted" \in Tasks
          /\ \A i \in DOMAIN SplitEntries(c.entry) : SplitEntries(c.entry)[i].task = "splitted"
      BY <1>1, SplitEntriesPartition DEF SplitEntries, Part, Tasks, Priority
    <3>2. \A d \in chains' \ chains : d.stage = "next"
      BY <2>1 DEF Done, At
    <3> QED
      BY <1>1, <2>1, <3>1, <3>2, EnqueueKeepsSorted
  <2>2. CASE Execute(Retried(c.entry), chains \ {c}) /\ queue' = queue
    <3>1. \A d \in chains' \ chains : d.entry = Retried(c.entry)
      BY <2>2 DEF Execute, At
    <3>2. Retried(c.entry).errorCount = c.entry.errorCount + 1 /\ c.entry.errorCount \in Nat
      BY <1>1, MaxRetriesBounds DEF Retried, Entry
    <3> QED
      BY <1>1, <2>2, <3>1, <3>2
  <2>3. CASE chains' = (chains \ {c}) \cup {At(c.entry, "failed")} /\ queue' = queue
    BY <1>1, <2>3 DEF At
  <2> QED
    BY <1>3, <2>1, <2>2, <2>3 DEF ReadFails
<1>4. CASE ReadSucceeds(c) \/ WriteSucceeds(c) \/ WriteFails(c) \/ FailPermanently(c)
  <2>1. queue' = queue /\ \A d \in chains' \ chains : d.stage = "next"
    BY <1>4 DEF ReadSucceeds, WriteSucceeds, WriteFails, FailPermanently, Done, At
  <2> QED
    BY <1>1, <2>1
<1> QED
  BY <1>2, <1>3, <1>4 DEF DeviceAnswers

(* One step of the worker, for MostUrgentFirst.                               *)
UrgentStep ==
  \A c \in chains' \ chains :
    c.stage = "wire" /\ c.entry.errorCount = 0 =>
      \A i \in DOMAIN queue' : Priority[queue'[i].task] <= Priority[c.entry.task]

LEMMA NextKeepsSorted == OInv /\ [Next]_vars => OInv' /\ UrgentStep
<1> SUFFICES ASSUME OInv, [Next]_vars PROVE Sorted(queue') /\ UrgentStep
  BY NextKeepsIInv DEF OInv
<1>1. CASE \E r \in Requests, j \in Jobs : Submit(r, j)
  BY <1>1, SubmitKeepsSorted DEF UrgentStep, Urgency
<1>2. CASE WorkerStep
  BY <1>2, WorkerKeepsSorted DEF UrgentStep, Urgency, WorkerStep
<1>3. CASE UNCHANGED <<queue, chains>>
  BY <1>3 DEF OInv, UrgentStep
<1> QED
  BY <1>1, <1>2, <1>3 DEF Next, GrowOld, CleanupCache, vars, workVars

(* Whatever calls, splits and retries reach the queue, what goes on the bus for *)
(* the first time is as urgent as all that waits, for any number of callers,     *)
(* jobs and registers.                                                       *)
THEOREM UrgentWorkFirst == Spec => MostUrgentFirst
<1>1. Init => OInv
  BY InitIInv DEF OInv, Init, Sorted
<1>2. OInv /\ [Next]_vars => OInv' /\ [UrgentStep]_vars
  BY NextKeepsSorted
<1> QED
  BY <1>1, <1>2, PTL DEF Spec, MostUrgentFirst, UrgentStep
=============================================================================
