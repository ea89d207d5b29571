------------------------------ MODULE RtuWorker ------------------------------
(***************************************************************************)
(* The request path of one Modbus bus: ModbusRTUProcessor.execute turns a    *)
(* caller's registers into queue entries, ModbusRTUQueue keeps the entries   *)
(* and ModbusRTUWorker talks to the device for one entry at a time, retries, *)
(* splits, and answers from its register cache.                              *)
(*                                                                           *)
(* JavaScript runs one callback at a time, so an action is the code between  *)
(* two points where the promise chain yields: the answer of the device, the  *)
(* rejection that reaches the catch of executeModbusFunctionCodeRead, and    *)
(* the .then that calls processOneEntry again.  Callers and timers run in    *)
(* between.                                                                  *)
(*                                                                           *)
(* Addresses stands for the registers of all slaves and register types of    *)
(* the bus, numbered so that a range lies within one of these tables.        *)
(***************************************************************************)
EXTENDS Integers, Sequences, FiniteSets

CONSTANTS
  Requests,            \* the callers' promises; each is used once
  Addresses,           \* the register numbers
  Jobs,                \* what a caller may ask for
  MaxErrorRetriesCrc,
  MaxErrorRetriesTimeout,
  MaxErrorRetriesOther,
  MaxAge               \* bound: how old cached entries get, see Ages

(* ModbusTasks, the ones that reach the queue, with their numeric values.    *)
Priority ==
  [deviceDetection |-> 0, splitted |-> 1, tcpBridge |-> 2, poll |-> 3,
   specification |-> 4, entity |-> 5, writeEntity |-> 6]

Tasks == DOMAIN Priority

(* A range with no function code to write its register type, as a discrete   *)
(* input, is the target of "writeReadOnly".                                  *)
Operations == {"read", "write", "writeReadOnly"}

Span == [lo : Nat, len : Nat \ {0}]

Registers(span) == span.lo .. (span.lo + span.len - 1)

Asked(job) == UNION {Registers(job.ranges[i]) : i \in DOMAIN job.ranges}

(* The ranges of a job come from ModbusRTUProcessor.prepare: disjoint, and at *)
(* least one, since a call without registers would never be answered.        *)
IsJob(job) ==
  /\ job.task \in Tasks \ {"splitted"}
  /\ job.op \in Operations
  /\ job.ranges \in Seq(Span) \ {<<>>}
  /\ Asked(job) \subseteq Addresses
  /\ \A i, k \in DOMAIN job.ranges :
       i # k => Registers(job.ranges[i]) \cap Registers(job.ranges[k]) = {}

JobRecord == [task : Tasks, op : Operations, ranges : Seq(Span)]

ASSUME AddressesAssumption == Addresses \subseteq Nat
ASSUME JobsAssumption == Jobs \subseteq JobRecord /\ \A j \in Jobs : IsJob(j)
ASSUME RetriesAssumption ==
  /\ MaxErrorRetriesCrc \in Nat
  /\ MaxErrorRetriesTimeout \in Nat
  /\ MaxErrorRetriesOther \in Nat
ASSUME MaxAgeAssumption == MaxAge \in 0 .. 2

VARIABLES
  queue,      \* ModbusRTUQueue.list
  isRunning,  \* ModbusRTUWorker.isRunning
  chains,     \* the live promise chains of processOneEntry
  handlers,   \* the catch handlers that enclose the running processOneEntry
  cache,      \* what the worker's cache holds of each register
  reported,   \* the registers and calls that pushError put on the error list
  job,        \* job[r]: what call r asks for
  result,     \* result[r]: the result maps of execute
  status      \* status[r]: the promise of call r

workVars == <<queue, isRunning, chains, handlers>>
callVars == <<job, result, status>>
vars == <<workVars, cache, reported, callVars>>

NoJob == [task |-> "none", op |-> "none", ranges |-> <<>>]

Results == {"value", "cached", "lastKnown", "error"}

ResultMaps == UNION {[S -> Results] : S \in SUBSET Addresses}

(* 0: younger than errorTimeout (5 h), 1: younger than dataTimeout (10 h),    *)
(* 2: older.                                                                 *)
Ages == 0 .. 2

CacheEntry == [kind : {"none", "data", "error"}, age : Ages]

Uncached == [kind |-> "none", age |-> 0]
Data     == [kind |-> "data", age |-> 0]
Error    == [kind |-> "error", age |-> 0]

(***************************************************************************)
(* Queue entries.                                                           *)
(***************************************************************************)

MaxRetries ==
  LET limits == {MaxErrorRetriesCrc, MaxErrorRetriesTimeout, MaxErrorRetriesOther}
  IN  CHOOSE m \in limits : \A n \in limits : n <= m

Entry ==
  [req : Requests, task : Tasks, op : Operations, lo : Nat, len : Nat \ {0},
   split : BOOLEAN, retry : BOOLEAN, useCache : BOOLEAN, errorCount : 0 .. MaxRetries]

(* The options every caller of the bus passes for its task.                  *)
Splits(task)   == task = "deviceDetection"
UseCache(task) == task = "deviceDetection"
Retries(task)  == task \in {"poll", "specification", "entity"}

(* One entry for each range of the job.                                      *)
Entries(r, j) ==
  [i \in DOMAIN j.ranges |->
     [req |-> r, task |-> j.task, op |-> j.op,
      lo |-> j.ranges[i].lo, len |-> j.ranges[i].len,
      split |-> Splits(j.task), retry |-> Retries(j.task),
      useCache |-> UseCache(j.task), errorCount |-> 0]]

(* The entry for one register of e.                                          *)
Part(e, register) ==
  [req |-> e.req, task |-> "splitted", op |-> "read", lo |-> register, len |-> 1,
   split |-> FALSE, retry |-> FALSE, useCache |-> e.useCache, errorCount |-> 0]

(* Mutants: the address is not advanced; the last register is left out.      *)
SplitSameRegister(e) == [i \in 1 .. e.len |-> Part(e, e.lo)]

SplitAllButLast(e) == [i \in 1 .. e.len - 1 |-> Part(e, e.lo + i - 1)]

(* One entry for each register of e.                                         *)
SplitEntries(e) == [i \in 1 .. e.len |-> Part(e, e.lo + i - 1)]

(* Mutant: the list is not sorted.                                           *)
Push(q, es, task) == q \o es

(* Entries of one task are pushed and the list is sorted by task.  The sort  *)
(* is stable and the list was sorted before, so they end up behind the last  *)
(* entry that is at least as urgent.                                         *)
Enqueue(q, es, task) ==
  LET ahead == Cardinality({i \in DOMAIN q : Priority[q[i].task] >= Priority[task]})
  IN  SubSeq(q, 1, ahead) \o es \o SubSeq(q, ahead + 1, Len(q))

(***************************************************************************)
(* The cache and the caller's result maps.                                  *)
(***************************************************************************)

(* Every register of e is cached, be it with a value or with an error.       *)
InCache(e) ==
  e.useCache /\ \A a \in Registers(e) : cache[a].kind # "none"

FromCache(e) ==
  [a \in Registers(e) |-> IF cache[a].kind = "data" THEN "cached" ELSE "error"]

WithData(e) == [a \in Addresses |-> IF a \in Registers(e) THEN Data ELSE cache[a]]

(* Mutant: an error replaces any value.                                      *)
WithErrorsAlways(e) ==
  [a \in Addresses |-> IF a \in Registers(e) THEN Error ELSE cache[a]]

(* An error replaces a value only when the value is older than errorTimeout. *)
WithErrors(e) ==
  [a \in Addresses |->
     IF a \in Registers(e) /\ ~(cache[a].kind = "data" /\ cache[a].age = 0)
       THEN Error
       ELSE cache[a]]

(* What a read that failed for good tells its caller: a poll whose registers  *)
(* all have a cached value gets these, any other read gets the error.        *)
FailureResult(e, registers) ==
  IF e.task = "poll" /\ \A a \in Registers(e) : registers[a].kind = "data"
    THEN "lastKnown"
    ELSE "error"

NoResults == [a \in {} |-> "value"]

Uniform(e, v) == [a \in Registers(e) |-> v]

Merge(f, g) ==
  [a \in DOMAIN f \cup DOMAIN g |-> IF a \in DOMAIN g THEN g[a] ELSE f[a]]

(* Mutant: any result will do.                                               *)
SomeResult(f, j) == DOMAIN f # {}

(* countResults = countAddresses: the maps have no register but those asked   *)
(* for, so that equal numbers mean equal sets.                               *)
Complete(f, j) == DOMAIN f = Asked(j)

(* The callbacks onResolve and onError of e write f into the result maps of   *)
(* its call, which settles when these are complete.                          *)
Give(e, f) ==
  LET all == Merge(result[e.req], f)
  IN  /\ result' = [result EXCEPT ![e.req] = all]
      /\ status' = [status EXCEPT ![e.req] =
                      IF Complete(all, job'[e.req]) THEN "settled" ELSE "open"]

(***************************************************************************)
(* The worker.  A chain is a run of processOneEntry:                         *)
(*   wire    the entry's request is on the bus                               *)
(*   failed  handleErrors rejected, the catch that gives up is still to run  *)
(*   next    the entry is done, processOneEntry is still to be called        *)
(***************************************************************************)

Stages == {"wire", "failed", "next"}

Chain == [entry : Entry, stage : Stages]

At(e, stage) == [entry |-> e, stage |-> stage]

(* executeModbusFunctionCodeRead: from the cache, or from the device.        *)
Execute(e, others) ==
  IF InCache(e)
    THEN /\ chains' = others \cup {At(e, "next")}
         /\ handlers' = handlers + 1
         /\ Give(e, FromCache(e))
    ELSE /\ chains' = others \cup {At(e, "wire")}
         /\ Give(e, NoResults)
         /\ UNCHANGED handlers

(* processOneEntry with the entry it took from the queue.  Without a function *)
(* to write it, the entry is dropped with a rejection: the innermost catch    *)
(* handler calls processOneEntry again, and without one nobody does.         *)
Begin(e, others) ==
  \/ /\ e.op = "read"
     /\ Execute(e, others)
  \/ /\ e.op = "write"
     /\ chains' = others \cup {At(e, "wire")}
     /\ Give(e, NoResults)
     /\ UNCHANGED handlers
  \/ /\ e.op = "writeReadOnly"
     /\ handlers > 0
     /\ chains' = others \cup {At(e, "next")}
     /\ handlers' = handlers - 1
     /\ Give(e, NoResults)
  \/ /\ e.op = "writeReadOnly"
     /\ handlers = 0
     /\ chains' = others
     /\ Give(e, NoResults)
     /\ UNCHANGED handlers

(* Mutant: run() without its test of isRunning.                              *)
Always == TRUE

MayStart == ~isRunning

(* A call reaches the queue.  The first entry wakes an idle worker, which     *)
(* takes it before the others are pushed.                                    *)
Submit(r, j) ==
  LET es == Entries(r, j)
      list == Enqueue(queue, <<Head(es)>>, j.task)
  IN  /\ status[r] = "idle"
      /\ job' = [job EXCEPT ![r] = j]
      /\ isRunning' = TRUE
      /\ IF MayStart
           THEN /\ queue' = Enqueue(Tail(list), Tail(es), j.task)
                /\ Begin(Head(list), chains)
           ELSE /\ queue' = Enqueue(queue, es, j.task)
                /\ status' = [status EXCEPT ![r] = "open"]
                /\ UNCHANGED <<chains, handlers, result>>
      /\ UNCHANGED <<cache, reported>>

(* Mutant: isRunning is not reset.                                           *)
FinishRunning(c) ==
  /\ queue = <<>>
  /\ chains' = chains \ {c}
  /\ handlers' = 0
  /\ UNCHANGED <<queue, isRunning, result, status>>

(* processOneEntry finds the queue empty.                                    *)
Finish(c) ==
  /\ queue = <<>>
  /\ isRunning' = FALSE
  /\ chains' = chains \ {c}
  /\ handlers' = 0
  /\ UNCHANGED <<queue, result, status>>

(* The chain calls processOneEntry.                                          *)
Proceed(c) ==
  /\ c.stage = "next"
  /\ UNCHANGED <<job, cache, reported>>
  /\ \/ /\ queue # <<>>
        /\ queue' = Tail(queue)
        /\ Begin(Head(queue), chains \ {c})
        /\ UNCHANGED isRunning
     \/ Finish(c)

(* The chain leaves its entry through a .then: the .catch behind it encloses  *)
(* everything the chain does from here on.                                   *)
Done(c) ==
  /\ chains' = (chains \ {c}) \cup {At(c.entry, "next")}
  /\ handlers' = handlers + 1

ReadSucceeds(c) ==
  /\ c.stage = "wire"
  /\ c.entry.op = "read"
  /\ UNCHANGED <<queue, isRunning, job, reported>>
  /\ cache' = WithData(c.entry)
  /\ Give(c.entry, Uniform(c.entry, "value"))
  /\ Done(c)

(***************************************************************************)
(* Read errors: the kinds handleErrors tells apart.                          *)
(***************************************************************************)

ReadErrors ==
  {"crc", "timeout", "illegalAddress", "illegalFunction", "otherCode", "noCode"}

CanSplit(e) == e.split /\ e.len > 1

(* Exception codes other than 1 and 2 count as crc errors; illegal addresses  *)
(* fall into the default branch of retry().                                  *)
RetryLimit(error) ==
  IF error \in {"crc", "otherCode"} THEN MaxErrorRetriesCrc
  ELSE IF error = "timeout" THEN MaxErrorRetriesTimeout
  ELSE MaxErrorRetriesOther

(* Mutant: the number of retries is compared before it is increased.         *)
RemedyLate(e, error) ==
  IF error \in {"crc", "timeout", "illegalAddress"} /\ CanSplit(e) THEN "split"
  ELSE IF error # "illegalFunction" /\ e.retry /\ e.errorCount <= RetryLimit(error) THEN "retry"
  ELSE "giveUp"

Remedy(e, error) ==
  IF error \in {"crc", "timeout", "illegalAddress"} /\ CanSplit(e) THEN "split"
  ELSE IF error # "illegalFunction" /\ e.retry /\ e.errorCount < RetryLimit(error) THEN "retry"
  ELSE "giveUp"

(* e with one more error.                                                    *)
Retried(e) ==
  [req |-> e.req, task |-> e.task, op |-> e.op, lo |-> e.lo, len |-> e.len,
   split |-> e.split, retry |-> e.retry, useCache |-> e.useCache,
   errorCount |-> e.errorCount + 1]

(* Mutant: no timeout is put on the error list.                              *)
ReportNoTimeout(e, error) ==
  reported' = IF error = "timeout"
                THEN reported
                ELSE reported \cup ({e.req} \X Registers(e))

(* addError, for every failure but a timeout that splits the request.        *)
Report(e, error) ==
  reported' = IF error = "timeout" /\ CanSplit(e)
                THEN reported
                ELSE reported \cup ({e.req} \X Registers(e))

ReadFails(c, error) ==
  LET e == c.entry
  IN  /\ c.stage = "wire"
      /\ e.op = "read"
      /\ Report(e, error)
      /\ UNCHANGED <<isRunning, job, cache>>
      /\ \/ /\ Remedy(e, error) = "split"
            /\ queue' = Enqueue(queue, SplitEntries(e), "splitted")
            /\ Done(c)
            /\ UNCHANGED <<result, status>>
         \/ /\ Remedy(e, error) = "retry"
            /\ Execute(Retried(e), chains \ {c})
            /\ UNCHANGED queue
         \/ /\ Remedy(e, error) = "giveUp"
            /\ chains' = (chains \ {c}) \cup {At(e, "failed")}
            /\ UNCHANGED <<queue, handlers, result, status>>

FailPermanently(c) ==
  /\ c.stage = "failed"
  /\ UNCHANGED <<queue, isRunning, job, reported>>
  /\ cache' = WithErrors(c.entry)
  /\ Give(c.entry, Uniform(c.entry, FailureResult(c.entry, cache')))
  /\ Done(c)

WriteSucceeds(c) ==
  /\ c.stage = "wire"
  /\ c.entry.op = "write"
  /\ UNCHANGED <<queue, isRunning, job, cache, reported>>
  /\ Give(c.entry, Uniform(c.entry, "value"))
  /\ Done(c)

(* The chain goes on inside the .catch of this entry, which is used up.      *)
WriteFails(c) ==
  /\ c.stage = "wire"
  /\ c.entry.op = "write"
  /\ UNCHANGED <<queue, isRunning, handlers, job, cache, reported>>
  /\ Give(c.entry, Uniform(c.entry, "error"))
  /\ chains' = (chains \ {c}) \cup {At(c.entry, "next")}

(***************************************************************************)
(* Time.                                                                    *)
(***************************************************************************)

GrowOld(a) ==
  /\ cache[a].kind # "none"
  /\ cache[a].age < MaxAge
  /\ cache' = [cache EXCEPT ![a] = [kind |-> cache[a].kind, age |-> cache[a].age + 1]]
  /\ UNCHANGED <<workVars, reported, callVars>>

CleanupCache ==
  /\ \E a \in Addresses : cache[a].age = 2
  /\ cache' = [a \in Addresses |-> IF cache[a].age = 2 THEN Uncached ELSE cache[a]]
  /\ UNCHANGED <<workVars, reported, callVars>>

Init ==
  /\ queue = <<>>
  /\ isRunning = FALSE
  /\ chains = {}
  /\ handlers = 0
  /\ cache = [a \in Addresses |-> Uncached]
  /\ reported = {}
  /\ job = [r \in Requests |-> NoJob]
  /\ result = [r \in Requests |-> NoResults]
  /\ status = [r \in Requests |-> "idle"]

DeviceAnswers(c) ==
  \/ ReadSucceeds(c)
  \/ \E error \in ReadErrors : ReadFails(c, error)
  \/ WriteSucceeds(c)
  \/ WriteFails(c)

WorkerStep == \E c \in chains : Proceed(c) \/ DeviceAnswers(c) \/ FailPermanently(c)

Next ==
  \/ \E r \in Requests, j \in Jobs : Submit(r, j)
  \/ WorkerStep
  \/ \E a \in Addresses : GrowOld(a)
  \/ CleanupCache

Spec == Init /\ [][Next]_vars

(* The device answers or the client of modbus-serial times out, and the       *)
(* microtasks of a promise chain run.                                        *)
FairSpec == Spec /\ WF_vars(WorkerStep)

(***************************************************************************)
(* Properties.                                                              *)
(***************************************************************************)

(* Every variable has its type; the only bound of the code in it is the       *)
(* number of retries of an entry (errorCount).                               *)
TypeOK ==
  /\ queue \in Seq(Entry)
  /\ isRunning \in BOOLEAN
  /\ chains \subseteq Chain
  /\ handlers \in Nat
  /\ cache \in [Addresses -> CacheEntry]
  /\ reported \subseteq Requests \X Addresses
  /\ job \in [Requests -> Jobs \cup {NoJob}]
  /\ result \in [Requests -> ResultMaps]
  /\ status \in [Requests -> {"idle", "open", "settled"}]

(* The device is asked one thing at a time: however calls, splits and retries *)
(* interleave, at most one run of processOneEntry is under way (the isRunning *)
(* flag of run()).                                                           *)
OneInFlight == \A c, d \in chains : c = d

Busy(c) == c.stage \in {"wire", "failed"}

Apart(e, f) == e.req # f.req \/ Registers(e) \cap Registers(f) = {}

Unanswered(e) == Registers(e) \subseteq Asked(job[e.req]) \ DOMAIN result[e.req]

(* No register of a call is ever owed twice, by two entries or by an entry    *)
(* after its answer: splitting and retrying hand registers over, they never   *)
(* copy them.  This is what lets execute count results to settle.            *)
OwedOnce ==
  /\ \A i, k \in DOMAIN queue : i # k => Apart(queue[i], queue[k])
  /\ \A i \in DOMAIN queue : Unanswered(queue[i])
  /\ \A c \in chains : Busy(c) =>
       /\ Unanswered(c.entry)
       /\ \A i \in DOMAIN queue : Apart(c.entry, queue[i])

(* The registers of call r that an entry in the queue or in hand will answer. *)
Owed(r) ==
  {a \in Addresses :
     \/ \E i \in DOMAIN queue : queue[i].req = r /\ a \in Registers(queue[i])
     \/ \E c \in chains : Busy(c) /\ c.entry.req = r /\ a \in Registers(c.entry)}

(* No register of a call gets lost: what is not answered is owed.            *)
NothingLost == \A r \in Requests : Asked(job[r]) \subseteq DOMAIN result[r] \cup Owed(r)

(* A worker that says it is running has a chain that will call                *)
(* processOneEntry again, and entries never wait for a worker that is not.    *)
NeverWedged ==
  /\ isRunning => chains # {}
  /\ queue # <<>> => isRunning

(* A read that failed is never swallowed: an error or a last known value that *)
(* a caller gets for a register was put on the error list, by this call, or by *)
(* an earlier one if the caller reads through the cache.  Only polls are told  *)
(* last known values.                                                        *)
FailuresAreReported ==
  \A r \in Requests : \A a \in DOMAIN result[r] :
    /\ result[r][a] = "lastKnown" => job[r].task = "poll" /\ <<r, a>> \in reported
    /\ result[r][a] = "error" /\ job[r].op = "read" =>
         \E q \in Requests :
           <<q, a>> \in reported /\ (q = r \/ UseCache(job[r].task))

(* A poll is not told an error while every register it asks for was read      *)
(* successfully within errorTimeout (issue #229).                            *)
NoHoleWhileYoung ==
  [][\A r \in Requests : \A a \in DOMAIN result'[r] \ DOMAIN result[r] :
       job'[r].task = "poll" /\ job'[r].op = "read" /\ result'[r][a] = "error"
         => \E b \in Asked(job[r]) : cache[b] # Data]_vars

(* An entry that goes on the bus for the first time is as urgent as any entry *)
(* that stays in the queue: a write overtakes every waiting read, a poll every *)
(* part of a device detection.                                               *)
MostUrgentFirst ==
  [][\A c \in chains' \ chains :
       c.stage = "wire" /\ c.entry.errorCount = 0 =>
         \A i \in DOMAIN queue' : Priority[queue'[i].task] <= Priority[c.entry.task]]_vars

(* The worker implements the service its callers rely on.                    *)
Service ==
  INSTANCE RequestService WITH asked <- [r \in Requests |-> Asked(job[r])]

ImplementsService == Service!Spec

(* Every call gets its promise settled, as long as the client of modbus-serial *)
(* answers or times out.                                                     *)
EveryCallSettles == \A r \in Requests : status[r] = "open" ~> status[r] = "settled"
=============================================================================
