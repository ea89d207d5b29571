----------------------- MODULE ModbusConnectionProofs -----------------------
(***************************************************************************)
(* Proofs about ModbusConnection, for any number of callers and any           *)
(* connections: its type invariant, that the port is only opened while it is   *)
(* closed, that a stale connection is the doing of a timeout, and that         *)
(* connectMutex serves its callers as ConnectionService says.                *)
(***************************************************************************)
EXTENDS ModbusConnection, SequenceTheorems, TLAPS

(***************************************************************************)
(* connectMutex: queueing, starting and leaving.                              *)
(***************************************************************************)

LockOK ==
  /\ waiting \in Seq(Calls)
  /\ working \subseteq Task
  /\ call \in [Calls -> [kind : Kinds, status : Statuses]]
  /\ \A r \in Calls : call[r].status = "connecting" <=> IsWaiting(r) \/ IsWorking(r)
  /\ \A r \in Calls : ~(IsWaiting(r) /\ IsWorking(r))
  /\ \A i, j \in DOMAIN waiting : waiting[i] = waiting[j] => i = j

(* A call that was settled may wait for the mutex.                            *)
LEMMA QueueKeepsLock ==
  ASSUME LockOK, NEW r \in Calls, NEW kind \in Kinds, call[r].status \in Settled,
         Called(r, kind, "connecting"), waiting' = Append(waiting, r), working' = working
  PROVE  LockOK'
<1>1. ~IsWaiting(r) /\ ~IsWorking(r)
  BY DEF LockOK, Settled
<1>2. /\ waiting' \in Seq(Calls)
      /\ DOMAIN waiting' = 1 .. (Len(waiting) + 1)
      /\ DOMAIN waiting = 1 .. Len(waiting)
      /\ Len(waiting) \in Nat
      /\ \A i \in DOMAIN waiting : waiting'[i] = waiting[i]
      /\ waiting'[Len(waiting) + 1] = r
  BY DEF LockOK
<1>3. \A q \in Calls : IsWaiting(q)' <=> IsWaiting(q) \/ q = r
  BY <1>2 DEF IsWaiting
<1>4. \A q \in Calls : IsWorking(q)' <=> IsWorking(q)
  BY DEF IsWorking
<1>5. call' \in [Calls -> [kind : Kinds, status : Statuses]]
  BY DEF Called, LockOK, Statuses
<1>6. call'[r].status = "connecting" /\ \A q \in Calls \ {r} : call'[q] = call[q]
  BY DEF Called, LockOK
<1>7. \A q \in Calls : call'[q].status = "connecting" <=> IsWaiting(q)' \/ IsWorking(q)'
  BY <1>3, <1>4, <1>6 DEF LockOK
<1>8. \A q \in Calls : ~(IsWaiting(q)' /\ IsWorking(q)')
  BY <1>1, <1>3, <1>4 DEF LockOK
<1>9. \A i, j \in DOMAIN waiting' : waiting'[i] = waiting'[j] => i = j
  <2> SUFFICES ASSUME NEW i \in DOMAIN waiting', NEW j \in DOMAIN waiting',
                      waiting'[i] = waiting'[j]
               PROVE  i = j
    OBVIOUS
  <2>1. \A k \in DOMAIN waiting : waiting[k] # r
    BY <1>1 DEF IsWaiting
  <2>2. \A k \in DOMAIN waiting' : k \in DOMAIN waiting \/ k = Len(waiting) + 1
    BY <1>2
  <2> QED
    BY <2>1, <2>2, <1>2 DEF LockOK
<1> QED
  BY <1>2, <1>5, <1>7, <1>8, <1>9 DEF LockOK

(* A call outside the mutex may change, as long as it stays outside.          *)
LEMMA OutsideKeepsLock ==
  ASSUME LockOK, NEW r \in Calls, NEW kind \in Kinds, NEW status \in Statuses,
         call[r].status # "connecting", status # "connecting",
         call' = [call EXCEPT ![r] = [kind |-> kind, status |-> status]],
         waiting' = waiting, working' = working
  PROVE  LockOK'
<1>1. \A q \in Calls : (IsWaiting(q)' <=> IsWaiting(q)) /\ (IsWorking(q)' <=> IsWorking(q))
  BY DEF IsWaiting, IsWorking
<1>2. call' \in [Calls -> [kind : Kinds, status : Statuses]]
  BY DEF LockOK
<1>3. \A q \in Calls : call'[q].status = "connecting" <=> call[q].status = "connecting"
  BY DEF LockOK
<1> QED
  BY <1>1, <1>2, <1>3 DEF LockOK

(* What Leave makes of a call.                                               *)
LEMMA LeaveType ==
  ASSUME LockOK, NEW r \in Calls, NEW ok \in BOOLEAN, Leave(r, ok)
  PROVE  /\ call' \in [Calls -> [kind : Kinds, status : Statuses]]
         /\ call'[r].status # "connecting"
         /\ \A q \in Calls : call'[q].kind = call[q].kind
         /\ \A q \in Calls \ {r} : call'[q] = call[q]
<1> DEFINE s == IF ~ok THEN "rejected"
                ELSE IF call[r].kind = "request" THEN "executing"
                ELSE "resolved"
<1>1. s \in Statuses \ {"connecting"}
  BY DEF Statuses, Settled
<1>2. call' = [call EXCEPT ![r] = [kind |-> call[r].kind, status |-> s]]
  BY DEF Leave, Called
<1> HIDE DEF s
<1>3. call[r] \in [kind : Kinds, status : Statuses]
  BY DEF LockOK
<1>4. call'[r].status = s /\ call'[r].kind = call[r].kind
  BY <1>2, <1>3 DEF LockOK
<1> QED
  BY <1>1, <1>2, <1>3, <1>4 DEF LockOK

(* The first in the line starts; what it does may end at once.                *)
LEMMA StartKeepsLock ==
  ASSUME LockOK, waiting # <<>>, working = {}, waiting' = Tail(waiting),
         config \in Connections,
         \/ \E ok \in BOOLEAN : Leave(Head(waiting), ok)
         \/ \E stage \in {"closing", "opening"} : Enter(Head(waiting), stage)
  PROVE  LockOK'
<1> DEFINE r == Head(waiting)
<1>1. /\ r \in Calls
      /\ Len(waiting) \in Nat \ {0}
      /\ DOMAIN waiting = 1 .. Len(waiting)
      /\ waiting' \in Seq(Calls)
      /\ DOMAIN waiting' = 1 .. (Len(waiting) - 1)
      /\ \A i \in DOMAIN waiting' : waiting'[i] = waiting[i + 1]
      /\ r = waiting[1]
  BY DEF LockOK
<1>2. \A i, j \in DOMAIN waiting' : waiting'[i] = waiting'[j] => i = j
  <2> SUFFICES ASSUME NEW i \in DOMAIN waiting', NEW j \in DOMAIN waiting',
                      waiting'[i] = waiting'[j]
               PROVE  i = j
    OBVIOUS
  <2>1. i + 1 \in DOMAIN waiting /\ j + 1 \in DOMAIN waiting /\ i \in Nat /\ j \in Nat
    BY <1>1
  <2>2. waiting[i + 1] = waiting[j + 1]
    BY <1>1
  <2>3. i + 1 = j + 1
    BY <2>1, <2>2 DEF LockOK
  <2> QED
    BY <2>1, <2>3
<1> HIDE DEF r
<1>3. \A q \in Calls : IsWaiting(q)' <=> IsWaiting(q) /\ q # r
  <2> SUFFICES ASSUME NEW q \in Calls
               PROVE  IsWaiting(q)' <=> IsWaiting(q) /\ q # r
    OBVIOUS
  <2>1. ASSUME IsWaiting(q)' PROVE IsWaiting(q) /\ q # r
    <3>1. PICK i \in DOMAIN waiting' : waiting'[i] = q
      BY <2>1 DEF IsWaiting
    <3>2. i + 1 \in DOMAIN waiting /\ waiting[i + 1] = q /\ 1 \in DOMAIN waiting /\ i + 1 # 1
      BY <3>1, <1>1
    <3> QED
      BY <3>2, <1>1 DEF IsWaiting, LockOK
  <2>2. ASSUME IsWaiting(q), q # r PROVE IsWaiting(q)'
    <3>1. PICK i \in DOMAIN waiting : waiting[i] = q
      BY <2>2 DEF IsWaiting
    <3>2. i - 1 \in DOMAIN waiting' /\ waiting'[i - 1] = q
      BY <3>1, <2>2, <1>1
    <3> QED
      BY <3>2 DEF IsWaiting
  <2> QED
    BY <2>1, <2>2
<1>4. IsWaiting(r) /\ \A q \in Calls : ~IsWorking(q)
  BY <1>1 DEF IsWaiting, IsWorking
<1>5. \A q \in Calls : call[q].status = "connecting" <=> IsWaiting(q)
  BY <1>4 DEF LockOK
<1>6. CASE \E ok \in BOOLEAN : Leave(r, ok)
  <2>1. PICK ok \in BOOLEAN : Leave(r, ok)
    BY <1>6
  <2>2. /\ call' \in [Calls -> [kind : Kinds, status : Statuses]]
        /\ call'[r].status # "connecting"
        /\ \A q \in Calls \ {r} : call'[q] = call[q]
    BY <2>1, <1>1, LeaveType
  <2>3. working' = {}
    BY <2>1 DEF Leave
  <2>4. \A q \in Calls : ~IsWorking(q)'
    BY <2>3 DEF IsWorking
  <2>5. \A q \in Calls : call'[q].status = "connecting" <=> IsWaiting(q)'
    BY <2>2, <1>3, <1>5
  <2> QED
    BY <1>1, <1>2, <2>2, <2>3, <2>4, <2>5 DEF LockOK
<1>7. CASE \E stage \in {"closing", "opening"} : Enter(r, stage)
  <2>1. PICK stage \in {"closing", "opening"} : Enter(r, stage)
    BY <1>7
  <2>2. working' = {At(r, stage)} /\ call' = call
    BY <2>1 DEF Enter
  <2>3. At(r, stage) \in Task /\ At(r, stage).call = r
    BY <1>1 DEF At, Task
  <2>4. \A q \in Calls : IsWorking(q)' <=> q = r
    BY <2>2, <2>3 DEF IsWorking
  <2>5. \A q \in Calls : call'[q].status = "connecting" <=> IsWaiting(q)' \/ IsWorking(q)'
    BY <2>2, <2>4, <1>3, <1>4, <1>5
  <2> QED
    BY <1>1, <1>2, <1>3, <2>2, <2>3, <2>4, <2>5 DEF LockOK
<1> QED
  BY <1>6, <1>7 DEF r

(***************************************************************************)
(* The inductive invariant.                                                 *)
(***************************************************************************)

(* connectMutex is held once.                                                *)
OneHolder == \A t, u \in working : t = u

(* Nobody opens an open client.                                              *)
OpensClosed == \A t \in working : t.stage = "opening" => client # "open"

(* Only reconnectRTU closes the client.                                      *)
ClosesForUpdate == \A t \in working : t.stage = "closing" => call[t.call].kind = "update"

UpdatePending == \E i \in DOMAIN waiting : call[waiting[i]].kind = "update"

(* Settings that are outdated while the client is being opened with them will  *)
(* be replaced: the update that changed them waits for the mutex.             *)
OutdatedTarget ==
  \A t \in working : t.stage = "opening" /\ t.target # config => UpdatePending

OutdatedClient ==
  client = "open" /\ openedWith # config =>
    skipped \/ UpdatePending \/ \E t \in working : t.stage = "closing"

IInv ==
  /\ TypeOK
  /\ OneHolder
  /\ OpensClosed
  /\ ClosesForUpdate
  /\ OutdatedTarget
  /\ OutdatedClient

Rest ==
  /\ client \in {"none", "closed", "open"}
  /\ timedOut \in BOOLEAN
  /\ config \in Connections
  /\ openedWith \in Connections
  /\ skipped \in BOOLEAN

LEMMA TypeParts == TypeOK <=> LockOK /\ Rest
  BY DEF TypeOK, LockOK, Rest

LEMMA InitInv == Init => IInv
<1> SUFFICES ASSUME Init PROVE IInv
  OBVIOUS
<1>1. Rest
  BY DEF Init, Rest
<1>2. LockOK
  BY DEF Init, LockOK, IsWaiting, IsWorking, Kinds, Statuses, Settled
<1> QED
  BY <1>1, <1>2, TypeParts
  DEF Init, IInv, OneHolder, OpensClosed, ClosesForUpdate, OutdatedTarget, OutdatedClient

(***************************************************************************)
(* Calls.                                                                   *)
(***************************************************************************)

(* A call that queues does not touch those in the mutex or in front of it.    *)
LEMMA QueueKeepsInv ==
  ASSUME IInv, NEW r \in Calls, NEW kind \in Kinds, call[r].status \in Settled,
         Called(r, kind, "connecting"), waiting' = Append(waiting, r), working' = working,
         config' \in Connections, config' # config => kind = "update",
         UNCHANGED <<client, timedOut, openedWith, skipped>>
  PROVE  IInv'
<1>1. LockOK /\ Rest
  BY TypeParts DEF IInv
<1>2. LockOK'
  BY <1>1, QueueKeepsLock
<1>3. TypeOK'
  BY <1>1, <1>2, TypeParts DEF TypeOK, LockOK, Rest
<1>4. /\ DOMAIN waiting' = 1 .. (Len(waiting) + 1)
      /\ DOMAIN waiting = 1 .. Len(waiting)
      /\ Len(waiting) \in Nat
      /\ \A i \in DOMAIN waiting : waiting'[i] = waiting[i] /\ waiting[i] \in Calls
      /\ waiting'[Len(waiting) + 1] = r
  BY <1>1 DEF LockOK
<1>5. ~IsWaiting(r) /\ ~IsWorking(r)
  BY <1>1 DEF LockOK, Settled
<1>6. /\ \A q \in Calls \ {r} : call'[q] = call[q]
      /\ call'[r].kind = kind
  BY <1>1 DEF Called, LockOK
<1>7. UpdatePending => UpdatePending'
  BY <1>4, <1>5, <1>6 DEF UpdatePending, IsWaiting
<1>8. kind = "update" => UpdatePending'
  BY <1>4, <1>6 DEF UpdatePending
<1>9. \A t \in working : t.call \in Calls /\ t.call # r
  BY <1>1, <1>5 DEF LockOK, Task, IsWorking
<1>10. ClosesForUpdate'
  BY <1>6, <1>9 DEF IInv, ClosesForUpdate
<1>11. OutdatedTarget'
  BY <1>7, <1>8 DEF IInv, OutdatedTarget
<1>12. OutdatedClient'
  BY <1>7, <1>8 DEF IInv, OutdatedClient
<1> QED
  BY <1>3, <1>10, <1>11, <1>12 DEF IInv, OneHolder, OpensClosed

(* A call that stays outside of the mutex.                                   *)
LEMMA OutsideKeepsInv ==
  ASSUME IInv, NEW r \in Calls, NEW kind \in Kinds, NEW status \in Statuses,
         call[r].status # "connecting", status # "connecting",
         call' = [call EXCEPT ![r] = [kind |-> kind, status |-> status]],
         timedOut' \in BOOLEAN,
         UNCHANGED <<client, config, openedWith, waiting, working, skipped>>
  PROVE  IInv'
<1>1. LockOK /\ Rest
  BY TypeParts DEF IInv
<1>2. LockOK'
  BY <1>1, OutsideKeepsLock
<1>3. TypeOK'
  BY <1>1, <1>2, TypeParts DEF TypeOK, LockOK, Rest
<1>4. ~IsWaiting(r) /\ ~IsWorking(r)
  BY <1>1 DEF LockOK
<1>5. \A q \in Calls \ {r} : call'[q] = call[q]
  BY <1>1 DEF LockOK
<1>6. \A i \in DOMAIN waiting : waiting[i] \in Calls /\ waiting[i] # r
  BY <1>1, <1>4 DEF LockOK, IsWaiting
<1>7. UpdatePending => UpdatePending'
  BY <1>5, <1>6 DEF UpdatePending
<1>8. \A t \in working : t.call \in Calls /\ t.call # r
  BY <1>1, <1>4 DEF LockOK, Task, IsWorking
<1>9. ClosesForUpdate'
  BY <1>5, <1>8 DEF IInv, ClosesForUpdate
<1> QED
  BY <1>3, <1>7, <1>9 DEF IInv, OneHolder, OpensClosed, OutdatedTarget, OutdatedClient

LEMMA IssueKeepsInv ==
  ASSUME IInv, NEW r \in Calls, Issue(r)
  PROVE  IInv'
<1>1. call[r].status \in Settled /\ Rest
  BY TypeParts DEF Issue, IInv
<1>2. /\ call[r].status # "connecting"
      /\ {"request", "connect", "update"} \subseteq Kinds
      /\ {"resolved", "executing"} \subseteq Statuses
  BY <1>1 DEF Settled, Kinds, Statuses
<1>3. CASE Request(r)
  <2>1. CASE client = "open"
    <3>1. Called(r, "request", "executing") /\ waiting' = waiting
      BY <1>3, <2>1 DEF Request
    <3> QED
      BY <3>1, <1>1, <1>2, <1>3, OutsideKeepsInv DEF Request, Called, Rest
  <2>2. CASE client # "open"
    <3>1. Called(r, "request", "connecting") /\ waiting' = Append(waiting, r)
      BY <1>3, <2>2 DEF Request
    <3> QED
      BY <3>1, <1>1, <1>2, <1>3, QueueKeepsInv DEF Request, Rest
  <2> QED
    BY <2>1, <2>2
<1>4. CASE BridgeRequest(r)
  BY <1>1, <1>2, <1>4, OutsideKeepsInv DEF BridgeRequest, Called, Rest, lockVars
<1>5. CASE InitialConnect(r)
  BY <1>1, <1>2, <1>5, QueueKeepsInv DEF InitialConnect, Rest
<1>6. ASSUME NEW connection \in Connections, UpdateBus(r, connection) PROVE IInv'
  <2>1. CASE ConnectionChanged(connection)
    <3>1. /\ config' = connection
          /\ Called(r, "update", "connecting")
          /\ waiting' = Append(waiting, r)
      BY <1>6, <2>1 DEF UpdateBus
    <3> QED
      BY <3>1, <1>1, <1>2, <1>6, QueueKeepsInv DEF UpdateBus
  <2>2. CASE ~ConnectionChanged(connection)
    <3>1. Called(r, "update", "resolved") /\ UNCHANGED <<config, waiting>>
      BY <1>6, <2>2 DEF UpdateBus
    <3> QED
      BY <3>1, <1>1, <1>2, <1>6, OutsideKeepsInv DEF UpdateBus, Called, Rest
  <2> QED
    BY <2>1, <2>2
<1> QED
  BY <1>3, <1>4, <1>5, <1>6 DEF Issue

LEMMA AttemptKeepsInv ==
  ASSUME IInv, NEW r \in Calls, NEW outcome \in Outcomes,
         NEW status \in {"resolved", "rejected", "executing"}, Attempt(r, outcome, status)
  PROVE  IInv'
<1>1. LockOK /\ Rest
  BY TypeParts DEF IInv
<1>2. call[r].status = "executing" /\ call[r] \in [kind : Kinds, status : Statuses]
  BY <1>1 DEF Attempt, LockOK
<1>3. call' = [call EXCEPT ![r] = [kind |-> call[r].kind, status |-> status]]
  BY DEF Attempt, Called
<1>4. status \in Statuses /\ status # "connecting"
  BY DEF Statuses, Settled
<1>5. timedOut' \in BOOLEAN
  BY <1>1 DEF Attempt, Rest
<1>6. call[r].kind \in Kinds
  BY <1>2
<1>7. UNCHANGED <<client, config, openedWith, waiting, working, skipped>>
  BY DEF Attempt, lockVars
<1> QED
  BY <1>2, <1>3, <1>4, <1>5, <1>6, <1>7, OutsideKeepsInv

(***************************************************************************)
(* connectMutex.                                                            *)
(***************************************************************************)

(* The holder opens, which needs a closed client and the current settings.    *)
LEMMA EnterOpening ==
  ASSUME NEW r \in Calls, Enter(r, "opening"), LockOK', Rest', client' # "open",
         config' = config, \A t \in working : t.call = r
  PROVE  IInv'
<1>1. working' = {At(r, "opening")} /\ call' = call
  BY DEF Enter
<1>2. At(r, "opening").target = config /\ At(r, "opening").stage = "opening"
  BY DEF At
<1>3. TypeOK'
  BY TypeParts DEF TypeOK, LockOK, Rest
<1>4. OneHolder' /\ OpensClosed'
  BY <1>1 DEF OneHolder, OpensClosed
<1>5. ClosesForUpdate' /\ OutdatedTarget'
  BY <1>1, <1>2 DEF ClosesForUpdate, OutdatedTarget
<1>6. OutdatedClient'
  BY DEF OutdatedClient
<1> QED
  BY <1>3, <1>4, <1>5, <1>6 DEF IInv

(* Nobody is left in the mutex.                                              *)
LEMMA NobodyWorks ==
  ASSUME LockOK', Rest', working' = {},
         client' = "open" /\ openedWith' # config' => skipped' \/ UpdatePending'
  PROVE  IInv'
<1>1. TypeOK'
  BY TypeParts DEF TypeOK, LockOK, Rest
<1> QED
  BY <1>1 DEF IInv, OneHolder, OpensClosed, ClosesForUpdate, OutdatedTarget, OutdatedClient

(* An update that waits goes on waiting, unless it is the one that starts.    *)
LEMMA TailKeepsPending ==
  ASSUME LockOK, waiting # <<>>, waiting' = Tail(waiting), UpdatePending,
         call[Head(waiting)].kind # "update",
         \A q \in Calls : call'[q].kind = call[q].kind
  PROVE  UpdatePending'
<1>1. PICK i \in DOMAIN waiting : call[waiting[i]].kind = "update"
  BY DEF UpdatePending
<1>2. /\ Len(waiting) \in Nat \ {0}
      /\ DOMAIN waiting = 1 .. Len(waiting)
      /\ DOMAIN waiting' = 1 .. (Len(waiting) - 1)
      /\ \A j \in DOMAIN waiting' : waiting'[j] = waiting[j + 1]
      /\ Head(waiting) = waiting[1]
      /\ waiting[i] \in Calls
  BY <1>1 DEF LockOK
<1>3. i # 1
  BY <1>1, <1>2
<1>4. i - 1 \in DOMAIN waiting' /\ waiting'[i - 1] = waiting[i]
  BY <1>2, <1>3
<1> QED
  BY <1>1, <1>2, <1>4 DEF UpdatePending

LEMMA StartKeepsInv ==
  ASSUME IInv, StartsTask
  PROVE  IInv'
<1> DEFINE r == Head(waiting)
<1>1. LockOK /\ Rest
  BY TypeParts DEF IInv
<1>2. /\ waiting # <<>>
      /\ working = {}
      /\ waiting' = Tail(waiting)
      /\ UNCHANGED <<timedOut, config, openedWith>>
      /\ call[r].kind = "update" => Reconnect(r)
      /\ call[r].kind # "update" => ConnectLocked(r) /\ UNCHANGED skipped
  BY DEF StartsTask, LockIsFree
<1>3. r \in Calls
  BY <1>1, <1>2 DEF LockOK
<1>4. ASSUME client = "open", Leave(r, TRUE), UNCHANGED <<client, skipped>>,
             call[r].kind # "update"
      PROVE  IInv'
  <2>1. LockOK'
    BY <1>1, <1>2, <1>4, StartKeepsLock DEF Rest
  <2>2. UpdatePending => UpdatePending'
    BY <1>1, <1>2, <1>3, <1>4, LeaveType, TailKeepsPending
  <2>3. working' = {}
    BY <1>2, <1>4 DEF Leave
  <2>4. Rest'
    BY <1>1, <1>2, <1>4 DEF Rest
  <2>5. client' = "open" /\ openedWith' # config' => skipped' \/ UpdatePending'
    BY <1>2, <1>4, <2>2 DEF IInv, OutdatedClient
  <2> QED
    BY <2>1, <2>3, <2>4, <2>5, NobodyWorks
<1>5. ASSUME Enter(r, "opening"), client' = "closed", UNCHANGED skipped
      PROVE  IInv'
  <2>1. LockOK'
    BY <1>1, <1>2, <1>5, StartKeepsLock DEF Rest
  <2>2. Rest'
    BY <1>1, <1>2, <1>5 DEF Rest
  <2> QED
    BY <1>2, <1>3, <1>5, <2>1, <2>2, EnterOpening
<1>6. ASSUME Leave(r, client = "open"), UNCHANGED client,
             skipped' = (skipped \/ (client = "open" /\ openedWith # config))
      PROVE  IInv'
  <2>1. LockOK'
    BY <1>1, <1>2, <1>6, StartKeepsLock DEF Rest
  <2>2. working' = {}
    BY <1>2, <1>6 DEF Leave
  <2>3. Rest'
    BY <1>1, <1>2, <1>6 DEF Rest
  <2>4. client' = "open" /\ openedWith' # config' => skipped'
    BY <1>2, <1>6
  <2> QED
    BY <2>1, <2>2, <2>3, <2>4, NobodyWorks
<1>7. ASSUME Enter(r, "closing"), client' \in {"open", "closed"}, UNCHANGED skipped,
             call[r].kind = "update"
      PROVE  IInv'
  <2>1. LockOK'
    BY <1>1, <1>2, <1>7, StartKeepsLock DEF Rest
  <2>2. Rest'
    BY <1>1, <1>2, <1>7 DEF Rest
  <2>3. TypeOK'
    BY <2>1, <2>2, TypeParts DEF TypeOK, LockOK, Rest
  <2>4. working' = {At(r, "closing")} /\ call' = call
    BY <1>2, <1>7 DEF Enter
  <2>5. At(r, "closing").call = r /\ At(r, "closing").stage = "closing"
    BY DEF At
  <2>6. OneHolder' /\ OpensClosed' /\ OutdatedTarget'
    BY <2>4, <2>5 DEF OneHolder, OpensClosed, OutdatedTarget
  <2>7. ClosesForUpdate' /\ OutdatedClient'
    BY <1>7, <2>4, <2>5 DEF ClosesForUpdate, OutdatedClient
  <2> QED
    BY <2>3, <2>6, <2>7 DEF IInv
<1> HIDE DEF r
<1>8. CASE call[r].kind = "update"
  BY <1>2, <1>5, <1>6, <1>7, <1>8 DEF Reconnect, ConnectLocked
<1>9. CASE call[r].kind # "update"
  BY <1>2, <1>4, <1>5, <1>9 DEF ConnectLocked
<1> QED
  BY <1>8, <1>9

(* The holder leaves the mutex.                                              *)
LEMMA LeaveKeepsLock ==
  ASSUME IInv, NEW t \in working, NEW ok \in BOOLEAN, Leave(t.call, ok), waiting' = waiting
  PROVE  LockOK' /\ working' = {} /\ (UpdatePending => UpdatePending')
<1> DEFINE r == t.call
<1>1. LockOK /\ working = {t}
  BY TypeParts DEF IInv, OneHolder
<1>2. r \in Calls /\ IsWorking(r) /\ ~IsWaiting(r)
  BY <1>1 DEF LockOK, Task, IsWorking
<1>3. /\ call' \in [Calls -> [kind : Kinds, status : Statuses]]
      /\ call'[r].status # "connecting"
      /\ \A q \in Calls : call'[q].kind = call[q].kind
      /\ \A q \in Calls \ {r} : call'[q] = call[q]
  BY <1>1, <1>2, LeaveType
<1>4. working' = {}
  BY <1>1 DEF Leave
<1>5. \A q \in Calls : IsWorking(q) <=> q = r
  BY <1>1 DEF IsWorking
<1>6. \A q \in Calls : ~IsWorking(q)' /\ (IsWaiting(q)' <=> IsWaiting(q))
  BY <1>4 DEF IsWorking, IsWaiting
<1> HIDE DEF r
<1>7. \A q \in Calls : call'[q].status = "connecting" <=> IsWaiting(q)' \/ IsWorking(q)'
  BY <1>1, <1>2, <1>3, <1>5, <1>6 DEF LockOK
<1>8. LockOK'
  BY <1>1, <1>3, <1>4, <1>6, <1>7 DEF LockOK
<1>9. \A i \in DOMAIN waiting : waiting[i] \in Calls
  BY <1>1 DEF LockOK
<1>10. UpdatePending => UpdatePending'
  BY <1>3, <1>9 DEF UpdatePending
<1> QED
  BY <1>4, <1>8, <1>10

LEMMA ProceedKeepsInv ==
  ASSUME IInv, NEW t \in working, Proceed(t)
  PROVE  IInv'
<1>1. LockOK /\ Rest /\ working = {t}
  BY TypeParts DEF IInv, OneHolder
<1>2. CASE Closed(t)
  <2>1. t.call \in Calls /\ IsWorking(t.call) /\ At(t.call, "opening") \in Task
    BY <1>1 DEF LockOK, Task, IsWorking, At, Rest
  <2>2. working' = {At(t.call, "opening")} /\ call' = call /\ waiting' = waiting
    BY <1>1, <1>2 DEF Closed, Enter
  <2>3. At(t.call, "opening").call = t.call
    BY DEF At
  <2>4. \A q \in Calls : (IsWorking(q)' <=> IsWorking(q)) /\ (IsWaiting(q)' <=> IsWaiting(q))
    BY <1>1, <2>2, <2>3 DEF IsWorking, IsWaiting
  <2>5. LockOK'
    BY <1>1, <2>1, <2>2, <2>4 DEF LockOK
  <2>6. Rest' /\ client' # "open" /\ config' = config
    BY <1>1, <1>2 DEF Closed, Rest
  <2> QED
    BY <1>1, <1>2, <2>1, <2>5, <2>6, EnterOpening DEF Closed
<1>3. CASE Opened(t)
  <2>1. LockOK' /\ working' = {} /\ (UpdatePending => UpdatePending')
    BY <1>3, LeaveKeepsLock DEF Opened
  <2>2. openedWith' = t.target /\ config' = config
    BY <1>3 DEF Opened
  <2>3. t.target \in Connections
    BY <1>1 DEF LockOK, Task
  <2>4. Rest'
    BY <1>1, <1>3, <2>3 DEF Opened, Rest
  <2>5. t.target # config => UpdatePending'
    BY <1>3, <2>1 DEF IInv, OutdatedTarget, Opened
  <2> QED
    BY <2>1, <2>2, <2>4, <2>5, NobodyWorks
<1>4. CASE OpenFails(t)
  <2>1. LockOK' /\ working' = {}
    BY <1>4, LeaveKeepsLock DEF OpenFails
  <2>2. client' # "open"
    BY <1>4 DEF IInv, OpensClosed, OpenFails
  <2>3. Rest'
    BY <1>1, <1>4 DEF OpenFails, Rest
  <2> QED
    BY <2>1, <2>2, <2>3, NobodyWorks
<1> QED
  BY <1>2, <1>3, <1>4 DEF Proceed

LEMMA PortCloseKeepsInv ==
  ASSUME IInv, PortCloses
  PROVE  IInv'
<1>1. UNCHANGED <<timedOut, config, openedWith, waiting, working, call, skipped>>
  BY DEF PortCloses, lockVars
<1>2. client' = "closed"
  BY DEF PortCloses
<1>3. TypeOK'
  BY <1>1, <1>2 DEF IInv, TypeOK, IsWaiting, IsWorking
<1> QED
  BY <1>1, <1>2, <1>3
  DEF IInv, OneHolder, OpensClosed, ClosesForUpdate, OutdatedTarget, OutdatedClient, UpdatePending

LEMMA NextInv == IInv /\ [Next]_vars => IInv'
<1> SUFFICES ASSUME IInv, [Next]_vars PROVE IInv'
  OBVIOUS
<1>1. ASSUME NEW r \in Calls, Issue(r) PROVE IInv'
  BY <1>1, IssueKeepsInv
<1>2. ASSUME NEW r \in Calls, Finishes(r) PROVE IInv'
  BY <1>2, AttemptKeepsInv DEF Finishes
<1>3. ASSUME NEW r \in Calls, NEW outcome \in Outcomes, Attempt(r, outcome, "executing")
      PROVE  IInv'
  BY <1>3, AttemptKeepsInv
<1>4. CASE StartsTask
  BY <1>4, StartKeepsInv
<1>5. ASSUME NEW t \in working, Proceed(t) PROVE IInv'
  BY <1>5, ProceedKeepsInv
<1>6. CASE PortCloses
  BY <1>6, PortCloseKeepsInv
<1>7. CASE UNCHANGED vars
  BY <1>7 DEF vars, lockVars, IInv, TypeOK, IsWaiting, IsWorking, OneHolder, OpensClosed,
              ClosesForUpdate, OutdatedTarget, OutdatedClient, UpdatePending
<1> QED
  BY <1>1, <1>2, <1>3, <1>4, <1>5, <1>6, <1>7 DEF Next

LEMMA InvHolds == Spec => []IInv
  BY InitInv, NextInv, PTL DEF Spec

(***************************************************************************)
(* Theorems.                                                                *)
(***************************************************************************)

(* Types, and a call waits for a connection exactly if it is once in          *)
(* connectMutex, for any number of callers.                                  *)
THEOREM TypeCorrect == Spec => []TypeOK
<1>1. IInv => TypeOK
  BY DEF IInv
<1> QED
  BY <1>1, InvHolds, PTL

(* The client is only opened while it is closed, and by one call at a time,    *)
(* however many callers find it closed and however often it is updated.       *)
THEOREM NoOverlappingOpen == Spec => []OpensOnlyClosedPort
<1>1. IInv => OpensOnlyClosedPort
  BY DEF IInv, OneHolder, OpensClosed, OpensOnlyClosedPort
<1> QED
  BY <1>1, InvHolds, PTL

(* An open client with outdated settings waits for the reconnect of an update, *)
(* or a reconnect was skipped since the last request had timed out.            *)
THEOREM StaleByTimeoutOnly == Spec => []StaleOnlyAfterTimeout
<1>1. IInv => StaleOnlyAfterTimeout
  <2> SUFFICES ASSUME IInv, client = "open", openedWith # config, ~skipped
               PROVE  \E r \in Calls : call[r] = [kind |-> "update", status |-> "connecting"]
    BY DEF StaleOnlyAfterTimeout
  <2>1. LockOK
    BY TypeParts DEF IInv
  <2>2. ASSUME NEW r \in Calls, call[r].kind = "update", call[r].status = "connecting"
        PROVE  call[r] = [kind |-> "update", status |-> "connecting"]
    BY <2>1, <2>2 DEF LockOK
  <2>3. CASE UpdatePending
    <3>1. PICK i \in DOMAIN waiting : call[waiting[i]].kind = "update"
      BY <2>3 DEF UpdatePending
    <3>2. waiting[i] \in Calls /\ IsWaiting(waiting[i])
      BY <2>1 DEF LockOK, IsWaiting
    <3>3. call[waiting[i]].status = "connecting"
      BY <2>1, <3>2 DEF LockOK
    <3> QED
      BY <2>2, <3>1, <3>2, <3>3
  <2>4. CASE \E t \in working : t.stage = "closing"
    <3>1. PICK t \in working : t.stage = "closing"
      BY <2>4
    <3>2. t.call \in Calls /\ IsWorking(t.call)
      BY <2>1 DEF LockOK, Task, IsWorking
    <3>3. call[t.call].status = "connecting" /\ call[t.call].kind = "update"
      BY <2>1, <3>1, <3>2 DEF LockOK, IInv, ClosesForUpdate
    <3> QED
      BY <2>2, <3>2, <3>3
  <2> QED
    BY <2>3, <2>4 DEF IInv, OutdatedClient
<1> QED
  BY <1>1, InvHolds, PTL

(***************************************************************************)
(* Nobody reaches the queue without a client.  Only the opening of the port    *)
(* makes the client, and it is never taken back: a call that opens has one,    *)
(* and a call that leaves the mutex for the queue found or made one.         *)
(***************************************************************************)

OpensClient == \A t \in working : client # "none"

CInv == IInv /\ OpensClient /\ NeverWithoutClient

(* A call that changes neither the client nor a request.                      *)
LEMMA CalledKeepsClient ==
  ASSUME IInv, NeverWithoutClient, NEW r \in Calls, NEW kind \in Kinds, NEW status \in Statuses,
         Called(r, kind, status), client' = client \/ client' # "none",
         status = "executing" => client' # "none"
  PROVE  NeverWithoutClient'
BY DEF IInv, TypeOK, NeverWithoutClient, Called

LEMMA LeaveKeepsClient ==
  ASSUME IInv, NeverWithoutClient, NEW r \in Calls, NEW ok \in BOOLEAN, Leave(r, ok),
         client' = client \/ client' # "none",
         ok /\ call[r].kind = "request" => client' # "none"
  PROVE  NeverWithoutClient'
<1> DEFINE kind == call[r].kind
<1>1. kind \in Kinds
  BY DEF IInv, TypeOK
<1>2. PICK status \in Statuses : Called(r, kind, status) /\ (status = "executing" => ok /\ kind = "request")
  BY DEF Leave, Statuses, Settled
<1>3. status = "executing" => client' # "none"
  BY <1>2
<1> HIDE DEF kind
<1> QED
  BY <1>1, <1>2, <1>3, CalledKeepsClient

LEMMA NextKeepsClient == CInv /\ [Next]_vars => CInv'
<1> SUFFICES ASSUME CInv, [Next]_vars PROVE OpensClient' /\ NeverWithoutClient'
  BY NextInv DEF CInv
<1>0. IInv /\ TypeOK /\ NeverWithoutClient /\ OpensClient
  BY DEF CInv, IInv
<1>1. ASSUME NEW r \in Calls, Issue(r)
      PROVE  OpensClient' /\ NeverWithoutClient'
  <2>1. UNCHANGED <<client, working>>
    BY <1>1 DEF Issue, Request, BridgeRequest, InitialConnect, UpdateBus, lockVars
  <2>2. PICK kind \in Kinds, status \in Statuses :
          Called(r, kind, status) /\ (status = "executing" => client # "none")
    BY <1>1 DEF Issue, Request, BridgeRequest, InitialConnect, UpdateBus, Kinds, Statuses, Settled
  <2> QED
    BY <1>0, <2>1, <2>2, CalledKeepsClient DEF OpensClient
<1>2. ASSUME NEW r \in Calls, NEW outcome \in Outcomes,
             NEW status \in {"resolved", "rejected", "executing"}, Attempt(r, outcome, status)
      PROVE  OpensClient' /\ NeverWithoutClient'
  <2>1. UNCHANGED <<client, working>> /\ Called(r, call[r].kind, status)
    BY <1>2 DEF Attempt, lockVars
  <2>2. client # "none" /\ call[r].kind \in Kinds /\ status \in Statuses
    BY <1>0, <1>2 DEF Attempt, NeverWithoutClient, TypeOK, Statuses, Settled
  <2> QED
    BY <1>0, <2>1, <2>2, CalledKeepsClient DEF OpensClient
<1>3. CASE StartsTask
  <2> DEFINE r == Head(waiting)
  <2>1. r \in Calls /\ working = {}
    BY <1>0, <1>3 DEF StartsTask, TypeOK, LockIsFree
  <2> HIDE DEF r
  <2>2. Reconnect(r) \/ ConnectLocked(r)
    BY <1>3 DEF StartsTask, r
  <2>3. call[r].kind = "update" \/ ConnectLocked(r)
    BY <1>3 DEF StartsTask, r
  <2>4. CASE Leave(r, TRUE) /\ client = "open" /\ UNCHANGED client
    BY <1>0, <2>1, <2>4, LeaveKeepsClient DEF Leave, OpensClient
  <2>5. CASE Leave(r, client = "open") /\ UNCHANGED client
    BY <1>0, <2>1, <2>5, LeaveKeepsClient DEF Leave, OpensClient
  <2>6. CASE \E stage \in {"closing", "opening"} : Enter(r, stage) /\ client' \in {"open", "closed"}
    BY <1>0, <2>6 DEF Enter, NeverWithoutClient, OpensClient
  <2> QED
    BY <2>2, <2>4, <2>5, <2>6 DEF Reconnect, ConnectLocked
<1>4. ASSUME NEW t \in working, Proceed(t)
      PROVE  OpensClient' /\ NeverWithoutClient'
  <2>1. t.call \in Calls /\ client # "none" /\ client' # "none"
    BY <1>0, <1>4 DEF TypeOK, Task, OpensClient, Proceed, Closed, Opened, OpenFails
  <2>2. CASE Closed(t)
    BY <1>0, <2>1, <2>2 DEF Closed, Enter, NeverWithoutClient, OpensClient
  <2>3. CASE \E ok \in BOOLEAN : Leave(t.call, ok)
    BY <1>0, <2>1, <2>3, LeaveKeepsClient DEF OpensClient
  <2> QED
    BY <1>4, <2>2, <2>3 DEF Proceed, Opened, OpenFails
<1>5. CASE PortCloses
  BY <1>0, <1>5 DEF PortCloses, lockVars, NeverWithoutClient, OpensClient
<1>6. CASE UNCHANGED vars
  BY <1>0, <1>6 DEF vars, lockVars, NeverWithoutClient, OpensClient
<1> QED
  BY <1>1, <1>2, <1>3, <1>4, <1>5, <1>6 DEF Next, Finishes

LEMMA ClientHolds == Spec => []CInv
<1>1. Init => CInv
  BY InitInv DEF CInv, Init, OpensClient, NeverWithoutClient
<1> QED
  BY <1>1, NextKeepsClient, PTL DEF Spec

(* A request reaches the queue only when the client exists, so that the        *)
(* promise of a write cannot be one that never settles, for any number of       *)
(* callers, updates and closing ports.                                       *)
THEOREM ClientBeforeRequests == Spec => []NeverWithoutClient
<1>1. CInv => NeverWithoutClient
  BY DEF CInv
<1> QED
  BY <1>1, ClientHolds, PTL

(***************************************************************************)
(* connectMutex is a line: ModbusConnection implements ConnectionService.    *)
(* The line is the holder, if there is one, in front of those who wait, so    *)
(* that the call that takes the mutex stays where it is and the one that      *)
(* leaves it was the first.                                                 *)
(***************************************************************************)

(* Line, as a function of connectMutex.                                       *)
LineOf(w, q) == (IF w = {} THEN <<>> ELSE <<(CHOOSE t \in w : TRUE).call>>) \o q

Promises == [r \in Calls |-> call[r].status]

LEMMA LineFree ==
  ASSUME NEW q \in Seq(Calls)
  PROVE  LineOf({}, q) = q
BY ConcatEmptySeq DEF LineOf

LEMMA LineHeld ==
  ASSUME NEW t, t.call \in Calls, NEW q \in Seq(Calls)
  PROVE  /\ LineOf({t}, q) # <<>>
         /\ Head(LineOf({t}, q)) = t.call
         /\ Tail(LineOf({t}, q)) = q
<1> DEFINE l == <<t.call>> \o q
<1>1. LineOf({t}, q) = l
  <2>1. \A u \in {t} : u = t
    OBVIOUS
  <2>2. (CHOOSE u \in {t} : TRUE) = t
    BY <2>1
  <2> QED
    BY <2>2 DEF LineOf
<1>2. <<t.call>> \in Seq(Calls) /\ Len(<<t.call>>) = 1 /\ Len(q) \in Nat
  OBVIOUS
<1>3. /\ l \in Seq(Calls)
      /\ Len(l) = 1 + Len(q)
      /\ \A i \in 1 .. 1 + Len(q) : l[i] = IF i <= 1 THEN <<t.call>>[i] ELSE q[i - 1]
  BY <1>2, ConcatProperties
<1> HIDE DEF l
<1>4. l # <<>> /\ Head(l) = t.call
  BY <1>2, <1>3
<1>5. Tail(l) \in Seq(Calls) /\ Len(Tail(l)) = Len(q)
  BY <1>2, <1>3
<1>6. \A i \in 1 .. Len(q) : Tail(l)[i] = q[i]
  BY <1>2, <1>3
<1>7. Tail(l) = q
  BY <1>5, <1>6, SeqEqual
<1> QED
  BY <1>1, <1>4, <1>7

(* Who queues up does so behind the holder and those who wait.                *)
LEMMA LineAppend ==
  ASSUME NEW w, \A t \in w : t.call \in Calls, NEW q \in Seq(Calls), NEW r \in Calls
  PROVE  LineOf(w, Append(q, r)) = Append(LineOf(w, q), r)
<1> DEFINE h == IF w = {} THEN <<>> ELSE <<(CHOOSE t \in w : TRUE).call>>
<1>1. h \in Seq(Calls)
  <2>1. CASE w = {}
    BY <2>1
  <2>2. CASE w # {}
    <3>1. (CHOOSE t \in w : TRUE) \in w
      BY <2>2
    <3> QED
      BY <2>2, <3>1
  <2> QED
    BY <2>1, <2>2
<1>2. LineOf(w, q) = h \o q /\ LineOf(w, Append(q, r)) = h \o Append(q, r)
  BY DEF LineOf
<1> HIDE DEF h
<1>3. <<r>> \in Seq(Calls) /\ Append(q, r) = q \o <<r>> /\ h \o q \in Seq(Calls)
  BY <1>1
<1>4. Append(h \o q, r) = (h \o q) \o <<r>>
  BY <1>3
<1> QED
  BY <1>1, <1>2, <1>3, <1>4, ConcatAssociative

(* The first of those who wait takes the mutex and stays the first.           *)
LEMMA LineTaken ==
  ASSUME NEW t, NEW q \in Seq(Calls), q # <<>>, t.call = Head(q)
  PROVE  LineOf({t}, Tail(q)) = q
<1>1. Head(q) \in Calls /\ Tail(q) \in Seq(Calls)
  OBVIOUS
<1>2. LineOf({t}, Tail(q)) = <<Head(q)>> \o Tail(q)
  <2>1. (CHOOSE u \in {t} : TRUE) = t
    OBVIOUS
  <2> QED
    BY <2>1 DEF LineOf
<1>3. <<Head(q)>> \o Tail(q) = q
  <2>1. <<Head(q)>> \in Seq(Calls) /\ Len(q) \in Nat \ {0} /\ Len(Tail(q)) = Len(q) - 1
    BY <1>1
  <2>2. /\ <<Head(q)>> \o Tail(q) \in Seq(Calls)
        /\ Len(<<Head(q)>> \o Tail(q)) = Len(q)
        /\ \A i \in 1 .. Len(q) :
             (<<Head(q)>> \o Tail(q))[i] = IF i <= 1 THEN <<Head(q)>>[i] ELSE Tail(q)[i - 1]
    BY <1>1, <2>1, ConcatProperties
  <2>3. \A i \in 1 .. Len(q) : (<<Head(q)>> \o Tail(q))[i] = q[i]
    BY <2>1, <2>2
  <2> QED
    BY <2>1, <2>2, <2>3, SeqEqual
<1> QED
  BY <1>2, <1>3

LEMMA ServiceNames ==
  /\ Line = LineOf(working, waiting)
  /\ Service!vars = <<client, Line, Promises>>
BY DEF Service!vars, Promises, Line, LineOf

(* What the service sees of a call that changes.                              *)
LEMMA CalledPromise ==
  ASSUME TypeOK, NEW r \in Calls, NEW kind, NEW status, Called(r, kind, status)
  PROVE  Service!Becomes(r, status)
<1>1. call' = [call EXCEPT ![r] = [kind |-> kind, status |-> status]]
  BY DEF Called
<1>2. Promises' = [Promises EXCEPT ![r] = status]
  BY <1>1 DEF TypeOK, Promises
<1> QED
  BY <1>2 DEF Service!Becomes, Promises

(* What the service sees of the end of a task: the first in line is gone.      *)
LEMMA LeaveServes ==
  ASSUME TypeOK, NEW r \in Calls, NEW ok \in BOOLEAN, Leave(r, ok),
         Line # <<>>, r = Head(Line), Line' = Tail(Line),
         ok => client # "none" /\ client' = "open",
         ~ok => client' = client
  PROVE  Service!Next
<1>1. CASE ok
  <2>1. PICK s \in {"executing", "resolved"} : Called(r, call[r].kind, s)
    BY <1>1 DEF Leave
  <2>2. Service!Becomes(Head(Line), s)
    BY <2>1, CalledPromise
  <2>3. Service!Admit
    BY <1>1, <2>2 DEF Service!Admit
  <2> QED
    BY <2>3 DEF Service!Next
<1>2. CASE ~ok
  <2>1. Called(r, call[r].kind, "rejected")
    BY <1>2 DEF Leave
  <2>2. Service!Becomes(Head(Line), "rejected")
    BY <2>1, CalledPromise
  <2>3. Service!Refuse
    BY <1>2, <2>2 DEF Service!Refuse
  <2> QED
    BY <2>3 DEF Service!Next
<1> QED
  BY <1>1, <1>2

(* A task that goes on moves the port only.                                   *)
LEMMA EnterServes ==
  ASSUME NEW t, call' = call, Line' = Line, Line # <<>>,
         client \in {"none", "closed", "open"},
         client' = client \/ client' = "closed"
  PROVE  [Service!Next]_Service!vars
<1>1. Promises' = Promises
  BY DEF Promises
<1>2. CASE client' = client
  BY <1>1, <1>2, ServiceNames DEF Service!vars, Promises
<1>3. CASE client = "none" /\ client' = "closed"
  BY <1>1, <1>3 DEF Service!Create, Service!Next, Promises
<1>4. CASE client = "open" /\ client' = "closed"
  BY <1>1, <1>4 DEF Service!Shut, Service!Next, Promises
<1> QED
  BY <1>2, <1>3, <1>4

LEMMA IssueServes ==
  ASSUME CInv, NEW r \in Calls, Issue(r)
  PROVE  [Service!Next]_Service!vars
<1>1. /\ TypeOK
      /\ waiting \in Seq(Calls)
      /\ \A t \in working : t.call \in Calls
  BY DEF CInv, IInv, TypeOK, Task
<1>2. /\ client' = client
      /\ working' = working
      /\ call[r].status \in {"idle", "resolved", "rejected"}
  BY DEF Issue, Request, BridgeRequest, InitialConnect, UpdateBus, lockVars, Settled
<1>3. \/ \E kind : Called(r, kind, "connecting") /\ waiting' = Append(waiting, r)
      \/ client # "none" /\ waiting' = waiting /\ \E kind : Called(r, kind, "executing")
      \/ waiting' = waiting /\ \E kind : Called(r, kind, "resolved")
  BY DEF Issue, Request, BridgeRequest, InitialConnect, UpdateBus, lockVars
<1>4. Promises[r] \in {"idle", "resolved", "rejected"}
  BY <1>2 DEF Promises
<1>5. waiting' = Append(waiting, r) => Line' = Append(Line, r)
  <2>1. Line = LineOf(working, waiting) /\ Line' = LineOf(working', waiting')
    BY DEF Line, LineOf
  <2>2. LineOf(working, Append(waiting, r)) = Append(LineOf(working, waiting), r)
    BY <1>1, LineAppend
  <2> QED
    BY <1>2, <2>1, <2>2
<1>6. waiting' = waiting => Line' = Line
  BY <1>2 DEF Line
<1>7. Service!Ask(r)
  BY <1>1, <1>2, <1>3, <1>4, <1>5, <1>6, CalledPromise DEF Service!Ask, Promises
<1> QED
  BY <1>7 DEF Service!Next

LEMMA AttemptServes ==
  ASSUME CInv, NEW r \in Calls, NEW outcome \in Outcomes,
         NEW s \in {"resolved", "rejected", "executing"}, Attempt(r, outcome, s)
  PROVE  [Service!Next]_Service!vars
<1>1. /\ TypeOK
      /\ call[r].status = "executing"
      /\ Called(r, call[r].kind, s)
      /\ UNCHANGED <<client, waiting, working>>
  BY DEF CInv, IInv, Attempt, lockVars
<1>2. Line' = Line
  BY <1>1 DEF Line
<1>3. CASE s = "executing"
  <2>1. call' = call
    BY <1>1, <1>3 DEF Called, TypeOK
  <2> QED
    BY <1>1, <1>2, <2>1 DEF Service!vars
<1>4. CASE s \in {"resolved", "rejected"}
  <2>1. Service!Becomes(r, s)
    BY <1>1, CalledPromise
  <2>2. Service!Answer(r)
    BY <1>1, <1>2, <1>4, <2>1 DEF Service!Answer
  <2> QED
    BY <2>2 DEF Service!Next
<1> QED
  BY <1>3, <1>4

LEMMA StartServes ==
  ASSUME CInv, StartsTask
  PROVE  [Service!Next]_Service!vars
<1> DEFINE r == Head(waiting)
<1>1. /\ TypeOK
      /\ waiting \in Seq(Calls)
      /\ waiting # <<>>
      /\ working = {}
      /\ waiting' = Tail(waiting)
      /\ client \in {"none", "closed", "open"}
      /\ Reconnect(r) \/ ConnectLocked(r)
  BY DEF CInv, IInv, TypeOK, StartsTask, LockIsFree
<1>2. r \in Calls /\ Tail(waiting) \in Seq(Calls)
  BY <1>1
<1>3. Line = waiting
  BY <1>1, LineFree, ServiceNames
<1> HIDE DEF r
<1>4. ASSUME NEW ok \in BOOLEAN, Leave(r, ok), ok => client = "open", UNCHANGED client
      PROVE  Service!Next
  <2>1. working' = {}
    BY <1>1, <1>4 DEF Leave
  <2>2. Line' = Tail(waiting)
    BY <1>1, <1>2, <2>1, LineFree DEF Line, LineOf
  <2> QED
    BY <1>1, <1>2, <1>3, <1>4, <2>2, LeaveServes DEF r
<1>5. ASSUME NEW stage, Enter(r, stage), client' = client \/ client' = "closed"
      PROVE  [Service!Next]_Service!vars
  <2>1. working' = {At(r, stage)} /\ call' = call
    BY <1>1, <1>5 DEF Enter
  <2>2. At(r, stage).call = r
    BY DEF At
  <2>3. Line' = waiting
    BY <1>1, <2>1, <2>2, LineTaken DEF Line, LineOf, r
  <2> QED
    BY <1>1, <1>3, <1>5, <2>1, <2>3, EnterServes
<1>6. CASE ConnectLocked(r)
  BY <1>4, <1>5, <1>6 DEF ConnectLocked
<1>7. CASE Reconnect(r)
  BY <1>4, <1>5, <1>6, <1>7 DEF Reconnect
<1> QED
  BY <1>1, <1>6, <1>7

LEMMA ProceedServes ==
  ASSUME CInv, NEW t \in working, Proceed(t)
  PROVE  [Service!Next]_Service!vars
<1>1. /\ TypeOK
      /\ working = {t}
      /\ waiting \in Seq(Calls)
      /\ t.call \in Calls
      /\ client \in {"closed", "open"}
      /\ waiting' = waiting
  BY DEF CInv, IInv, OneHolder, OpensClient, TypeOK, Task, Proceed, Closed, Opened, OpenFails
<1>2. Line = LineOf({t}, waiting)
  BY <1>1, ServiceNames
<1>3. Line # <<>> /\ Head(Line) = t.call /\ Tail(Line) = waiting
  BY <1>1, <1>2, LineHeld
<1>4. ASSUME NEW ok \in BOOLEAN, Leave(t.call, ok), ok => client' = "open", ~ok => client' = client
      PROVE  Service!Next
  <2>1. working' = {}
    BY <1>1, <1>4 DEF Leave
  <2>2. Line' = waiting
    BY <1>1, <2>1, LineFree DEF Line, LineOf
  <2> QED
    BY <1>1, <1>3, <1>4, <2>2, LeaveServes
<1>5. CASE Closed(t)
  <2>1. working' = {At(t.call, "opening")} /\ call' = call /\ client' = "closed"
    BY <1>1, <1>5 DEF Closed, Enter
  <2>2. At(t.call, "opening").call = t.call
    BY DEF At
  <2>3. LineOf({At(t.call, "opening")}, waiting) = LineOf({t}, waiting)
    BY <2>2 DEF LineOf
  <2>4. Line' = Line
    BY <1>1, <1>2, <2>1, <2>3 DEF Line, LineOf
  <2> QED
    BY <1>1, <1>3, <2>1, <2>4, EnterServes
<1>6. CASE Opened(t)
  BY <1>4, <1>6 DEF Opened
<1>7. CASE OpenFails(t)
  BY <1>4, <1>7 DEF OpenFails
<1> QED
  BY <1>5, <1>6, <1>7 DEF Proceed

LEMMA NextServes == CInv /\ [Next]_vars => [Service!Next]_Service!vars
<1> SUFFICES ASSUME CInv, [Next]_vars PROVE [Service!Next]_Service!vars
  OBVIOUS
<1>1. ASSUME NEW r \in Calls, Issue(r) PROVE [Service!Next]_Service!vars
  BY <1>1, IssueServes
<1>2. ASSUME NEW r \in Calls, NEW outcome \in Outcomes,
             NEW s \in {"resolved", "rejected", "executing"}, Attempt(r, outcome, s)
      PROVE  [Service!Next]_Service!vars
  BY <1>2, AttemptServes
<1>3. CASE StartsTask
  BY <1>3, StartServes
<1>4. ASSUME NEW t \in working, Proceed(t) PROVE [Service!Next]_Service!vars
  BY <1>4, ProceedServes
<1>5. CASE PortCloses
  <2>1. client = "open" /\ client' = "closed" /\ UNCHANGED <<waiting, working, call>>
    BY <1>5 DEF PortCloses, lockVars
  <2>2. Line' = Line
    BY <2>1 DEF Line
  <2>3. Service!Shut
    BY <2>1, <2>2 DEF Service!Shut
  <2> QED
    BY <2>3 DEF Service!Next
<1>6. CASE UNCHANGED vars
  BY <1>6 DEF vars, lockVars, Service!vars, Line
<1> QED
  BY <1>1, <1>2, <1>3, <1>4, <1>5, <1>6 DEF Next, Finishes

LEMMA InitServes == Init => Service!Init
<1> SUFFICES ASSUME Init PROVE Service!Init
  OBVIOUS
<1>1. Line = <<>>
  <2>1. working = {} /\ waiting = <<>> /\ waiting \in Seq(Calls)
    BY DEF Init
  <2>2. LineOf(working, waiting) = waiting
    BY <2>1, LineFree
  <2> QED
    BY <2>1, <2>2, ServiceNames
<1>2. Promises = [r \in Calls |-> "idle"]
  BY DEF Init, Promises
<1> QED
  BY <1>1, <1>2 DEF Init, Service!Init, Promises

(* The mutex is first come first served, for any number of callers: a call is  *)
(* let pass or turned away only as the first of those that came before it and  *)
(* are not served, nobody passes but by an open port, and the port is opened   *)
(* for the first in line only.  Reconnects that close, skip or fail in between,*)
(* and a port that closes by itself, are steps of the port or none.          *)
THEOREM ConnectionImplementsService == Spec => ImplementsService
<1>1. CInv /\ [Next]_vars => [Service!Next]_Service!vars
  BY NextServes
<1> QED
  BY <1>1, ClientHolds, InitServes, PTL DEF Spec, ImplementsService, Service!Spec
=============================================================================
