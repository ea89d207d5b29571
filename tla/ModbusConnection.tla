-------------------------- MODULE ModbusConnection --------------------------
(***************************************************************************)
(* ModbusConnection: the client of modbus-serial that all callers of a bus    *)
(* share.  ModbusAPI opens it when a call finds it closed, and Bus.updateBus  *)
(* closes and reopens it with other settings; both run under connectMutex.    *)
(* Whoever has a connection goes on to the queue, that is to RtuWorker, of     *)
(* which only the outcome of its requests is seen here.  Implements            *)
(* ConnectionService.                                                       *)
(***************************************************************************)
EXTENDS Naturals, Sequences, FiniteSets

CONSTANTS
  Calls,   \* callers; each may call again when its promise has settled
  Lines,   \* serial port with baud rate and timeout, or host with port
  Framings \* data bits, parity and stop bits

ASSUME ConnectionAssumption == Lines # {} /\ Framings # {}

VARIABLES
  client,     \* modbusClient: undefined, or with its isOpen
  timedOut,   \* modbusClientTimedOut
  config,     \* properties.connectionData of the bus
  openedWith, \* the settings with which the client was opened last
  waiting,    \* calls that wait for connectMutex, in order
  working,    \* those that hold it, with the stage they are at
  call,       \* the promises of the callers
  skipped,    \* history: a reconnect left the client with outdated settings
  wanted      \* history: what the last updateBus was asked for

lockVars == <<waiting, working>>
vars == <<client, timedOut, config, openedWith, lockVars, call, skipped, wanted>>

Connections == [line : Lines, framing : Framings]

(* A request is a read or a write, connect the initialConnect of a new bus.   *)
Kinds == {"request", "connect", "update"}

Settled == {"idle", "resolved", "rejected"}

Statuses == Settled \cup {"connecting", "executing"}

(* A call in connectMutex.  It opens the client with the settings it read     *)
(* when it started to open.                                                 *)
Task == [call : Calls, stage : {"closing", "opening"}, target : Connections]

At(r, stage) == [call |-> r, stage |-> stage, target |-> config]

(***************************************************************************)
(* Calls.                                                                   *)
(***************************************************************************)

Called(r, kind, status) == call' = [call EXCEPT ![r] = [kind |-> kind, status |-> status]]

(* readModbusRegister, writeModbusRegister.                                  *)
Request(r) ==
  /\ IF client = "open"
       THEN Called(r, "request", "executing") /\ UNCHANGED waiting
       ELSE Called(r, "request", "connecting") /\ waiting' = Append(waiting, r)
  /\ UNCHANGED <<client, timedOut, config, openedWith, working, skipped, wanted>>

(* queueRegister of the bridge, whose server does not listen before the bus    *)
(* has started to connect.                                                  *)
BridgeRequest(r) ==
  /\ client # "none"
  /\ Called(r, "request", "executing")
  /\ UNCHANGED <<client, timedOut, config, openedWith, lockVars, skipped, wanted>>

InitialConnect(r) ==
  /\ Called(r, "connect", "connecting")
  /\ waiting' = Append(waiting, r)
  /\ UNCHANGED <<client, timedOut, config, openedWith, working, skipped, wanted>>

ConnectionChanged(connection) == connection.line # config.line

UpdateBus(r, connection) ==
  /\ wanted' = connection
  /\ IF ConnectionChanged(connection)
       THEN /\ config' = connection
            /\ Called(r, "update", "connecting")
            /\ waiting' = Append(waiting, r)
       ELSE /\ Called(r, "update", "resolved")
            /\ UNCHANGED <<config, waiting>>
  /\ UNCHANGED <<client, timedOut, openedWith, working, skipped>>

Issue(r) ==
  /\ call[r].status \in Settled
  /\ \/ Request(r)
     \/ BridgeRequest(r)
     \/ InitialConnect(r)
     \/ \E connection \in Connections : UpdateBus(r, connection)

(***************************************************************************)
(* connectMutex.                                                            *)
(***************************************************************************)

(* Mutant: runExclusive of two mutexes.                                      *)
LockAlways == TRUE

LockIsFree == working = {}

(* Mutant: a failed attempt keeps the mutex.                                 *)
LeaveHolding(r, ok) ==
  /\ working' = IF ok THEN {t \in working : t.call # r} ELSE working
  /\ Called(r, call[r].kind,
            IF ~ok THEN "rejected"
            ELSE IF call[r].kind = "request" THEN "executing"
            ELSE "resolved")

(* The call leaves the mutex; a request that is connected goes on to the queue, *)
(* whether or not the client is still open by then.                *)
Leave(r, ok) ==
  /\ working' = {t \in working : t.call # r}
  /\ Called(r, call[r].kind,
            IF ~ok THEN "rejected"
            ELSE IF call[r].kind = "request" THEN "executing"
            ELSE "resolved")

Enter(r, stage) ==
  /\ working' = {t \in working : t.call # r} \cup {At(r, stage)}
  /\ UNCHANGED call

(* connectRTUClientLocked.                                                   *)
ConnectLocked(r) ==
  IF client = "open"
    THEN Leave(r, TRUE) /\ UNCHANGED client
    ELSE Enter(r, "opening") /\ client' = "closed"

(* Mutant: an open client is not closed first.                               *)
ReconnectOpen(r) == ConnectLocked(r) /\ UNCHANGED skipped

(* Mutant: after a time-out nobody looks whether the client is open.          *)
ReconnectTrusts(r) ==
  \/ timedOut /\ Leave(r, TRUE) /\ UNCHANGED <<client, skipped>>
  \/ /\ ~timedOut
     /\ UNCHANGED skipped
     /\ \/ client = "open" /\ Enter(r, "closing") /\ client' \in {"open", "closed"}
        \/ client # "open" /\ ConnectLocked(r)

(* The body of reconnectRTU.  A serial port counts as closed from the call of *)
(* close on, a socket when it is closed.                                     *)
Reconnect(r) ==
  \/ /\ timedOut
     /\ Leave(r, client = "open")
     /\ skipped' = (skipped \/ (client = "open" /\ openedWith # config))
     /\ UNCHANGED client
  \/ /\ ~timedOut
     /\ UNCHANGED skipped
     /\ \/ client = "open" /\ Enter(r, "closing") /\ client' \in {"open", "closed"}
        \/ client # "open" /\ ConnectLocked(r)

StartsTask ==
  /\ waiting # <<>>
  /\ LockIsFree
  /\ waiting' = Tail(waiting)
  /\ LET r == Head(waiting)
     IN  IF call[r].kind = "update"
           THEN Reconnect(r)
           ELSE ConnectLocked(r) /\ UNCHANGED skipped
  /\ UNCHANGED <<timedOut, config, openedWith, wanted>>

(* close() has called back, the client is opened again.                       *)
Closed(t) ==
  /\ t.stage = "closing"
  /\ client' = "closed"
  /\ Enter(t.call, "opening")
  /\ UNCHANGED <<timedOut, config, openedWith, waiting, skipped, wanted>>

Opened(t) ==
  /\ t.stage = "opening"
  /\ client' = "open"
  /\ openedWith' = t.target
  /\ skipped' = FALSE
  /\ Leave(t.call, TRUE)
  /\ UNCHANGED <<timedOut, config, waiting, wanted>>

OpenFails(t) ==
  /\ t.stage = "opening"
  /\ Leave(t.call, FALSE)
  /\ UNCHANGED <<client, timedOut, config, openedWith, waiting, skipped, wanted>>

Proceed(t) == Closed(t) \/ Opened(t) \/ OpenFails(t)

(***************************************************************************)
(* The surroundings.                                                        *)
(***************************************************************************)

Outcomes == {"answer", "cached", "timeout", "error"}

(* A request of r to the device: the last one, or one that is retried or       *)
(* followed by others.                                                      *)
Attempt(r, outcome, status) ==
  /\ call[r].status = "executing"
  /\ outcome = "answer" => client = "open"
  /\ timedOut' = IF outcome = "cached" THEN timedOut ELSE outcome = "timeout"
  /\ Called(r, call[r].kind, status)
  /\ UNCHANGED <<client, config, openedWith, lockVars, skipped, wanted>>

Finishes(r) ==
  \E outcome \in Outcomes, status \in {"resolved", "rejected"} : Attempt(r, outcome, status)

(* The adapter is unplugged or the peer closes the socket.                    *)
PortCloses ==
  /\ client = "open"
  /\ client' = "closed"
  /\ UNCHANGED <<timedOut, config, openedWith, lockVars, call, skipped, wanted>>

Init ==
  /\ client = "none"
  /\ timedOut = FALSE
  /\ config \in Connections
  /\ openedWith = config
  /\ waiting = <<>>
  /\ working = {}
  /\ call = [r \in Calls |-> [kind |-> "connect", status |-> "idle"]]
  /\ skipped = FALSE
  /\ wanted = config

Next ==
  \/ \E r \in Calls :
       \/ Issue(r)
       \/ Finishes(r)
       \/ \E outcome \in Outcomes : Attempt(r, outcome, "executing")
  \/ StartsTask
  \/ \E t \in working : Proceed(t)
  \/ PortCloses

Spec == Init /\ [][Next]_vars

(* modbus-serial completes open and close, and the queue settles each call,    *)
(* see EveryCallSettles of RtuWorker.                                       *)
FairSpec ==
  /\ Spec
  /\ WF_vars(StartsTask)
  /\ WF_vars(\E t \in working : Proceed(t))
  /\ \A r \in Calls : WF_vars(Finishes(r))

(***************************************************************************)
(* Properties.                                                              *)
(***************************************************************************)

IsWaiting(r) == \E i \in DOMAIN waiting : waiting[i] = r

IsWorking(r) == \E t \in working : t.call = r

(* Every variable has its type, and a call waits for a connection exactly if   *)
(* it is, once, in connectMutex.                                             *)
TypeOK ==
  /\ client \in {"none", "closed", "open"}
  /\ timedOut \in BOOLEAN
  /\ config \in Connections
  /\ openedWith \in Connections
  /\ waiting \in Seq(Calls)
  /\ working \subseteq Task
  /\ call \in [Calls -> [kind : Kinds, status : Statuses]]
  /\ skipped \in BOOLEAN
  /\ \A r \in Calls : call[r].status = "connecting" <=> IsWaiting(r) \/ IsWorking(r)
  /\ \A r \in Calls : ~(IsWaiting(r) /\ IsWorking(r))
  /\ \A i, j \in DOMAIN waiting : waiting[i] = waiting[j] => i = j

(* "an overlapping open of the same serial device leaks the still-locked fd":  *)
(* the device is only opened while it is closed, and by one call at a time,    *)
(* and no call closes the client while another one opens it.                  *)
OpensOnlyClosedPort ==
  \A t \in working : t.stage = "opening" => client # "open" /\ working = {t}

(* The settings of an open client are those of the bus, or a reconnect is      *)
(* still to come, or it was skipped since the last request had timed out:      *)
(* updates, calls that connect at the same time and closing ports in any order *)
(* leave no other way to talk to an outdated address.                        *)
StaleOnlyAfterTimeout ==
  client = "open" /\ openedWith # config =>
    \/ skipped
    \/ \E r \in Calls : call[r] = [kind |-> "update", status |-> "connecting"]

(* No request reaches the queue before there is a client: the promise of       *)
(* writeHoldingRegisters would never settle, and the worker would wait for ever.*)
NeverWithoutClient == \A r \in Calls : call[r].status = "executing" => client # "none"

(* The promise of every call settles: opening may fail at any time, but        *)
(* connectMutex is always released.                                         *)
EveryCallSettles ==
  \A r \in Calls :
    call[r].status \in {"connecting", "executing"} ~> call[r].status \in {"resolved", "rejected"}

(* "configurable serial framing (data bits, parity, stop bits)": when no call  *)
(* is under way, the client that is open uses what the user has saved.        *)
UpdateReachesPort ==
  client = "open" /\ ~skipped /\ (\A r \in Calls : call[r].status \in Settled)
    => openedWith = wanted

(* The calls in front of the port: the one that holds connectMutex goes first. *)
Line == (IF working = {} THEN <<>> ELSE <<(CHOOSE t \in working : TRUE).call>>) \o waiting

Service ==
  INSTANCE ConnectionService WITH
    port <- client,
    line <- Line,
    status <- [r \in Calls |-> call[r].status]

(* Whatever closes, times out or is saved in between, connectMutex serves its   *)
(* callers in the order in which they came, and whoever it lets pass finds the  *)
(* port open.                                                               *)
ImplementsService == Service!Spec
=============================================================================
