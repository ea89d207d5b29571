----------------------------- MODULE TcpBridge -----------------------------
(***************************************************************************)
(* TcpBridge: the Modbus TCP server that gives other programs access to the  *)
(* serial line of a bus.  Bus starts and stops it as the connection of the   *)
(* bus is edited; closing a port takes time, and editing does not wait.      *)
(***************************************************************************)
EXTENDS Naturals, Sequences, FiniteSets, SequencesExt

CONSTANTS
  Ports,       \* TCP ports that the user chooses from
  None,        \* no port
  Clients,     \* programs that use the bridge, each with a request at a time
  MaxServers,  \* bound: updates stop when so many ServerTCP objects are made
  MaxUpdates   \* bound: how many updates wait for a server to close

BridgeAssumption == None \notin Ports /\ MaxServers \in Nat /\ MaxUpdates \in Nat

VARIABLES
  tcpBridgePort,  \* of the properties of the bus
  servers,        \* the ServerTCP objects, in the order they were made
  tcprtuBridge,   \* the last of them that the bus made, 0 without
  disturbed,      \* history: an update while a server was closing, or a port in use
  client          \* what each client waits for, or has got

vars == <<tcpBridgePort, servers, tcprtuBridge, disturbed, client>>

(* A server that did not get its port has None; when it is closed, the bus starts a  *)
(* bridge for each port of then.                                              *)
Server ==
  [port : Ports \cup {None}, state : {"open", "closing", "closed"}, then : Seq(Ports \cup {None})]

Holds(sv, p) == sv.port = p /\ sv.state # "closed"

(***************************************************************************)
(* Bus: the server of a bus.                                                 *)
(***************************************************************************)

(* startTcpRtuBridge: that a port is in use is logged, and no one tries again.      *)
Start(svs, p) ==
  IF p = None THEN svs
  ELSE Append(svs, [port  |-> IF \E i \in DOMAIN svs : Holds(svs[i], p) THEN None ELSE p,
                    state |-> "open", then |-> <<>>])

Made(svs) == IF Len(svs) > Len(servers) THEN Len(svs) ELSE tcprtuBridge

(* bridge.serverTCP is there until its close is complete.                        *)
HasServer == tcprtuBridge # 0 /\ servers[tcprtuBridge].state # "closed"

Bounded ==
  /\ Len(servers) < MaxServers
  /\ HasServer => Len(servers[tcprtuBridge].then) < MaxUpdates

Closing == \E i \in DOMAIN servers : servers[i].state = "closing"

(* Mutant: the new bridge does not wait for the port of the old one.               *)
UpdateBusAtOnce(p) ==
  /\ Bounded
  /\ tcpBridgePort' = p
  /\ disturbed' = (disturbed \/ Closing)
  /\ servers' = IF HasServer
                THEN Start([servers EXCEPT ![tcprtuBridge].state = "closing"], p)
                ELSE Start(servers, p)
  /\ tcprtuBridge' = Made(servers')
  /\ UNCHANGED client

(* updateBus with another connection: the port, the serial line or the timeout.      *)
UpdateBus(p) ==
  /\ Bounded
  /\ tcpBridgePort' = p
  /\ disturbed' = (disturbed \/ Closing)
  /\ servers' = IF HasServer
                THEN [servers EXCEPT ![tcprtuBridge].state = "closing",
                                     ![tcprtuBridge].then = Append(@, p)]
                ELSE Start(servers, p)
  /\ tcprtuBridge' = Made(servers')
  /\ UNCHANGED client

(* stopServer: the port is free, and its clients lose their connections.  The          *)
(* callbacks of the updates run in their order.                                *)
Closed(i) ==
  /\ servers[i].state = "closing"
  /\ servers' = FoldLeft(Start, [servers EXCEPT ![i].state = "closed", ![i].then = <<>>],
                         servers[i].then)
  /\ tcprtuBridge' = Made(servers')
  /\ UNCHANGED <<tcpBridgePort, disturbed, client>>

(***************************************************************************)
(* The requests of the clients.                                               *)
(***************************************************************************)

(* Read or write one register, or read several of them, of a unit.                *)
Read(c, p) ==
  /\ client[c] \in {"idle", "value", "error"}
  /\ \E i \in DOMAIN servers : servers[i].port = p /\ servers[i].state = "open"
  /\ client' = [client EXCEPT ![c] = "queued"]
  /\ UNCHANGED <<tcpBridgePort, servers, tcprtuBridge, disturbed>>

(* What the queue gives: data, no data, an error with a number (the port of the bus    *)
(* is closed), a timeout, or an error without a number (an exception of the device, a   *)
(* frame that cannot be read).                                                *)
Outcome == {"data", "nothing", "errno", "timeout", "exception"}

(* Only data and errors with a number are answered.                              *)
Answer(outcome) ==
  CASE outcome = "data"  -> "value"
    [] outcome = "errno" -> "error"
    [] OTHER             -> "ignored"

Settle(c, outcome) ==
  /\ client[c] = "queued"
  /\ client' = [client EXCEPT ![c] = Answer(outcome)]
  /\ UNCHANGED <<tcpBridgePort, servers, tcprtuBridge, disturbed>>

(* The client has waited long enough.                                         *)
GiveUp(c) ==
  /\ client[c] = "ignored"
  /\ client' = [client EXCEPT ![c] = "idle"]
  /\ UNCHANGED <<tcpBridgePort, servers, tcprtuBridge, disturbed>>

Init ==
  /\ tcpBridgePort \in Ports \cup {None}
  /\ servers = IF tcpBridgePort = None THEN <<>>
               ELSE <<[port |-> tcpBridgePort, state |-> "open", then |-> <<>>]>>
  /\ tcprtuBridge = Len(servers)
  /\ disturbed = FALSE
  /\ client = [c \in Clients |-> "idle"]

Next ==
  \/ \E p \in Ports \cup {None} : UpdateBus(p)
  \/ \E i \in DOMAIN servers : Closed(i)
  \/ \E c \in Clients : \/ \E p \in Ports : Read(c, p)
                        \/ \E outcome \in Outcome : Settle(c, outcome)
                        \/ GiveUp(c)

Spec == Init /\ [][Next]_vars

(***************************************************************************)
(* Properties.                                                              *)
(***************************************************************************)

(* Once every close is complete, the bus serves the port that is configured, and no   *)
(* other, through the bridge it knows, unless an update came while a server was being   *)
(* closed: the port of the old bridge is free when the new one asks for it               *)
(* (bus.ts: updateBus; tcprtubridge.ts: stopServer).                              *)
BridgeFollowsBus ==
  ~Closing /\ ~disturbed =>
    LET open == {i \in DOMAIN servers : servers[i].state = "open"}
    IN  IF tcpBridgePort = None THEN open = {}
        ELSE /\ open = {tcprtuBridge}
             /\ servers[tcprtuBridge].port = tcpBridgePort
=============================================================================
