---------------------------- MODULE MqttConnector ----------------------------
(***************************************************************************)
(* MqttConnector: one MQTT client for the whole program.  Whoever wants to    *)
(* publish passes a callback to getMqttClient, which is run at once if the    *)
(* client is connected and otherwise waits in onConnectCallbacks.  When the   *)
(* user changes the broker, the client is ended and a new one takes over.     *)
(*                                                                           *)
(* The connector is a record, and its operations are functions on it, so that *)
(* a module that uses it can call several of them in one step.  What a step   *)
(* did to the callbacks is left in run and dropped.                          *)
(***************************************************************************)
EXTENDS Naturals, Sequences, FiniteSets

CONSTANTS
  Callbacks,     \* what the users of the connector want to do when connected
  Settings,      \* the brokers a user may configure
  MaxClients,    \* bound: clients of the mqtt library that exist at a time
  MaxListeners   \* bound: reconnect listeners of a client that are told apart

ConnectorAssumption ==
  /\ Settings # {}
  /\ MaxClients \in Nat \ {0}
  /\ MaxListeners \in Nat \ {0}

VARIABLE mqtt

NoClient == 0

Clients == 1 .. MaxClients

(* A client of the mqtt library.  It lives until its end is complete, and     *)
(* reconnects on its own while it lives.                                     *)
ClientState ==
  [live : BOOLEAN, connected : BOOLEAN, settings : Settings, listeners : 0 .. MaxListeners]

IsConnected(k) == k.client # NoClient /\ k.clients[k.client].connected

(* Mutant: whoever asks for a client gets it, connected or not.              *)
ExecuteAlways(k) == [k EXCEPT !.run = @ \o k.pending, !.pending = <<>>]

(* The first callback leaves the list before the connection is looked at.     *)
ExecuteActions(k) ==
  IF k.pending = <<>> THEN k
  ELSE IF IsConnected(k)
    THEN [k EXCEPT !.run = @ \o k.pending, !.pending = <<>>]
    ELSE [k EXCEPT !.dropped = Append(@, Head(k.pending)), !.pending = Tail(@)]

(* conn(): the client reconnects, or a new one is created.  Each call leaves  *)
(* one more reconnect listener, since only the others are removed before.     *)
Reconnected(k) ==
  [k EXCEPT !.clients[k.client].listeners = IF @ < MaxListeners THEN @ + 1 ELSE @]

Free(k) ==
  {c \in Clients : ~k.clients[c].live /\ \A i \in DOMAIN k.ends : k.ends[i].client # c}

Created(k, broker) ==
  LET c == CHOOSE d \in Free(k) : TRUE
  IN  [k EXCEPT !.client = c,
                !.clients[c] = [live |-> TRUE, connected |-> FALSE,
                                settings |-> broker, listeners |-> 1]]

(* Mutant: a client of another broker is left alone.                         *)
ConnectMqttOnce(k) ==
  IF k.client = NoClient THEN Created(k, k.settings)
  ELSE IF k.clients[k.client].settings # k.settings THEN k
  ELSE IF IsConnected(k) THEN ExecuteActions(k)
  ELSE Reconnected(k)

ConnectMqtt(k) ==
  IF k.client = NoClient THEN Created(k, k.settings)
  ELSE IF k.clients[k.client].settings # k.settings
    THEN [k EXCEPT !.ends = Append(@, [client |-> k.client, settings |-> k.settings])]
  ELSE IF IsConnected(k) THEN ExecuteActions(k)
  ELSE Reconnected(k)

GetMqttClient(k, callback) ==
  ConnectMqtt([k EXCEPT !.pending = Append(@, callback)])

(* The connector before a step: nothing was run or dropped by it yet.        *)
Quiet == [mqtt EXCEPT !.run = <<>>, !.dropped = <<>>]

(* The reconnect listeners of a client that tries to connect run one after    *)
(* the other; each calls executeActions.                                     *)
ExecuteActionsTimes(k, n) ==
  IF n = 0 THEN k
  ELSE IF IsConnected(k) THEN ExecuteActions(k)
  ELSE LET lost == IF n < Len(k.pending) THEN n ELSE Len(k.pending)
       IN  [k EXCEPT !.dropped = @ \o SubSeq(k.pending, 1, lost),
                     !.pending = SubSeq(@, lost + 1, Len(@))]

(***************************************************************************)
(* Events of the mqtt library.                                              *)
(***************************************************************************)

(* onConnect by the connect listener, of which a client has only one.        *)
ClientConnects(c) ==
  /\ mqtt.clients[c].live
  /\ ~mqtt.clients[c].connected
  /\ mqtt' = ExecuteActions([Quiet EXCEPT !.clients[c].connected = TRUE])

ClientDisconnects(c) ==
  /\ mqtt.clients[c].connected
  /\ mqtt' = [Quiet EXCEPT !.clients[c].connected = FALSE]

(* The client starts another attempt to connect.                             *)
ClientReconnects(c) ==
  /\ mqtt.clients[c].live
  /\ ~mqtt.clients[c].connected
  /\ mqtt' = ExecuteActionsTimes(Quiet, mqtt.clients[c].listeners)

Ended(k, e) ==
  [k EXCEPT !.ends = Tail(@),
            !.clients[e.client].live = FALSE,
            !.clients[e.client].connected = FALSE]

(* The callback of client.end: whatever this.client is by now, a new client   *)
(* takes its place.                                                          *)
Replaced(k, e) == Created(Ended(k, e), e.settings)

ClientEnds ==
  /\ mqtt.ends # <<>>
  /\ mqtt' = Replaced(Quiet, Head(mqtt.ends))

ConnectorEvent ==
  \/ \E c \in Clients :
       ClientConnects(c) \/ ClientDisconnects(c) \/ ClientReconnects(c)
  \/ ClientEnds

Init ==
  \E broker \in Settings :
    mqtt = [settings |-> broker,
            client   |-> NoClient,
            clients  |-> [c \in Clients |->
                            [live |-> FALSE, connected |-> FALSE,
                             settings |-> broker, listeners |-> 0]],
            ends     |-> <<>>,
            pending  |-> <<>>,
            run      |-> <<>>,
            dropped  |-> <<>>]

(* One of the users; a callback is not requested twice at a time.  MaxClients *)
(* bounds the clients to be created when those that are being ended have ended.*)
Request(callback) ==
  /\ \A i \in DOMAIN mqtt.pending : mqtt.pending[i] # callback
  /\ Len(mqtt.ends) < Cardinality(Free(mqtt))
  /\ mqtt' = GetMqttClient(Quiet, callback)

(* The user saves another broker; nothing happens until the next request.     *)
Reconfigure(broker) ==
  /\ broker # mqtt.settings
  /\ mqtt' = [Quiet EXCEPT !.settings = broker]

Next ==
  \/ \E callback \in Callbacks : Request(callback)
  \/ \E broker \in Settings : Reconfigure(broker)
  \/ ConnectorEvent

Spec == Init /\ [][Next]_mqtt

(* The broker can be reached: a client that lives gets connected, and the     *)
(* mqtt library completes the end of a client.                               *)
FairSpec ==
  /\ Spec
  /\ \A c \in Clients : WF_mqtt(ClientConnects(c))
  /\ WF_mqtt(ClientEnds)

(***************************************************************************)
(* Properties.                                                              *)
(***************************************************************************)

(* Every field has its type, and this.client is never a client that has ended.*)
TypeOK ==
  /\ mqtt.settings \in Settings
  /\ mqtt.client \in Clients \cup {NoClient}
  /\ mqtt.clients \in [Clients -> ClientState]
  /\ mqtt.client # NoClient => mqtt.clients[mqtt.client].live
  /\ mqtt.ends \in Seq([client : Clients, settings : Settings])
  /\ mqtt.pending \in Seq(Callbacks)
  /\ mqtt.run \in Seq(Callbacks)
  /\ mqtt.dropped \in Seq(Callbacks)

(* No callback is left waiting beside a connected client of the configured    *)
(* broker: each way to connect or to add a callback flushes the list.  Only   *)
(* while a client is being ended a callback may wait beside it.               *)
FlushedWhenConnected ==
  mqtt.ends = <<>> /\ IsConnected(mqtt)
    /\ mqtt.clients[mqtt.client].settings = mqtt.settings
    => mqtt.pending = <<>>

(* Callbacks run with a connected client only, and in the order in which they *)
(* were requested.                                                          *)
RunInOrderWhenConnected ==
  [][mqtt'.run # <<>> =>
       /\ IsConnected(mqtt')
       /\ \A i \in DOMAIN mqtt.pending :
            i <= Len(mqtt'.run) => mqtt'.run[i] = mqtt.pending[i]]_mqtt

(* A callback is only dropped while the client is offline.                    *)
OnlyOfflineDrops == [][mqtt'.dropped # <<>> => ~IsConnected(mqtt')]_mqtt

(* A callback that waits does not wait for ever.                             *)
NobodyWaitsForEver ==
  \A callback \in Callbacks :
    (\E i \in DOMAIN mqtt.pending : mqtt.pending[i] = callback)
      ~> (\A i \in DOMAIN mqtt.pending : mqtt.pending[i] # callback)
=============================================================================
