---------------------------- MODULE PollingParts ----------------------------
(***************************************************************************)
(* PollingParts: an instance of each part between the registers of a device and  *)
(* those who subscribe to them.  Parts that share state are composed in their     *)
(* modules.  These do not: a behaviour is one of one instance, and all others      *)
(* stay where they begin.                                                    *)
(***************************************************************************)
EXTENDS Integers, Sequences, FiniteSets

CONSTANTS
  None, Thrown,
  Uses, Brokers, MaxClients, MaxListeners,                          \* of MqttConnector
  Polled, Published, Fragile, Mute, Interval, CronMinutes, MaxMinute,
  PollerBrokers, PollerClients, PollerListeners,                    \* of MqttPoller
  Messages, Slaves, Commandable, MessageKind, To, Wanted, ReadOnly, Unwritable,
  PrefixOf, Publishes, Pushes,                                      \* of MqttCommands
  Byte, Converted, Commands, Contents,                              \* of EntityValues
  Indices, TooHigh, Layouts,                                        \* of StatePayload
  Fields, Presets, Minutes, Hours, Days, Months                     \* of PollSchedule

VARIABLES
  part,  \* the part that runs
  users, \* of MqttConnector
  pollingMqtt, pollInfo, batches, minute, unpublished,  \* of MqttPoller
  subscribedSlaves, request, applied, connected, \* of MqttCommands
  entity, device, commanded, published, \* of EntityValues
  slave, values, state, pushed, \* of StatePayload
  expression \* of PollSchedule

Users == INSTANCE MqttConnector WITH mqtt <- users, Callbacks <- Uses, Settings <- Brokers

Poller == INSTANCE MqttPoller WITH
  Slaves <- Polled, Schedule <- CronMinutes, mqtt <- pollingMqtt,
  Settings <- PollerBrokers, MaxClients <- PollerClients, MaxListeners <- PollerListeners

Messaging == INSTANCE MqttCommands WITH
  Requests <- Messages, Entities <- Commandable, Kind <- MessageKind

Values == INSTANCE EntityValues WITH Entities <- Converted

StateOfSlave == INSTANCE StatePayload

Schedule == INSTANCE PollSchedule

(***************************************************************************)
(* One of them at a time.                                                    *)
(***************************************************************************)

connectorVars == users
pollerVars == <<pollingMqtt, pollInfo, batches, minute, unpublished>>
commandVars == <<subscribedSlaves, request, applied, connected>>
valueVars == <<entity, device, commanded, published>>
payloadVars == <<slave, values, state, pushed>>

ASSUME PartsAssumption ==
  /\ Users!ConnectorAssumption
  /\ Poller!PollerAssumption
  /\ Messaging!CommandsAssumption
  /\ Values!ValuesAssumption
  /\ StateOfSlave!PayloadAssumption
  /\ Schedule!ScheduleAssumption

First(S) == CHOOSE x \in S : TRUE

(* A part that begins in many states stays in one of them while another one runs.  *)
Init ==
  /\ part \in {"connector", "poller", "commands", "values", "payload", "schedule"}
  /\ Users!Init
  /\ Poller!Init
  /\ part # "connector" => users.settings = First(Brokers)
  /\ part # "commands" => subscribedSlaves = First(Messaging!Orders)
  /\ Messaging!Init
  /\ part # "values" => entity = First(Converted) /\ device = First([1 .. entity.registers -> Contents])
  /\ Values!Init
  /\ part # "payload" => slave = First(Layouts)
  /\ StateOfSlave!Init
  /\ part # "schedule" => expression = First(Presets)
  /\ Schedule!Init

UsersOfMqtt ==
  /\ part = "connector"
  /\ Users!Next
  /\ UNCHANGED <<part, pollerVars, commandVars, valueVars, payloadVars, expression>>

Polling ==
  /\ part = "poller"
  /\ Poller!Next
  /\ UNCHANGED <<part, connectorVars, commandVars, valueVars, payloadVars, expression>>

Commanding ==
  /\ part = "commands"
  /\ Messaging!Next
  /\ UNCHANGED <<part, connectorVars, pollerVars, valueVars, payloadVars, expression>>

Converting ==
  /\ part = "values"
  /\ Values!Next
  /\ UNCHANGED <<part, connectorVars, pollerVars, commandVars, payloadVars, expression>>

Publishing ==
  /\ part = "payload"
  /\ StateOfSlave!Next
  /\ UNCHANGED <<part, connectorVars, pollerVars, commandVars, valueVars, expression>>

Scheduling ==
  /\ part = "schedule"
  /\ Schedule!Next
  /\ UNCHANGED <<part, connectorVars, pollerVars, commandVars, valueVars, payloadVars>>

Next ==
  \/ UsersOfMqtt \/ Polling \/ Commanding
  \/ Converting \/ Publishing \/ Scheduling

vars == <<part, connectorVars, pollerVars, commandVars, valueVars, payloadVars, expression>>

(* The fairness of each part.                                                  *)
Fairness ==
  /\ \A c \in 1 .. MaxClients : WF_users(part = "connector" /\ Users!ClientConnects(c))
  /\ WF_users(part = "connector" /\ Users!ClientEnds)
  /\ \A s \in Polled : WF_pollerVars(
       part = "poller" /\ \E b \in batches, changed \in BOOLEAN : Poller!Settle(b, s, changed))
  /\ \A r \in Messages : WF_commandVars(part = "commands" /\ Messaging!PollTimeout(r))

Spec == Init /\ [][Next]_vars /\ Fairness

(***************************************************************************)
(* Properties, explained in the modules of the parts.                          *)
(***************************************************************************)

(* Callbacks of the connector run in the order they were asked for, with a connected  *)
(* client; they are dropped only while it is offline, and none waits beside it when it  *)
(* is connected (mqttconnector.ts: executeActions).                              *)
CallbacksInOrder ==
  /\ Users!RunInOrderWhenConnected /\ Users!OnlyOfflineDrops
  /\ [](Users!TypeOK /\ Users!FlushedWhenConnected)

(* A callback that waits for a client does not wait for ever (connectMqtt).           *)
NobodyWaitsForEver == Users!NobodyWaitsForEver

(* A slave is marked as processing while it is read and only then; the counters of a    *)
(* batch agree with the reads that are open; and each reading is published once, or      *)
(* dropped by the connector (mqttpoller.ts: poll).                                 *)
PollerAgrees ==
  part = "poller" =>
    Poller!TypeOK /\ Poller!ProcessingMeansReading /\ Poller!CountsAgree /\ Poller!EveryReadingIsHeld

(* A poll ends, whether its read succeeds, fails or cannot start (mqttpoller.ts: poll). *)
EveryPollEnds == Poller!EveryPollEnds

(* A command that is done has published what the device had after its writes (sendCommand). *)
DoneMeansSeen == part = "commands" => Messaging!DoneMeansSeen

(* A poll requested by HTTP is answered (slaveRoutes.ts: withTimeout).               *)
PollRequestsAnswered == Messaging!PollRequestsAnswered

(* A poll publishes what was commanded before (modbus2mqtt, mqtt2modbus of converters). *)
CommandsReadBack == part = "values" => Values!CommandsReadBack

(* An entity without conflicting names has its value at its place (Slave.ts: setByPath). *)
EntitiesKeepTheirPlace == part = "payload" => StateOfSlave!EntitiesKeepTheirPlace

(* A slave is polled when the page says so (describeCron; CronSchedule.matches).        *)
FiresAsDescribed == part = "schedule" => Schedule!FiresAsDescribed
=============================================================================
