--------------------------- MODULE MqttDiscovery ---------------------------
(***************************************************************************)
(* MqttDiscovery: what Home Assistant is told about the slaves.  A retained   *)
(* message per entity announces it; an empty one withdraws it.  The messages  *)
(* are compared with those of the subscribed slave, which may be the very      *)
(* object the configuration changes, and with the payloads published last;    *)
(* they go out through the callbacks of MqttConnector, later or never.        *)
(*                                                                           *)
(* A slave is an object of the configuration.  Others hold a reference to it:  *)
(* the list of subscribed slaves and the polls under way.  Such a handle is    *)
(* Current while the object is the one in the configuration; when that is     *)
(* replaced or deleted, the handle becomes the object with its last contents. *)
(***************************************************************************)
EXTENDS Naturals, Sequences, FiniteSets, FiniteSetsExt, SequencesExt

CONSTANTS
  Slaves,      \* slave ids of the bus; all use one specification file
  Entities,    \* entity ids
  Types,       \* converters: an entity that changes it gets another topic
  Writable,    \* the types that can be written
  Payloads,    \* what a discovery message may say
  Texts,       \* Texts[v]: the entities of version v of the specification
  MaxVersion,  \* bound: how often the specification file is saved
  MaxEdits,    \* bound: changes by the user, and restarts
  MaxPending,  \* bound: callbacks that wait in the connector
  Settings, MaxClients, MaxListeners,
  NoText,      \* the payload of an empty message; an entity a version does not have
  Absent,      \* a slave id without a slave
  None,        \* no handle
  Current      \* a handle to the slave of the configuration

NoSpec == 0

VARIABLES
  mqtt,     \* the connector
  file,     \* version of the specification file
  config,   \* the slaves of the bus
  reading,  \* polls under way: the slave each of them was started with
  home,     \* MqttDiscover, MqttSubscriptions, and what the broker keeps
  lost,     \* history: slaves of which a callback was dropped, crossed another, or
            \* ended with the program, and slaves that a restart did not load
  mute,     \* history: slaves deleted while they had no command topic
  edits

vars == <<mqtt, file, config, reading, home, lost, mute, edits>>

Topics == Slaves \X Entities \X Types
Channels == {"triggerPoll", "command"}

(* assigned: specificationid is set.  Without it the object may still hold the    *)
(* contents of a specification it once had.                                  *)
Object == [spec : 0 .. MaxVersion, assigned : BOOLEAN, hidden : SUBSET Entities]
Handle == Object \cup {None, Current}

Home ==
  [subscribed : [Slaves -> Handle],                   \* subscribedSlaves
   last       : [Topics -> Payloads \cup {NoText}],   \* lastDiscoveryPayloads
   retained   : [Topics -> Payloads \cup {NoText}],   \* by the broker
   session    : SUBSET (Slaves \X Channels)]          \* topics the broker forwards

(* The callbacks given to getMqttClient.  Those that delete slaves unsubscribe  *)
(* the command topics of those among them that can be written.               *)
Message == [topic : Topics, payload : Payloads \cup {NoText}]
Callback(kind, slaves, messages, commands) ==
  [kind |-> kind, slaves |-> slaves, messages |-> messages, commands |-> commands]

DiscoveryCallbacks ==
  [kind : {"new", "update", "republish", "delete", "deleteBus"}, slaves : SUBSET Slaves,
   messages : SUBSET Message, commands : SUBSET Slaves]

Connector == INSTANCE MqttConnector WITH Callbacks <- DiscoveryCallbacks

ASSUME DiscoveryAssumption ==
  /\ IsFiniteSet(Slaves)
  /\ Writable \subseteq Types
  /\ MaxVersion \in Nat \ {0}
  /\ MaxEdits \in Nat /\ MaxPending \in Nat \ {0}
  /\ NoText \notin Payloads
  /\ \A v \in 1 .. MaxVersion :
       Texts[v] \in [Entities -> [type : Types, payload : Payloads] \cup {NoText}]
  /\ None \notin Object \cup {Absent, Current} /\ Current \notin Object /\ Absent \notin Object
  /\ Connector!ConnectorAssumption

(* The object a handle to slave s stands for.                                *)
Deref(handle, s, slaves) == IF handle = Current THEN slaves[s] ELSE handle

(* A handle to an object that leaves the configuration with contents o.        *)
Released(handle, o) == IF handle = Current THEN o ELSE handle

(* addSpecification: an object takes the contents of the specification file.    *)
AddSpecification(o) == [o EXCEPT !.spec = IF o.assigned THEN file ELSE NoSpec]

(***************************************************************************)
(* The messages of a slave.                                                 *)
(***************************************************************************)

(* Entities of an object; none without a specification.                      *)
EntitiesOf(o) ==
  IF o.spec = NoSpec THEN {} ELSE {e \in Entities : Texts[o.spec][e] # NoText}

EntityTopic(s, o, e) == <<s, e, Texts[o.spec][e].type>>

(* generateDiscoveryPayloads without what is not to be discovered.            *)
Payload(s, o) ==
  {[topic |-> EntityTopic(s, o, e), payload |-> Texts[o.spec][e].payload]
     : e \in EntitiesOf(o) \ o.hidden}

(* Topics of the subscribed slave that the new one does not have.             *)
Outdated(s, old, new, all) ==
  {EntityTopic(s, old, e) : e \in
     {d \in EntitiesOf(old) :
        all \/ d \in new.hidden \/ d \notin EntitiesOf(new)
            \/ EntityTopic(s, new, d) # EntityTopic(s, old, d)}}

DiscoveryEntities(s, old, new, all) ==
  {[topic |-> t, payload |-> NoText] : t \in Outdated(s, old, new, all)}
    \cup (IF all THEN {} ELSE Payload(s, new))

(***************************************************************************)
(* Callbacks that run.                                                      *)
(***************************************************************************)

Sent(messages, values) ==
  [t \in Topics |->
     IF \E m \in messages : m.topic = t
       THEN (CHOOSE m \in messages : m.topic = t).payload ELSE values[t]]

CanBeWritten(o) == \E e \in EntitiesOf(o) : Texts[o.spec][e].type \in Writable

Subscriptions(s, o) ==
  {<<s, "triggerPoll">>} \cup (IF CanBeWritten(o) THEN {<<s, "command">>} ELSE {})

Subscribed(h) == {s \in Slaves : h.subscribed[s] # None}

Resubscribe(h, slaves) ==
  [h EXCEPT !.session = @ \cup
     UNION {Subscriptions(s, Deref(h.subscribed[s], s, slaves)) : s \in Subscribed(h)}]

Forget(h, callback) ==
  [h EXCEPT !.subscribed = [s \in Slaves |-> IF s \in callback.slaves THEN None ELSE @[s]],
            !.session = @ \ (callback.slaves \X {"triggerPoll"}
                               \cup callback.commands \X {"command"})]

(* What to withdraw is looked up when the callback runs, not when the slave is *)
(* deleted.                                                                 *)
Withdrawn(h, s, slaves) ==
  LET o == Deref(h.subscribed[s], s, slaves)
  IN  IF h.subscribed[s] = None THEN {} ELSE DiscoveryEntities(s, o, o, TRUE)

(* Mutant: the subscriptions of a deleted slave stay.                         *)
RunKeeping(h, callback, slaves) ==
  LET sent == [h EXCEPT !.retained = Sent(callback.messages, @)]
      told == [sent EXCEPT !.last = Sent(callback.messages, @)]
  IN  CASE callback.kind = "update" -> told
        [] callback.kind = "new" -> Resubscribe(told, slaves)
        [] callback.kind = "republish" -> sent
        [] callback.kind = "delete" ->
             [h EXCEPT !.retained =
                Sent(UNION {Withdrawn(h, s, slaves) : s \in callback.slaves}, @)]
        [] callback.kind = "deleteBus" -> h

(* One callback.  The payloads count as published when a changed slave is      *)
(* announced, but not when they are withdrawn with it; deleting a bus           *)
(* withdraws nothing, since the messages it collects are thrown away.          *)
Run(h, callback, slaves) ==
  LET sent == [h EXCEPT !.retained = Sent(callback.messages, @)]
      told == [sent EXCEPT !.last = Sent(callback.messages, @)]
  IN  CASE callback.kind = "update" -> told
        [] callback.kind = "new" -> Resubscribe(told, slaves)
        [] callback.kind = "republish" -> sent
        [] callback.kind = "delete" ->
             Forget([h EXCEPT !.retained =
                       Sent(UNION {Withdrawn(h, s, slaves) : s \in callback.slaves}, @)],
                    callback)
        [] callback.kind = "deleteBus" -> Forget(h, callback)

(* Home after the connector has run callbacks, slaves being the configuration. *)
RunAll(h, callbacks, slaves) ==
  FoldLeft(LAMBDA g, callback : Run(g, callback, slaves), h, callbacks)

Dropped(callbacks) == UNION {callbacks[i].slaves : i \in DOMAIN callbacks}

(***************************************************************************)
(* Events of ConfigBus.  Each operator takes and returns the connector and     *)
(* home, since a restart announces all slaves in one step.                    *)
(***************************************************************************)

(* A slave without any message is subscribed if it is new, and nothing else.   *)
OnUpdateSlave(w, s, slaves) ==
  LET new == slaves[s]
      isNew == w.home.subscribed[s] = None
      old == IF isNew THEN new ELSE Deref(w.home.subscribed[s], s, slaves)
      messages == DiscoveryEntities(s, old, new, FALSE)
      callback == Callback(IF isNew THEN "new" ELSE "update", {s}, messages, {})
      k == Connector!GetMqttClient(w.mqtt, callback)
  IN  IF messages = {}
        THEN [w EXCEPT !.home.subscribed[s] = IF isNew THEN Current ELSE @]
        ELSE [mqtt |-> k, home |-> [w.home EXCEPT !.subscribed[s] = Current]]

(* home when the object of s leaves the configuration with contents o.         *)
Let(h, s, o) == [h EXCEPT !.subscribed[s] = Released(@, o)]

OnDeleteSlave(w, s, o) ==
  [w EXCEPT !.mqtt = Connector!GetMqttClient(@,
     Callback("delete", {s}, {}, IF CanBeWritten(o) THEN {s} ELSE {}))]

(* The subscribed slaves that have a command topic.                           *)
Commandable(h, slaves) == {s \in Subscribed(h) : CanBeWritten(Deref(h.subscribed[s], s, slaves))}

OnDeleteBus(w, slaves) ==
  [w EXCEPT !.mqtt = Connector!GetMqttClient(@,
     Callback("deleteBus", Subscribed(w.home), {}, Commandable(w.home, slaves)))]

(* Mutant: a payload is not compared with the one published last.             *)
RepublishNothing(w, s, o) == w

(* republishDiscoveryIfChanged: nothing is withdrawn.                         *)
RepublishIfChanged(w, s, o) ==
  LET changed == {m \in Payload(s, o) : w.home.last[m.topic] # m.payload}
  IN  IF changed = {} THEN w
      ELSE [home |-> [w.home EXCEPT !.last = Sent(changed, @)],
            mqtt |-> Connector!GetMqttClient(w.mqtt, Callback("republish", {s}, changed, {}))]

(* Slaves of which a republication waits behind another callback.  The payload  *)
(* it carries counted as published when it was requested, that of the other      *)
(* does when it runs: from then on the two ideas of what the broker has differ.  *)
Crossed(pending) ==
  {s \in Slaves : \E i, j \in DOMAIN pending :
     i < j /\ s \in pending[i].slaves \cap pending[j].slaves /\ pending[j].kind = "republish"}

World == [mqtt |-> Connector!Quiet, home |-> home]

(* A step ends with the callbacks that the connector has run in it.           *)
Settle(w, slaves) ==
  /\ mqtt' = w.mqtt
  /\ home' = RunAll(w.home, w.mqtt.run, slaves)
  /\ lost' = lost \cup Dropped(w.mqtt.dropped) \cup Crossed(w.mqtt.pending)
  /\ config' = slaves

(***************************************************************************)
(* Actions.                                                                 *)
(***************************************************************************)

Present == {s \in Slaves : config[s] # Absent}

(* A change by the user; the bounds are those of MaxEdits and MaxPending.      *)
Edit ==
  /\ edits < MaxEdits
  /\ Len(mqtt.pending) < MaxPending
  /\ edits' = edits + 1

(* POST /slave: a new object, with the specification or without.              *)
SaveSlave(s, assigned, hidden) ==
  /\ Edit
  /\ LET o == AddSpecification([spec |-> NoSpec, assigned |-> assigned, hidden |-> hidden])
         slaves == [config EXCEPT ![s] = o]
         w == [World EXCEPT !.home = Let(@, s, config[s])]
     IN  Settle(IF assigned THEN OnUpdateSlave(w, s, slaves) ELSE w, slaves)
  /\ reading' = [reading EXCEPT ![s] = Released(@, config[s])]
  /\ UNCHANGED <<file, mute>>

(* POST /specification for a slave: its object gets the new contents.          *)
SaveSpecification(s) ==
  /\ Edit
  /\ s \in Present
  /\ file < MaxVersion
  /\ file' = file + 1
  /\ LET slaves == [config EXCEPT ![s].spec = file + 1, ![s].assigned = TRUE]
     IN  Settle(OnUpdateSlave(World, s, slaves), slaves)
  /\ UNCHANGED <<reading, mute>>

(* The same for a slave that does not exist or is on another bus.             *)
SaveSpecificationElsewhere ==
  /\ Edit
  /\ file < MaxVersion
  /\ file' = file + 1
  /\ Settle(World, config)
  /\ UNCHANGED <<reading, mute>>

(* DELETE /specification, of which the public copy stays: the slaves lose the    *)
(* name but their objects keep the contents, and no event tells of that.        *)
DeleteSpecification ==
  /\ Edit
  /\ Settle(World, [s \in Slaves |->
                      IF s \in Present THEN [config[s] EXCEPT !.assigned = FALSE] ELSE Absent])
  /\ UNCHANGED <<file, reading, mute>>

DeleteSlave(s) ==
  /\ Edit
  /\ s \in Present
  /\ LET o == AddSpecification(config[s])
     IN  /\ Settle(OnDeleteSlave([World EXCEPT !.home = Let(@, s, o)], s, o),
                   [config EXCEPT ![s] = Absent])
         /\ reading' = [reading EXCEPT ![s] = Released(@, o)]
         /\ mute' = IF CanBeWritten(o) THEN mute ELSE mute \cup {s}
  /\ UNCHANGED file

DeleteBus ==
  /\ Edit
  /\ Present # {}
  /\ LET w == OnDeleteBus(World, config)
         released == [w.home EXCEPT !.subscribed = [s \in Slaves |-> Released(@[s], config[s])]]
     IN  Settle([w EXCEPT !.home = released], [s \in Slaves |-> Absent])
  /\ reading' = [s \in Slaves |-> Released(reading[s], config[s])]
  /\ mute' = mute \cup (Subscribed(home) \ Commandable(home, config))
  /\ UNCHANGED file

(* The program restarts: what the broker keeps is all that survives.  readBusses *)
(* announces every slave it finds, those without a specification excepted.      *)
(* What had been lost of a slave that is there is made up for; a deletion still  *)
(* pending never happens.                                                    *)
Restart ==
  /\ Edit
  /\ LET found == {s \in Present : config[s].assigned}
         slaves == [s \in Slaves |-> IF s \in found THEN AddSpecification(config[s])
                                   ELSE Absent]
         fresh == [mqtt |-> [Connector!Quiet EXCEPT !.client = Connector!NoClient, !.pending = <<>>,
                       !.clients = [c \in Connector!Clients |->
                          [live |-> FALSE, connected |-> FALSE,
                           settings |-> mqtt.settings, listeners |-> 0]]],
                   home |-> [home EXCEPT !.subscribed = [s \in Slaves |-> None],
                                         !.last = [t \in Topics |-> NoText]]]
         w == FoldSet(LAMBDA s, v : OnUpdateSlave(v, s, slaves), fresh,
                      found)
     IN  /\ mqtt' = w.mqtt
         /\ home' = w.home
         /\ config' = slaves
         /\ lost' = (lost \cup Dropped(mqtt.pending) \cup Present) \ found
  /\ reading' = [s \in Slaves |-> None]
  /\ UNCHANGED <<file, mute>>

(* A read of the slave gives its object the specification file's contents.     *)
GetSlave(s) ==
  /\ s \in Present
  /\ config[s].assigned
  /\ config[s].spec # file
  /\ Settle(World, [config EXCEPT ![s] = AddSpecification(@)])
  /\ UNCHANGED <<file, reading, mute, edits>>

PollStarts(s) ==
  /\ s \in Present
  /\ reading[s] = None
  /\ config[s].assigned
  /\ reading' = [reading EXCEPT ![s] = Current]
  /\ Settle(World, [config EXCEPT ![s] = AddSpecification(@)])
  /\ UNCHANGED <<file, mute, edits>>

(* The registers of the slave have been read.                                *)
PollEnds(s) ==
  /\ reading[s] # None
  /\ Len(mqtt.pending) < MaxPending
  /\ reading' = [reading EXCEPT ![s] = None]
  /\ Settle(RepublishIfChanged(World, s, Deref(reading[s], s, config)), config)
  /\ UNCHANGED <<file, mute, edits>>

(* Before the callbacks run, a connected client gets all subscriptions.        *)
MqttEvent ==
  /\ Connector!ConnectorEvent
  /\ LET connects == ~Connector!IsConnected(mqtt) /\ Connector!IsConnected(mqtt')
         h == IF connects THEN Resubscribe(home, config) ELSE home
     IN  home' = RunAll(h, mqtt'.run, config)
  /\ lost' = lost \cup Dropped(mqtt'.dropped)
  /\ UNCHANGED <<file, config, reading, mute, edits>>

Init ==
  /\ Connector!Init
  /\ file = 1
  /\ config = [s \in Slaves |-> Absent]
  /\ reading = [s \in Slaves |-> None]
  /\ home = [subscribed |-> [s \in Slaves |-> None],
             last       |-> [t \in Topics |-> NoText],
             retained   |-> [t \in Topics |-> NoText],
             session    |-> {}]
  /\ lost = {}
  /\ mute = {}
  /\ edits = 0

Next ==
  \/ \E s \in Slaves :
       \/ \E assigned \in BOOLEAN, hidden \in SUBSET Entities : SaveSlave(s, assigned, hidden)
       \/ SaveSpecification(s) \/ DeleteSlave(s)
       \/ GetSlave(s) \/ PollStarts(s) \/ PollEnds(s)
  \/ SaveSpecificationElsewhere
  \/ DeleteSpecification
  \/ DeleteBus
  \/ Restart
  \/ MqttEvent

Spec == Init /\ [][Next]_vars

(* The broker can be reached, slaves are polled again and again, and a poll    *)
(* ends (EveryPollEnds of MqttPoller).  The user need not do anything.         *)
FairSpec ==
  /\ Spec
  /\ WF_vars(MqttEvent /\ Connector!IsConnected(mqtt'))
  /\ \A s \in Slaves : WF_vars(PollStarts(s)) /\ WF_vars(PollEnds(s))

(***************************************************************************)
(* Properties.                                                              *)
(***************************************************************************)

Pending(s) == \E i \in DOMAIN mqtt.pending : s \in mqtt.pending[i].slaves

(* A slave that is gone leaves nothing behind but what was lost: once its       *)
(* deletion has been carried out, and unless it was added again meanwhile, the  *)
(* program does not resubscribe it, its polls are not triggered, and it is sent  *)
(* commands only if one of its deletions found no command topic                *)
(* (MqttSubscriptions.deleteSubscribedSlave).                                *)
NoStraySubscription ==
  \A s \in Slaves \ Present :
    ~Pending(s) /\ s \notin lost =>
      /\ home.subscribed[s] = None
      /\ <<s, "triggerPoll">> \notin home.session
      /\ s \notin mute => <<s, "command">> \notin home.session

(* A slave that stays as it is is announced in the end: whatever happened       *)
(* before, polls in the middle of changes, restarts and deletions included, each *)
(* of its entities has its discovery at the broker, unless the connector has     *)
(* dropped a callback of the slave.                                          *)
Announced(s) ==
  s \in Present /\ config[s].assigned =>
    \A m \in Payload(s, config[s]) : home.retained[m.topic] = m.payload

EventuallyAnnounced == \A s \in Slaves : <>[](Announced(s) \/ s \in lost)

(* "Bus deleted: nothing to do, but delete discovery": when the callback has    *)
(* run, the broker retains nothing of the bus.                                 *)
BusDeletionWithdraws ==
  (\A s \in Slaves : config[s] = Absent /\ home.subscribed[s] = None /\ s \notin lost)
    => \A t \in Topics : home.retained[t] = NoText
=============================================================================
