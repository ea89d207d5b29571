------------------------- MODULE MqttDiscoveryProofs -------------------------
(***************************************************************************)
(* Proofs about MqttDiscovery: of a slave that is gone nothing stays behind.  The     *)
(* first part is about the connector, which runs or loses callbacks; the second about *)
(* what callbacks do to the subscriptions, one and in a row; then come the events,    *)
(* the end of a step, and the actions.                                            *)
(***************************************************************************)
EXTENDS MqttDiscovery, FiniteSetTheorems, SequenceTheorems, FoldProofs, TLAPS

(***************************************************************************)
(* Types.                                                                  *)
(***************************************************************************)

(* Nobody changes the broker here, so that no client is ever ended.               *)
Connectors ==
  [settings : Settings, client : Connector!Clients \cup {Connector!NoClient},
   clients : [Connector!Clients -> Connector!ClientState], ends : {<<>>},
   pending : Seq(DiscoveryCallbacks), run : Seq(DiscoveryCallbacks),
   dropped : Seq(DiscoveryCallbacks)]

Sound(k) ==
  /\ k \in Connectors
  /\ k.client = Connector!NoClient => \A c \in Connector!Clients : ~k.clients[c].live
  /\ k.client # Connector!NoClient => k.clients[k.client].settings = k.settings

Configs == [Slaves -> Object \cup {Absent}]

(* Whoever has a handle to the slave of the configuration has one that is there.       *)
Held(handles, slaves) ==
  /\ handles \in [Slaves -> Handle]
  /\ \A s \in Slaves : handles[s] = Current => slaves[s] # Absent

HomeFits(h, slaves) == h \in Home /\ Held(h.subscribed, slaves)

(***************************************************************************)
(* The invariant: who is not subscribed gets no messages, and a slave that is gone is *)
(* not subscribed or will be forgotten by a callback that waits.  For commands, each     *)
(* such callback has to know of the command topic.                               *)
(***************************************************************************)

Forgets(callback, s) == s \in callback.slaves /\ callback.kind \in {"delete", "deleteBus"}

Forgotten(q, s) == \E i \in DOMAIN q : Forgets(q[i], s)

Silent(h, s) == h.subscribed[s] = None => <<s, "triggerPoll">> \notin h.session

Hushed(h, s) == h.subscribed[s] = None => <<s, "command">> \notin h.session

Addressed(q, s) == \A i \in DOMAIN q : Forgets(q[i], s) => s \in q[i].commands

Withdraws(s) ==
  config[s] = Absent => home.subscribed[s] = None \/ Forgotten(mqtt.pending, s)

IInv ==
  /\ Sound(mqtt)
  /\ file \in 1 .. MaxVersion
  /\ config \in Configs
  /\ Held(reading, config)
  /\ HomeFits(home, config)
  /\ \A s \in Slaves \ lost : Silent(home, s) /\ Withdraws(s)
  /\ \A s \in Slaves \ (lost \cup mute) : Hushed(home, s) /\ Addressed(mqtt.pending, s)

LEMMA Values ==
  /\ None # Current /\ None \notin Object /\ None # Absent
  /\ Current \notin Object /\ Absent \notin Object
BY DiscoveryAssumption

(***************************************************************************)
(* The messages of a slave are messages.                                        *)
(***************************************************************************)

LEMMA EntitiesHaveText ==
  ASSUME NEW o \in Object, NEW e \in EntitiesOf(o)
  PROVE  /\ e \in Entities /\ Texts[o.spec][e].type \in Types
         /\ Texts[o.spec][e].payload \in Payloads
<1>1. o.spec \in 1 .. MaxVersion /\ e \in Entities /\ Texts[o.spec][e] # NoText
  BY DiscoveryAssumption DEF EntitiesOf, Object, NoSpec
<1>2. Texts[o.spec] \in [Entities -> [type : Types, payload : Payloads] \cup {NoText}]
  BY <1>1, DiscoveryAssumption
<1>3. Texts[o.spec][e] \in [type : Types, payload : Payloads]
  BY <1>1, <1>2
<1> QED BY <1>1, <1>3

LEMMA TopicsOfEntities ==
  ASSUME NEW s \in Slaves, NEW o \in Object, NEW e \in EntitiesOf(o)
  PROVE  EntityTopic(s, o, e) \in Topics
BY EntitiesHaveText DEF EntityTopic, Topics

LEMMA PayloadsAreMessages ==
  ASSUME NEW s \in Slaves, NEW o \in Object
  PROVE  Payload(s, o) \in SUBSET Message
BY EntitiesHaveText, TopicsOfEntities DEF Payload, Message

LEMMA DiscoveryMessages ==
  ASSUME NEW s \in Slaves, NEW old \in Object, NEW new \in Object, NEW all \in BOOLEAN
  PROVE  DiscoveryEntities(s, old, new, all) \in SUBSET Message
<1>1. Outdated(s, old, new, all) \in SUBSET Topics
  BY TopicsOfEntities DEF Outdated
<1>2. {[topic |-> t, payload |-> NoText] : t \in Outdated(s, old, new, all)} \in SUBSET Message
  BY <1>1 DEF Message
<1> QED BY <1>2, PayloadsAreMessages DEF DiscoveryEntities

LEMMA SentIsTyped ==
  ASSUME NEW messages \in SUBSET Message, NEW values \in [Topics -> Payloads \cup {NoText}]
  PROVE  Sent(messages, values) \in [Topics -> Payloads \cup {NoText}]
<1>1. ASSUME NEW t \in Topics, \E m \in messages : m.topic = t
      PROVE  (CHOOSE m \in messages : m.topic = t).payload \in Payloads \cup {NoText}
  <2>1. (CHOOSE m \in messages : m.topic = t) \in messages
    BY <1>1
  <2> QED BY <2>1 DEF Message
<1> QED BY <1>1 DEF Sent

LEMMA Contents ==
  ASSUME NEW s \in Slaves, NEW slaves \in Configs, NEW handle \in Handle,
         handle # None, handle = Current => slaves[s] # Absent
  PROVE  Deref(handle, s, slaves) \in Object
BY Values DEF Deref, Handle, Configs

LEMMA AddedIsObject ==
  ASSUME NEW o \in Object, file \in 1 .. MaxVersion
  PROVE  AddSpecification(o) \in Object /\ AddSpecification(o).hidden = o.hidden
BY DiscoveryAssumption DEF AddSpecification, Object, NoSpec

(***************************************************************************)
(* The connector: a callback waits, runs or is dropped.                          *)
(***************************************************************************)

(* l is k after a callback was requested, or several of them.                      *)
Keeps(k, l) ==
  /\ Sound(l) /\ l.dropped = k.dropped
  /\ \A s \in Slaves :
       Forgotten(k.pending, s) \/ Forgotten(k.run, s)
         => Forgotten(l.pending, s) \/ Forgotten(l.run, s)

(* So it is for callbacks that address the slaves they forget.                      *)
Addresses(k, l) ==
  \A s \in Slaves :
    Addressed(k.pending, s) /\ Addressed(k.run, s) => Addressed(l.pending, s) /\ Addressed(l.run, s)

LEMMA CreatedKeeps ==
  ASSUME NEW k, Sound(k), k.client = Connector!NoClient, NEW r, r = Connector!Created(k, k.settings)
  PROVE  /\ Sound(r) /\ r.pending = k.pending /\ r.run = k.run /\ r.dropped = k.dropped
         /\ r.ends = k.ends
<1> DEFINE d == CHOOSE c \in Connector!Free(k) : TRUE
           new == [live |-> TRUE, connected |-> FALSE, settings |-> k.settings, listeners |-> 1]
<1>1. k \in Connectors /\ k.ends = <<>>
  BY DEF Sound, Connectors
<1>2. 1 \in Connector!Free(k)
  BY <1>1, DiscoveryAssumption
     DEF Sound, Connector!Free, Connector!Clients, Connector!ConnectorAssumption
<1>3. d \in Connector!Clients
  BY <1>2 DEF Connector!Free
<1>4. new \in Connector!ClientState
  BY <1>1, DiscoveryAssumption DEF Connectors, Connector!ClientState, Connector!ConnectorAssumption
<1>5. r = [k EXCEPT !.client = d, !.clients[d] = new]
  BY DEF Connector!Created
<1>6. new.settings = k.settings
  OBVIOUS
<1> HIDE DEF d, new
<1>7. d # Connector!NoClient
  BY <1>3, DiscoveryAssumption DEF Connector!Clients, Connector!NoClient, Connector!ConnectorAssumption
<1> DEFINE others == [k.clients EXCEPT ![d] = new]
<1>8. others \in [Connector!Clients -> Connector!ClientState] /\ others[d] = new
  BY <1>1, <1>3, <1>4 DEF Connectors
<1>9. r = [k EXCEPT !.client = d, !.clients = others]
  BY <1>5
<1> HIDE DEF others
<1>10. /\ r \in Connectors /\ r.client = d /\ r.clients = others /\ r.settings = k.settings
       /\ r.pending = k.pending /\ r.run = k.run /\ r.dropped = k.dropped /\ r.ends = k.ends
  BY <1>1, <1>3, <1>8, <1>9 DEF Connectors
<1> QED BY <1>6, <1>7, <1>8, <1>10 DEF Sound

LEMMA ExecuteActionsRuns ==
  ASSUME NEW k, Sound(k), Connector!IsConnected(k), NEW r, r = Connector!ExecuteActions(k)
  PROVE  /\ Sound(r) /\ r.pending = <<>> /\ r.run = k.run \o k.pending /\ r.dropped = k.dropped
<1>1. k \in Connectors /\ k.run \in Seq(DiscoveryCallbacks) /\ k.pending \in Seq(DiscoveryCallbacks)
  BY DEF Sound, Connectors
<1>2. CASE k.pending = <<>>
  <2>1. r = k
    BY <1>2 DEF Connector!ExecuteActions
  <2>2. k.run = k.run \o k.pending
    BY <1>1, <1>2
  <2> QED BY <1>2, <2>1, <2>2
<1>3. CASE k.pending # <<>>
  <2> DEFINE all == k.run \o k.pending
             none == <<>>
  <2>1. all \in Seq(DiscoveryCallbacks) /\ none \in Seq(DiscoveryCallbacks)
    BY <1>1
  <2>2. r = [k EXCEPT !.run = all, !.pending = none]
    BY <1>3 DEF Connector!ExecuteActions
  <2> HIDE DEF all, none
  <2>3. /\ r \in Connectors /\ r.client = k.client /\ r.clients = k.clients
        /\ r.settings = k.settings /\ r.run = all /\ r.pending = none /\ r.dropped = k.dropped
    BY <1>1, <2>1, <2>2 DEF Connectors
  <2> QED BY <2>3 DEF Sound, all, none
<1> QED BY <1>2, <1>3

(* What a new listener leaves as it is.                                           *)
LEMMA ReconnectedKeeps ==
  ASSUME NEW k, Sound(k), k.client # Connector!NoClient, NEW r, r = Connector!Reconnected(k)
  PROVE  Sound(r) /\ r.pending = k.pending /\ r.run = k.run /\ r.dropped = k.dropped
<1> DEFINE c == k.clients[k.client]
           more == [c EXCEPT !.listeners = IF @ < MaxListeners THEN @ + 1 ELSE @]
           others == [k.clients EXCEPT ![k.client] = more]
<1>1. /\ k \in Connectors /\ c \in Connector!ClientState /\ k.client \in Connector!Clients
      /\ k.clients \in [Connector!Clients -> Connector!ClientState]
  BY DEF Sound, Connectors
<1>2. more \in Connector!ClientState /\ more.settings = c.settings
  BY <1>1, DiscoveryAssumption DEF Connector!ClientState, Connector!ConnectorAssumption
<1>3. r = [k EXCEPT !.clients = others]
  BY DEF Connector!Reconnected
<1> HIDE DEF more
<1>4. others \in [Connector!Clients -> Connector!ClientState] /\ others[k.client] = more
  BY <1>1, <1>2
<1> HIDE DEF others
<1>5. /\ r \in Connectors /\ r.client = k.client /\ r.clients = others /\ r.settings = k.settings
      /\ r.pending = k.pending /\ r.run = k.run /\ r.dropped = k.dropped
  BY <1>1, <1>3, <1>4 DEF Connectors
<1> QED BY <1>2, <1>4, <1>5 DEF Sound

LEMMA ForgottenByAppending ==
  ASSUME NEW q \in Seq(DiscoveryCallbacks), NEW callback \in DiscoveryCallbacks, NEW s
  PROVE  Forgotten(Append(q, callback), s) <=> Forgotten(q, s) \/ Forgets(callback, s)
<1> DEFINE p == Append(q, callback)
<1>1. /\ DOMAIN q = 1 .. Len(q) /\ DOMAIN p = 1 .. Len(q) + 1 /\ Len(q) \in Nat
      /\ p[Len(q) + 1] = callback /\ \A i \in 1 .. Len(q) : p[i] = q[i]
  OBVIOUS
<1> HIDE DEF p
<1>2. Forgotten(p, s) <=> Forgotten(q, s) \/ Forgets(callback, s)
  BY <1>1 DEF Forgotten
<1> QED BY <1>2 DEF p

LEMMA ForgottenByEither ==
  ASSUME NEW q \in Seq(DiscoveryCallbacks), NEW r \in Seq(DiscoveryCallbacks), NEW s
  PROVE  Forgotten(q \o r, s) <=> Forgotten(q, s) \/ Forgotten(r, s)
<1> DEFINE p == q \o r
<1>1. /\ p \in Seq(DiscoveryCallbacks) /\ Len(p) = Len(q) + Len(r)
      /\ \A i \in 1 .. Len(q) + Len(r) : p[i] = IF i <= Len(q) THEN q[i] ELSE r[i - Len(q)]
  BY ConcatProperties
<1>2. /\ DOMAIN q = 1 .. Len(q) /\ DOMAIN r = 1 .. Len(r) /\ Len(q) \in Nat /\ Len(r) \in Nat
  OBVIOUS
<1>0. DOMAIN p = 1 .. Len(q) + Len(r)
  BY <1>1
<1> HIDE DEF p
<1>3. ASSUME Forgotten(q, s) PROVE Forgotten(p, s)
  BY <1>0, <1>1, <1>2, <1>3 DEF Forgotten
<1>4. ASSUME Forgotten(r, s) PROVE Forgotten(p, s)
  <2>1. PICK i \in 1 .. Len(r) : Forgets(r[i], s)
    BY <1>2, <1>4 DEF Forgotten
  <2>2. i + Len(q) \in 1 .. Len(q) + Len(r) /\ ~(i + Len(q) <= Len(q)) /\ (i + Len(q)) - Len(q) = i
    BY <1>2
  <2>3. p[i + Len(q)] = r[i]
    BY <1>1, <2>2
  <2> QED BY <1>0, <2>1, <2>2, <2>3 DEF Forgotten
<1>5. ASSUME Forgotten(p, s) PROVE Forgotten(q, s) \/ Forgotten(r, s)
  <2>1. PICK i \in 1 .. Len(q) + Len(r) : Forgets(p[i], s)
    BY <1>0, <1>5 DEF Forgotten
  <2>2. CASE i <= Len(q)
    BY <1>1, <1>2, <2>1, <2>2 DEF Forgotten
  <2>3. CASE ~(i <= Len(q))
    <3>1. i - Len(q) \in 1 .. Len(r) /\ p[i] = r[i - Len(q)]
      BY <1>1, <1>2, <2>3
    <3> QED BY <1>2, <2>1, <3>1 DEF Forgotten
  <2> QED BY <2>2, <2>3
<1> QED BY <1>3, <1>4, <1>5 DEF p

LEMMA AddressedByEither ==
  ASSUME NEW q \in Seq(DiscoveryCallbacks), NEW r \in Seq(DiscoveryCallbacks), NEW s,
         Addressed(q, s), Addressed(r, s)
  PROVE  Addressed(q \o r, s)
<1> DEFINE p == q \o r
<1>1. /\ p \in Seq(DiscoveryCallbacks) /\ Len(p) = Len(q) + Len(r)
      /\ \A i \in 1 .. Len(q) + Len(r) : p[i] = IF i <= Len(q) THEN q[i] ELSE r[i - Len(q)]
  BY ConcatProperties
<1>2. /\ DOMAIN q = 1 .. Len(q) /\ DOMAIN r = 1 .. Len(r) /\ Len(q) \in Nat /\ Len(r) \in Nat
      /\ DOMAIN p = 1 .. Len(q) + Len(r)
  BY <1>1
<1> HIDE DEF p
<1>3. ASSUME NEW i \in 1 .. Len(q) + Len(r) PROVE Forgets(p[i], s) => s \in p[i].commands
  <2>1. CASE i <= Len(q)
    BY <1>1, <1>2, <2>1 DEF Addressed
  <2>2. CASE ~(i <= Len(q))
    <3>1. i - Len(q) \in 1 .. Len(r) /\ p[i] = r[i - Len(q)]
      BY <1>1, <1>2, <2>2
    <3> QED BY <1>2, <3>1 DEF Addressed
  <2> QED BY <2>1, <2>2
<1> QED BY <1>2, <1>3 DEF Addressed, p

LEMMA AddressedByAppending ==
  ASSUME NEW q \in Seq(DiscoveryCallbacks), NEW callback \in DiscoveryCallbacks, NEW s,
         Addressed(q, s), Forgets(callback, s) => s \in callback.commands
  PROVE  Addressed(Append(q, callback), s)
<1> DEFINE p == Append(q, callback)
<1>1. /\ DOMAIN q = 1 .. Len(q) /\ DOMAIN p = 1 .. Len(q) + 1 /\ Len(q) \in Nat
      /\ p[Len(q) + 1] = callback /\ \A i \in 1 .. Len(q) : p[i] = q[i]
  OBVIOUS
<1> HIDE DEF p
<1>2. Addressed(p, s)
  BY <1>1 DEF Addressed
<1> QED BY <1>2 DEF p

LEMMA RequestKeeps ==
  ASSUME NEW k, Sound(k), NEW callback \in DiscoveryCallbacks,
         NEW r, r = Connector!GetMqttClient(k, callback)
  PROVE  /\ Keeps(k, r)
         /\ \A s \in Slaves : Forgets(callback, s) => Forgotten(r.pending, s) \/ Forgotten(r.run, s)
         /\ \A s \in Slaves :
              /\ Addressed(k.pending, s) /\ Addressed(k.run, s)
              /\ Forgets(callback, s) => s \in callback.commands
              => Addressed(r.pending, s) /\ Addressed(r.run, s)
<1> DEFINE asked == Append(k.pending, callback)
           l == [k EXCEPT !.pending = asked]
<1>1. k \in Connectors /\ k.pending \in Seq(DiscoveryCallbacks) /\ k.run \in Seq(DiscoveryCallbacks)
  BY DEF Sound, Connectors
<1>2. r = Connector!ConnectMqtt(l)
  BY DEF Connector!GetMqttClient
<1>3. asked \in Seq(DiscoveryCallbacks)
  BY <1>1
<1>4. \A s \in Slaves : Forgotten(asked, s) <=> Forgotten(k.pending, s) \/ Forgets(callback, s)
  BY <1>1, ForgottenByAppending
<1>0. ASSUME NEW s \in Slaves, Addressed(k.pending, s), Forgets(callback, s) => s \in callback.commands
      PROVE  Addressed(asked, s)
  BY <1>0, <1>1, AddressedByAppending
<1> HIDE DEF asked
<1>5. /\ l \in Connectors /\ l.client = k.client /\ l.clients = k.clients /\ l.settings = k.settings
      /\ l.pending = asked /\ l.run = k.run /\ l.dropped = k.dropped
  BY <1>1, <1>3 DEF Connectors
<1> HIDE DEF l
<1>6. Sound(l)
  BY <1>5 DEF Sound
<1>7. SUFFICES /\ Sound(r) /\ r.dropped = l.dropped
               /\ \/ r.pending = asked /\ r.run = l.run
                  \/ r.pending = <<>> /\ r.run = l.run \o asked
  <2>1. CASE r.pending = asked /\ r.run = l.run
    BY <1>0, <1>4, <1>5, <1>7, <2>1 DEF Keeps
  <2>2. CASE r.pending = <<>> /\ r.run = l.run \o asked
    <3>1. \A s \in Slaves : Forgotten(r.run, s) <=> Forgotten(k.run, s) \/ Forgotten(asked, s)
      BY <1>1, <1>3, <1>5, <2>2, ForgottenByEither
    <3>2. ASSUME NEW s \in Slaves, Addressed(k.run, s), Addressed(asked, s)
          PROVE  Addressed(r.pending, s) /\ Addressed(r.run, s)
      <4>1. Addressed(r.run, s)
        BY <1>1, <1>3, <1>5, <2>2, <3>2, AddressedByEither
      <4>2. Addressed(r.pending, s)
        BY <2>2 DEF Addressed
      <4> QED BY <4>1, <4>2
    <3> QED BY <1>0, <1>4, <1>5, <1>7, <3>1, <3>2 DEF Keeps
  <2> QED BY <1>7, <2>1, <2>2
<1>8. CASE l.client = Connector!NoClient
  <2>1. r = Connector!Created(l, l.settings)
    BY <1>2, <1>8 DEF Connector!ConnectMqtt
  <2> QED BY <1>5, <1>6, <1>8, <2>1, CreatedKeeps
<1>9. CASE l.client # Connector!NoClient /\ Connector!IsConnected(l)
  <2>1. r = Connector!ExecuteActions(l)
    BY <1>2, <1>6, <1>9 DEF Connector!ConnectMqtt, Sound
  <2> QED BY <1>5, <1>6, <1>9, <2>1, ExecuteActionsRuns
<1>10. CASE l.client # Connector!NoClient /\ ~Connector!IsConnected(l)
  <2>1. r = Connector!Reconnected(l)
    BY <1>2, <1>6, <1>10 DEF Connector!ConnectMqtt, Sound
  <2> QED BY <1>5, <1>6, <1>10, <2>1, ReconnectedKeeps
<1> QED BY <1>8, <1>9, <1>10

LEMMA QuietKeeps ==
  ASSUME Sound(mqtt), NEW k, k = Connector!Quiet
  PROVE  /\ Sound(k) /\ k.pending = mqtt.pending /\ k.run = <<>> /\ k.dropped = <<>>
         /\ k.client = mqtt.client /\ k.clients = mqtt.clients /\ k.settings = mqtt.settings
         /\ k.ends = mqtt.ends
<1> DEFINE none == <<>>
<1>1. none \in Seq(DiscoveryCallbacks) /\ mqtt \in Connectors
  BY DEF Sound
<1>2. k = [mqtt EXCEPT !.run = none, !.dropped = none]
  BY DEF Connector!Quiet
<1> HIDE DEF none
<1>3. /\ k \in Connectors /\ k.pending = mqtt.pending /\ k.run = none /\ k.dropped = none
      /\ k.client = mqtt.client /\ k.clients = mqtt.clients /\ k.settings = mqtt.settings
      /\ k.ends = mqtt.ends
  BY <1>1, <1>2 DEF Connectors
<1> QED BY <1>3 DEF Sound, none

LEMMA ForgottenIsDropped ==
  ASSUME NEW q, NEW s, Forgotten(q, s)
  PROVE  s \in Dropped(q)
BY DEF Forgotten, Forgets, Dropped

LEMMA ForgottenInPart ==
  ASSUME NEW q \in Seq(DiscoveryCallbacks), NEW n \in 0 .. Len(q), NEW s, Forgotten(q, s)
  PROVE  Forgotten(SubSeq(q, 1, n), s) \/ Forgotten(SubSeq(q, n + 1, Len(q)), s)
<1> DEFINE gone == SubSeq(q, 1, n)
           rest == SubSeq(q, n + 1, Len(q))
<1>1. Len(q) \in Nat /\ DOMAIN q = 1 .. Len(q) /\ n \in Nat
  OBVIOUS
<1>2. DOMAIN gone = 1 .. n /\ \A i \in 1 .. n : gone[i] = q[i]
  OBVIOUS
<1>3. DOMAIN rest = 1 .. Len(q) - n /\ \A i \in 1 .. Len(q) - n : rest[i] = q[n + i]
  OBVIOUS
<1> HIDE DEF gone, rest
<1> SUFFICES Forgotten(gone, s) \/ Forgotten(rest, s)
  BY DEF gone, rest
<1>4. PICK i \in 1 .. Len(q) : Forgets(q[i], s)
  BY <1>1 DEF Forgotten
<1>5. CASE i <= n
  BY <1>1, <1>2, <1>4, <1>5 DEF Forgotten
<1>6. CASE ~(i <= n)
  <2>1. i - n \in 1 .. Len(q) - n /\ n + (i - n) = i
    BY <1>1, <1>6
  <2>2. rest[i - n] = q[i]
    BY <1>3, <2>1
  <2> QED BY <1>3, <1>4, <2>1, <2>2 DEF Forgotten
<1> QED BY <1>5, <1>6

LEMMA AddressedInPart ==
  ASSUME NEW q \in Seq(DiscoveryCallbacks), NEW n \in 0 .. Len(q), NEW s, Addressed(q, s)
  PROVE  Addressed(SubSeq(q, n + 1, Len(q)), s)
<1> DEFINE rest == SubSeq(q, n + 1, Len(q))
<1>1. Len(q) \in Nat /\ DOMAIN q = 1 .. Len(q) /\ n \in Nat
  OBVIOUS
<1>2. DOMAIN rest = 1 .. Len(q) - n /\ \A i \in 1 .. Len(q) - n : rest[i] = q[n + i]
  OBVIOUS
<1> HIDE DEF rest
<1>3. \A i \in 1 .. Len(q) - n : n + i \in 1 .. Len(q)
  BY <1>1
<1>4. Addressed(rest, s)
  BY <1>1, <1>2, <1>3 DEF Addressed
<1> QED BY <1>4 DEF rest

(* Whatever an event does to a callback that waits, it still waits, runs or is dropped.   *)
Passes(k, r) ==
  /\ Sound(r)
  /\ \A s \in Slaves :
       Forgotten(k.pending, s)
         => Forgotten(r.pending, s) \/ Forgotten(r.run, s) \/ s \in Dropped(r.dropped)
  /\ \A s \in Slaves :
       Addressed(k.pending, s) => Addressed(r.pending, s) /\ Addressed(r.run, s)

LEMMA DroppedPasses ==
  ASSUME NEW k, Sound(k), k.run = <<>>, k.dropped = <<>>, NEW n \in 0 .. Len(k.pending), NEW r,
         r = [k EXCEPT !.dropped = SubSeq(k.pending, 1, n),
                       !.pending = SubSeq(k.pending, n + 1, Len(k.pending))]
  PROVE  Passes(k, r)
<1> DEFINE gone == SubSeq(k.pending, 1, n)
           rest == SubSeq(k.pending, n + 1, Len(k.pending))
<1>1. k \in Connectors /\ k.pending \in Seq(DiscoveryCallbacks)
  BY DEF Sound, Connectors
<1>2. gone \in Seq(DiscoveryCallbacks) /\ rest \in Seq(DiscoveryCallbacks)
  BY <1>1, SubSeqProperties
<1>3. \A s \in Slaves : Forgotten(k.pending, s) => Forgotten(rest, s) \/ s \in Dropped(gone)
  BY <1>1, ForgottenInPart, ForgottenIsDropped
<1>0. \A s \in Slaves : Addressed(k.pending, s) => Addressed(rest, s) /\ Addressed(k.run, s)
  <2>1. ASSUME NEW s \in Slaves, Addressed(k.pending, s) PROVE Addressed(rest, s)
    BY <1>1, <2>1, AddressedInPart
  <2>2. \A s : Addressed(k.run, s)
    BY DEF Addressed
  <2> QED BY <2>1, <2>2
<1>4. r = [k EXCEPT !.dropped = gone, !.pending = rest]
  OBVIOUS
<1> HIDE DEF gone, rest
<1>5. /\ r \in Connectors /\ r.client = k.client /\ r.clients = k.clients /\ r.settings = k.settings
      /\ r.pending = rest /\ r.run = k.run /\ r.dropped = gone
  BY <1>1, <1>2, <1>4 DEF Connectors
<1> QED BY <1>0, <1>3, <1>5 DEF Passes, Sound

LEMMA ExecuteActionsPasses ==
  ASSUME NEW k, Sound(k), k.run = <<>>, k.dropped = <<>>, NEW r, r = Connector!ExecuteActions(k)
  PROVE  Passes(k, r)
<1>1. k \in Connectors /\ k.pending \in Seq(DiscoveryCallbacks) /\ Len(k.pending) \in Nat
  BY DEF Sound, Connectors
<1>2. CASE k.pending = <<>>
  <2>1. r = k
    BY <1>2 DEF Connector!ExecuteActions
  <2> QED BY <2>1 DEF Passes, Addressed
<1>3. CASE Connector!IsConnected(k)
  <2>1. Sound(r) /\ r.run = k.run \o k.pending /\ r.pending = <<>>
    BY <1>3, ExecuteActionsRuns
  <2>2. r.run = k.pending
    BY <1>1, <2>1
  <2>3. \A s : Addressed(r.pending, s)
    BY <2>1 DEF Addressed
  <2> QED BY <2>1, <2>2, <2>3 DEF Passes
<1>4. CASE k.pending # <<>> /\ ~Connector!IsConnected(k)
  <2> DEFINE q == k.pending
  <2>0. q \in Seq(DiscoveryCallbacks) /\ q # <<>> /\ Len(q) \in Nat
    BY <1>1, <1>4
  <2> HIDE DEF q
  <2>1. Append(<<>>, Head(q)) = SubSeq(q, 1, 1) /\ Tail(q) = SubSeq(q, 1 + 1, Len(q)) /\ 1 \in 0 .. Len(q)
    BY <2>0
  <2>2. r = [k EXCEPT !.dropped = Append(<<>>, Head(k.pending)), !.pending = Tail(k.pending)]
    BY <1>1, <1>4 DEF Connector!ExecuteActions, Connectors
  <2>3. r = [k EXCEPT !.dropped = SubSeq(k.pending, 1, 1),
                      !.pending = SubSeq(k.pending, 1 + 1, Len(k.pending))]
    BY <2>1, <2>2, Zenon DEF q
  <2>4. 1 \in 0 .. Len(k.pending)
    BY <2>1 DEF q
  <2> QED BY <2>3, <2>4, DroppedPasses
<1> QED BY <1>2, <1>3, <1>4

LEMMA ConnectionChanges ==
  ASSUME Sound(mqtt), NEW c \in Connector!Clients, NEW on \in BOOLEAN,
         NEW k, k = [Connector!Quiet EXCEPT !.clients[c].connected = on]
  PROVE  Sound(k) /\ k.pending = mqtt.pending /\ k.run = <<>> /\ k.dropped = <<>>
<1> DEFINE q == Connector!Quiet
           one == [q.clients[c] EXCEPT !.connected = on]
           others == [q.clients EXCEPT ![c] = one]
<1>1. Sound(q) /\ q.pending = mqtt.pending /\ q.run = <<>> /\ q.dropped = <<>>
  BY QuietKeeps
<1>2. k = [q EXCEPT !.clients = others]
  OBVIOUS
<1> HIDE DEF q
<1>3. q \in Connectors /\ q.clients \in [Connector!Clients -> Connector!ClientState]
  BY <1>1 DEF Sound, Connectors
<1>4. one \in Connector!ClientState /\ one.live = q.clients[c].live /\ one.settings = q.clients[c].settings
  BY <1>3 DEF Connector!ClientState
<1> HIDE DEF one
<1>5. others \in [Connector!Clients -> Connector!ClientState] /\ others[c] = one
        /\ \A d \in Connector!Clients : d # c => others[d] = q.clients[d]
  BY <1>3, <1>4
<1> HIDE DEF others
<1>6. /\ k \in Connectors /\ k.clients = others /\ k.client = q.client /\ k.settings = q.settings
      /\ k.pending = q.pending /\ k.run = q.run /\ k.dropped = q.dropped
  BY <1>2, <1>3, <1>5 DEF Connectors
<1>7. \A d \in Connector!Clients : others[d].live = q.clients[d].live
                                  /\ others[d].settings = q.clients[d].settings
  BY <1>4, <1>5
<1>8. k.client \in Connector!Clients \cup {Connector!NoClient}
  BY <1>6 DEF Connectors
<1> QED BY <1>1, <1>6, <1>7, <1>8 DEF Sound

LEMMA EventPasses ==
  ASSUME Sound(mqtt), Connector!ConnectorEvent
  PROVE  Passes(mqtt, mqtt')
<1>1. ASSUME NEW c \in Connector!Clients, Connector!ClientConnects(c) PROVE Passes(mqtt, mqtt')
  <2> DEFINE k == [Connector!Quiet EXCEPT !.clients[c].connected = TRUE]
  <2>1. Sound(k) /\ k.pending = mqtt.pending /\ k.run = <<>> /\ k.dropped = <<>>
    BY ConnectionChanges
  <2>2. mqtt' = Connector!ExecuteActions(k)
    BY <1>1 DEF Connector!ClientConnects
  <2> HIDE DEF k
  <2>3. Passes(k, mqtt')
    BY <2>1, <2>2, ExecuteActionsPasses
  <2> QED BY <2>1, <2>3 DEF Passes
<1>2. ASSUME NEW c \in Connector!Clients, Connector!ClientDisconnects(c) PROVE Passes(mqtt, mqtt')
  <2> DEFINE k == [Connector!Quiet EXCEPT !.clients[c].connected = FALSE]
  <2>1. Sound(k) /\ k.pending = mqtt.pending /\ k.run = <<>>
    BY ConnectionChanges
  <2>2. mqtt' = k
    BY <1>2 DEF Connector!ClientDisconnects
  <2> QED BY <2>1, <2>2 DEF Passes, Addressed
<1>3. ASSUME NEW c \in Connector!Clients, Connector!ClientReconnects(c) PROVE Passes(mqtt, mqtt')
  <2> DEFINE k == Connector!Quiet
             n == mqtt.clients[c].listeners
             gone == IF n < Len(k.pending) THEN n ELSE Len(k.pending)
  <2>1. Sound(k) /\ k.pending = mqtt.pending /\ k.run = <<>> /\ k.dropped = <<>>
    BY QuietKeeps
  <2>2. mqtt' = Connector!ExecuteActionsTimes(k, n) /\ n \in Nat
    BY <1>3, DiscoveryAssumption
       DEF Connector!ClientReconnects, Sound, Connectors, Connector!ClientState, Connector!ConnectorAssumption
  <2> HIDE DEF k, n
  <2>3. CASE n = 0
    BY <2>1, <2>2, <2>3 DEF Connector!ExecuteActionsTimes, Passes, Addressed
  <2>4. CASE n # 0 /\ Connector!IsConnected(k)
    <3>1. mqtt' = Connector!ExecuteActions(k)
      BY <2>2, <2>4 DEF Connector!ExecuteActionsTimes
    <3>2. Passes(k, mqtt')
      BY <2>1, <3>1, ExecuteActionsPasses
    <3> QED BY <2>1, <3>2 DEF Passes
  <2>5. CASE n # 0 /\ ~Connector!IsConnected(k)
    <3>1. k.pending \in Seq(DiscoveryCallbacks) /\ k \in Connectors
      BY <2>1 DEF Sound, Connectors
    <3>2. gone \in 0 .. Len(k.pending)
      BY <2>2, <3>1
    <3>3. mqtt' = [k EXCEPT !.dropped = k.dropped \o SubSeq(k.pending, 1, gone),
                            !.pending = SubSeq(k.pending, gone + 1, Len(k.pending))]
      BY <2>2, <2>5, <3>1 DEF Connector!ExecuteActionsTimes, Connectors
    <3> HIDE DEF gone
    <3>4. SubSeq(k.pending, 1, gone) \in Seq(DiscoveryCallbacks)
      BY <3>1, <3>2, SubSeqProperties
    <3>5. k.dropped \o SubSeq(k.pending, 1, gone) = SubSeq(k.pending, 1, gone)
      BY <2>1, <3>4
    <3>6. mqtt' = [k EXCEPT !.dropped = SubSeq(k.pending, 1, gone),
                            !.pending = SubSeq(k.pending, gone + 1, Len(k.pending))]
      BY <3>3, <3>5
    <3>7. Passes(k, mqtt')
      BY <2>1, <3>2, <3>6, DroppedPasses
    <3> QED BY <2>1, <3>7 DEF Passes
  <2> QED BY <2>3, <2>4, <2>5
<1>4. ~Connector!ClientEnds
  BY DEF Sound, Connectors, Connector!ClientEnds
<1> QED BY <1>1, <1>2, <1>3, <1>4 DEF Connector!ConnectorEvent

(***************************************************************************)
(* Callbacks that run.                                                        *)
(***************************************************************************)

(* g is h after a callback: who was not subscribed is not, and who got no messages gets none. *)
Quieter(h, g) ==
  \A s \in Slaves :
    /\ h.subscribed[s] = None => g.subscribed[s] = None
    /\ Silent(h, s) => Silent(g, s)

Hushes(h, g) == \A s \in Slaves : Hushed(h, s) => Hushed(g, s)

LEMMA ResubscribeQuiets ==
  ASSUME NEW h, NEW slaves, HomeFits(h, slaves), NEW g, g = Resubscribe(h, slaves)
  PROVE  HomeFits(g, slaves) /\ Quieter(h, g) /\ Hushes(h, g)
<1> DEFINE new == UNION {Subscriptions(s, Deref(h.subscribed[s], s, slaves)) : s \in Subscribed(h)}
           all == h.session \cup new
<1>1. h \in Home /\ Held(h.subscribed, slaves)
  BY DEF HomeFits
<1>2. ASSUME NEW s \in Slaves, NEW o
      PROVE  Subscriptions(s, o) \subseteq {s} \X Channels
  BY DEF Subscriptions, Channels
<1>3. \A p \in new : \E s \in Subscribed(h) : p \in {s} \X Channels
  BY <1>2 DEF Subscribed
<1>4. Subscribed(h) \subseteq Slaves
  BY DEF Subscribed
<1>5. g = [h EXCEPT !.session = all]
  BY DEF Resubscribe
<1> HIDE DEF new
<1>6. all \in SUBSET (Slaves \X Channels)
  BY <1>1, <1>3, <1>4 DEF Home
<1>7. ASSUME NEW s \in Slaves, h.subscribed[s] = None, NEW channel, <<s, channel>> \notin h.session
      PROVE  <<s, channel>> \notin all
  <2>1. s \notin Subscribed(h)
    BY <1>7 DEF Subscribed
  <2> QED BY <1>3, <1>7, <2>1
<1> HIDE DEF all
<1>8. g \in Home /\ g.subscribed = h.subscribed /\ g.session = all
  BY <1>1, <1>5, <1>6 DEF Home
<1> QED BY <1>1, <1>7, <1>8 DEF HomeFits, Quieter, Silent, Hushes, Hushed

LEMMA ForgetQuiets ==
  ASSUME NEW h, NEW slaves, HomeFits(h, slaves), NEW callback \in DiscoveryCallbacks,
         NEW g, g = Forget(h, callback)
  PROVE  /\ HomeFits(g, slaves) /\ Quieter(h, g)
         /\ \A s \in callback.slaves : g.subscribed[s] = None
         /\ \A s \in Slaves : (s \in callback.slaves => s \in callback.commands) /\ Hushed(h, s) => Hushed(g, s)
<1> DEFINE handles == [s \in Slaves |-> IF s \in callback.slaves THEN None ELSE h.subscribed[s]]
           rest == h.session \ (callback.slaves \X {"triggerPoll"} \cup callback.commands \X {"command"})
<1>1. h \in Home /\ Held(h.subscribed, slaves) /\ callback.slaves \subseteq Slaves
  BY DEF HomeFits, DiscoveryCallbacks
<1>2. g = [h EXCEPT !.subscribed = handles, !.session = rest]
  BY DEF Forget
<1>3. /\ rest \subseteq h.session
      /\ \A s \in callback.slaves : <<s, "triggerPoll">> \notin rest
      /\ \A s \in callback.commands : <<s, "command">> \notin rest
  OBVIOUS
<1>4. /\ \A s \in Slaves : handles[s] = IF s \in callback.slaves THEN None ELSE h.subscribed[s]
      /\ handles \in [Slaves -> Handle]
  BY <1>1 DEF Held, Handle
<1> HIDE DEF handles, rest
<1>5. g \in Home /\ g.subscribed = handles /\ g.session = rest
  BY <1>1, <1>2, <1>3, <1>4 DEF Home
<1>6. Held(handles, slaves)
  BY <1>1, <1>4, Values DEF Held
<1> QED BY <1>1, <1>3, <1>4, <1>5, <1>6 DEF HomeFits, Quieter, Silent, Hushed

(* Publishing leaves the subscriptions alone.                                     *)
LEMMA PublishedFits ==
  ASSUME NEW h, NEW slaves, HomeFits(h, slaves), NEW messages \in SUBSET Message,
         NEW g, \/ g = [h EXCEPT !.retained = Sent(messages, @)]
                \/ g = [h EXCEPT !.last = Sent(messages, @)]
  PROVE  HomeFits(g, slaves) /\ g.subscribed = h.subscribed /\ g.session = h.session
<1> DEFINE kept == Sent(messages, h.retained)
           told == Sent(messages, h.last)
<1>1. h \in Home /\ Held(h.subscribed, slaves)
  BY DEF HomeFits
<1>2. kept \in [Topics -> Payloads \cup {NoText}] /\ told \in [Topics -> Payloads \cup {NoText}]
  BY <1>1, SentIsTyped DEF Home
<1>3. g = [h EXCEPT !.retained = kept] \/ g = [h EXCEPT !.last = told]
  OBVIOUS
<1> HIDE DEF kept, told
<1>4. g \in Home /\ g.subscribed = h.subscribed /\ g.session = h.session
  BY <1>1, <1>2, <1>3 DEF Home
<1> QED BY <1>1, <1>4 DEF HomeFits

LEMMA WithdrawnAreMessages ==
  ASSUME NEW h, NEW slaves \in Configs, HomeFits(h, slaves), NEW s \in Slaves
  PROVE  Withdrawn(h, s, slaves) \in SUBSET Message
<1> DEFINE o == Deref(h.subscribed[s], s, slaves)
<1>1. CASE h.subscribed[s] = None
  BY <1>1 DEF Withdrawn
<1>2. CASE h.subscribed[s] # None
  <2>1. o \in Object
    BY <1>2, Contents DEF HomeFits, Held
  <2> HIDE DEF o
  <2>2. DiscoveryEntities(s, o, o, TRUE) \in SUBSET Message
    BY <2>1, DiscoveryMessages
  <2> QED BY <1>2, <2>2 DEF Withdrawn, o
<1> QED BY <1>1, <1>2

LEMMA RunQuiets ==
  ASSUME NEW slaves \in Configs, NEW h, HomeFits(h, slaves), NEW callback \in DiscoveryCallbacks,
         NEW g, g = Run(h, callback, slaves)
  PROVE  /\ HomeFits(g, slaves) /\ Quieter(h, g)
         /\ \A s \in Slaves : Forgets(callback, s) => g.subscribed[s] = None
         /\ \A s \in Slaves :
              (Forgets(callback, s) => s \in callback.commands) /\ Hushed(h, s) => Hushed(g, s)
<1> DEFINE sent == [h EXCEPT !.retained = Sent(callback.messages, @)]
           told == [sent EXCEPT !.last = Sent(callback.messages, @)]
           gone == UNION {Withdrawn(h, s, slaves) : s \in callback.slaves}
           clear == [h EXCEPT !.retained = Sent(gone, @)]
<1>1. /\ callback.kind \in {"new", "update", "republish", "delete", "deleteBus"}
      /\ callback.messages \in SUBSET Message /\ callback.slaves \subseteq Slaves
  BY DEF DiscoveryCallbacks
<1>2. gone \in SUBSET Message
  BY <1>1, WithdrawnAreMessages
<1>3. HomeFits(sent, slaves) /\ sent.subscribed = h.subscribed /\ sent.session = h.session
  BY <1>1, PublishedFits
<1>4. /\ callback.kind = "update" => g = told
      /\ callback.kind = "new" => g = Resubscribe(told, slaves)
      /\ callback.kind = "republish" => g = sent
      /\ callback.kind = "delete" => g = Forget(clear, callback)
      /\ callback.kind = "deleteBus" => g = Forget(h, callback)
  BY DEF Run
<1> HIDE DEF sent, gone
<1>5. HomeFits(told, slaves) /\ told.subscribed = h.subscribed /\ told.session = h.session
  BY <1>1, <1>3, PublishedFits
<1>6. HomeFits(clear, slaves) /\ clear.subscribed = h.subscribed /\ clear.session = h.session
  BY <1>2, PublishedFits
<1> HIDE DEF told, clear
<1>7. CASE callback.kind = "update"
  BY <1>4, <1>5, <1>7 DEF Quieter, Silent, Hushed, Forgets
<1>8. CASE callback.kind = "new"
  <2>1. HomeFits(g, slaves) /\ Quieter(told, g) /\ Hushes(told, g)
    BY <1>4, <1>5, <1>8, ResubscribeQuiets
  <2> QED BY <1>5, <1>8, <2>1 DEF Quieter, Silent, Hushes, Hushed, Forgets
<1>9. CASE callback.kind = "republish"
  BY <1>3, <1>4, <1>9 DEF Quieter, Silent, Hushed, Forgets
<1>10. CASE callback.kind = "delete"
  <2>1. /\ HomeFits(g, slaves) /\ Quieter(clear, g)
        /\ \A s \in callback.slaves : g.subscribed[s] = None
        /\ \A s \in Slaves :
             (s \in callback.slaves => s \in callback.commands) /\ Hushed(clear, s) => Hushed(g, s)
    BY <1>4, <1>6, <1>10, ForgetQuiets
  <2> QED BY <1>6, <1>10, <2>1 DEF Quieter, Silent, Hushed, Forgets
<1>11. CASE callback.kind = "deleteBus"
  <2>1. /\ HomeFits(g, slaves) /\ Quieter(h, g)
        /\ \A s \in callback.slaves : g.subscribed[s] = None
        /\ \A s \in Slaves :
             (s \in callback.slaves => s \in callback.commands) /\ Hushed(h, s) => Hushed(g, s)
    BY <1>4, <1>11, ForgetQuiets
  <2> QED BY <1>11, <2>1 DEF Forgets
<1> QED BY <1>1, <1>7, <1>8, <1>9, <1>10, <1>11

LEMMA MaxIsGreatest == ASSUME NEW s PROVE Max(s) = Greatest(s)
BY Zenon DEF Max, Greatest

LEMMA RunAllQuiets ==
  ASSUME NEW slaves \in Configs, NEW h, HomeFits(h, slaves),
         NEW callbacks \in Seq(DiscoveryCallbacks), NEW g, g = RunAll(h, callbacks, slaves)
  PROVE  /\ HomeFits(g, slaves) /\ Quieter(h, g)
         /\ \A s \in Slaves : Forgotten(callbacks, s) => g.subscribed[s] = None
         /\ \A s \in Slaves : Addressed(callbacks, s) /\ Hushed(h, s) => Hushed(g, s)
<1> DEFINE n == Len(callbacks)
           T == {x \in Home : HomeFits(x, slaves)}
           F == [a \in T \X (1 .. n) |-> Run(a[1], callbacks[a[2]], slaves)]
           Def(f) == [s \in SUBSET (1 .. n) |->
                       IF s = {} THEN h ELSE Run(f[s \ {Max(s)}], callbacks[Max(s)], slaves)]
           iter == CHOOSE f : f = Def(f)
<1>1. /\ n \in Nat /\ DOMAIN callbacks = 1 .. n
      /\ \A i \in 1 .. n : callbacks[i] \in DiscoveryCallbacks
  OBVIOUS
<1>2. h \in T /\ \A x \in T : HomeFits(x, slaves)
  BY DEF HomeFits
<1>3. ASSUME NEW x, HomeFits(x, slaves) PROVE x \in T
  BY <1>3 DEF HomeFits
<1> HIDE DEF T, n
<1>4. ASSUME NEW x \in T, NEW i \in 1 .. n PROVE Run(x, callbacks[i], slaves) \in T
  BY <1>1, <1>2, <1>3, RunQuiets
<1>5. F \in [T \X (1 .. n) -> T] /\ \A x \in T : \A i \in 1 .. n : F[<<x, i>>] = Run(x, callbacks[i], slaves)
  BY <1>4
<1> HIDE DEF F
<1>6. PICK f \in [SUBSET (1 .. n) -> T] :
        /\ f[{}] = h
        /\ \A s \in SUBSET (1 .. n) :
             s # {} => Max(s) \in s /\ f[s] = F[<<f[s \ {Max(s)}], Max(s)>>]
  <2> DEFINE numbers == 1 .. n
  <2>1. F \in [T \X numbers -> T]
    BY <1>5
  <2> HIDE DEF numbers
  <2>2. numbers = 1 .. n /\ n \in Nat /\ h \in T
    BY <1>1, <1>2 DEF numbers
  <2>3. PICK f \in [SUBSET numbers -> T] : FoldsDown(f, numbers, h, F)
    BY <2>1, <2>2, FoldedUpTo
  <2> QED BY <2>3, MaxIsGreatest DEF numbers, FoldsDown
<1>9. f = Def(f)
  <2>1. ASSUME NEW s \in SUBSET (1 .. n), s # {}
        PROVE  f[s] = Run(f[s \ {Max(s)}], callbacks[Max(s)], slaves)
    <3>1. Max(s) \in 1 .. n /\ f[s \ {Max(s)}] \in T
      BY <1>6, <2>1
    <3>2. f[s] = F[<<f[s \ {Max(s)}], Max(s)>>]
      BY <1>6, <2>1
    <3> QED BY <1>5, <3>1, <3>2
  <2>2. f[{}] = h
    BY <1>6
  <2>3. \A s \in SUBSET (1 .. n) : f[s] = Def(f)[s]
    BY <2>1, <2>2
  <2>4. f = [s \in SUBSET (1 .. n) |-> f[s]] /\ Def(f) = [s \in SUBSET (1 .. n) |-> Def(f)[s]]
    OBVIOUS
  <2> HIDE DEF Def
  <2> QED BY <2>3, <2>4
<1>10. iter = Def(iter)
  <2> HIDE DEF Def
  <2> QED BY <1>9, Zenon
<1> HIDE DEF iter
<1>11. iter[{}] = h
  BY <1>10
<1>12. ASSUME NEW k \in 1 .. n PROVE iter[1 .. k] = Run(iter[1 .. k - 1], callbacks[k], slaves)
  <2>1. 1 .. k \in SUBSET (1 .. n) /\ 1 .. k # {} /\ Max(1 .. k) = k /\ (1 .. k) \ {k} = 1 .. k - 1
    BY <1>1, GreatestUpTo, MaxIsGreatest
  <2>2. \A s \in SUBSET (1 .. n) :
          s # {} => iter[s] = Run(iter[s \ {Max(s)}], callbacks[Max(s)], slaves)
    BY <1>10
  <2> QED BY <2>1, <2>2
<1> DEFINE fine(k) ==
             /\ HomeFits(iter[1 .. k], slaves) /\ Quieter(h, iter[1 .. k])
             /\ \A s \in Slaves : \A i \in 1 .. k :
                  Forgets(callbacks[i], s) => iter[1 .. k].subscribed[s] = None
             /\ \A s \in Slaves : Addressed(callbacks, s) /\ Hushed(h, s) => Hushed(iter[1 .. k], s)
           good == {k \in 0 .. n : fine(k)}
<1>13. 0 \in good
  <2>1. 1 .. 0 = {} /\ 0 \in 0 .. n
    BY <1>1
  <2>2. HomeFits(h, slaves) /\ Quieter(h, h)
    BY DEF Quieter
  <2> QED BY <1>11, <2>1, <2>2
<1>14. ASSUME NEW k \in 0 .. n - 1, k \in good PROVE k + 1 \in good
  <2>1. k + 1 \in 1 .. n /\ k + 1 \in 0 .. n /\ (k + 1) - 1 = k /\ fine(k)
    BY <1>1, <1>14
  <2> DEFINE x == iter[1 .. k]
             y == iter[1 .. k + 1]
  <2>2. y = Run(x, callbacks[k + 1], slaves)
    BY <1>12, <2>1
  <2>3. /\ HomeFits(x, slaves) /\ Quieter(h, x)
        /\ \A s \in Slaves : \A i \in 1 .. k : Forgets(callbacks[i], s) => x.subscribed[s] = None
        /\ \A s \in Slaves : Addressed(callbacks, s) /\ Hushed(h, s) => Hushed(x, s)
    BY <2>1
  <2> HIDE DEF x, y
  <2>4. /\ HomeFits(y, slaves) /\ Quieter(x, y)
        /\ \A s \in Slaves : Forgets(callbacks[k + 1], s) => y.subscribed[s] = None
        /\ \A s \in Slaves :
             (Forgets(callbacks[k + 1], s) => s \in callbacks[k + 1].commands) /\ Hushed(x, s) => Hushed(y, s)
    BY <1>1, <2>1, <2>2, <2>3, RunQuiets
  <2>5. Quieter(h, y)
    BY <2>3, <2>4 DEF Quieter
  <2>6. \A i \in 1 .. k + 1 : i \in 1 .. k \/ i = k + 1
    BY <2>1
  <2>7. \A s \in Slaves : \A i \in 1 .. k + 1 : Forgets(callbacks[i], s) => y.subscribed[s] = None
    BY <2>3, <2>4, <2>6 DEF Quieter
  <2>9. \A s \in Slaves : Addressed(callbacks, s) /\ Hushed(h, s) => Hushed(y, s)
    <3> HIDE DEF Forgets, Hushed
    <3>1. \A s \in Slaves :
            Addressed(callbacks, s) => (Forgets(callbacks[k + 1], s) => s \in callbacks[k + 1].commands)
      BY <1>1, <2>1 DEF Addressed
    <3> QED BY <2>3, <2>4, <3>1
  <2>8. fine(k + 1)
    BY <2>4, <2>5, <2>7, <2>9 DEF y
  <2> HIDE DEF fine
  <2> QED BY <2>1, <2>8
<1>15. fine(n)
  <2>1. good \in SUBSET (0 .. n)
    BY Zenon
  <2>2. n \in good
    <3>1. n \in 0 .. n
      BY <1>1
    <3> HIDE DEF good
    <3> QED BY <1>1, <1>13, <1>14, <2>1, <3>1, UpToByOne
  <2> HIDE DEF fine
  <2> QED BY <2>2
<1>16. g = iter[1 .. n]
  BY <1>1 DEF RunAll, FoldLeft, MapThenFoldSet, iter, Def
<1> QED BY <1>1, <1>15, <1>16 DEF Forgotten

(***************************************************************************)
(* The events of ConfigBus.                                                    *)
(***************************************************************************)

LEMMA UpdateKeeps ==
  ASSUME NEW slaves \in Configs, NEW k, Sound(k), NEW h, HomeFits(h, slaves),
         NEW s \in Slaves, slaves[s] # Absent,
         NEW w, w = OnUpdateSlave([mqtt |-> k, home |-> h], s, slaves)
  PROVE  /\ w = [mqtt |-> w.mqtt, home |-> w.home]
         /\ Keeps(k, w.mqtt) /\ HomeFits(w.home, slaves) /\ w.home.session = h.session
         /\ Addresses(k, w.mqtt) /\ w.home.subscribed[s] # None
         /\ \A t \in Slaves \ {s} : w.home.subscribed[t] = h.subscribed[t]
<1> DEFINE new == slaves[s]
           isNew == h.subscribed[s] = None
           old == IF isNew THEN new ELSE Deref(h.subscribed[s], s, slaves)
           messages == DiscoveryEntities(s, old, new, FALSE)
           callback == Callback(IF isNew THEN "new" ELSE "update", {s}, messages, {})
           l == Connector!GetMqttClient(k, callback)
           some == [h EXCEPT !.subscribed[s] = Current]
           same == [h EXCEPT !.subscribed[s] = IF isNew THEN Current ELSE @]
<1>1. h \in Home /\ Held(h.subscribed, slaves) /\ new \in Object
  BY DEF HomeFits, Configs
<1>2. old \in Object
  BY <1>1, Contents DEF Held
<1> HIDE DEF old
<1>3. messages \in SUBSET Message
  BY <1>1, <1>2, DiscoveryMessages
<1> DEFINE u == [mqtt |-> k, home |-> h]
<1>0. u.mqtt = k /\ u.home = h
  OBVIOUS
<1>4. w = IF messages = {} THEN [mqtt |-> k, home |-> same] ELSE [mqtt |-> l, home |-> some]
  <2>1. [u EXCEPT !.home.subscribed[s] = IF isNew THEN Current ELSE @] = [mqtt |-> k, home |-> same]
    OBVIOUS
  <2> HIDE DEF u
  <2>2. w = IF messages = {} THEN [u EXCEPT !.home.subscribed[s] = IF isNew THEN Current ELSE @]
            ELSE [mqtt |-> l, home |-> some]
    BY <1>0 DEF OnUpdateSlave, old, u
  <2> QED BY <2>1, <2>2
<1> HIDE DEF messages
<1>5. callback \in DiscoveryCallbacks /\ \A t : ~Forgets(callback, t)
  BY <1>3 DEF Callback, DiscoveryCallbacks, Forgets
<1> HIDE DEF callback
<1>6. Keeps(k, l) /\ Addresses(k, l)
  BY <1>5, RequestKeeps DEF Addresses
<1> HIDE DEF l
<1>7. Keeps(k, k) /\ Addresses(k, k)
  BY DEF Keeps, Addresses
<1>8. ASSUME NEW x \in {Current, h.subscribed[s]}, x # None, NEW g, g = [h EXCEPT !.subscribed[s] = x]
      PROVE  /\ HomeFits(g, slaves) /\ g.session = h.session /\ g.subscribed[s] # None
             /\ \A t \in Slaves \ {s} : g.subscribed[t] = h.subscribed[t]
  <2> DEFINE handles == [h.subscribed EXCEPT ![s] = x]
  <2>1. h.subscribed \in [Slaves -> Handle] /\ x \in Handle
    BY <1>1 DEF Home, Handle
  <2>2. handles \in [Slaves -> Handle] /\ handles[s] = x
        /\ \A t \in Slaves \ {s} : handles[t] = h.subscribed[t]
    BY <2>1
  <2>3. g = [h EXCEPT !.subscribed = handles]
    BY <1>8
  <2> HIDE DEF handles
  <2>4. g \in Home /\ g.subscribed = handles /\ g.session = h.session
    BY <1>1, <2>2, <2>3 DEF Home
  <2>5. Held(handles, slaves)
    BY <1>1, <1>8, <2>2 DEF Held
  <2> QED BY <1>8, <2>2, <2>4, <2>5 DEF HomeFits
<1>9. /\ HomeFits(some, slaves) /\ some.session = h.session /\ some.subscribed[s] # None
      /\ \A t \in Slaves \ {s} : some.subscribed[t] = h.subscribed[t]
  BY <1>8, Values
<1>10. /\ HomeFits(same, slaves) /\ same.session = h.session /\ same.subscribed[s] # None
       /\ \A t \in Slaves \ {s} : same.subscribed[t] = h.subscribed[t]
  <2> DEFINE x == IF isNew THEN Current ELSE h.subscribed[s]
  <2>1. x \in {Current, h.subscribed[s]} /\ x # None /\ same = [h EXCEPT !.subscribed[s] = x]
    BY Values
  <2> HIDE DEF x, same
  <2> QED BY <1>8, <2>1
<1> HIDE DEF some, same
<1> QED BY <1>4, <1>6, <1>7, <1>9, <1>10

LEMMA RepublishKeeps ==
  ASSUME NEW slaves \in Configs, NEW k, Sound(k), NEW h, HomeFits(h, slaves),
         NEW s \in Slaves, NEW o \in Object,
         NEW w, w = RepublishIfChanged([mqtt |-> k, home |-> h], s, o)
  PROVE  /\ Keeps(k, w.mqtt) /\ Addresses(k, w.mqtt) /\ HomeFits(w.home, slaves)
         /\ w.home.subscribed = h.subscribed /\ w.home.session = h.session
<1> DEFINE changed == {m \in Payload(s, o) : h.last[m.topic] # m.payload}
           callback == Callback("republish", {s}, changed, {})
           l == Connector!GetMqttClient(k, callback)
           g == [h EXCEPT !.last = Sent(changed, @)]
<1>1. changed \in SUBSET Message
  BY PayloadsAreMessages
<1>2. w = IF changed = {} THEN [mqtt |-> k, home |-> h] ELSE [mqtt |-> l, home |-> g]
  BY DEF RepublishIfChanged
<1> HIDE DEF changed
<1>3. callback \in DiscoveryCallbacks /\ \A t : ~Forgets(callback, t)
  BY <1>1 DEF Callback, DiscoveryCallbacks, Forgets
<1> HIDE DEF callback
<1>4. Keeps(k, l) /\ Keeps(k, k) /\ Addresses(k, l) /\ Addresses(k, k)
  BY <1>3, RequestKeeps DEF Keeps, Addresses
<1>5. HomeFits(g, slaves) /\ g.subscribed = h.subscribed /\ g.session = h.session
  BY <1>1, PublishedFits
<1> HIDE DEF l, g
<1> QED BY <1>2, <1>4, <1>5

(* Those who have a handle to an object that leaves the configuration keep it.         *)
LEMMA ReleasedIsHeld ==
  ASSUME NEW slaves \in Configs, NEW handles, Held(handles, slaves), NEW s \in Slaves,
         NEW o, slaves[s] # Absent => o \in Object
  PROVE  /\ Released(handles[s], o) \in Handle \ {Current}
         /\ Released(handles[s], o) = None <=> handles[s] = None
BY Values DEF Held, Handle, Released

(* The same slaves are subscribed.                                                  *)
SameSubscribed(g, h) == \A t \in Slaves : g.subscribed[t] = None <=> h.subscribed[t] = None

LEMMA LetFits ==
  ASSUME NEW slaves \in Configs, NEW h, HomeFits(h, slaves), NEW s \in Slaves,
         NEW o, slaves[s] # Absent => o \in Object, NEW x \in Object \cup {Absent},
         NEW new, new = [slaves EXCEPT ![s] = x], NEW g, g = Let(h, s, o)
  PROVE  HomeFits(g, new) /\ g.session = h.session /\ SameSubscribed(g, h)
<1> DEFINE y == Released(h.subscribed[s], o)
           handles == [h.subscribed EXCEPT ![s] = y]
<1>1. h \in Home /\ Held(h.subscribed, slaves)
  BY DEF HomeFits
<1>2. y \in Handle \ {Current} /\ (y = None <=> h.subscribed[s] = None)
  BY <1>1, ReleasedIsHeld
<1>3. g = [h EXCEPT !.subscribed = handles]
  BY DEF Let
<1> HIDE DEF y
<1>4. handles \in [Slaves -> Handle] /\ handles[s] = y
      /\ \A t \in Slaves \ {s} : handles[t] = h.subscribed[t]
  BY <1>1, <1>2 DEF Held
<1> HIDE DEF handles
<1>5. g \in Home /\ g.subscribed = handles /\ g.session = h.session
  BY <1>1, <1>3, <1>4 DEF Home
<1>6. Held(handles, new)
  BY <1>1, <1>2, <1>4 DEF Held, Configs
<1> QED BY <1>2, <1>4, <1>5, <1>6 DEF HomeFits, SameSubscribed

LEMMA ReadersKeepHandles ==
  ASSUME NEW slaves \in Configs, NEW handles, Held(handles, slaves), NEW s \in Slaves,
         NEW o, slaves[s] # Absent => o \in Object, NEW x \in Object \cup {Absent},
         NEW new, new = [slaves EXCEPT ![s] = x],
         NEW others, others = [handles EXCEPT ![s] = Released(@, o)]
  PROVE  Held(others, new)
<1> DEFINE y == Released(handles[s], o)
<1>1. y \in Handle \ {Current} /\ others = [handles EXCEPT ![s] = y]
  BY ReleasedIsHeld
<1> HIDE DEF y
<1> QED BY <1>1 DEF Held, Configs

(***************************************************************************)
(* The end of a step.                                                         *)
(***************************************************************************)

Tidy(k, h, s) == Hushed(h, s) /\ Addressed(k.pending, s) /\ Addressed(k.run, s)

LEMMA SettleKeeps ==
  ASSUME NEW slaves \in Configs, NEW w, Sound(w.mqtt), HomeFits(w.home, slaves),
         \A s \in Slaves \ lost :
           /\ Silent(w.home, s)
           /\ slaves[s] = Absent =>
                \/ w.home.subscribed[s] = None
                \/ Forgotten(w.mqtt.pending, s) \/ Forgotten(w.mqtt.run, s),
         \A s \in Slaves \ (lost \cup mute') : Tidy(w.mqtt, w.home, s),
         Settle(w, slaves)
  PROVE  /\ Sound(mqtt') /\ config' = slaves /\ HomeFits(home', slaves)
         /\ \A s \in Slaves \ lost' : Silent(home', s) /\ Withdraws(s)'
         /\ \A s \in Slaves \ (lost' \cup mute') : Hushed(home', s) /\ Addressed(mqtt'.pending, s)
<1>1. /\ mqtt' = w.mqtt /\ home' = RunAll(w.home, w.mqtt.run, slaves)
      /\ config' = slaves /\ lost \subseteq lost'
  BY DEF Settle
<1>2. w.mqtt.run \in Seq(DiscoveryCallbacks)
  BY DEF Sound, Connectors
<1>3. /\ HomeFits(home', slaves) /\ Quieter(w.home, home')
      /\ \A s \in Slaves : Forgotten(w.mqtt.run, s) => home'.subscribed[s] = None
      /\ \A s \in Slaves : Addressed(w.mqtt.run, s) /\ Hushed(w.home, s) => Hushed(home', s)
  BY <1>1, <1>2, RunAllQuiets
<1>4. ASSUME NEW s \in Slaves \ lost' PROVE Silent(home', s) /\ Withdraws(s)'
  <2>1. s \in Slaves \ lost
    BY <1>1, <1>4
  <2>2. Silent(home', s)
    BY <1>3, <2>1 DEF Quieter
  <2>3. slaves[s] = Absent => home'.subscribed[s] = None \/ Forgotten(w.mqtt.pending, s)
    BY <1>3, <2>1 DEF Quieter
  <2> QED BY <1>1, <2>2, <2>3 DEF Withdraws
<1>5. ASSUME NEW s \in Slaves \ (lost' \cup mute')
      PROVE  Hushed(home', s) /\ Addressed(mqtt'.pending, s)
  <2>1. s \in Slaves \ (lost \cup mute')
    BY <1>1
  <2> QED BY <1>1, <1>3, <2>1 DEF Tidy
<1> QED BY <1>1, <1>3, <1>4, <1>5

(* FoldSet takes one after the other out of a set.                                   *)
OneOf(s) == CHOOSE x \in s : TRUE

AnnounceAll(k, h, found, slaves) ==
  FoldSet(LAMBDA s, v : OnUpdateSlave(v, s, slaves), [mqtt |-> k, home |-> h], found)

(* A restart announces the slaves it finds, in any order.                            *)
LEMMA AnnouncedAreSubscribed ==
  ASSUME NEW slaves \in Configs, NEW k, Sound(k), NEW h, HomeFits(h, slaves),
         NEW found \in SUBSET Slaves, \A s \in found : slaves[s] # Absent,
         NEW w, w = AnnounceAll(k, h, found, slaves)
  PROVE  /\ Sound(w.mqtt) /\ HomeFits(w.home, slaves) /\ w.home.session = h.session
         /\ Addresses(k, w.mqtt)
         /\ \A s \in found : w.home.subscribed[s] # None
         /\ \A s \in Slaves \ found : w.home.subscribed[s] = h.subscribed[s]
<1> DEFINE base == [mqtt |-> k, home |-> h]
           good(v) == /\ v = [mqtt |-> v.mqtt, home |-> v.home] /\ Sound(v.mqtt)
                      /\ HomeFits(v.home, slaves) /\ v.home.session = h.session
                      /\ Addresses(k, v.mqtt)
           T == {v \in [mqtt : Connectors, home : Home] : good(v)}
           F == [a \in T \X found |-> OnUpdateSlave(a[1], a[2], slaves)]
           pick == [s \in SUBSET found |-> OneOf(s)]
           Def(f) == [s \in SUBSET found |->
                       IF s = {} THEN base
                       ELSE OnUpdateSlave(f[s \ {OneOf(s)}], OneOf(s), slaves)]
           iter == CHOOSE f : f = Def(f)
<1>1. ASSUME NEW v, good(v) PROVE v \in T
  <2>1. v.mqtt \in Connectors /\ v.home \in Home /\ v = [mqtt |-> v.mqtt, home |-> v.home]
    BY <1>1 DEF Sound, HomeFits
  <2>2. v \in [mqtt : Connectors, home : Home]
    BY <2>1
  <2> QED BY <1>1, <2>2
<1>2. \A v \in T : good(v)
  OBVIOUS
<1>3. base \in T
  <2>1. base.mqtt = k /\ base.home = h /\ base = [mqtt |-> base.mqtt, home |-> base.home]
    OBVIOUS
  <2>2. good(base)
    BY <2>1 DEF Addresses
  <2> HIDE DEF T, base, good
  <2> QED BY <1>1, <2>2
<1> HIDE DEF T
<1>4. ASSUME NEW v \in T, NEW s \in found, NEW u, u = OnUpdateSlave(v, s, slaves)
      PROVE  /\ u \in T /\ u.home.subscribed[s] # None
             /\ \A t \in Slaves \ {s} : u.home.subscribed[t] = v.home.subscribed[t]
  <2>1. good(v)
    BY <1>2
  <2> DEFINE l == v.mqtt
             g == v.home
  <2>2. u = OnUpdateSlave([mqtt |-> l, home |-> g], s, slaves) /\ Sound(l) /\ HomeFits(g, slaves)
    BY <1>4, <2>1
  <2> HIDE DEF l, g
  <2>3. /\ u = [mqtt |-> u.mqtt, home |-> u.home]
        /\ Keeps(l, u.mqtt) /\ HomeFits(u.home, slaves) /\ u.home.session = g.session
        /\ Addresses(l, u.mqtt)
        /\ u.home.subscribed[s] # None
        /\ \A t \in Slaves \ {s} : u.home.subscribed[t] = g.subscribed[t]
    BY <2>2, UpdateKeeps
  <2>4. good(u)
    BY <2>1, <2>3 DEF Keeps, Addresses, g, l
  <2> HIDE DEF good
  <2> QED BY <1>1, <2>3, <2>4 DEF g
<1> HIDE DEF base
<1>5. /\ F \in [T \X found -> T]
      /\ \A v \in T : \A s \in found : F[<<v, s>>] = OnUpdateSlave(v, s, slaves)
  BY <1>4
<1>6. ASSUME NEW s \in SUBSET found, s # {}
      PROVE  OneOf(s) \in s /\ pick[s] = OneOf(s)
  BY <1>6 DEF OneOf
<1>7. Picks(pick, found)
  <2> HIDE DEF pick
  <2> QED BY <1>6 DEF Picks
<1>8. IsFiniteSet(found)
  BY DiscoveryAssumption, FS_Subset
<1> HIDE DEF F, pick
<1>9. PICK f \in [SUBSET found -> T] : Folds(f, found, base, F, pick)
  BY <1>3, <1>5, <1>7, <1>8, FoldIsThere
<1>10. f = Def(f)
  <2>1. ASSUME NEW s \in SUBSET found, s # {}
        PROVE  f[s] = OnUpdateSlave(f[s \ {OneOf(s)}], OneOf(s), slaves)
    <3> DEFINE x == OneOf(s)
    <3>1. x \in found /\ f[s \ {x}] \in T /\ pick[s] = x
      BY <1>6, <2>1
    <3>2. f[s] = F[<<f[s \ {pick[s]}], pick[s]>>]
      BY <1>9, <2>1 DEF Folds
    <3>3. f[s] = OnUpdateSlave(f[s \ {x}], x, slaves)
      <4> HIDE DEF x
      <4> QED BY <1>5, <3>1, <3>2
    <3> QED BY <3>3
  <2>2. f[{}] = base
    BY <1>9 DEF Folds
  <2>3. \A s \in SUBSET found : f[s] = Def(f)[s]
    BY <2>1, <2>2
  <2>4. f = [s \in SUBSET found |-> f[s]] /\ Def(f) = [s \in SUBSET found |-> Def(f)[s]]
    OBVIOUS
  <2> HIDE DEF Def
  <2> QED BY <2>3, <2>4
<1>11. iter = Def(iter)
  <2> HIDE DEF Def
  <2> QED BY <1>10, Zenon
<1> HIDE DEF iter
<1>12. iter[{}] = base
  BY <1>11
<1>13. \A s \in SUBSET found :
         s # {} => iter[s] = OnUpdateSlave(iter[s \ {OneOf(s)}], OneOf(s), slaves)
  BY <1>11
<1> DEFINE fine(s) == /\ iter[s] \in T
                      /\ \A t \in s : iter[s].home.subscribed[t] # None
                      /\ \A t \in Slaves \ s : iter[s].home.subscribed[t] = h.subscribed[t]
           bad == {s \in SUBSET found : ~fine(s)}
<1>14. fine({})
  <2>1. iter[{}] \in T /\ iter[{}].home = h
    BY <1>3, <1>12 DEF base
  <2> QED BY <2>1
<1>15. ASSUME NEW s \in SUBSET found, s # {}, fine(s \ {OneOf(s)}) PROVE fine(s)
  <2> DEFINE x == OneOf(s)
             v == iter[s \ {x}]
             u == iter[s]
  <2>1. x \in s /\ x \in found
    BY <1>6, <1>15
  <2>2. /\ v \in T /\ \A t \in s \ {x} : v.home.subscribed[t] # None
        /\ \A t \in Slaves \ (s \ {x}) : v.home.subscribed[t] = h.subscribed[t]
    BY <1>15
  <2>3. u = OnUpdateSlave(v, x, slaves)
    BY <1>13, <1>15
  <2> HIDE DEF x, v, u, fine, good
  <2>4. /\ u \in T /\ u.home.subscribed[x] # None
        /\ \A t \in Slaves \ {x} : u.home.subscribed[t] = v.home.subscribed[t]
    BY <1>4, <2>1, <2>2, <2>3
  <2>5. /\ \A t \in s : u.home.subscribed[t] # None
        /\ \A t \in Slaves \ s : u.home.subscribed[t] = h.subscribed[t]
    BY <2>1, <2>2, <2>4
  <2> QED BY <2>4, <2>5 DEF u, fine
<1>16. fine(found)
  <2> HIDE DEF fine
  <2> SUFFICES ASSUME ~fine(found) PROVE FALSE
    OBVIOUS
  <2>1. bad \in SUBSET (SUBSET found) /\ bad # {}
    OBVIOUS
  <2>2. PICK s \in bad : \A t \in bad : t \subseteq s => t = s
    <3> HIDE DEF bad
    <3> QED BY <1>8, <2>1, SmallestSubset
  <2> DEFINE x == OneOf(s)
  <2>3. s \in SUBSET found /\ ~fine(s) /\ s # {}
    BY <1>14
  <2>4. x \in s
    BY <1>6, <2>3
  <2>5. s \ {x} \in SUBSET found /\ s \ {x} \subseteq s /\ s \ {x} # s
    BY <2>3, <2>4
  <2>6. fine(s \ {x})
    <3> HIDE DEF x
    <3> QED BY <2>2, <2>5
  <2> QED BY <1>15, <2>3, <2>6
<1>17. w = iter[found]
  BY DEF AnnounceAll, FoldSet, MapThenFoldSet, iter, Def, base, OneOf
<1>18. w \in T /\ good(w)
  BY <1>2, <1>16, <1>17
<1> QED BY <1>16, <1>17, <1>18

(***************************************************************************)
(* The actions.                                                               *)
(***************************************************************************)

(* The hypotheses of a step that the connector begins with nothing run or dropped.        *)
LEMMA WorldIs ==
  ASSUME IInv
  PROVE  /\ World = [mqtt |-> Connector!Quiet, home |-> home]
         /\ Sound(Connector!Quiet) /\ Connector!Quiet.pending = mqtt.pending
         /\ \A s \in Slaves \ (lost \cup mute) : Tidy(Connector!Quiet, home, s)
         /\ World.mqtt = Connector!Quiet /\ World.home = home
         /\ home \in Home /\ Held(home.subscribed, config)
<1>1. Sound(mqtt)
  BY DEF IInv
<1>2. Sound(Connector!Quiet) /\ Connector!Quiet.pending = mqtt.pending /\ Connector!Quiet.run = <<>>
  BY <1>1, QuietKeeps
<1>3. \A s : Addressed(Connector!Quiet.run, s)
  BY <1>2 DEF Addressed
<1> QED BY <1>2, <1>3 DEF IInv, HomeFits, World, Tidy

LEMMA StepKeeps ==
  ASSUME NEW slaves \in Configs, NEW w, Sound(w.mqtt), HomeFits(w.home, slaves),
         \A s \in Slaves \ lost :
           /\ Silent(w.home, s)
           /\ slaves[s] = Absent =>
                \/ w.home.subscribed[s] = None
                \/ Forgotten(w.mqtt.pending, s) \/ Forgotten(w.mqtt.run, s),
         \A s \in Slaves \ (lost \cup mute') : Tidy(w.mqtt, w.home, s),
         Settle(w, slaves), file' \in 1 .. MaxVersion, Held(reading', slaves)
  PROVE  IInv'
BY SettleKeeps DEF IInv

(* Who has a handle has one still while no slave leaves the configuration.            *)
LEMMA StillHeld ==
  ASSUME NEW slaves, \A s \in Slaves : slaves[s] = Absent => config[s] = Absent
  PROVE  /\ \A handles : Held(handles, config) => Held(handles, slaves)
         /\ \A h : HomeFits(h, config) => HomeFits(h, slaves)
BY DEF Held, HomeFits

LEMMA SaveSlaveKeeps ==
  ASSUME IInv, NEW s \in Slaves, NEW assigned \in BOOLEAN, NEW hidden \in SUBSET Entities,
         SaveSlave(s, assigned, hidden)
  PROVE  IInv'
<1> DEFINE o == AddSpecification([spec |-> NoSpec, assigned |-> assigned, hidden |-> hidden])
           slaves == [config EXCEPT ![s] = o]
           h == Let(home, s, config[s])
           u == [mqtt |-> Connector!Quiet, home |-> h]
           w == IF assigned THEN OnUpdateSlave(u, s, slaves) ELSE u
<1>1. /\ config \in Configs /\ HomeFits(home, config) /\ Held(reading, config)
      /\ file \in 1 .. MaxVersion
      /\ config[s] # Absent => config[s] \in Object
  BY DEF IInv, Configs
<1>2. o \in Object
  <2> DEFINE x == [spec |-> NoSpec, assigned |-> assigned, hidden |-> hidden]
  <2>1. x \in Object
    BY DiscoveryAssumption DEF Object, NoSpec
  <2> HIDE DEF x
  <2>2. AddSpecification(x) \in Object
    BY <1>1, <2>1, AddedIsObject
  <2> QED BY <2>2 DEF x
<1>3. [World EXCEPT !.home = Let(@, s, config[s])] = u
  BY WorldIs
<1>4. /\ Settle(w, slaves) /\ reading' = [reading EXCEPT ![s] = Released(@, config[s])]
      /\ file' = file /\ mute' = mute
  BY <1>3 DEF SaveSlave
<1> HIDE DEF o
<1>5. slaves \in Configs /\ slaves[s] = o /\ \A t \in Slaves \ {s} : slaves[t] = config[t]
  BY <1>1, <1>2 DEF Configs
<1> DEFINE c == config[s]
<1>0. /\ config[s] # Absent => c \in Object
      /\ h = Let(home, s, c) /\ reading' = [reading EXCEPT ![s] = Released(@, c)]
      /\ slaves = [config EXCEPT ![s] = o]
  BY <1>1, <1>4
<1> HIDE DEF c, h, slaves
<1>6. HomeFits(h, slaves) /\ h.session = home.session /\ SameSubscribed(h, home)
  <2>1. o \in Object \cup {Absent}
    BY <1>2
  <2>2. config \in Configs /\ HomeFits(home, config) /\ (config[s] # Absent => c \in Object)
    BY <1>0, <1>1
  <2>3. slaves = [config EXCEPT ![s] = o] /\ h = Let(home, s, c)
    BY <1>0
  <2>4. HomeFits(h, slaves)
    BY <2>1, <2>2, <2>3, LetFits
  <2>5. h.session = home.session
    BY <2>1, <2>2, <2>3, LetFits
  <2>6. SameSubscribed(h, home)
    BY <2>1, <2>2, <2>3, LetFits
  <2> QED BY <2>4, <2>5, <2>6
<1>7. Held(reading', slaves)
  BY <1>0, <1>1, <1>2, ReadersKeepHandles
<1>8. Sound(Connector!Quiet) /\ Connector!Quiet.pending = mqtt.pending
  BY WorldIs
<1> DEFINE k == Connector!Quiet
<1>9. Sound(k) /\ k.pending = mqtt.pending /\ \A t \in Slaves \ (lost \cup mute) : Tidy(k, home, t)
  BY <1>8, WorldIs
<1> HIDE DEF k
<1>10. \A t \in Slaves \ lost :
         Silent(h, t) /\ (config[t] = Absent => h.subscribed[t] = None \/ Forgotten(k.pending, t))
  BY <1>6, <1>9 DEF IInv, Silent, Withdraws, SameSubscribed
<1>11. /\ Sound(w.mqtt) /\ HomeFits(w.home, slaves)
       /\ \A t \in Slaves \ lost :
            /\ Silent(w.home, t)
            /\ slaves[t] = Absent =>
                 \/ w.home.subscribed[t] = None
                 \/ Forgotten(w.mqtt.pending, t) \/ Forgotten(w.mqtt.run, t)
       /\ \A t \in Slaves \ (lost \cup mute) : Tidy(w.mqtt, w.home, t)
  <2>0. slaves[s] # Absent
    BY <1>2, <1>5, Values
  <2>1. CASE assigned
    <3>1. w = OnUpdateSlave([mqtt |-> k, home |-> h], s, slaves)
      BY <2>1 DEF k
    <3> HIDE DEF w
    <3>2. /\ Keeps(k, w.mqtt) /\ HomeFits(w.home, slaves) /\ w.home.session = h.session
          /\ w.home.subscribed[s] # None
          /\ \A t \in Slaves \ {s} : w.home.subscribed[t] = h.subscribed[t]
          /\ Addresses(k, w.mqtt)
      BY <1>5, <1>6, <1>9, <2>0, <3>1, UpdateKeeps
    <3>3. \A t \in Slaves \ (lost \cup mute) : Tidy(w.mqtt, w.home, t)
      BY <1>6, <1>9, <3>2 DEF Addresses, Tidy, Hushed, SameSubscribed
    <3> QED BY <1>5, <1>10, <2>0, <3>2, <3>3 DEF Keeps, Silent
  <2>2. CASE ~assigned
    <3>1. w.mqtt = k /\ w.home = h
      BY <2>2 DEF k
    <3> HIDE DEF w
    <3>2. \A t \in Slaves \ (lost \cup mute) : Tidy(w.mqtt, w.home, t)
      BY <1>6, <1>9, <3>1 DEF Tidy, Hushed, SameSubscribed
    <3> QED BY <1>5, <1>6, <1>9, <1>10, <2>0, <3>1, <3>2
  <2> QED BY <2>1, <2>2
<1> HIDE DEF w
<1>12. Settle(w, slaves) /\ file' \in 1 .. MaxVersion /\ slaves \in Configs /\ mute' = mute
  BY <1>1, <1>4, <1>5
<1> QED BY <1>7, <1>11, <1>12, StepKeeps

(* A step that only gives objects other contents.                                   *)
LEMMA ContentsKeep ==
  ASSUME IInv, NEW slaves \in Configs, \A s \in Slaves : slaves[s] = Absent <=> config[s] = Absent,
         Settle(World, slaves), file' \in 1 .. MaxVersion, Held(reading', slaves), mute' = mute
  PROVE  IInv'
<1> DEFINE w == World
<1>1. /\ Sound(w.mqtt) /\ w.mqtt.pending = mqtt.pending /\ w.home = home
      /\ \A s \in Slaves \ (lost \cup mute) : Tidy(w.mqtt, w.home, s)
  BY WorldIs
<1>2. HomeFits(w.home, slaves)
  BY <1>1, StillHeld DEF IInv
<1>3. \A s \in Slaves \ lost : Silent(home, s) /\ Withdraws(s)
  BY DEF IInv
<1> HIDE DEF w
<1>4. \A s \in Slaves \ lost :
        /\ Silent(w.home, s)
        /\ slaves[s] = Absent =>
             \/ w.home.subscribed[s] = None
             \/ Forgotten(w.mqtt.pending, s) \/ Forgotten(w.mqtt.run, s)
  BY <1>1, <1>3 DEF Withdraws
<1>5. Settle(w, slaves)
  BY DEF w
<1> QED BY <1>1, <1>2, <1>4, <1>5, StepKeeps

LEMMA SaveSpecificationKeeps ==
  ASSUME IInv, NEW s \in Slaves, SaveSpecification(s)
  PROVE  IInv'
<1> DEFINE o == [config[s] EXCEPT !.spec = file + 1, !.assigned = TRUE]
           slaves == [config EXCEPT ![s] = o]
           k == Connector!Quiet
           w == OnUpdateSlave(World, s, slaves)
<1>1. /\ config \in Configs /\ HomeFits(home, config) /\ Held(reading, config)
      /\ file \in 1 .. MaxVersion /\ config[s] \in Object /\ config[s] # Absent
  BY DEF IInv, Configs, SaveSpecification, Present
<1>2. /\ file' = file + 1 /\ file' \in 1 .. MaxVersion /\ file + 1 \in 0 .. MaxVersion
      /\ reading' = reading /\ mute' = mute
  BY <1>1, DiscoveryAssumption DEF SaveSpecification
<1>3. o \in Object
  BY <1>1, <1>2, DiscoveryAssumption DEF Object
<1>4. Settle(w, slaves)
  <2>1. [config EXCEPT ![s].spec = file + 1, ![s].assigned = TRUE] = slaves
    BY <1>1 DEF Configs
  <2> QED BY <2>1 DEF SaveSpecification
<1> HIDE DEF o
<1>5. slaves \in Configs /\ slaves[s] = o /\ \A t \in Slaves \ {s} : slaves[t] = config[t]
  BY <1>1, <1>3 DEF Configs
<1> HIDE DEF slaves
<1>6. HomeFits(home, slaves) /\ Held(reading', slaves)
  BY <1>1, <1>2, <1>3, <1>5, Values, StillHeld
<1>7. /\ Sound(k) /\ k.pending = mqtt.pending /\ w = OnUpdateSlave([mqtt |-> k, home |-> home], s, slaves)
      /\ \A t \in Slaves \ (lost \cup mute) : Tidy(k, home, t)
  BY WorldIs
<1>8. \A t \in Slaves \ lost : Silent(home, t) /\ Withdraws(t)
  BY DEF IInv
<1>9. slaves[s] # Absent
  BY <1>3, <1>5, Values
<1> HIDE DEF k, w
<1>10. /\ Keeps(k, w.mqtt) /\ HomeFits(w.home, slaves) /\ w.home.session = home.session
       /\ w.home.subscribed[s] # None /\ Addresses(k, w.mqtt)
       /\ \A t \in Slaves \ {s} : w.home.subscribed[t] = home.subscribed[t]
  BY <1>5, <1>6, <1>7, <1>9, UpdateKeeps
<1>11. \A t \in Slaves \ lost :
         /\ Silent(w.home, t)
         /\ slaves[t] = Absent =>
              \/ w.home.subscribed[t] = None
              \/ Forgotten(w.mqtt.pending, t) \/ Forgotten(w.mqtt.run, t)
  BY <1>5, <1>7, <1>8, <1>9, <1>10 DEF Keeps, Silent, Withdraws
<1>12. Sound(w.mqtt)
  BY <1>10 DEF Keeps
<1>13. \A t \in Slaves \ (lost \cup mute') : Tidy(w.mqtt, w.home, t)
  BY <1>2, <1>7, <1>10 DEF Addresses, Tidy, Hushed
<1> QED BY <1>2, <1>4, <1>5, <1>6, <1>10, <1>11, <1>12, <1>13, StepKeeps

LEMMA SaveElsewhereKeeps ==
  ASSUME IInv, SaveSpecificationElsewhere
  PROVE  IInv'
<1>1. /\ config \in Configs /\ Settle(World, config)
      /\ file' \in 1 .. MaxVersion /\ Held(reading', config) /\ mute' = mute
  BY DiscoveryAssumption DEF IInv, SaveSpecificationElsewhere
<1> QED BY <1>1, ContentsKeep

LEMMA DeleteSpecificationKeeps ==
  ASSUME IInv, DeleteSpecification
  PROVE  IInv'
<1> DEFINE slaves == [s \in Slaves |->
                        IF s \in Present THEN [config[s] EXCEPT !.assigned = FALSE] ELSE Absent]
<1>1. /\ config \in Configs /\ Held(reading, config)
      /\ file' \in 1 .. MaxVersion /\ reading' = reading /\ Settle(World, slaves) /\ mute' = mute
  BY DEF IInv, DeleteSpecification
<1>2. ASSUME NEW s \in Present PROVE [config[s] EXCEPT !.assigned = FALSE] \in Object
  BY <1>1 DEF Configs, Present, Object
<1>3. slaves \in Configs /\ \A s \in Slaves : slaves[s] = Absent <=> config[s] = Absent
  BY <1>2, Values DEF Configs, Present
<1> HIDE DEF slaves
<1>4. Held(reading', slaves)
  BY <1>1, <1>3 DEF Held
<1> QED BY <1>1, <1>3, <1>4, ContentsKeep

(* An object that gets the contents of its specification file.                       *)
LEMMA RefreshedConfig ==
  ASSUME IInv, NEW s \in Present, NEW slaves, slaves = [config EXCEPT ![s] = AddSpecification(@)]
  PROVE  /\ slaves \in Configs /\ slaves[s] # Absent
         /\ \A t \in Slaves : slaves[t] = Absent <=> config[t] = Absent
<1> DEFINE o == AddSpecification(config[s])
<1>1. config \in Configs /\ s \in Slaves /\ config[s] \in Object /\ config[s] # Absent /\ file \in 1 .. MaxVersion
  BY DEF IInv, Configs, Present
<1>2. o \in Object /\ slaves = [config EXCEPT ![s] = o]
  BY <1>1, AddedIsObject
<1> HIDE DEF o
<1> QED BY <1>1, <1>2, Values DEF Configs

LEMMA GetSlaveKeeps ==
  ASSUME IInv, NEW s \in Slaves, GetSlave(s)
  PROVE  IInv'
<1> DEFINE slaves == [config EXCEPT ![s] = AddSpecification(@)]
<1>1. /\ s \in Present /\ Settle(World, slaves) /\ file' \in 1 .. MaxVersion
      /\ reading' = reading /\ Held(reading, config) /\ mute' = mute
  BY DEF IInv, GetSlave
<1>2. slaves \in Configs /\ \A t \in Slaves : slaves[t] = Absent <=> config[t] = Absent
  BY <1>1, RefreshedConfig
<1> HIDE DEF slaves
<1>3. Held(reading', slaves)
  BY <1>1, <1>2 DEF Held
<1> QED BY <1>1, <1>2, <1>3, ContentsKeep

LEMMA PollStartsKeeps ==
  ASSUME IInv, NEW s \in Slaves, PollStarts(s)
  PROVE  IInv'
<1> DEFINE slaves == [config EXCEPT ![s] = AddSpecification(@)]
<1>1. /\ s \in Present /\ Settle(World, slaves) /\ file' \in 1 .. MaxVersion
      /\ reading' = [reading EXCEPT ![s] = Current] /\ Held(reading, config) /\ mute' = mute
  BY DEF IInv, PollStarts
<1>2. /\ slaves \in Configs /\ slaves[s] # Absent
      /\ \A t \in Slaves : slaves[t] = Absent <=> config[t] = Absent
  BY <1>1, RefreshedConfig
<1> HIDE DEF slaves
<1>3. Held(reading', slaves)
  BY <1>1, <1>2 DEF Held, Handle
<1> QED BY <1>1, <1>2, <1>3, ContentsKeep

LEMMA PollEndsKeeps ==
  ASSUME IInv, NEW s \in Slaves, PollEnds(s)
  PROVE  IInv'
<1> DEFINE o == Deref(reading[s], s, config)
           k == Connector!Quiet
           w == RepublishIfChanged(World, s, o)
<1>1. /\ config \in Configs /\ HomeFits(home, config) /\ Held(reading, config)
      /\ file' \in 1 .. MaxVersion /\ reading[s] # None
      /\ reading' = [reading EXCEPT ![s] = None] /\ Settle(w, config) /\ mute' = mute
  BY DEF IInv, PollEnds
<1>2. o \in Object
  BY <1>1, Contents DEF Held
<1>3. Held(reading', config)
  BY <1>1, Values DEF Held, Handle
<1>4. /\ Sound(k) /\ k.pending = mqtt.pending /\ w = RepublishIfChanged([mqtt |-> k, home |-> home], s, o)
      /\ \A t \in Slaves \ (lost \cup mute) : Tidy(k, home, t)
  BY WorldIs
<1>5. \A t \in Slaves \ lost : Silent(home, t) /\ Withdraws(t)
  BY DEF IInv
<1> HIDE DEF o, k, w
<1>6. /\ Keeps(k, w.mqtt) /\ Addresses(k, w.mqtt) /\ HomeFits(w.home, config)
      /\ w.home.subscribed = home.subscribed /\ w.home.session = home.session
  BY <1>1, <1>2, <1>4, RepublishKeeps
<1>7. \A t \in Slaves \ lost :
        /\ Silent(w.home, t)
        /\ config[t] = Absent =>
             \/ w.home.subscribed[t] = None
             \/ Forgotten(w.mqtt.pending, t) \/ Forgotten(w.mqtt.run, t)
  BY <1>4, <1>5, <1>6 DEF Keeps, Silent, Withdraws
<1>8. Sound(w.mqtt)
  BY <1>6 DEF Keeps
<1>9. \A t \in Slaves \ (lost \cup mute') : Tidy(w.mqtt, w.home, t)
  BY <1>1, <1>4, <1>6 DEF Addresses, Tidy, Hushed
<1> QED BY <1>1, <1>3, <1>6, <1>7, <1>8, <1>9, StepKeeps

LEMMA DeleteSlaveKeeps ==
  ASSUME IInv, NEW s \in Slaves, DeleteSlave(s)
  PROVE  IInv'
<1> DEFINE o == AddSpecification(config[s])
           slaves == [config EXCEPT ![s] = Absent]
           k == Connector!Quiet
           h == Let(home, s, o)
           callback == Callback("delete", {s}, {}, IF CanBeWritten(o) THEN {s} ELSE {})
           l == Connector!GetMqttClient(k, callback)
           w == [mqtt |-> l, home |-> h]
<1>1. /\ config \in Configs /\ HomeFits(home, config) /\ Held(reading, config)
      /\ file \in 1 .. MaxVersion /\ config[s] \in Object /\ config[s] # Absent
  BY DEF IInv, Configs, DeleteSlave, Present
<1>2. o \in Object
  BY <1>1, AddedIsObject
<1>3. OnDeleteSlave([World EXCEPT !.home = Let(@, s, o)], s, o) = w
  <2> HIDE DEF o
  <2> DEFINE u == [mqtt |-> k, home |-> h]
  <2>1. [World EXCEPT !.home = Let(@, s, o)] = u
    BY WorldIs
  <2>2. [u EXCEPT !.mqtt = l] = w /\ u.mqtt = k
    OBVIOUS
  <2>3. OnDeleteSlave(u, s, o) = [u EXCEPT !.mqtt = Connector!GetMqttClient(u.mqtt, callback)]
    BY Zenon DEF OnDeleteSlave
  <2> HIDE DEF u, callback, w
  <2> QED BY <2>1, <2>2, <2>3
<1>4. /\ Settle(w, slaves) /\ reading' = [reading EXCEPT ![s] = Released(@, o)]
      /\ file' \in 1 .. MaxVersion
      /\ mute' = IF CanBeWritten(o) THEN mute ELSE mute \cup {s}
  BY <1>1, <1>3 DEF DeleteSlave
<1>5. Sound(k) /\ k.pending = mqtt.pending /\ \A t \in Slaves \ (lost \cup mute) : Tidy(k, home, t)
  BY WorldIs
<1>6. \A t \in Slaves \ lost : Silent(home, t) /\ Withdraws(t)
  BY DEF IInv
<1> HIDE DEF o
<1>7. /\ callback \in DiscoveryCallbacks /\ Forgets(callback, s)
      /\ \A t \in Slaves \ mute' : Forgets(callback, t) => t \in callback.commands
  BY <1>4 DEF Callback, DiscoveryCallbacks, Forgets
<1>8. slaves = [config EXCEPT ![s] = Absent] /\ h = Let(home, s, o)
      /\ slaves \in Configs /\ \A t \in Slaves \ {s} : slaves[t] = config[t]
  BY <1>1 DEF Configs
<1> HIDE DEF callback, k, h, slaves
<1>9. /\ Keeps(k, l)
      /\ \A t \in Slaves : Forgets(callback, t) => Forgotten(l.pending, t) \/ Forgotten(l.run, t)
      /\ \A t \in Slaves :
           /\ Addressed(k.pending, t) /\ Addressed(k.run, t)
           /\ Forgets(callback, t) => t \in callback.commands
           => Addressed(l.pending, t) /\ Addressed(l.run, t)
  BY <1>5, <1>7, RequestKeeps
<1>10. w.mqtt = l /\ w.home = h
  OBVIOUS
<1> HIDE DEF l, w
<1>11. Absent \in Object \cup {Absent}
  OBVIOUS
<1>12. HomeFits(h, slaves) /\ h.session = home.session /\ SameSubscribed(h, home)
  <2>1. config \in Configs /\ HomeFits(home, config) /\ (config[s] # Absent => o \in Object)
    BY <1>1, <1>2
  <2>2. slaves = [config EXCEPT ![s] = Absent] /\ h = Let(home, s, o)
    BY <1>8
  <2>3. HomeFits(h, slaves)
    BY <1>11, <2>1, <2>2, LetFits
  <2>4. h.session = home.session
    BY <1>11, <2>1, <2>2, LetFits
  <2>5. SameSubscribed(h, home)
    BY <1>11, <2>1, <2>2, LetFits
  <2> QED BY <2>3, <2>4, <2>5
<1>13. Held(reading', slaves)
  BY <1>1, <1>2, <1>4, <1>8, <1>11, ReadersKeepHandles
<1>14. \A t \in Slaves \ lost :
         /\ Silent(w.home, t)
         /\ slaves[t] = Absent =>
              \/ w.home.subscribed[t] = None
              \/ Forgotten(w.mqtt.pending, t) \/ Forgotten(w.mqtt.run, t)
  BY <1>5, <1>6, <1>7, <1>8, <1>9, <1>10, <1>12 DEF Keeps, Silent, Withdraws, SameSubscribed
<1>15. Sound(w.mqtt) /\ HomeFits(w.home, slaves)
  BY <1>9, <1>10, <1>12 DEF Keeps
<1>16. \A t \in Slaves \ (lost \cup mute') : Tidy(w.mqtt, w.home, t)
  BY <1>4, <1>5, <1>7, <1>9, <1>10, <1>12 DEF Tidy, Hushed, SameSubscribed
<1> QED BY <1>4, <1>8, <1>13, <1>14, <1>15, <1>16, StepKeeps

LEMMA DeleteBusKeeps ==
  ASSUME IInv, DeleteBus
  PROVE  IInv'
<1> DEFINE S == Subscribed(home)
           commands == Commandable(home, config)
           k == Connector!Quiet
           callback == Callback("deleteBus", S, {}, commands)
           l == Connector!GetMqttClient(k, callback)
           handles == [s \in Slaves |-> Released(home.subscribed[s], config[s])]
           h == [home EXCEPT !.subscribed = handles]
           slaves == [s \in Slaves |-> Absent]
           w == [mqtt |-> l, home |-> h]
           v == OnDeleteBus(World, config)
<1>1. /\ config \in Configs /\ home \in Home /\ Held(home.subscribed, config) /\ Held(reading, config)
      /\ file \in 1 .. MaxVersion
  BY DEF IInv, HomeFits
<1>2. v = [mqtt |-> l, home |-> home]
  <2> DEFINE u == [mqtt |-> k, home |-> home]
  <2>1. World = u
    BY WorldIs
  <2>2. u.mqtt = k /\ u.home = home /\ [u EXCEPT !.mqtt = l] = [mqtt |-> l, home |-> home]
    OBVIOUS
  <2>3. OnDeleteBus(u, config) =
          [u EXCEPT !.mqtt = Connector!GetMqttClient(u.mqtt,
             Callback("deleteBus", Subscribed(u.home), {}, Commandable(u.home, config)))]
    BY Zenon DEF OnDeleteBus
  <2> HIDE DEF u
  <2> QED BY <2>1, <2>2, <2>3
<1>3. [v EXCEPT !.home = [v.home EXCEPT !.subscribed = [s \in Slaves |-> Released(@[s], config[s])]]] = w
  <2>1. v.home = home /\ v.mqtt = l
    BY <1>2
  <2> HIDE DEF l
  <2> QED BY <1>2, <2>1
<1>4. /\ Settle(w, slaves) /\ reading' = [s \in Slaves |-> Released(reading[s], config[s])]
      /\ file' \in 1 .. MaxVersion /\ mute' = mute \cup (S \ commands)
  BY <1>1, <1>3 DEF DeleteBus
<1>5. Sound(k) /\ k.pending = mqtt.pending /\ \A t \in Slaves \ (lost \cup mute) : Tidy(k, home, t)
  BY WorldIs
<1>6. \A t \in Slaves \ lost : Silent(home, t) /\ Withdraws(t)
  BY DEF IInv
<1>7. /\ callback \in DiscoveryCallbacks /\ \A s \in S : Forgets(callback, s)
      /\ \A t \in Slaves \ mute' : Forgets(callback, t) => t \in callback.commands
  BY <1>4 DEF Callback, DiscoveryCallbacks, Forgets, Subscribed, Commandable
<1>8. \A s \in Slaves : s \notin S => home.subscribed[s] = None
  BY DEF Subscribed
<1>9. slaves \in Configs /\ \A s \in Slaves : config[s] # Absent => config[s] \in Object
  BY <1>1 DEF Configs
<1> HIDE DEF callback, k, S
<1>10. /\ Keeps(k, l)
       /\ \A t \in Slaves : Forgets(callback, t) => Forgotten(l.pending, t) \/ Forgotten(l.run, t)
       /\ \A t \in Slaves :
            /\ Addressed(k.pending, t) /\ Addressed(k.run, t)
            /\ Forgets(callback, t) => t \in callback.commands
            => Addressed(l.pending, t) /\ Addressed(l.run, t)
  BY <1>5, <1>7, RequestKeeps
<1> HIDE DEF l
<1>11. w.mqtt = l /\ w.home = h
  OBVIOUS
<1>12. /\ handles \in [Slaves -> Handle \ {Current}]
       /\ \A s \in Slaves : handles[s] = None <=> home.subscribed[s] = None
  <2>1. ASSUME NEW s \in Slaves
        PROVE  /\ Released(home.subscribed[s], config[s]) \in Handle \ {Current}
               /\ Released(home.subscribed[s], config[s]) = None <=> home.subscribed[s] = None
    BY <1>1, <1>9, ReleasedIsHeld
  <2> QED BY <2>1
<1>13. reading' \in [Slaves -> Handle \ {Current}]
  <2>1. ASSUME NEW s \in Slaves PROVE Released(reading[s], config[s]) \in Handle \ {Current}
    BY <1>1, <1>9, ReleasedIsHeld
  <2> QED BY <1>4, <2>1
<1>14. \A x \in [Slaves -> Handle \ {Current}] : Held(x, slaves)
  BY DEF Held
<1> HIDE DEF handles, slaves, w
<1>15. HomeFits(h, slaves) /\ h.session = home.session /\ h.subscribed = handles
  <2>1. h \in Home /\ h.session = home.session /\ h.subscribed = handles
    BY <1>1, <1>12 DEF Home
  <2> QED BY <1>12, <1>14, <2>1 DEF HomeFits
<1> HIDE DEF h
<1>16. \A t \in Slaves \ lost :
         /\ Silent(w.home, t)
         /\ slaves[t] = Absent =>
              \/ w.home.subscribed[t] = None
              \/ Forgotten(w.mqtt.pending, t) \/ Forgotten(w.mqtt.run, t)
  BY <1>6, <1>7, <1>8, <1>10, <1>11, <1>12, <1>15 DEF Silent
<1>17. Sound(w.mqtt) /\ HomeFits(w.home, slaves)
  BY <1>10, <1>11, <1>15 DEF Keeps
<1>18. Held(reading', slaves)
  BY <1>13, <1>14
<1>19. \A t \in Slaves \ (lost \cup mute') : Tidy(w.mqtt, w.home, t)
  BY <1>4, <1>5, <1>7, <1>10, <1>11, <1>12, <1>15 DEF Tidy, Hushed
<1> QED BY <1>4, <1>9, <1>16, <1>17, <1>18, <1>19, StepKeeps

LEMMA MqttEventKeeps ==
  ASSUME IInv, MqttEvent
  PROVE  IInv'
<1> DEFINE connects == ~Connector!IsConnected(mqtt) /\ Connector!IsConnected(mqtt')
           h == IF connects THEN Resubscribe(home, config) ELSE home
<1>1. /\ Connector!ConnectorEvent /\ home' = RunAll(h, mqtt'.run, config)
      /\ lost' = lost \cup Dropped(mqtt'.dropped)
      /\ file' = file /\ config' = config /\ reading' = reading /\ mute' = mute
  BY DEF MqttEvent
<1>2. /\ Sound(mqtt) /\ file \in 1 .. MaxVersion /\ config \in Configs /\ Held(reading, config)
      /\ HomeFits(home, config) /\ \A s \in Slaves \ lost : Silent(home, s) /\ Withdraws(s)
      /\ \A s \in Slaves \ (lost \cup mute) : Hushed(home, s) /\ Addressed(mqtt.pending, s)
  BY DEF IInv
<1>3. Passes(mqtt, mqtt')
  BY <1>1, <1>2, EventPasses
<1>4. HomeFits(h, config) /\ Quieter(home, h) /\ Hushes(home, h)
  <2>1. CASE connects
    <3>1. h = Resubscribe(home, config)
      BY <2>1
    <3> QED BY <1>2, <3>1, ResubscribeQuiets
  <2>2. CASE ~connects
    BY <1>2, <2>2 DEF Quieter, Hushes
  <2> QED BY <2>1, <2>2
<1> HIDE DEF h
<1>5. Sound(mqtt') /\ mqtt'.run \in Seq(DiscoveryCallbacks)
  BY <1>3 DEF Passes, Sound, Connectors
<1>6. /\ HomeFits(home', config) /\ Quieter(h, home')
      /\ \A s \in Slaves : Forgotten(mqtt'.run, s) => home'.subscribed[s] = None
      /\ \A s \in Slaves : Addressed(mqtt'.run, s) /\ Hushed(h, s) => Hushed(home', s)
  BY <1>1, <1>2, <1>4, <1>5, RunAllQuiets
<1>7. ASSUME NEW s \in Slaves \ lost' PROVE Silent(home', s) /\ Withdraws(s)'
  <2>1. s \in Slaves \ lost /\ s \notin Dropped(mqtt'.dropped)
    BY <1>1, <1>7
  <2>2. Silent(home, s) /\ Withdraws(s)
    BY <1>2, <2>1
  <2>3. Silent(home', s)
    BY <1>4, <1>6, <2>1, <2>2 DEF Quieter
  <2>4. config[s] = Absent => home'.subscribed[s] = None \/ Forgotten(mqtt'.pending, s)
    BY <1>3, <1>4, <1>6, <2>1, <2>2 DEF Quieter, Passes, Withdraws
  <2> QED BY <1>1, <2>3, <2>4 DEF Withdraws
<1>8. ASSUME NEW s \in Slaves \ (lost' \cup mute')
      PROVE  Hushed(home', s) /\ Addressed(mqtt'.pending, s)
  <2>1. s \in Slaves \ (lost \cup mute)
    BY <1>1
  <2>2. Addressed(mqtt'.pending, s) /\ Addressed(mqtt'.run, s)
    BY <1>2, <1>3, <2>1 DEF Passes
  <2> QED BY <1>2, <1>4, <1>6, <2>1, <2>2 DEF Hushes
<1> QED BY <1>1, <1>2, <1>5, <1>6, <1>7, <1>8 DEF IInv

(* The memory of the program is empty when it starts.                               *)
LEMMA FreshIsSound ==
  ASSUME IInv,
         NEW k, k = [Connector!Quiet EXCEPT !.client = Connector!NoClient, !.pending = <<>>,
                       !.clients = [c \in Connector!Clients |->
                          [live |-> FALSE, connected |-> FALSE,
                           settings |-> mqtt.settings, listeners |-> 0]]],
         NEW h, h = [home EXCEPT !.subscribed = [s \in Slaves |-> None],
                                 !.last = [t \in Topics |-> NoText]],
         NEW slaves
  PROVE  /\ Sound(k) /\ HomeFits(h, slaves) /\ h.session = home.session
         /\ \A s : Addressed(k.pending, s) /\ Addressed(k.run, s)
         /\ h.subscribed = [s \in Slaves |-> None]
<1> DEFINE none == <<>>
           idle == [live |-> FALSE, connected |-> FALSE, settings |-> mqtt.settings, listeners |-> 0]
           clients == [c \in Connector!Clients |-> idle]
           nobody == [s \in Slaves |-> None]
           nothing == [t \in Topics |-> NoText]
           q == Connector!Quiet
<1>1. Sound(q) /\ q.settings = mqtt.settings /\ q.run = <<>> /\ Sound(mqtt) /\ home \in Home
  BY QuietKeeps DEF IInv, HomeFits
<1>2. k = [q EXCEPT !.client = Connector!NoClient, !.pending = none, !.clients = clients]
  OBVIOUS
<1>3. h = [home EXCEPT !.subscribed = nobody, !.last = nothing]
  OBVIOUS
<1>4. none \in Seq(DiscoveryCallbacks)
  OBVIOUS
<1>5. mqtt.settings \in Settings /\ 0 \in 0 .. MaxListeners
  BY <1>1, DiscoveryAssumption DEF Sound, Connectors, Connector!ConnectorAssumption
<1>6. clients \in [Connector!Clients -> Connector!ClientState] /\ \A c \in Connector!Clients : ~clients[c].live
  BY <1>5 DEF Connector!ClientState
<1>7. /\ nobody \in [Slaves -> Handle] /\ nothing \in [Topics -> Payloads \cup {NoText}]
      /\ \A s \in Slaves : nobody[s] = None
  BY DEF Handle
<1> HIDE DEF none, clients, nobody, nothing, q
<1>8. /\ k \in Connectors /\ k.client = Connector!NoClient /\ k.clients = clients
      /\ k.pending = none /\ k.run = q.run
  BY <1>1, <1>2, <1>4, <1>6 DEF Connectors, Sound
<1>9. h \in Home /\ h.subscribed = nobody /\ h.session = home.session
  BY <1>1, <1>3, <1>7 DEF Home
<1>10. Held(nobody, slaves)
  BY <1>7, Values DEF Held
<1>11. \A s : Addressed(k.pending, s) /\ Addressed(k.run, s)
  BY <1>1, <1>8 DEF Addressed, none
<1> QED BY <1>6, <1>8, <1>9, <1>10, <1>11 DEF Sound, HomeFits, nobody

LEMMA RestartKeeps ==
  ASSUME IInv, Restart
  PROVE  IInv'
<1> DEFINE found == {s \in Present : config[s].assigned}
           slaves == [s \in Slaves |-> IF s \in found THEN AddSpecification(config[s]) ELSE Absent]
           k == [Connector!Quiet EXCEPT !.client = Connector!NoClient, !.pending = <<>>,
                   !.clients = [c \in Connector!Clients |->
                      [live |-> FALSE, connected |-> FALSE,
                       settings |-> mqtt.settings, listeners |-> 0]]]
           h == [home EXCEPT !.subscribed = [s \in Slaves |-> None], !.last = [t \in Topics |-> NoText]]
           w == AnnounceAll(k, h, found, slaves)
<1>1. /\ mqtt' = w.mqtt /\ home' = w.home /\ config' = slaves
      /\ lost' = (lost \cup Dropped(mqtt.pending) \cup Present) \ found
      /\ reading' = [s \in Slaves |-> None] /\ file' = file /\ mute' = mute
  BY DEF Restart, AnnounceAll
<1>2. /\ config \in Configs /\ file \in 1 .. MaxVersion
      /\ \A s \in Slaves \ lost : Silent(home, s) /\ Withdraws(s)
      /\ \A s \in Slaves \ (lost \cup mute) : Hushed(home, s)
  BY DEF IInv
<1>3. /\ Sound(k) /\ HomeFits(h, slaves) /\ h.session = home.session /\ h.subscribed = [s \in Slaves |-> None]
      /\ \A s : Addressed(k.pending, s) /\ Addressed(k.run, s)
  BY FreshIsSound
<1>4. ASSUME NEW s \in found PROVE AddSpecification(config[s]) \in Object
  <2>1. config[s] \in Object
    BY <1>2 DEF Configs, Present
  <2> QED BY <1>2, <2>1, AddedIsObject
<1>5. slaves \in Configs /\ \A s \in found : slaves[s] # Absent
  BY <1>4, Values DEF Configs, Present
<1>6. found \in SUBSET Slaves /\ found \subseteq Present
  BY DEF Present
<1> HIDE DEF found, slaves, k, h, w
<1>7. /\ Sound(w.mqtt) /\ HomeFits(w.home, slaves) /\ w.home.session = h.session
      /\ Addresses(k, w.mqtt) /\ \A s \in found : w.home.subscribed[s] # None
      /\ \A s \in Slaves \ found : w.home.subscribed[s] = h.subscribed[s]
  <2>1. w = AnnounceAll(k, h, found, slaves) /\ Sound(k) /\ HomeFits(h, slaves)
    BY <1>3 DEF w
  <2>2. found \in SUBSET Slaves /\ slaves \in Configs /\ \A s \in found : slaves[s] # Absent
    BY <1>5, <1>6
  <2>3. Sound(w.mqtt) /\ HomeFits(w.home, slaves)
    BY <2>1, <2>2, AnnouncedAreSubscribed
  <2>4. w.home.session = h.session
    BY <2>1, <2>2, AnnouncedAreSubscribed
  <2>5. \A s \in found : w.home.subscribed[s] # None
    BY <2>1, <2>2, AnnouncedAreSubscribed
  <2>6. \A s \in Slaves \ found : w.home.subscribed[s] = h.subscribed[s]
    BY <2>1, <2>2, AnnouncedAreSubscribed
  <2>7. Addresses(k, w.mqtt)
    BY <2>1, <2>2, AnnouncedAreSubscribed
  <2> QED BY <2>3, <2>4, <2>5, <2>6, <2>7
<1>8. ASSUME NEW s \in Slaves \ lost' PROVE Silent(home', s) /\ Withdraws(s)'
  <2>1. CASE s \in found
    BY <1>1, <1>5, <1>7, <2>1 DEF Silent, Withdraws
  <2>2. CASE s \notin found
    <3>1. s \in Slaves \ lost /\ s \notin Dropped(mqtt.pending) /\ config[s] = Absent
      BY <1>1, <1>8, <2>2 DEF Present
    <3>2. home.subscribed[s] = None /\ Silent(home, s)
      BY <1>2, <3>1, ForgottenIsDropped DEF Withdraws
    <3>3. home'.subscribed[s] = None /\ home'.session = home.session
      BY <1>1, <1>3, <1>7, <2>2, <3>1
    <3> QED BY <3>2, <3>3 DEF Silent, Withdraws
  <2> QED BY <2>1, <2>2
<1>9. Held(reading', slaves)
  BY <1>1, Values DEF Held, Handle
<1>10. ASSUME NEW s \in Slaves \ (lost' \cup mute')
       PROVE  Hushed(home', s) /\ Addressed(mqtt'.pending, s)
  <2>1. Addressed(mqtt'.pending, s)
    BY <1>1, <1>3, <1>7 DEF Addresses
  <2>2. CASE s \in found
    BY <1>1, <1>7, <2>1, <2>2 DEF Hushed
  <2>3. CASE s \notin found
    <3>1. s \in Slaves \ (lost \cup mute) /\ s \notin Dropped(mqtt.pending) /\ config[s] = Absent
      BY <1>1, <2>3 DEF Present
    <3>2. home.subscribed[s] = None /\ Hushed(home, s)
      BY <1>2, <3>1, ForgottenIsDropped DEF Withdraws
    <3>3. home'.session = home.session
      BY <1>1, <1>3, <1>7
    <3> QED BY <2>1, <3>2, <3>3 DEF Hushed
  <2> QED BY <2>2, <2>3
<1> QED BY <1>1, <1>2, <1>5, <1>7, <1>8, <1>9, <1>10 DEF IInv

(***************************************************************************)
(* The theorem.                                                               *)
(***************************************************************************)

LEMMA InitIInv == Init => IInv
<1> SUFFICES ASSUME Init PROVE IInv
  OBVIOUS
<1>1. Sound(mqtt)
  <2> DEFINE none == <<>>
  <2>1. none \in Seq(DiscoveryCallbacks) /\ 0 \in 0 .. MaxListeners
    BY DiscoveryAssumption DEF Connector!ConnectorAssumption
  <2> HIDE DEF none
  <2>2. PICK broker \in Settings :
          mqtt = [settings |-> broker, client |-> Connector!NoClient,
                  clients |-> [c \in Connector!Clients |->
                                 [live |-> FALSE, connected |-> FALSE, settings |-> broker, listeners |-> 0]],
                  ends |-> <<>>, pending |-> none, run |-> none, dropped |-> none]
    BY DEF Init, Connector!Init, none
  <2>3. mqtt \in Connectors /\ mqtt.client = Connector!NoClient
        /\ \A c \in Connector!Clients : ~mqtt.clients[c].live
    BY <2>1, <2>2 DEF Connectors, Connector!ClientState
  <2> QED BY <2>3 DEF Sound
<1>2. file \in 1 .. MaxVersion /\ config \in Configs /\ Held(reading, config)
  BY DiscoveryAssumption, Values DEF Init, Configs, Held, Handle
<1>3. HomeFits(home, config)
  BY Values DEF Init, HomeFits, Held, Home, Handle
<1>4. \A s \in Slaves : Silent(home, s) /\ Withdraws(s)
  BY DEF Init, Silent, Withdraws
<1>5. \A s \in Slaves : Hushed(home, s) /\ Addressed(mqtt.pending, s)
  BY DEF Init, Connector!Init, Hushed, Addressed
<1> QED BY <1>1, <1>2, <1>3, <1>4, <1>5 DEF IInv

LEMMA NextKeepsIInv == IInv /\ [Next]_vars => IInv'
<1> SUFFICES ASSUME IInv, [Next]_vars PROVE IInv'
  OBVIOUS
<1>1. ASSUME NEW s \in Slaves, NEW assigned \in BOOLEAN, NEW hidden \in SUBSET Entities,
             SaveSlave(s, assigned, hidden)
      PROVE  IInv'
  BY <1>1, SaveSlaveKeeps
<1>2. ASSUME NEW s \in Slaves,
             SaveSpecification(s) \/ DeleteSlave(s) \/ GetSlave(s) \/ PollStarts(s) \/ PollEnds(s)
      PROVE  IInv'
  BY <1>2, SaveSpecificationKeeps, DeleteSlaveKeeps, GetSlaveKeeps, PollStartsKeeps, PollEndsKeeps
<1>3. CASE SaveSpecificationElsewhere \/ DeleteSpecification \/ DeleteBus \/ Restart \/ MqttEvent
  BY <1>3, SaveElsewhereKeeps, DeleteSpecificationKeeps, DeleteBusKeeps, RestartKeeps, MqttEventKeeps
<1>4. CASE UNCHANGED vars
  BY <1>4 DEF vars, IInv, Withdraws
<1> QED BY <1>1, <1>2, <1>3, <1>4 DEF Next

(* Once its deletion is carried out a slave is neither subscribed nor triggered by the     *)
(* broker, nor sent commands if its deletions found a command topic, whatever waited or     *)
(* ran meanwhile and wherever the program was restarted, unless a callback of the slave was *)
(* lost or crossed; for any slaves, entities and versions                           *)
(* (mqttdiscover.ts: onDeleteSlave, onDeleteBus; mqttsubscriptions.ts).                   *)
THEOREM NobodyStraysBehind == Spec => []NoStraySubscription
<1>1. IInv => NoStraySubscription
  BY DEF IInv, NoStraySubscription, Present, Pending, Withdraws, Silent, Hushed, Forgotten, Forgets
<1> QED BY <1>1, InitIInv, NextKeepsIInv, PTL DEF Spec
=============================================================================
