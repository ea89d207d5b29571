---------------------------- MODULE PollingProofs ----------------------------
(***************************************************************************)
(* Theorems about the parts of PollingParts, for all values of their constants.   *)
(***************************************************************************)
EXTENDS PollingParts, FiniteSetTheorems, SequenceTheorems, FoldProofs, TLAPS

(***************************************************************************)
(* A behaviour of the parts is one of each part, or leaves it where it begins.    *)
(***************************************************************************)

LEMMA BeginsWithEach ==
  ASSUME Init
  PROVE  /\ Users!Init /\ Poller!Init /\ Messaging!Init /\ Values!Init
         /\ StateOfSlave!Init /\ Schedule!Init
BY DEF Init

LEMMA StepsOfEach ==
  ASSUME [Next]_vars
  PROVE  /\ [Users!Next]_users /\ [Poller!Next]_pollerVars /\ [Messaging!Next]_commandVars
         /\ [Values!Next]_valueVars /\ [StateOfSlave!Next]_payloadVars
         /\ [Schedule!Next]_expression
BY DEF Next, vars, UsersOfMqtt, Polling, Commanding, Converting, Publishing, Scheduling,
       connectorVars

(***************************************************************************)
(* Commands.                                                                  *)
(***************************************************************************)

(* Each request has its fields.                                                *)
RequestsHaveFields ==
  /\ DOMAIN request = Messages
  /\ \A r \in Messages :
       request[r] \in [stage : {request[r].stage}, slave : {request[r].slave},
                       open : {request[r].open}, snapshot : {request[r].snapshot},
                       good : {request[r].good}, answer : {request[r].answer}]

Written(r, e) == <<To[r], r, e>> \in applied

IsCommand(r) == MessageKind[r] \in {"command", "entity"}

(* A write of a command is open or has reached the device, until the command reads; *)
(* from then on all have reached it, and what it reads shows them.                *)
WritesAreFollowed(r) ==
  IsCommand(r) =>
    \/ request[r].stage \in {"new", "rejected", "stuck"}
    \/ /\ request[r].slave = To[r]
       /\ request[r].stage = "writing" =>
            \A e \in Messaging!ToWrite(r, To[r]) : e \in request[r].open \/ Written(r, e)
       /\ request[r].stage = "reading" =>
            \A e \in Messaging!ToWrite(r, To[r]) : Written(r, e)
       /\ request[r].stage \notin {"writing", "reading"} /\ request[r].good =>
            \A e \in Messaging!ToWrite(r, To[r]) : <<To[r], r, e>> \in request[r].snapshot

CommandInv == RequestsHaveFields /\ \A r \in Messages : WritesAreFollowed(r)

LEMMA CommandInvBegins == Messaging!Init => CommandInv
<1> SUFFICES ASSUME Messaging!Init PROVE CommandInv
  OBVIOUS
<1>1. request = [r \in Messages |->
                   [stage |-> "new", slave |-> To[r], open |-> {}, snapshot |-> {},
                    good |-> FALSE, answer |-> "none"]]
  BY Zenon DEF Messaging!Init
<1> QED BY <1>1 DEF CommandInv, RequestsHaveFields, WritesAreFollowed

(* A step that only moves one request, from one stage to another.                  *)
LEMMA GoesKeeps ==
  ASSUME CommandInv, NEW r \in Messages, NEW stage, Messaging!Goes(r, stage),
         UNCHANGED applied,
         \/ stage \in {"rejected", "stuck"}
         \/ /\ request[r].stage \notin {"new", "rejected", "stuck", "writing", "reading"}
            /\ stage \notin {"writing", "reading"}
  PROVE  CommandInv'
<1>1. \A q \in Messages : q # r => request'[q] = request[q]
  BY DEF Messaging!Goes, CommandInv, RequestsHaveFields
<1>2. /\ request'[r].stage = stage /\ request'[r].slave = request[r].slave
      /\ request'[r].open = request[r].open /\ request'[r].snapshot = request[r].snapshot
      /\ request'[r].good = request[r].good
  BY DEF Messaging!Goes, CommandInv, RequestsHaveFields
<1>3. RequestsHaveFields'
  BY DEF Messaging!Goes, CommandInv, RequestsHaveFields
<1>4. WritesAreFollowed(r)'
  BY <1>2 DEF CommandInv, WritesAreFollowed, IsCommand, Written
<1>5. \A q \in Messages : q # r => WritesAreFollowed(q)'
  BY <1>1 DEF CommandInv, WritesAreFollowed, IsCommand, Written
<1> QED BY <1>3, <1>4, <1>5 DEF CommandInv

(* A message that arrives is taken for a slave, or refused.                        *)
LEMMA ReceiveKeeps ==
  ASSUME CommandInv, NEW r \in Messages, Messaging!Receive(r)
  PROVE  CommandInv'
<1>1. PICK s : \/ MessageKind[r] = "trigger" /\ Messaging!Arrives(r, s)
               \/ \E started : Messaging!Refused(r, s, started)
               \/ Messaging!ToWrite(r, s) # {} /\ Messaging!Begins(r, s, Messaging!ToWrite(r, s))
  BY DEF Messaging!Receive
<1>2. applied' = applied
  BY DEF Messaging!Receive
<1>3. \A q \in Messages : q # r => request'[q] = request[q]
  BY <1>1 DEF Messaging!Arrives, Messaging!Refused, Messaging!Begins, CommandInv, RequestsHaveFields
<1>4. RequestsHaveFields'
  BY <1>1 DEF Messaging!Arrives, Messaging!Refused, Messaging!Begins, CommandInv, RequestsHaveFields
<1>5. \A q \in Messages : q # r => WritesAreFollowed(q)'
  BY <1>2, <1>3 DEF CommandInv, WritesAreFollowed, IsCommand, Written
<1>6. WritesAreFollowed(r)'
  <2>1. CASE MessageKind[r] = "trigger" /\ Messaging!Arrives(r, s)
    BY <2>1 DEF WritesAreFollowed, IsCommand
  <2>2. CASE \E started : Messaging!Refused(r, s, started)
    <3>1. request'[r].stage = "rejected"
      BY <2>2 DEF Messaging!Refused, CommandInv, RequestsHaveFields
    <3> QED BY <3>1 DEF WritesAreFollowed
  <2>3. CASE Messaging!ToWrite(r, s) # {} /\ Messaging!Begins(r, s, Messaging!ToWrite(r, s))
    <3>1. s = To[r]
      BY <2>3 DEF Messaging!ToWrite
    <3> DEFINE names == Messaging!ToWrite(r, s)
    <3> HIDE DEF names
    <3>2. Messaging!Begins(r, s, names)
      BY <2>3 DEF names
    <3>3. /\ request'[r].stage = "writing" /\ request'[r].slave = To[r]
          /\ request'[r].open = names
      BY <3>1, <3>2 DEF Messaging!Begins, CommandInv, RequestsHaveFields
    <3> QED BY <3>1, <3>3 DEF WritesAreFollowed, names
  <2> QED BY <1>1, <2>1, <2>2, <2>3
<1> QED BY <1>4, <1>5, <1>6 DEF CommandInv

LEMMA PollKeepsCommands ==
  ASSUME CommandInv, NEW r \in Messages, Messaging!PollRequested(r) \/ Messaging!PollTimeout(r)
  PROVE  CommandInv'
<1>1. MessageKind[r] = "http" /\ UNCHANGED applied
  BY DEF Messaging!PollRequested, Messaging!PollTimeout
<1>2. \A q \in Messages : q # r => request'[q] = request[q]
  BY DEF Messaging!PollRequested, Messaging!PollTimeout, Messaging!Arrives, CommandInv,
         RequestsHaveFields
<1>3. RequestsHaveFields'
  BY DEF Messaging!PollRequested, Messaging!PollTimeout, Messaging!Arrives, CommandInv,
         RequestsHaveFields
<1>4. WritesAreFollowed(r)'
  BY <1>1 DEF WritesAreFollowed, IsCommand
<1>5. \A q \in Messages : q # r => WritesAreFollowed(q)'
  BY <1>1, <1>2 DEF CommandInv, WritesAreFollowed, IsCommand, Written
<1> QED BY <1>3, <1>4, <1>5 DEF CommandInv

(* The last write that succeeds lets the command read; one that fails ends it.        *)
LEMMA WriteKeeps ==
  ASSUME CommandInv, NEW r \in Messages, NEW e \in Commandable,
         Messaging!WriteSucceeds(r, e) \/ Messaging!WriteFails(r, e)
  PROVE  CommandInv'
<1>1. \A q \in Messages : q # r => request'[q] = request[q]
  BY DEF Messaging!WriteSucceeds, Messaging!WriteFails, CommandInv, RequestsHaveFields
<1>2. applied \subseteq applied'
  BY DEF Messaging!WriteSucceeds, Messaging!WriteFails
<1>3. RequestsHaveFields'
  BY DEF Messaging!WriteSucceeds, Messaging!WriteFails, CommandInv, RequestsHaveFields
<1>4. \A q \in Messages : q # r => WritesAreFollowed(q)'
  BY <1>1, <1>2 DEF CommandInv, WritesAreFollowed, IsCommand, Written
<1>5. /\ request'[r].slave = request[r].slave /\ request'[r].snapshot = request[r].snapshot
      /\ request'[r].good = request[r].good /\ request'[r].open = request[r].open \ {e}
  BY DEF Messaging!WriteSucceeds, Messaging!WriteFails, CommandInv, RequestsHaveFields
<1>6. WritesAreFollowed(r)'
  <2>1. CASE Messaging!WriteSucceeds(r, e)
    <3>1. /\ applied' = applied \cup {<<request[r].slave, r, e>>}
          /\ request'[r].stage = IF request[r].stage = "writing" /\ request[r].open \ {e} = {}
                                 THEN "reading" ELSE request[r].stage
      BY <2>1 DEF Messaging!WriteSucceeds, CommandInv, RequestsHaveFields
    <3>2. WritesAreFollowed(r)
      BY DEF CommandInv
    <3> QED BY <1>2, <1>5, <3>1, <3>2 DEF WritesAreFollowed, IsCommand, Written
  <2>2. CASE Messaging!WriteFails(r, e)
    <3>1. /\ applied' = applied
          /\ request'[r].stage = IF request[r].stage # "writing" THEN request[r].stage
                                 ELSE IF MessageKind[r] = "command" THEN "stuck" ELSE "rejected"
      BY <2>2 DEF Messaging!WriteFails, CommandInv, RequestsHaveFields
    <3>2. WritesAreFollowed(r)
      BY DEF CommandInv
    <3> QED BY <1>5, <3>1, <3>2 DEF WritesAreFollowed, IsCommand, Written
  <2> QED BY <2>1, <2>2
<1> QED BY <1>3, <1>4, <1>6 DEF CommandInv

(* What a command reads has been written.                                          *)
LEMMA ReadKeeps ==
  ASSUME CommandInv, NEW r \in Messages, NEW good \in BOOLEAN, Messaging!ReadEnds(r, good)
  PROVE  CommandInv'
<1>1. \A q \in Messages : q # r => request'[q] = request[q]
  BY DEF Messaging!ReadEnds, CommandInv, RequestsHaveFields
<1>2. UNCHANGED applied
  BY DEF Messaging!ReadEnds
<1>3. RequestsHaveFields'
  BY DEF Messaging!ReadEnds, CommandInv, RequestsHaveFields
<1>4. /\ request[r].stage = "reading" /\ request'[r].slave = request[r].slave
      /\ request'[r].stage \in {"state", "client"}
      /\ request'[r].good = good /\ request'[r].snapshot = IF good THEN {w \in applied : w[2] = r} ELSE {}
  BY DEF Messaging!ReadEnds, CommandInv, RequestsHaveFields
<1>5. WritesAreFollowed(r)'
  <2>1. WritesAreFollowed(r)
    BY DEF CommandInv
  <2> QED BY <1>4, <2>1 DEF WritesAreFollowed, IsCommand, Written
<1>6. \A q \in Messages : q # r => WritesAreFollowed(q)'
  BY <1>1, <1>2 DEF CommandInv, WritesAreFollowed, IsCommand, Written
<1> QED BY <1>3, <1>5, <1>6 DEF CommandInv

LEMMA ConnectionKeepsCommands ==
  ASSUME CommandInv, Messaging!Connects \/ Messaging!Disconnects
  PROVE  CommandInv'
<1>1. \A r \in Messages :
        \/ request'[r] = request[r]
        \/ /\ request[r].stage = "client" /\ request'[r].stage = "state"
           /\ request'[r].slave = request[r].slave /\ request'[r].open = request[r].open
           /\ request'[r].snapshot = request[r].snapshot /\ request'[r].good = request[r].good
  BY DEF Messaging!Connects, Messaging!Disconnects, CommandInv, RequestsHaveFields
<1>2. UNCHANGED applied
  BY DEF Messaging!Connects, Messaging!Disconnects
<1>3. RequestsHaveFields'
  BY DEF Messaging!Connects, Messaging!Disconnects, CommandInv, RequestsHaveFields
<1>4. ASSUME NEW r \in Messages PROVE WritesAreFollowed(r)'
  <2>1. WritesAreFollowed(r)
    BY DEF CommandInv
  <2> QED BY <1>1, <1>2, <2>1 DEF WritesAreFollowed, IsCommand, Written
<1> QED BY <1>3, <1>4 DEF CommandInv

LEMMA CommandsKeep == CommandInv /\ [Messaging!Next]_commandVars => CommandInv'
<1> SUFFICES ASSUME CommandInv, [Messaging!Next]_commandVars PROVE CommandInv'
  OBVIOUS
<1>1. CASE \E r \in Messages : Messaging!Receive(r)
  BY <1>1, ReceiveKeeps
<1>2. CASE \E r \in Messages : Messaging!PollRequested(r) \/ Messaging!PollTimeout(r)
  BY <1>2, PollKeepsCommands
<1>3. CASE \E r \in Messages, e \in Commandable :
             Messaging!WriteSucceeds(r, e) \/ Messaging!WriteFails(r, e)
  BY <1>3, WriteKeeps
<1>4. CASE \E r \in Messages, good \in BOOLEAN : Messaging!ReadEnds(r, good)
  BY <1>4, ReadKeeps
<1>5. CASE \E r \in Messages :
             \/ Messaging!NothingToRead(r) \/ Messaging!Drops(r) \/ Messaging!BusGone(r)
             \/ Messaging!PublishSucceeds(r) \/ Messaging!PublishFails(r)
             \/ Messaging!FlaggedOffline(r) \/ Messaging!Pushed(r)
  <2>1. PICK r \in Messages :
             \/ Messaging!NothingToRead(r) \/ Messaging!Drops(r) \/ Messaging!BusGone(r)
             \/ Messaging!PublishSucceeds(r) \/ Messaging!PublishFails(r)
             \/ Messaging!FlaggedOffline(r) \/ Messaging!Pushed(r)
    BY <1>5
  <2>2. UNCHANGED applied
    BY <2>1 DEF Messaging!NothingToRead, Messaging!Drops, Messaging!BusGone,
       Messaging!PublishSucceeds, Messaging!PublishFails, Messaging!FlaggedOffline, Messaging!Pushed
  <2>3. PICK stage :
          /\ Messaging!Goes(r, stage)
          /\ \/ stage \in {"rejected", "stuck"}
             \/ /\ request[r].stage \notin {"new", "rejected", "stuck", "writing", "reading"}
                /\ stage \notin {"writing", "reading"}
    <3>1. CASE Messaging!PublishSucceeds(r)
      <4>1. PICK stage \in {"online", "push", "resolved"} :
              Messaging!Goes(r, stage) /\ request[r].stage \in {"state", "online"}
        BY <3>1, Zenon DEF Messaging!PublishSucceeds, Messaging!After
      <4> QED BY <4>1
    <3>2. CASE ~Messaging!PublishSucceeds(r)
      BY <2>1, <3>2 DEF Messaging!NothingToRead, Messaging!Drops, Messaging!BusGone,
         Messaging!PublishFails, Messaging!FlaggedOffline, Messaging!Pushed
    <3> QED BY <3>1, <3>2
  <2> QED BY <2>2, <2>3, GoesKeeps
<1>6. CASE Messaging!Connects \/ Messaging!Disconnects
  BY <1>6, ConnectionKeepsCommands
<1>7. CASE UNCHANGED commandVars
  BY <1>7 DEF commandVars, CommandInv, RequestsHaveFields, WritesAreFollowed, IsCommand, Written
<1> QED BY <1>1, <1>2, <1>3, <1>4, <1>5, <1>6, <1>7, Zenon DEF Messaging!Next

(* A command that is reported as done has published a state that shows its writes,         *)
(* however they and other requests overlap, and wherever one of them fails (sendCommand).  *)
THEOREM CommandsAreSeen == Spec => []DoneMeansSeen
<1>1. Init => CommandInv
  BY BeginsWithEach, CommandInvBegins
<1>2. CommandInv /\ [Next]_vars => CommandInv'
  BY StepsOfEach, CommandsKeep
<1>3. CommandInv => DoneMeansSeen
  BY DEF CommandInv, WritesAreFollowed, IsCommand, DoneMeansSeen, Messaging!DoneMeansSeen
<1> QED BY <1>1, <1>2, <1>3, PTL DEF Spec

(***************************************************************************)
(* The connector.                                                             *)
(***************************************************************************)

LEMMA UsersCardinality == ASSUME NEW S PROVE Users!Cardinality(S) = Cardinality(S)
BY Zenon DEF Users!Cardinality, Cardinality

Connectors ==
  [settings : Brokers, client : Users!Clients \cup {Users!NoClient},
   clients : [Users!Clients -> Users!ClientState],
   ends : Seq([client : Users!Clients, settings : Brokers]),
   pending : Seq(Uses), run : Seq(Uses), dropped : Seq(Uses)]

(* The client there is lives; before there is one, nothing has happened.             *)
ClientLives(k) ==
  IF k.client = Users!NoClient THEN k.ends = <<>> /\ \A c \in Users!Clients : ~k.clients[c].live
  ELSE k.clients[k.client].live

(* The clients that are being ended will find one to replace them.                   *)
EnoughClients(k) == Len(k.ends) <= Cardinality(Users!Free(k))

(* Nobody waits beside a connected client, whichever its broker is, unless one ends.   *)
Flushed(k) == k.ends = <<>> /\ Users!IsConnected(k) => k.pending = <<>>

Sound(k) == k \in Connectors /\ ClientLives(k) /\ EnoughClients(k)

ConnectorInv == Sound(users) /\ Flushed(users)

LEMMA FreeClients ==
  ASSUME NEW k
  PROVE  Users!Free(k) \subseteq Users!Clients /\ IsFiniteSet(Users!Free(k))
           /\ Cardinality(Users!Free(k)) \in Nat
<1>1. Users!Free(k) \subseteq Users!Clients
  BY DEF Users!Free
<1>2. IsFiniteSet(1 .. MaxClients)
  BY PartsAssumption, FS_Interval DEF Users!ConnectorAssumption
<1>3. IsFiniteSet(Users!Free(k))
  BY <1>1, <1>2, FS_Subset, Zenon DEF Users!Clients
<1> QED BY <1>1, <1>3, FS_CardinalityType

(* A connected client runs all that waits; one that is not drops what came first.        *)
LEMMA ExecuteActionsKeeps ==
  ASSUME NEW k, Sound(k), NEW r, r = Users!ExecuteActions(k)
  PROVE  /\ Sound(r) /\ (Users!IsConnected(r) = Users!IsConnected(k))
         /\ r.ends = k.ends /\ r.client = k.client
         /\ Users!IsConnected(k) =>
              r.pending = <<>> /\ r.run = k.run \o k.pending /\ r.dropped = k.dropped
         /\ ~Users!IsConnected(k) => r.run = k.run
         /\ k.pending = <<>> => r.pending = <<>>
<1>1. k \in Connectors /\ k.pending \in Seq(Uses) /\ k.run \in Seq(Uses) /\ k.dropped \in Seq(Uses)
  BY DEF Sound, Connectors
<1>2. k.pending # <<>> => Head(k.pending) \in Uses /\ Tail(k.pending) \in Seq(Uses)
  BY <1>1
<1>3. /\ r \in Connectors
      /\ r.settings = k.settings /\ r.client = k.client /\ r.clients = k.clients /\ r.ends = k.ends
  <2>1. CASE k.pending = <<>>
    BY <1>1, <2>1 DEF Users!ExecuteActions
  <2>2. CASE k.pending # <<>> /\ Users!IsConnected(k)
    <3> DEFINE ran == k.run \o k.pending
               nobody == <<>>
    <3>1. ran \in Seq(Uses) /\ nobody \in Seq(Uses)
      BY <1>1
    <3>2. r = [k EXCEPT !.run = ran, !.pending = nobody]
      BY <2>2 DEF Users!ExecuteActions
    <3> HIDE DEF ran, nobody
    <3> QED BY <1>1, <3>1, <3>2 DEF Connectors
  <2>3. CASE k.pending # <<>> /\ ~Users!IsConnected(k)
    <3> DEFINE first == Append(k.dropped, Head(k.pending))
               rest == Tail(k.pending)
    <3>1. first \in Seq(Uses) /\ rest \in Seq(Uses)
      BY <1>1, <1>2, <2>3
    <3>2. r = [k EXCEPT !.dropped = first, !.pending = rest]
      BY <2>3 DEF Users!ExecuteActions
    <3> HIDE DEF first, rest
    <3> QED BY <1>1, <3>1, <3>2 DEF Connectors
  <2> QED BY <2>1, <2>2, <2>3
<1>4. Users!Free(r) = Users!Free(k)
  BY <1>3 DEF Users!Free
<1>5. Sound(r)
  BY <1>3, <1>4 DEF Sound, ClientLives, EnoughClients
<1>6. Users!IsConnected(r) = Users!IsConnected(k)
  BY <1>3 DEF Users!IsConnected
<1>7. CASE k.pending = <<>>
  <2>1. r = k /\ k.run \o k.pending = k.run
    BY <1>1, <1>7 DEF Users!ExecuteActions
  <2> QED BY <1>3, <1>5, <1>6, <1>7, <2>1
<1>8. CASE k.pending # <<>>
  <2>1. Users!IsConnected(k) =>
          r.pending = <<>> /\ r.run = k.run \o k.pending /\ r.dropped = k.dropped
    BY <1>1, <1>8 DEF Users!ExecuteActions, Connectors
  <2>2. ~Users!IsConnected(k) => r.run = k.run
    BY <1>1, <1>8 DEF Users!ExecuteActions, Connectors
  <2> QED BY <1>3, <1>5, <1>6, <1>8, <2>1, <2>2
<1> QED BY <1>7, <1>8

(* A client is created from those that are free.                                      *)
LEMMA CreatedKeeps ==
  ASSUME NEW k \in Connectors, NEW broker \in Brokers,
         Cardinality(Users!Free(k)) > Len(k.ends),
         NEW r, r = Users!Created(k, broker)
  PROVE  /\ Sound(r) /\ ~Users!IsConnected(r)
         /\ r.ends = k.ends /\ r.pending = k.pending /\ r.run = k.run /\ r.dropped = k.dropped
<1> DEFINE d == CHOOSE c \in Users!Free(k) : TRUE
<1>1. Len(k.ends) \in Nat
  BY DEF Connectors
<1>2. Users!Free(k) # {}
  BY <1>1, FS_EmptySet
<1>3. d \in Users!Free(k) /\ d \in Users!Clients
  BY <1>2, FreeClients
<1> HIDE DEF d
<1> DEFINE new == [live |-> TRUE, connected |-> FALSE, settings |-> broker, listeners |-> 1]
<1>4. new \in Users!ClientState
  BY PartsAssumption DEF Users!ClientState, Users!ConnectorAssumption
<1>5. r = [k EXCEPT !.client = d, !.clients[d] = new]
  BY DEF Users!Created, d
<1> HIDE DEF new
<1>6. /\ r \in Connectors
      /\ r.client = d /\ r.clients = [k.clients EXCEPT ![d] = new] /\ r.ends = k.ends
      /\ r.pending = k.pending /\ r.run = k.run /\ r.dropped = k.dropped
  <2> DEFINE others == [k.clients EXCEPT ![d] = new]
  <2>1. others \in [Users!Clients -> Users!ClientState]
    BY <1>3, <1>4 DEF Connectors
  <2>2. r = [k EXCEPT !.client = d, !.clients = others]
    BY <1>5
  <2> HIDE DEF others
  <2>3. /\ r \in Connectors
        /\ r.client = d /\ r.clients = others /\ r.ends = k.ends
        /\ r.pending = k.pending /\ r.run = k.run /\ r.dropped = k.dropped
    BY <1>3, <2>1, <2>2 DEF Connectors
  <2> QED BY <2>3 DEF others
<1>7. new.live /\ ~new.connected
  BY DEF new
<1>8. k.clients \in [Users!Clients -> Users!ClientState]
  BY DEF Connectors
<1>9. r.clients[d] = new /\ \A c \in Users!Clients : c # d => r.clients[c] = k.clients[c]
  BY <1>3, <1>6, <1>8
<1>10. Users!Free(r) = Users!Free(k) \ {d}
  BY <1>6, <1>7, <1>9, <1>3 DEF Users!Free
<1>11. Cardinality(Users!Free(r)) = Cardinality(Users!Free(k)) - 1
  BY <1>3, <1>10, FreeClients, FS_RemoveElement
<1>12. EnoughClients(r)
  BY <1>1, <1>6, <1>11, FreeClients DEF EnoughClients
<1>13. d # Users!NoClient
  BY <1>3 DEF Users!NoClient, Users!Clients
<1>14. ClientLives(r) /\ ~Users!IsConnected(r)
  BY <1>6, <1>7, <1>9, <1>13 DEF ClientLives, Users!IsConnected
<1> QED BY <1>6, <1>12, <1>14 DEF Sound

(* What is left of k when it has got one more callback, or lost what it did.             *)
LEMMA QuietKeeps ==
  ASSUME ConnectorInv, NEW k, k = Users!Quiet
  PROVE  /\ Sound(k) /\ Users!IsConnected(k) = Users!IsConnected(users)
         /\ k.settings = users.settings /\ k.client = users.client /\ k.clients = users.clients
         /\ k.ends = users.ends /\ k.pending = users.pending /\ k.run = <<>> /\ k.dropped = <<>>
<1> DEFINE nobody == <<>>
<1>1. nobody \in Seq(Uses) /\ users \in Connectors /\ Sound(users)
  BY DEF ConnectorInv, Sound
<1>2. k = [users EXCEPT !.run = nobody, !.dropped = nobody]
  BY DEF Users!Quiet
<1> HIDE DEF nobody
<1>3. /\ k \in Connectors
      /\ k.settings = users.settings /\ k.client = users.client /\ k.clients = users.clients
      /\ k.ends = users.ends /\ k.pending = users.pending /\ k.run = nobody /\ k.dropped = nobody
  BY <1>1, <1>2 DEF Connectors
<1>4. Users!Free(k) = Users!Free(users) /\ Users!IsConnected(k) = Users!IsConnected(users)
  BY <1>3 DEF Users!Free, Users!IsConnected
<1>5. Sound(k)
  BY <1>1, <1>3, <1>4 DEF Sound, ClientLives, EnoughClients
<1> QED BY <1>3, <1>4, <1>5 DEF nobody

(* What one step does to the callbacks.                                              *)
RunsInOrder(k, r) ==
  r.run # <<>> =>
    /\ Users!IsConnected(r)
    /\ \A i \in DOMAIN k.pending : i <= Len(r.run) => r.run[i] = k.pending[i]

DropsOffline(r) == r.dropped # <<>> => ~Users!IsConnected(r)

Allowed(k, r) == Sound(r) /\ Flushed(r) /\ RunsInOrder(k, r) /\ DropsOffline(r)

LEMMA RequestAllowed ==
  ASSUME ConnectorInv, NEW callback \in Uses, Users!Request(callback)
  PROVE  Allowed(users, users')
<1> DEFINE q == Users!Quiet
           asked == Append(q.pending, callback)
           k == [q EXCEPT !.pending = asked]
<1>1. /\ Sound(q) /\ q.run = <<>> /\ q.dropped = <<>> /\ q.pending = users.pending
      /\ Users!Free(q) = Users!Free(users) /\ q.ends = users.ends
  BY QuietKeeps DEF Users!Free
<1>2. Len(q.ends) < Cardinality(Users!Free(q)) /\ users' = Users!ConnectMqtt(k)
  BY <1>1, UsersCardinality DEF Users!Request, Users!GetMqttClient
<1> HIDE DEF q
<1>3. q \in Connectors /\ q.pending \in Seq(Uses)
  BY <1>1 DEF Sound, Connectors
<1>4. asked \in Seq(Uses) /\ \A i \in DOMAIN q.pending : asked[i] = q.pending[i]
  BY <1>3
<1> HIDE DEF asked
<1>5. /\ k \in Connectors /\ k.settings = q.settings /\ k.client = q.client
      /\ k.clients = q.clients /\ k.ends = q.ends /\ k.pending = asked
      /\ k.run = <<>> /\ k.dropped = <<>>
  BY <1>1, <1>3, <1>4 DEF Connectors
<1>6. Users!Free(k) = Users!Free(q)
  BY <1>5 DEF Users!Free
<1> HIDE DEF k
<1>7. Sound(k) /\ Len(k.ends) < Cardinality(Users!Free(k))
  BY <1>1, <1>2, <1>5, <1>6 DEF Sound, ClientLives, EnoughClients
<1>8. CASE k.client = Users!NoClient
  <2>1. users' = Users!Created(k, k.settings) /\ k.settings \in Brokers
    BY <1>2, <1>5, <1>8 DEF Users!ConnectMqtt, Connectors
  <2>2. Sound(users') /\ ~Users!IsConnected(users') /\ users'.run = <<>> /\ users'.dropped = <<>>
    BY <1>5, <1>7, <2>1, CreatedKeeps
  <2> QED BY <2>2 DEF Allowed, Flushed, RunsInOrder, DropsOffline
<1>9. CASE k.client # Users!NoClient /\ k.clients[k.client].settings # k.settings
  <2> DEFINE e == [client |-> k.client, settings |-> k.settings]
             ends == Append(k.ends, e)
  <2>1. e \in [client : Users!Clients, settings : Brokers]
    BY <1>5, <1>9 DEF Connectors
  <2>2. ends \in Seq([client : Users!Clients, settings : Brokers]) /\ Len(ends) = Len(k.ends) + 1
          /\ ends # <<>> /\ Len(k.ends) \in Nat
    BY <1>5, <2>1 DEF Connectors
  <2>3. users' = [k EXCEPT !.ends = ends]
    BY <1>2, <1>9 DEF Users!ConnectMqtt
  <2> HIDE DEF e, ends
  <2>4. /\ users' \in Connectors /\ users'.client = k.client /\ users'.clients = k.clients
        /\ users'.ends = ends /\ users'.run = <<>> /\ users'.dropped = <<>>
    BY <1>5, <2>2, <2>3 DEF Connectors
  <2>5. Users!Free(users') \subseteq Users!Free(k) /\ Users!Free(users') = Users!Free(k)
    <3>1. \A c \in Users!Free(k) : ~k.clients[c].live
      BY DEF Users!Free
    <3>2. k.clients[k.client].live
      BY <1>7, <1>9 DEF Sound, ClientLives
    <3>3. \A i \in DOMAIN ends : ends[i] = IF i = Len(k.ends) + 1 THEN e ELSE k.ends[i]
      <4>1. k.ends \in Seq([client : Users!Clients, settings : Brokers])
        BY <1>5 DEF Connectors
      <4> QED BY <2>1, <4>1, AppendProperties DEF ends
    <3>4. e.client = k.client
      BY DEF e
    <3>5. DOMAIN ends = 1 .. Len(k.ends) + 1 /\ DOMAIN k.ends = 1 .. Len(k.ends)
      BY <1>5, <2>2 DEF Connectors
    <3> QED BY <2>2, <2>4, <3>2, <3>3, <3>4, <3>5 DEF Users!Free
  <2>6. EnoughClients(users')
    BY <1>7, <2>2, <2>4, <2>5, FreeClients DEF EnoughClients
  <2>7. ClientLives(users')
    BY <1>7, <1>9, <2>4 DEF Sound, ClientLives
  <2> QED BY <2>2, <2>4, <2>6, <2>7 DEF Allowed, Sound, Flushed, RunsInOrder, DropsOffline
<1>10. CASE k.client # Users!NoClient /\ k.clients[k.client].settings = k.settings
  <2>1. CASE Users!IsConnected(k)
    <3>1. users' = Users!ExecuteActions(k)
      BY <1>2, <1>10, <2>1 DEF Users!ConnectMqtt
    <3>2. Sound(users') /\ Users!IsConnected(users') /\ users'.pending = <<>>
            /\ users'.run = k.run \o k.pending /\ users'.dropped = <<>>
      BY <1>5, <1>7, <2>1, <3>1, ExecuteActionsKeeps
    <3>3. users'.run = asked
      BY <1>4, <1>5, <3>2
    <3> QED BY <1>1, <1>4, <3>2, <3>3 DEF Allowed, Flushed, RunsInOrder, DropsOffline
  <2>2. CASE ~Users!IsConnected(k)
    <3> DEFINE c == k.clients[k.client]
               more == [c EXCEPT !.listeners = IF @ < MaxListeners THEN @ + 1 ELSE @]
               others == [k.clients EXCEPT ![k.client] = more]
    <3>1. c \in Users!ClientState /\ k.client \in Users!Clients
            /\ k.clients \in [Users!Clients -> Users!ClientState]
      BY <1>5, <1>10 DEF Connectors
    <3>2. more \in Users!ClientState /\ more.live = c.live /\ more.connected = c.connected
      BY <3>1, PartsAssumption DEF Users!ClientState, Users!ConnectorAssumption
    <3>3. users' = [k EXCEPT !.clients = others]
      BY <1>2, <1>10, <2>2 DEF Users!ConnectMqtt, Users!Reconnected
    <3> HIDE DEF more
    <3>4. others \in [Users!Clients -> Users!ClientState] /\ others[k.client] = more
            /\ \A d \in Users!Clients : d # k.client => others[d] = k.clients[d]
      BY <3>1, <3>2
    <3> HIDE DEF others
    <3>5. /\ users' \in Connectors /\ users'.client = k.client /\ users'.clients = others
          /\ users'.ends = k.ends /\ users'.run = <<>> /\ users'.dropped = <<>>
      BY <1>5, <3>3, <3>4 DEF Connectors
    <3>6. \A d \in Users!Clients : others[d].live = k.clients[d].live
      BY <3>2, <3>4
    <3>7. Users!Free(users') = Users!Free(k)
      BY <3>5, <3>6 DEF Users!Free
    <3>8. Sound(users')
      BY <1>7, <1>10, <3>1, <3>5, <3>6, <3>7 DEF Sound, ClientLives, EnoughClients
    <3>9. ~Users!IsConnected(users')
      BY <1>10, <2>2, <3>2, <3>4, <3>5 DEF Users!IsConnected
    <3> QED BY <3>5, <3>8, <3>9 DEF Allowed, Flushed, RunsInOrder, DropsOffline
  <2> QED BY <2>1, <2>2
<1>11. QED BY <1>8, <1>9, <1>10

(* The listeners of a client that reconnects drop as many as there are of them.         *)
LEMMA ReconnectsAllowed ==
  ASSUME ConnectorInv, NEW c \in Users!Clients, Users!ClientReconnects(c)
  PROVE  Allowed(users, users')
<1> DEFINE k == Users!Quiet
           n == users.clients[c].listeners
           lost == IF n < Len(k.pending) THEN n ELSE Len(k.pending)
           gone == SubSeq(k.pending, 1, lost)
           rest == SubSeq(k.pending, lost + 1, Len(k.pending))
<1>1. /\ Sound(k) /\ Users!IsConnected(k) = Users!IsConnected(users) /\ k.settings = users.settings
      /\ k.client = users.client /\ k.clients = users.clients
      /\ k.ends = users.ends /\ k.pending = users.pending /\ k.run = <<>> /\ k.dropped = <<>>
  BY QuietKeeps
<1>2. users' = Users!ExecuteActionsTimes(k, n) /\ n \in Nat
  BY DEF Users!ClientReconnects, ConnectorInv, Sound, Connectors, Users!ClientState
<1>3. CASE n = 0
  <2>1. users' = k
    BY <1>2, <1>3 DEF Users!ExecuteActionsTimes
  <2> QED BY <1>1, <2>1 DEF Allowed, ConnectorInv, Flushed, RunsInOrder, DropsOffline
<1>4. CASE n # 0 /\ Users!IsConnected(k)
  <2>1. users' = Users!ExecuteActions(k)
    BY <1>2, <1>4 DEF Users!ExecuteActionsTimes
  <2>2. Sound(users') /\ Users!IsConnected(users') /\ users'.pending = <<>>
          /\ users'.run = k.run \o k.pending /\ users'.dropped = <<>>
    BY <1>1, <1>4, <2>1, ExecuteActionsKeeps
  <2>3. users'.run = users.pending
    BY <1>1, <2>2 DEF Sound, Connectors
  <2> QED BY <2>2, <2>3 DEF Allowed, Flushed, RunsInOrder, DropsOffline
<1>5. CASE n # 0 /\ ~Users!IsConnected(k)
  <2>1. k.pending \in Seq(Uses) /\ k \in Connectors
    BY <1>1 DEF Sound, Connectors
  <2>2. lost \in 0 .. Len(k.pending)
    BY <1>2, <2>1
  <2> HIDE DEF k, lost
  <2>3. gone \in Seq(Uses) /\ rest \in Seq(Uses)
    BY <2>1, <2>2, SubSeqProperties
  <2> DEFINE all == k.dropped \o gone
  <2>4. all \in Seq(Uses)
    BY <2>1, <2>3 DEF Connectors
  <2>5. users' = [k EXCEPT !.dropped = all, !.pending = rest]
    BY <1>2, <1>5 DEF Users!ExecuteActionsTimes, lost
  <2> HIDE DEF all, rest
  <2>6. /\ users' \in Connectors /\ users'.client = k.client /\ users'.clients = k.clients
        /\ users'.ends = k.ends /\ users'.run = k.run
    BY <2>1, <2>3, <2>4, <2>5 DEF Connectors
  <2>7. Users!Free(users') = Users!Free(k) /\ Users!IsConnected(users') = Users!IsConnected(k)
    BY <2>6 DEF Users!Free, Users!IsConnected
  <2> QED BY <1>1, <1>5, <2>6, <2>7
        DEF Allowed, Sound, ClientLives, EnoughClients, Flushed, RunsInOrder, DropsOffline
<1> QED BY <1>3, <1>4, <1>5

(* A client of which only the connection changes.                                     *)
LEMMA ConnectionKeeps ==
  ASSUME ConnectorInv, NEW c \in Users!Clients, NEW on \in BOOLEAN,
         NEW k, k = [Users!Quiet EXCEPT !.clients[c].connected = on]
  PROVE  /\ Sound(k) /\ k.client = users.client
         /\ k.ends = users.ends /\ k.pending = users.pending /\ k.run = <<>> /\ k.dropped = <<>>
         /\ Users!IsConnected(k) = (k.client # Users!NoClient
                                      /\ IF k.client = c THEN on ELSE Users!IsConnected(users))
<1> DEFINE q == Users!Quiet
           one == [q.clients[c] EXCEPT !.connected = on]
           others == [q.clients EXCEPT ![c] = one]
<1>1. /\ Sound(q) /\ Users!IsConnected(q) = Users!IsConnected(users) /\ q.client = users.client
      /\ q.ends = users.ends /\ q.pending = users.pending /\ q.run = <<>> /\ q.dropped = <<>>
  BY QuietKeeps
<1>2. k = [q EXCEPT !.clients = others]
  OBVIOUS
<1> HIDE DEF q
<1>3. q \in Connectors /\ q.clients \in [Users!Clients -> Users!ClientState]
  BY <1>1 DEF Sound, Connectors
<1>4. one \in Users!ClientState /\ one.live = q.clients[c].live /\ one.connected = on
  BY <1>3 DEF Users!ClientState
<1> HIDE DEF one
<1>5. others \in [Users!Clients -> Users!ClientState] /\ others[c] = one
        /\ \A d \in Users!Clients : d # c => others[d] = q.clients[d]
  BY <1>3, <1>4
<1> HIDE DEF others
<1>6. /\ k \in Connectors /\ k.clients = others /\ k.client = q.client /\ k.ends = q.ends
      /\ k.pending = q.pending /\ k.run = q.run /\ k.dropped = q.dropped
  BY <1>2, <1>3, <1>5 DEF Connectors
<1>7. \A d \in Users!Clients : others[d].live = q.clients[d].live
  BY <1>4, <1>5
<1>8. Users!Free(k) = Users!Free(q)
  BY <1>6, <1>7 DEF Users!Free
<1>9. k.client \in Users!Clients \cup {Users!NoClient}
  BY <1>6 DEF Connectors
<1>10. Sound(k)
  BY <1>1, <1>6, <1>7, <1>8, <1>9 DEF Sound, ClientLives, EnoughClients
<1>11. Users!IsConnected(k) = (k.client # Users!NoClient
                                 /\ IF k.client = c THEN on ELSE Users!IsConnected(users))
  BY <1>1, <1>4, <1>5, <1>6, <1>9 DEF Users!IsConnected
<1> QED BY <1>1, <1>6, <1>10, <1>11

LEMMA ConnectAllowed ==
  ASSUME ConnectorInv, NEW c \in Users!Clients, Users!ClientConnects(c)
  PROVE  Allowed(users, users')
<1> DEFINE k == [Users!Quiet EXCEPT !.clients[c].connected = TRUE]
<1>1. users' = Users!ExecuteActions(k)
  BY DEF Users!ClientConnects
<1>2. /\ Sound(k) /\ k.client = users.client
      /\ k.ends = users.ends /\ k.pending = users.pending /\ k.run = <<>> /\ k.dropped = <<>>
      /\ Users!IsConnected(k) = (k.client # Users!NoClient
                                   /\ IF k.client = c THEN TRUE ELSE Users!IsConnected(users))
  BY ConnectionKeeps
<1> HIDE DEF k
<1>3. /\ Sound(users') /\ (Users!IsConnected(users') = Users!IsConnected(k))
      /\ Users!IsConnected(users') =>
           users'.pending = <<>> /\ users'.run = k.run \o k.pending /\ users'.dropped = k.dropped
      /\ ~Users!IsConnected(users') => users'.run = k.run
  BY <1>1, <1>2, ExecuteActionsKeeps
<1>4. k.run \o k.pending = users.pending
  BY <1>2 DEF Sound, Connectors
<1> QED BY <1>2, <1>3, <1>4 DEF Allowed, Flushed, RunsInOrder, DropsOffline

LEMMA DisconnectAllowed ==
  ASSUME ConnectorInv, NEW c \in Users!Clients, Users!ClientDisconnects(c)
  PROVE  Allowed(users, users')
<1> DEFINE k == [Users!Quiet EXCEPT !.clients[c].connected = FALSE]
<1>1. users' = k
  BY DEF Users!ClientDisconnects
<1>2. /\ Sound(k) /\ k.client = users.client
      /\ k.ends = users.ends /\ k.pending = users.pending /\ k.run = <<>> /\ k.dropped = <<>>
      /\ Users!IsConnected(k) = (k.client # Users!NoClient
                                   /\ IF k.client = c THEN FALSE ELSE Users!IsConnected(users))
  BY ConnectionKeeps
<1> HIDE DEF k
<1> QED BY <1>1, <1>2 DEF Allowed, ConnectorInv, Flushed, RunsInOrder, DropsOffline

(* Another broker does not connect or disconnect anybody.                              *)
LEMMA ReconfigureAllowed ==
  ASSUME ConnectorInv, NEW broker \in Brokers, Users!Reconfigure(broker)
  PROVE  Allowed(users, users')
<1> DEFINE q == Users!Quiet
<1>1. /\ Sound(q) /\ Users!IsConnected(q) = Users!IsConnected(users) /\ q.client = users.client
      /\ q.ends = users.ends /\ q.pending = users.pending /\ q.run = <<>> /\ q.dropped = <<>>
  BY QuietKeeps
<1>2. users' = [q EXCEPT !.settings = broker]
  BY DEF Users!Reconfigure
<1> HIDE DEF q
<1>3. /\ users' \in Connectors /\ users'.client = q.client /\ users'.clients = q.clients
      /\ users'.ends = q.ends /\ users'.pending = q.pending /\ users'.run = <<>>
      /\ users'.dropped = <<>>
  BY <1>1, <1>2 DEF Sound, Connectors
<1>4. Users!Free(users') = Users!Free(q) /\ Users!IsConnected(users') = Users!IsConnected(q)
  BY <1>3 DEF Users!Free, Users!IsConnected
<1> QED BY <1>1, <1>3, <1>4
      DEF Allowed, ConnectorInv, Sound, ClientLives, EnoughClients, Flushed, RunsInOrder, DropsOffline

(* A client that has ended leaves the place it needs for the one that replaces it.         *)
LEMMA EndAllowed ==
  ASSUME ConnectorInv, Users!ClientEnds
  PROVE  Allowed(users, users')
<1> DEFINE q == Users!Quiet
           e == Head(q.ends)
           rest == Tail(q.ends)
           one == [q.clients[e.client] EXCEPT !.live = FALSE, !.connected = FALSE]
           others == [q.clients EXCEPT ![e.client] = one]
           k == [q EXCEPT !.ends = rest, !.clients = others]
<1>1. /\ Sound(q) /\ q.client = users.client /\ q.ends = users.ends /\ q.run = <<>>
      /\ q.dropped = <<>>
  BY QuietKeeps
<1>2. q.ends # <<>> /\ users' = Users!Created(Users!Ended(q, e), e.settings)
  BY <1>1 DEF Users!ClientEnds, Users!Replaced
<1> HIDE DEF q
<1>3. q \in Connectors /\ q.clients \in [Users!Clients -> Users!ClientState]
        /\ q.ends \in Seq([client : Users!Clients, settings : Brokers])
  BY <1>1 DEF Sound, Connectors
<1>4. e \in [client : Users!Clients, settings : Brokers]
        /\ rest \in Seq([client : Users!Clients, settings : Brokers])
        /\ Len(rest) = Len(q.ends) - 1 /\ \A i \in 1 .. Len(rest) : rest[i] = q.ends[i + 1]
  BY <1>2, <1>3, HeadTailProperties
<1>5. Users!Ended(q, e) = k
  <2>1. Users!Ended(q, e) = [q EXCEPT !.ends = rest,
            !.clients = [[@ EXCEPT ![e.client].live = FALSE] EXCEPT ![e.client].connected = FALSE]]
    BY <1>3 DEF Users!Ended
  <2> QED BY <2>1, <1>3, <1>4
<1> HIDE DEF e, rest
<1>6. one \in Users!ClientState /\ ~one.live
  BY <1>3, <1>4 DEF Users!ClientState
<1> HIDE DEF one
<1>7. others \in [Users!Clients -> Users!ClientState] /\ others[e.client] = one
        /\ \A d \in Users!Clients : d # e.client => others[d] = q.clients[d]
  BY <1>3, <1>4, <1>6
<1> HIDE DEF others
<1>8. /\ k \in Connectors /\ k.clients = others /\ k.ends = rest
      /\ k.run = <<>> /\ k.dropped = <<>>
  BY <1>1, <1>3, <1>4, <1>7 DEF Connectors
<1> HIDE DEF k
<1>9. Users!Free(q) \subseteq Users!Free(k)
  <2>1. DOMAIN k.ends = 1 .. Len(rest) /\ DOMAIN q.ends = 1 .. Len(q.ends) /\ Len(rest) \in Nat
    BY <1>3, <1>4, <1>8
  <2>2. \A i \in DOMAIN k.ends : i + 1 \in DOMAIN q.ends /\ k.ends[i] = q.ends[i + 1]
    BY <1>4, <1>8, <2>1
  <2>3. \A c \in Users!Clients : k.clients[c].live => q.clients[c].live
    BY <1>6, <1>7, <1>8
  <2> QED BY <2>2, <2>3 DEF Users!Free
<1>10. Cardinality(Users!Free(q)) <= Cardinality(Users!Free(k))
  BY <1>9, FreeClients, FS_Subset
<1>11. Len(k.ends) < Cardinality(Users!Free(k))
  BY <1>1, <1>3, <1>4, <1>8, <1>10, FreeClients DEF Sound, EnoughClients
<1>12. e.settings \in Brokers /\ users' = Users!Created(k, e.settings)
  BY <1>2, <1>4, <1>5
<1>13. Sound(users') /\ ~Users!IsConnected(users') /\ users'.run = <<>> /\ users'.dropped = <<>>
  BY <1>8, <1>11, <1>12, CreatedKeeps
<1> QED BY <1>13 DEF Allowed, Flushed, RunsInOrder, DropsOffline

LEMMA ConnectorBegins == Users!Init => ConnectorInv
<1> SUFFICES ASSUME Users!Init PROVE ConnectorInv
  OBVIOUS
<1>0. PICK broker \in Brokers :
        users = [settings |-> broker, client |-> Users!NoClient,
                 clients |-> [c \in Users!Clients |->
                                [live |-> FALSE, connected |-> FALSE, settings |-> broker,
                                 listeners |-> 0]],
                 ends |-> <<>>, pending |-> <<>>, run |-> <<>>, dropped |-> <<>>]
  BY DEF Users!Init
<1> DEFINE nobody == [c \in Users!Clients |->
                        [live |-> FALSE, connected |-> FALSE, settings |-> broker,
                         listeners |-> 0]]
           none == <<>>
<1>1. /\ broker \in Brokers
      /\ users = [settings |-> broker, client |-> Users!NoClient, clients |-> nobody,
                  ends |-> none, pending |-> none, run |-> none, dropped |-> none]
  BY <1>0
<1>2. 0 \in 0 .. MaxListeners
  BY PartsAssumption DEF Users!ConnectorAssumption
<1>3. nobody \in [Users!Clients -> Users!ClientState] /\ \A c \in Users!Clients : ~nobody[c].live
  BY <1>1, <1>2 DEF Users!ClientState
<1>4. none \in Seq(Uses) /\ none \in Seq([client : Users!Clients, settings : Brokers])
        /\ Len(none) = 0
  OBVIOUS
<1> HIDE DEF nobody
<1>5. none = <<>>
  OBVIOUS
<1> HIDE DEF none
<1>6. users \in Connectors /\ users.client = Users!NoClient /\ users.clients = nobody
        /\ users.ends = none /\ users.pending = none
  BY <1>1, <1>3, <1>4 DEF Connectors
<1>7. EnoughClients(users)
  BY <1>4, <1>6, FreeClients DEF EnoughClients
<1> QED BY <1>3, <1>5, <1>6, <1>7 DEF ConnectorInv, Sound, ClientLives, Flushed

LEMMA ConnectorSteps ==
  ASSUME ConnectorInv, [Users!Next]_users
  PROVE  ConnectorInv' /\ (users' = users \/ Allowed(users, users'))
<1>1. CASE Users!Next
  <2>1. Allowed(users, users')
    BY <1>1, RequestAllowed, ReconfigureAllowed, ConnectAllowed, DisconnectAllowed,
       ReconnectsAllowed, EndAllowed DEF Users!Next, Users!ConnectorEvent
  <2> QED BY <2>1 DEF Allowed, ConnectorInv
<1>2. CASE UNCHANGED users
  BY <1>2 DEF ConnectorInv
<1> QED BY <1>1, <1>2

(* However clients connect, get lost, reconnect and are replaced when the broker is changed,     *)
(* no callback overtakes another one or is run offline, none is dropped online, and none         *)
(* is left waiting beside a client that is connected (mqttconnector.ts).                   *)
THEOREM NobodyOvertakes == Spec => CallbacksInOrder
<1>1. Init => ConnectorInv
  BY BeginsWithEach, ConnectorBegins
<1>2. ConnectorInv /\ [Next]_vars => ConnectorInv'
  BY StepsOfEach, ConnectorSteps
<1>3. ConnectorInv => Users!TypeOK /\ Users!FlushedWhenConnected
  <2> SUFFICES ASSUME ConnectorInv PROVE Users!TypeOK /\ Users!FlushedWhenConnected
    OBVIOUS
  <2>1. Users!TypeOK
    BY DEF ConnectorInv, Sound, ClientLives, Connectors, Users!TypeOK
  <2> QED BY <2>1 DEF ConnectorInv, Flushed, Users!FlushedWhenConnected
<1>4. ConnectorInv /\ [Next]_vars =>
        [users'.run # <<>> =>
           /\ Users!IsConnected(users')
           /\ \A i \in DOMAIN users.pending :
                i <= Len(users'.run) => users'.run[i] = users.pending[i]]_users
  BY StepsOfEach, ConnectorSteps DEF Allowed, RunsInOrder
<1>5. ConnectorInv /\ [Next]_vars =>
        [users'.dropped # <<>> => ~Users!IsConnected(users')]_users
  BY StepsOfEach, ConnectorSteps DEF Allowed, DropsOffline
<1> QED BY <1>1, <1>2, <1>3, <1>4, <1>5, PTL
      DEF Spec, CallbacksInOrder, Users!RunInOrderWhenConnected, Users!OnlyOfflineDrops

(***************************************************************************)
(* Readings that callbacks hold.                                               *)
(***************************************************************************)

Calls == Poller!PollCallbacks

Holds(q, s) == {i \in 1 .. Len(q) : q[i].kind = "state" /\ s \in q[i].slaves}

LEMMA PollerCardinality == ASSUME NEW S PROVE Poller!Cardinality(S) = Cardinality(S)
BY Zenon DEF Poller!Cardinality, Cardinality

LEMMA PolledAreFinite == IsFiniteSet(Polled)
<1>1. Poller!IsFiniteSet(Polled)
  BY PartsAssumption DEF Poller!PollerAssumption
<1> QED BY <1>1, Zenon DEF Poller!IsFiniteSet, IsFiniteSet

LEMMA HoldingCounts ==
  ASSUME NEW q \in Seq(Calls), NEW s
  PROVE  /\ Poller!Holding(q, s) = Cardinality(Holds(q, s)) /\ IsFiniteSet(Holds(q, s))
         /\ Poller!Holding(q, s) \in Nat
<1>1. Len(q) \in Nat /\ DOMAIN q = 1 .. Len(q)
  OBVIOUS
<1>2. IsFiniteSet(1 .. Len(q))
  BY <1>1, FS_Interval
<1>3. Holds(q, s) \subseteq 1 .. Len(q)
  BY DEF Holds
<1>4. IsFiniteSet(Holds(q, s))
  BY <1>2, <1>3, FS_Subset, Zenon
<1>5. Poller!Holding(q, s) = Cardinality(Holds(q, s))
  BY <1>1, PollerCardinality, Zenon DEF Poller!Holding, Holds
<1> QED BY <1>4, <1>5, FS_CardinalityType

LEMMA HoldingNothing == ASSUME NEW s PROVE Poller!Holding(<<>>, s) = 0
<1>1. <<>> \in Seq(Calls) /\ Holds(<<>>, s) = {}
  BY DEF Holds
<1> QED BY <1>1, HoldingCounts, FS_EmptySet

(* What is held in two lists is held in the one that joins them.                      *)
LEMMA HoldingJoined ==
  ASSUME NEW p \in Seq(Calls), NEW q \in Seq(Calls), NEW s
  PROVE  Poller!Holding(p \o q, s) = Poller!Holding(p, s) + Poller!Holding(q, s)
<1> DEFINE n == Len(p)
           later == {i \in n + 1 .. n + Len(q) : i - n \in Holds(q, s)}
           shift == [i \in Holds(q, s) |-> i + n]
<1>1. p \o q \in Seq(Calls) /\ Len(p \o q) = n + Len(q) /\ n \in Nat /\ Len(q) \in Nat
  OBVIOUS
<1>2. \A i \in 1 .. n + Len(q) : (p \o q)[i] = IF i <= n THEN p[i] ELSE q[i - n]
  OBVIOUS
<1>3. Holds(p \o q, s) = Holds(p, s) \cup later
  BY <1>1, <1>2 DEF Holds
<1>4. Holds(p, s) \cap later = {}
  BY <1>1 DEF Holds
<1>5. shift \in Bijection(Holds(q, s), later)
  <2>1. shift \in [Holds(q, s) -> later]
    BY <1>1 DEF Holds
  <2>2. \A i, j \in Holds(q, s) : shift[i] = shift[j] => i = j
    BY <1>1 DEF Holds
  <2>3. \A j \in later : \E i \in Holds(q, s) : shift[i] = j
    <3> TAKE j \in later
    <3>1. j - n \in Holds(q, s) /\ shift[j - n] = j
      BY <1>1 DEF Holds
    <3> QED BY <3>1
  <2> QED BY <2>1, <2>2, <2>3 DEF Bijection, Injection, Surjection, IsInjective
<1> HIDE DEF later, shift
<1>6. IsFiniteSet(Holds(q, s)) /\ IsFiniteSet(Holds(p, s))
  BY HoldingCounts
<1>7. IsFiniteSet(later) /\ Cardinality(later) = Cardinality(Holds(q, s))
  BY <1>5, <1>6, FS_Bijection DEF ExistsBijection
<1> HIDE DEF n
<1>8. Cardinality(Holds(p, s) \cup later) = Cardinality(Holds(p, s)) + Cardinality(later)
  <2>1. Cardinality(Holds(p, s) \cup later)
          = Cardinality(Holds(p, s)) + Cardinality(later) - Cardinality(Holds(p, s) \cap later)
    BY <1>6, <1>7, FS_Union
  <2>2. Cardinality(Holds(p, s) \cap later) = 0
    BY <1>4, FS_EmptySet
  <2> QED BY <1>6, <1>7, <2>1, <2>2, FS_CardinalityType
<1> QED BY <1>1, <1>3, <1>7, <1>8, HoldingCounts

LEMMA HoldingOne ==
  ASSUME NEW c \in Calls, NEW s
  PROVE  Poller!Holding(<<c>>, s) = IF c.kind = "state" /\ s \in c.slaves THEN 1 ELSE 0
<1>1. <<c>> \in Seq(Calls) /\ Len(<<c>>) = 1 /\ <<c>>[1] = c
  OBVIOUS
<1>2. Holds(<<c>>, s) = IF c.kind = "state" /\ s \in c.slaves THEN {1} ELSE {}
  BY <1>1 DEF Holds
<1> QED BY <1>1, <1>2, HoldingCounts, FS_EmptySet, FS_Singleton

(* A list holds what its parts hold.                                               *)
LEMMA HoldingParted ==
  ASSUME NEW q \in Seq(Calls), NEW n \in 0 .. Len(q), NEW s
  PROVE  /\ SubSeq(q, 1, n) \in Seq(Calls) /\ SubSeq(q, n + 1, Len(q)) \in Seq(Calls)
         /\ Poller!Holding(q, s)
              = Poller!Holding(SubSeq(q, 1, n), s) + Poller!Holding(SubSeq(q, n + 1, Len(q)), s)
<1>1. SubSeq(q, 1, n) \in Seq(Calls) /\ SubSeq(q, n + 1, Len(q)) \in Seq(Calls)
  BY SubSeqProperties
<1>2. SubSeq(q, 1, n) \o SubSeq(q, n + 1, Len(q)) = SubSeq(q, 1, Len(q))
  <2>1. 1 \in 1 .. Len(q) + 1 /\ n \in 1 - 1 .. Len(q) /\ Len(q) \in n .. Len(q)
    OBVIOUS
  <2> QED BY <2>1, ConcatAdjacentSubSeq
<1>3. SubSeq(q, 1, Len(q)) = q
  BY SubSeqFull
<1> DEFINE a == SubSeq(q, 1, n)
           b == SubSeq(q, n + 1, Len(q))
<1>4. a \in Seq(Calls) /\ b \in Seq(Calls) /\ a \o b = q
  BY <1>1, <1>2, <1>3
<1> HIDE DEF a, b
<1>5. Poller!Holding(q, s) = Poller!Holding(a, s) + Poller!Holding(b, s)
  BY <1>4, HoldingJoined
<1> QED BY <1>4, <1>5 DEF a, b
(***************************************************************************)
(* The connector of the poller neither duplicates nor loses a callback.            *)
(***************************************************************************)

PollConnectors ==
  [settings : PollerBrokers, client : Poller!Connector!Clients \cup {Poller!Connector!NoClient},
   clients : [Poller!Connector!Clients -> Poller!Connector!ClientState],
   ends : {<<>>}, pending : Seq(Calls), run : Seq(Calls), dropped : Seq(Calls)]

(* Nobody changes the broker: no client is ever ended.                                *)
OneBroker(k) ==
  /\ k \in PollConnectors
  /\ IF k.client = Poller!Connector!NoClient
       THEN \A c \in Poller!Connector!Clients : ~k.clients[c].live
       ELSE k.clients[k.client].settings = k.settings

(* Readings of s in callbacks that wait, that have run and that were dropped.           *)
Total(k, s) ==
  Poller!Holding(k.pending, s) + Poller!Holding(k.run, s) + Poller!Holding(k.dropped, s)

LEMMA TotalCounts ==
  ASSUME NEW k \in PollConnectors, NEW s
  PROVE  /\ Poller!Holding(k.pending, s) \in Nat /\ Poller!Holding(k.run, s) \in Nat
         /\ Poller!Holding(k.dropped, s) \in Nat /\ Total(k, s) \in Nat
<1>1. k.pending \in Seq(Calls) /\ k.run \in Seq(Calls) /\ k.dropped \in Seq(Calls)
  BY DEF PollConnectors
<1>2. Poller!Holding(k.pending, s) \in Nat /\ Poller!Holding(k.run, s) \in Nat
        /\ Poller!Holding(k.dropped, s) \in Nat
  BY <1>1, HoldingCounts
<1> QED BY <1>2 DEF Total

LEMMA ExecuteActionsFlow ==
  ASSUME NEW k, OneBroker(k), NEW r, r = Poller!Connector!ExecuteActions(k)
  PROVE  OneBroker(r) /\ \A s : Total(r, s) = Total(k, s)
<1>1. k \in PollConnectors /\ k.pending \in Seq(Calls) /\ k.run \in Seq(Calls) /\ k.dropped \in Seq(Calls)
  BY DEF OneBroker, PollConnectors
<1>2. CASE k.pending = <<>>
  BY <1>2 DEF Poller!Connector!ExecuteActions
<1>3. CASE k.pending # <<>> /\ Poller!Connector!IsConnected(k)
  <2> DEFINE ran == k.run \o k.pending
             nobody == <<>>
  <2>1. ran \in Seq(Calls) /\ nobody \in Seq(Calls)
    BY <1>1
  <2>2. r = [k EXCEPT !.run = ran, !.pending = nobody]
    BY <1>3 DEF Poller!Connector!ExecuteActions
  <2>3. \A s : /\ Poller!Holding(ran, s) = Poller!Holding(k.run, s) + Poller!Holding(k.pending, s)
               /\ Poller!Holding(nobody, s) = 0
    BY <1>1, HoldingJoined, HoldingNothing
  <2> HIDE DEF ran, nobody
  <2>4. /\ r \in PollConnectors /\ r.settings = k.settings /\ r.client = k.client
        /\ r.clients = k.clients /\ r.pending = nobody /\ r.run = ran /\ r.dropped = k.dropped
    BY <1>1, <2>1, <2>2 DEF PollConnectors
  <2>5. OneBroker(r)
    BY <2>4 DEF OneBroker
  <2>6. \A s : Total(r, s) = Total(k, s)
    <3> TAKE s
    <3>1. Total(r, s) = Poller!Holding(nobody, s) + Poller!Holding(ran, s) + Poller!Holding(k.dropped, s)
      BY <2>4 DEF Total
    <3> QED BY <1>1, <2>3, <3>1, TotalCounts DEF Total
  <2> QED BY <2>5, <2>6
<1>4. CASE k.pending # <<>> /\ ~Poller!Connector!IsConnected(k)
  <2> DEFINE c == Head(k.pending)
             rest == Tail(k.pending)
             gone == Append(k.dropped, c)
  <2>1. c \in Calls /\ rest \in Seq(Calls)
    BY <1>1, <1>4
  <2>2. k.pending = <<c>> \o rest
    BY <1>1, <1>4
  <2>3. r = [k EXCEPT !.dropped = gone, !.pending = rest]
    BY <1>4 DEF Poller!Connector!ExecuteActions
  <2> HIDE DEF c, rest
  <2>4. gone \in Seq(Calls) /\ gone = k.dropped \o <<c>> /\ <<c>> \in Seq(Calls)
    BY <1>1, <2>1, AppendIsConcat
  <2> HIDE DEF gone
  <2>5. \A s : /\ Poller!Holding(gone, s) = Poller!Holding(k.dropped, s) + Poller!Holding(<<c>>, s)
               /\ Poller!Holding(k.pending, s) = Poller!Holding(<<c>>, s) + Poller!Holding(rest, s)
               /\ Poller!Holding(<<c>>, s) \in Nat /\ Poller!Holding(rest, s) \in Nat
    <3> TAKE s
    <3>1. Poller!Holding(k.dropped \o <<c>>, s) = Poller!Holding(k.dropped, s) + Poller!Holding(<<c>>, s)
      BY <1>1, <2>4, HoldingJoined
    <3>2. Poller!Holding(<<c>> \o rest, s) = Poller!Holding(<<c>>, s) + Poller!Holding(rest, s)
      BY <2>1, <2>4, HoldingJoined
    <3>3. Poller!Holding(<<c>>, s) \in Nat /\ Poller!Holding(rest, s) \in Nat
      BY <2>1, <2>4, HoldingCounts
    <3> QED BY <2>2, <2>4, <3>1, <3>2, <3>3
  <2>6. /\ r \in PollConnectors /\ r.settings = k.settings /\ r.client = k.client
        /\ r.clients = k.clients /\ r.pending = rest /\ r.run = k.run /\ r.dropped = gone
    BY <1>1, <2>1, <2>3, <2>4 DEF PollConnectors
  <2>7. OneBroker(r)
    BY <2>6 DEF OneBroker
  <2>8. \A s : Total(r, s) = Total(k, s)
    <3> TAKE s
    <3>1. Total(r, s) = Poller!Holding(rest, s) + Poller!Holding(k.run, s) + Poller!Holding(gone, s)
      BY <2>6 DEF Total
    <3>2. Poller!Holding(k.run, s) \in Nat /\ Poller!Holding(k.dropped, s) \in Nat
      BY <1>1, TotalCounts
    <3>3. /\ Poller!Holding(gone, s) = Poller!Holding(k.dropped, s) + Poller!Holding(<<c>>, s)
          /\ Poller!Holding(k.pending, s) = Poller!Holding(<<c>>, s) + Poller!Holding(rest, s)
          /\ Poller!Holding(<<c>>, s) \in Nat /\ Poller!Holding(rest, s) \in Nat
      BY <2>5
    <3> QED BY <3>1, <3>2, <3>3 DEF Total
  <2> QED BY <2>7, <2>8
<1> QED BY <1>2, <1>3, <1>4

(* Two connectors that differ in their clients only.                                   *)
LEMMA OtherClientsFlow ==
  ASSUME NEW k, NEW r \in PollConnectors, r.client \in Poller!Connector!Clients,
         r.clients[r.client].settings = r.settings,
         r.pending = k.pending, r.run = k.run, r.dropped = k.dropped
  PROVE  OneBroker(r) /\ \A s : Total(r, s) = Total(k, s)
<1>1. r.client # Poller!Connector!NoClient
  BY DEF Poller!Connector!NoClient, Poller!Connector!Clients
<1> QED BY <1>1 DEF OneBroker, Total

LEMMA ConnectMqttFlow ==
  ASSUME NEW k, OneBroker(k), NEW r, r = Poller!Connector!ConnectMqtt(k)
  PROVE  OneBroker(r) /\ \A s : Total(r, s) = Total(k, s)
<1>1. k \in PollConnectors /\ k.ends = <<>> /\ k.settings \in PollerBrokers
        /\ k.clients \in [Poller!Connector!Clients -> Poller!Connector!ClientState]
  BY DEF OneBroker, PollConnectors
<1>2. CASE k.client = Poller!Connector!NoClient
  <2> DEFINE d == CHOOSE c \in Poller!Connector!Free(k) : TRUE
             new == [live |-> TRUE, connected |-> FALSE, settings |-> k.settings, listeners |-> 1]
             others == [k.clients EXCEPT ![d] = new]
  <2>1. 1 \in Poller!Connector!Clients
    BY PartsAssumption DEF Poller!PollerAssumption, Poller!Connector!ConnectorAssumption,
       Poller!Connector!Clients
  <2>2. 1 \in Poller!Connector!Free(k)
    BY <1>1, <1>2, <2>1 DEF OneBroker, Poller!Connector!Free
  <2>3. d \in Poller!Connector!Clients
    BY <2>2 DEF Poller!Connector!Free
  <2>4. new \in Poller!Connector!ClientState /\ new.settings = k.settings
    BY <1>1, PartsAssumption DEF Poller!PollerAssumption, Poller!Connector!ConnectorAssumption,
       Poller!Connector!ClientState
  <2>5. r = [k EXCEPT !.client = d, !.clients = others]
    BY <1>2 DEF Poller!Connector!ConnectMqtt, Poller!Connector!Created
  <2> HIDE DEF d, new
  <2>6. others \in [Poller!Connector!Clients -> Poller!Connector!ClientState]
          /\ others[d].settings = k.settings
    BY <1>1, <2>3, <2>4
  <2> HIDE DEF others
  <2>7. /\ r \in PollConnectors /\ r.settings = k.settings /\ r.client = d /\ r.clients = others
        /\ r.pending = k.pending /\ r.run = k.run /\ r.dropped = k.dropped
    BY <1>1, <2>3, <2>5, <2>6 DEF PollConnectors
  <2> QED BY <2>3, <2>6, <2>7, OtherClientsFlow
<1>3. CASE k.client # Poller!Connector!NoClient /\ Poller!Connector!IsConnected(k)
  <2>1. r = Poller!Connector!ExecuteActions(k)
    BY <1>3 DEF OneBroker, Poller!Connector!ConnectMqtt
  <2> QED BY <2>1, ExecuteActionsFlow
<1>4. CASE k.client # Poller!Connector!NoClient /\ ~Poller!Connector!IsConnected(k)
  <2> DEFINE c == k.clients[k.client]
             more == [c EXCEPT !.listeners = IF @ < PollerListeners THEN @ + 1 ELSE @]
             others == [k.clients EXCEPT ![k.client] = more]
  <2>1. r = [k EXCEPT !.clients = others]
    BY <1>4 DEF OneBroker, Poller!Connector!ConnectMqtt, Poller!Connector!Reconnected
  <2>2. k.client \in Poller!Connector!Clients /\ c \in Poller!Connector!ClientState
          /\ c.settings = k.settings
    BY <1>1, <1>4 DEF OneBroker, PollConnectors
  <2>3. more \in Poller!Connector!ClientState /\ more.settings = c.settings
    BY <2>2, PartsAssumption DEF Poller!PollerAssumption, Poller!Connector!ConnectorAssumption,
       Poller!Connector!ClientState
  <2> HIDE DEF more
  <2>4. others \in [Poller!Connector!Clients -> Poller!Connector!ClientState]
          /\ others[k.client].settings = k.settings
    BY <1>1, <2>2, <2>3
  <2> HIDE DEF others
  <2>5. /\ r \in PollConnectors /\ r.settings = k.settings /\ r.client = k.client
        /\ r.clients = others
        /\ r.pending = k.pending /\ r.run = k.run /\ r.dropped = k.dropped
    BY <1>1, <2>1, <2>4 DEF PollConnectors
  <2> QED BY <2>2, <2>4, <2>5, OtherClientsFlow
<1> QED BY <1>2, <1>3, <1>4

LEMMA GetMqttClientFlow ==
  ASSUME NEW k, OneBroker(k), NEW c \in Calls, NEW r, r = Poller!Connector!GetMqttClient(k, c)
  PROVE  OneBroker(r) /\ \A s : Total(r, s) = Total(k, s) + Poller!Holding(<<c>>, s)
<1> DEFINE asked == Append(k.pending, c)
           k2 == [k EXCEPT !.pending = asked]
<1>1. r = Poller!Connector!ConnectMqtt(k2)
  BY DEF Poller!Connector!GetMqttClient
<1>2. k \in PollConnectors /\ k.pending \in Seq(Calls) /\ <<c>> \in Seq(Calls)
  BY DEF OneBroker, PollConnectors
<1>3. asked \in Seq(Calls) /\ asked = k.pending \o <<c>>
  BY <1>2, AppendIsConcat
<1>4. \A s : Poller!Holding(asked, s) = Poller!Holding(k.pending, s) + Poller!Holding(<<c>>, s)
  <2> TAKE s
  <2>1. Poller!Holding(k.pending \o <<c>>, s)
          = Poller!Holding(k.pending, s) + Poller!Holding(<<c>>, s)
    BY <1>2, HoldingJoined
  <2> QED BY <1>3, <2>1
<1>5. \A s : Poller!Holding(<<c>>, s) \in Nat
  BY <1>2, HoldingCounts
<1> HIDE DEF asked
<1>6. /\ k2 \in PollConnectors /\ k2.settings = k.settings /\ k2.client = k.client
      /\ k2.clients = k.clients /\ k2.pending = asked /\ k2.run = k.run /\ k2.dropped = k.dropped
  BY <1>2, <1>3 DEF PollConnectors
<1> HIDE DEF k2
<1>7. OneBroker(k2)
  BY <1>6 DEF OneBroker
<1>8. \A s : Total(k2, s) = Total(k, s) + Poller!Holding(<<c>>, s)
  <2> TAKE s
  <2>1. Total(k2, s) = Poller!Holding(asked, s) + Poller!Holding(k.run, s) + Poller!Holding(k.dropped, s)
    BY <1>6 DEF Total
  <2>2. /\ Poller!Holding(k.pending, s) \in Nat /\ Poller!Holding(k.run, s) \in Nat
        /\ Poller!Holding(k.dropped, s) \in Nat /\ Poller!Holding(<<c>>, s) \in Nat
    BY <1>2, <1>5, TotalCounts
  <2>3. Poller!Holding(asked, s) = Poller!Holding(k.pending, s) + Poller!Holding(<<c>>, s)
    BY <1>4
  <2> QED BY <2>1, <2>2, <2>3 DEF Total
<1>9. OneBroker(r) /\ \A s : Total(r, s) = Total(k2, s)
  BY <1>1, <1>7, ConnectMqttFlow
<1> QED BY <1>8, <1>9

LEMMA QuietFlow ==
  ASSUME OneBroker(pollingMqtt), NEW k, k = Poller!Connector!Quiet
  PROVE  /\ OneBroker(k) /\ k.pending = pollingMqtt.pending /\ k.clients = pollingMqtt.clients
         /\ k.client = pollingMqtt.client /\ k.settings = pollingMqtt.settings
         /\ k.run = <<>> /\ k.dropped = <<>>
         /\ \A s : Total(k, s) = Poller!Holding(pollingMqtt.pending, s)
<1> DEFINE nobody == <<>>
<1>1. nobody \in Seq(Calls) /\ pollingMqtt \in PollConnectors
  BY DEF OneBroker
<1>2. k = [pollingMqtt EXCEPT !.run = nobody, !.dropped = nobody]
  BY DEF Poller!Connector!Quiet
<1>3. \A s : Poller!Holding(nobody, s) = 0
  BY HoldingNothing
<1>4. nobody = <<>>
  OBVIOUS
<1> HIDE DEF nobody
<1>5. /\ k \in PollConnectors /\ k.settings = pollingMqtt.settings /\ k.client = pollingMqtt.client
      /\ k.clients = pollingMqtt.clients /\ k.pending = pollingMqtt.pending
      /\ k.run = nobody /\ k.dropped = nobody
  BY <1>1, <1>2 DEF PollConnectors
<1>6. OneBroker(k)
  BY <1>5 DEF OneBroker
<1>7. \A s : Total(k, s) = Poller!Holding(pollingMqtt.pending, s)
  <2> TAKE s
  <2>1. Poller!Holding(k.pending, s) \in Nat
    BY <1>5, TotalCounts
  <2> QED BY <1>3, <1>5, <2>1 DEF Total
<1> QED BY <1>4, <1>5, <1>6, <1>7

(* A client of which only the connection changes.                                     *)
LEMMA ConnectionFlow ==
  ASSUME OneBroker(pollingMqtt), NEW c \in Poller!Connector!Clients, NEW on \in BOOLEAN,
         NEW k, k = [Poller!Connector!Quiet EXCEPT !.clients[c].connected = on]
  PROVE  OneBroker(k) /\ \A s : Total(k, s) = Poller!Holding(pollingMqtt.pending, s)
<1> DEFINE q == Poller!Connector!Quiet
           one == [q.clients[c] EXCEPT !.connected = on]
           others == [q.clients EXCEPT ![c] = one]
<1>1. OneBroker(q) /\ \A s : Total(q, s) = Poller!Holding(pollingMqtt.pending, s)
  BY QuietFlow
<1>2. k = [q EXCEPT !.clients = others]
  OBVIOUS
<1> HIDE DEF q
<1>3. q \in PollConnectors /\ q.clients \in [Poller!Connector!Clients -> Poller!Connector!ClientState]
  BY <1>1 DEF OneBroker, PollConnectors
<1>4. /\ one \in Poller!Connector!ClientState
      /\ one.live = q.clients[c].live /\ one.settings = q.clients[c].settings
  BY <1>3 DEF Poller!Connector!ClientState
<1> HIDE DEF one
<1>5. others \in [Poller!Connector!Clients -> Poller!Connector!ClientState] /\ others[c] = one
        /\ \A d \in Poller!Connector!Clients : d # c => others[d] = q.clients[d]
  BY <1>3, <1>4
<1> HIDE DEF others
<1>6. /\ k \in PollConnectors /\ k.clients = others /\ k.client = q.client /\ k.settings = q.settings
      /\ k.pending = q.pending /\ k.run = q.run /\ k.dropped = q.dropped
  BY <1>2, <1>3, <1>5 DEF PollConnectors
<1>7. \A d \in Poller!Connector!Clients :
        others[d].live = q.clients[d].live /\ others[d].settings = q.clients[d].settings
  BY <1>4, <1>5
<1>8. k.client \in Poller!Connector!Clients \cup {Poller!Connector!NoClient}
  BY <1>6 DEF PollConnectors
<1>9. OneBroker(k)
  <2>1. CASE k.client = Poller!Connector!NoClient
    BY <1>1, <1>6, <1>7, <2>1 DEF OneBroker
  <2>2. CASE k.client # Poller!Connector!NoClient
    <3>1. q.clients[q.client].settings = q.settings
      BY <1>1, <1>6, <2>2 DEF OneBroker
    <3> QED BY <1>6, <1>7, <1>8, <2>2, <3>1 DEF OneBroker
  <2> QED BY <2>1, <2>2
<1>10. \A s : Total(k, s) = Total(q, s)
  BY <1>6 DEF Total
<1> QED BY <1>1, <1>9, <1>10

LEMMA ReconnectsFlow ==
  ASSUME OneBroker(pollingMqtt), NEW c \in Poller!Connector!Clients,
         Poller!Connector!ClientReconnects(c)
  PROVE  OneBroker(pollingMqtt')
           /\ \A s : Total(pollingMqtt', s) = Poller!Holding(pollingMqtt.pending, s)
<1> DEFINE k == Poller!Connector!Quiet
           n == pollingMqtt.clients[c].listeners
           lost == IF n < Len(k.pending) THEN n ELSE Len(k.pending)
           gone == SubSeq(k.pending, 1, lost)
           rest == SubSeq(k.pending, lost + 1, Len(k.pending))
<1>1. /\ OneBroker(k) /\ k.pending = pollingMqtt.pending /\ k.run = <<>> /\ k.dropped = <<>>
      /\ \A s : Total(k, s) = Poller!Holding(pollingMqtt.pending, s)
  BY QuietFlow
<1>2. pollingMqtt' = Poller!Connector!ExecuteActionsTimes(k, n) /\ n \in Nat
  BY PartsAssumption DEF Poller!PollerAssumption, Poller!Connector!ConnectorAssumption,
     Poller!Connector!ClientReconnects, OneBroker, PollConnectors, Poller!Connector!ClientState
<1>3. CASE n = 0
  BY <1>1, <1>2, <1>3 DEF Poller!Connector!ExecuteActionsTimes
<1>4. CASE n # 0 /\ Poller!Connector!IsConnected(k)
  <2>1. pollingMqtt' = Poller!Connector!ExecuteActions(k)
    BY <1>2, <1>4 DEF Poller!Connector!ExecuteActionsTimes
  <2>2. OneBroker(pollingMqtt') /\ \A s : Total(pollingMqtt', s) = Total(k, s)
    BY <1>1, <2>1, ExecuteActionsFlow
  <2> QED BY <1>1, <2>2
<1>5. CASE n # 0 /\ ~Poller!Connector!IsConnected(k)
  <2>1. k.pending \in Seq(Calls) /\ k \in PollConnectors
    BY <1>1 DEF OneBroker, PollConnectors
  <2>2. lost \in 0 .. Len(k.pending)
    BY <1>2, <2>1
  <2> HIDE DEF k, lost
  <2>3. gone \in Seq(Calls) /\ rest \in Seq(Calls)
          /\ \A s : Poller!Holding(k.pending, s) = Poller!Holding(gone, s) + Poller!Holding(rest, s)
    BY <2>1, <2>2, HoldingParted
  <2> DEFINE all == k.dropped \o gone
             nobody == <<>>
  <2>4. all = gone
    BY <1>1, <2>3
  <2>5. pollingMqtt' = [k EXCEPT !.dropped = all, !.pending = rest]
    BY <1>2, <1>5 DEF Poller!Connector!ExecuteActionsTimes, lost
  <2> HIDE DEF all, rest, gone
  <2>6. /\ pollingMqtt' \in PollConnectors /\ pollingMqtt'.client = k.client
        /\ pollingMqtt'.clients = k.clients /\ pollingMqtt'.settings = k.settings
        /\ pollingMqtt'.pending = rest /\ pollingMqtt'.run = k.run /\ pollingMqtt'.dropped = gone
    BY <2>1, <2>3, <2>4, <2>5 DEF PollConnectors
  <2>7. OneBroker(pollingMqtt')
    BY <1>1, <2>6 DEF OneBroker
  <2>8. \A s : Total(pollingMqtt', s) = Poller!Holding(pollingMqtt.pending, s)
    <3> TAKE s
    <3>1. Poller!Holding(k.run, s) = 0
      BY <1>1, HoldingNothing
    <3>2. Poller!Holding(gone, s) \in Nat /\ Poller!Holding(rest, s) \in Nat
      BY <2>3, HoldingCounts
    <3>3. Poller!Holding(k.pending, s) = Poller!Holding(gone, s) + Poller!Holding(rest, s)
      BY <2>3
    <3> QED BY <1>1, <2>6, <3>1, <3>2, <3>3 DEF Total
  <2> QED BY <2>7, <2>8
<1> QED BY <1>3, <1>4, <1>5

LEMMA EventFlow ==
  ASSUME OneBroker(pollingMqtt), Poller!Connector!ConnectorEvent
  PROVE  OneBroker(pollingMqtt')
           /\ \A s : Total(pollingMqtt', s) = Poller!Holding(pollingMqtt.pending, s)
<1>1. ASSUME NEW c \in Poller!Connector!Clients, Poller!Connector!ClientConnects(c)
      PROVE  OneBroker(pollingMqtt')
               /\ \A s : Total(pollingMqtt', s) = Poller!Holding(pollingMqtt.pending, s)
  <2> DEFINE k == [Poller!Connector!Quiet EXCEPT !.clients[c].connected = TRUE]
  <2>1. pollingMqtt' = Poller!Connector!ExecuteActions(k)
    BY <1>1 DEF Poller!Connector!ClientConnects
  <2>2. OneBroker(k) /\ \A s : Total(k, s) = Poller!Holding(pollingMqtt.pending, s)
    BY ConnectionFlow
  <2> HIDE DEF k
  <2>3. OneBroker(pollingMqtt') /\ \A s : Total(pollingMqtt', s) = Total(k, s)
    BY <2>1, <2>2, ExecuteActionsFlow
  <2> QED BY <2>2, <2>3
<1>2. ASSUME NEW c \in Poller!Connector!Clients, Poller!Connector!ClientDisconnects(c)
      PROVE  OneBroker(pollingMqtt')
               /\ \A s : Total(pollingMqtt', s) = Poller!Holding(pollingMqtt.pending, s)
  <2> DEFINE k == [Poller!Connector!Quiet EXCEPT !.clients[c].connected = FALSE]
  <2>1. pollingMqtt' = k
    BY <1>2 DEF Poller!Connector!ClientDisconnects
  <2>2. OneBroker(k) /\ \A s : Total(k, s) = Poller!Holding(pollingMqtt.pending, s)
    BY ConnectionFlow
  <2> QED BY <2>1, <2>2
<1>3. ~Poller!Connector!ClientEnds
  BY DEF OneBroker, PollConnectors, Poller!Connector!ClientEnds
<1> QED BY <1>1, <1>2, <1>3, ReconnectsFlow DEF Poller!Connector!ConnectorEvent

(***************************************************************************)
(* The poller.                                                                *)
(***************************************************************************)

PollTypes ==
  /\ DOMAIN pollInfo = Polled
  /\ \A s \in Polled : pollInfo[s] \in Poller!Info(s)
  /\ batches \subseteq Poller!Batch /\ IsFiniteSet(batches)
  /\ minute \in 0 .. MaxMinute
  /\ unpublished \in [Polled -> Int]

(* No slave is read by two batches.                                            *)
BatchesApart == \A s \in Polled : \A b, c \in batches : s \in b.open /\ s \in c.open => b = c

(* The flag is set exactly for the slaves that some batch reads.                 *)
FlagsFit == \A s \in Polled : pollInfo[s].processing <=> \E b \in batches : s \in b.open

(* A batch waits for a read, and has nothing yet of those it waits for.              *)
BatchesWait == \A b \in batches : b.open # {} /\ b.open \cap b.messages = {}

(* The counters tell how many reads are open.                                     *)
CountersFit == \A b \in batches : b.devicesToPoll - b.pollDeviceCount = Cardinality(b.open)

(* Readings of s in batches.                                                    *)
Read(s) == {b \in batches : s \in b.messages}

ReadingsHeld ==
  \A s \in Polled : unpublished[s] = Cardinality(Read(s)) + Poller!Holding(pollingMqtt.pending, s)

PollerInv ==
  /\ OneBroker(pollingMqtt)
  /\ PollTypes /\ BatchesApart /\ FlagsFit /\ BatchesWait /\ CountersFit
  /\ ReadingsHeld

LEMMA ReadCounts == ASSUME PollTypes, NEW s PROVE IsFiniteSet(Read(s)) /\ Cardinality(Read(s)) \in Nat
<1>1. Read(s) \subseteq batches
  BY DEF Read
<1> QED BY <1>1, FS_Subset, FS_CardinalityType DEF PollTypes

LEMMA PollerBegins == Poller!Init => PollerInv
<1> SUFFICES ASSUME Poller!Init PROVE PollerInv
  OBVIOUS
<1>1. /\ pollInfo = [s \in Polled |->
                      [count |-> 0, processing |-> FALSE, lastFired |-> Poller!NeverFired]]
      /\ batches = {} /\ minute = 0 /\ unpublished = [s \in Polled |-> 0]
      /\ Poller!Connector!Init
  BY DEF Poller!Init
<1>2. OneBroker(pollingMqtt) /\ pollingMqtt.pending = <<>>
  <2>1. PICK broker \in PollerBrokers :
        pollingMqtt = [settings |-> broker, client |-> Poller!Connector!NoClient,
                 clients |-> [c \in Poller!Connector!Clients |->
                                [live |-> FALSE, connected |-> FALSE, settings |-> broker,
                                 listeners |-> 0]],
                 ends |-> <<>>, pending |-> <<>>, run |-> <<>>, dropped |-> <<>>]
    BY <1>1 DEF Poller!Connector!Init
  <2> DEFINE nobody == [c \in Poller!Connector!Clients |->
                        [live |-> FALSE, connected |-> FALSE, settings |-> broker, listeners |-> 0]]
             none == <<>>
  <2>2. pollingMqtt = [settings |-> broker, client |-> Poller!Connector!NoClient, clients |-> nobody,
                       ends |-> none, pending |-> none, run |-> none, dropped |-> none]
    BY <2>1
  <2>3. 0 \in 0 .. PollerListeners
    BY PartsAssumption DEF Poller!PollerAssumption, Poller!Connector!ConnectorAssumption
  <2>4. nobody \in [Poller!Connector!Clients -> Poller!Connector!ClientState]
          /\ \A c \in Poller!Connector!Clients : ~nobody[c].live
    BY <2>3 DEF Poller!Connector!ClientState
  <2>5. none \in Seq(Calls) /\ none \in {<<>>} /\ none = <<>>
    OBVIOUS
  <2> HIDE DEF nobody, none
  <2>6. /\ pollingMqtt \in PollConnectors /\ pollingMqtt.client = Poller!Connector!NoClient
        /\ pollingMqtt.clients = nobody /\ pollingMqtt.pending = none
    BY <2>2, <2>4, <2>5 DEF PollConnectors
  <2> QED BY <2>4, <2>5, <2>6 DEF OneBroker
<1>3. PollTypes
  <2>1. MaxMinute \in Nat /\ Interval \in [Polled -> Nat]
    BY PartsAssumption DEF Poller!PollerAssumption
  <2> QED BY <1>1, <2>1, FS_EmptySet DEF PollTypes, Poller!Info, Poller!NeverFired
<1>4. BatchesApart /\ FlagsFit /\ BatchesWait /\ CountersFit
  BY <1>1 DEF BatchesApart, FlagsFit, BatchesWait, CountersFit
<1>5. ReadingsHeld
  <2>1. \A s : Read(s) = {}
    BY <1>1 DEF Read
  <2>2. \A s : Poller!Holding(pollingMqtt.pending, s) = 0
    BY <1>2, HoldingNothing
  <2> QED BY <1>1, <2>1, <2>2, FS_EmptySet DEF ReadingsHeld
<1> QED BY <1>2, <1>3, <1>4, <1>5 DEF PollerInv

(* A batch that begins has as many reads open as it has slaves that have not failed.    *)
LEMMA StartedCounts ==
  ASSUME NEW need \in SUBSET Polled, NEW failed \in SUBSET need
  PROVE  /\ Poller!Started(need \ failed, failed) \in Poller!Batch
         /\ Poller!Started(need \ failed, failed).open = need \ failed
         /\ Poller!Started(need \ failed, failed).messages = {}
         /\ Poller!Started(need \ failed, failed).devicesToPoll
              - Poller!Started(need \ failed, failed).pollDeviceCount = Cardinality(need \ failed)
<1> DEFINE reading == need \ failed
<1>1. IsFiniteSet(reading) /\ IsFiniteSet(failed)
  BY PolledAreFinite, FS_Subset, FS_Difference
<1>2. reading \cap failed = {} /\ reading \subseteq Polled
  OBVIOUS
<1> HIDE DEF reading
<1>3. Cardinality({}) = 0 /\ Cardinality(reading) \in Nat /\ Cardinality(failed) \in Nat
  BY <1>1, FS_EmptySet, FS_CardinalityType
<1>4. Cardinality(reading \cup failed)
        = Cardinality(reading) + Cardinality(failed) - Cardinality(reading \cap failed)
  BY <1>1, FS_Union
<1>5. Cardinality(reading \cup failed) = Cardinality(reading) + Cardinality(failed)
  <2>1. Cardinality(reading \cap failed) = Cardinality({})
    BY <1>2, Zenon
  <2>2. Cardinality(reading \cap failed) = 0
    BY <2>1, <1>3
  <2> QED BY <1>3, <1>4, <2>2
<1>6. Cardinality(reading \cup failed) \in Nat
  BY <1>3, <1>5
<1>7. /\ Poller!Started(reading, failed).open = reading
      /\ Poller!Started(reading, failed).messages = {}
      /\ Poller!Started(reading, failed).devicesToPoll = Cardinality(reading \cup failed)
      /\ Poller!Started(reading, failed).pollDeviceCount = Cardinality(failed)
  BY PollerCardinality DEF Poller!Started
<1>8. Poller!Started(reading, failed) \in Poller!Batch
  BY <1>2, <1>3, <1>6, PollerCardinality DEF Poller!Started, Poller!Batch
<1>9. Poller!Started(reading, failed).devicesToPoll - Poller!Started(reading, failed).pollDeviceCount
        = Cardinality(reading)
  BY <1>3, <1>5, <1>7
<1> QED BY <1>7, <1>8, <1>9 DEF reading

(* An answer counts as one of the open reads, and the last one completes its batch.     *)
LEMMA AnsweredCounts ==
  ASSUME NEW b \in Poller!Batch, NEW s \in b.open,
         b.devicesToPoll - b.pollDeviceCount = Cardinality(b.open)
  PROVE  /\ Poller!Answered(b, s) \in Poller!Batch
         /\ Poller!Answered(b, s).open = b.open \ {s}
         /\ Poller!Answered(b, s).messages = b.messages \cup ({s} \cap Published)
         /\ Poller!Answered(b, s).devicesToPoll - Poller!Answered(b, s).pollDeviceCount
              = Cardinality(b.open \ {s})
         /\ Poller!Complete(Poller!Answered(b, s)) <=> b.open \ {s} = {}
<1>1. b.open \subseteq Polled /\ b.messages \subseteq Polled /\ b.devicesToPoll \in Nat
        /\ b.pollDeviceCount \in Nat
  BY DEF Poller!Batch
<1>2. IsFiniteSet(b.open) /\ IsFiniteSet(b.open \ {s})
  BY <1>1, PolledAreFinite, FS_Subset, FS_RemoveElement
<1>3. Cardinality(b.open \ {s}) = Cardinality(b.open) - 1 /\ Cardinality(b.open) \in Nat
  BY <1>2, FS_RemoveElement, FS_CardinalityType
<1>4. Cardinality(b.open \ {s}) = 0 <=> b.open \ {s} = {}
  BY <1>2, FS_EmptySet
<1>5. /\ Poller!Answered(b, s) \in Poller!Batch
      /\ Poller!Answered(b, s).open = b.open \ {s}
      /\ Poller!Answered(b, s).messages = b.messages \cup ({s} \cap Published)
      /\ Poller!Answered(b, s).devicesToPoll = b.devicesToPoll
      /\ Poller!Answered(b, s).pollDeviceCount = b.pollDeviceCount + 1
  BY <1>1 DEF Poller!Answered, Poller!Batch
<1> QED BY <1>1, <1>3, <1>4, <1>5 DEF Poller!Complete

(* The counter of ticks starts again when it has reached the interval.                *)
LEMMA TickedTypes ==
  ASSUME PollTypes, NEW s \in Polled, NEW reading
  PROVE  /\ Poller!Ticked(s, reading) \in Poller!Info(s)
         /\ Poller!Ticked(s, reading).processing = (pollInfo[s].processing \/ s \in reading)
<1>1. /\ Interval[s] \in Nat /\ MaxMinute \in Nat /\ minute \in 0 .. MaxMinute
      /\ pollInfo[s] \in Poller!Info(s)
  BY PartsAssumption DEF Poller!PollerAssumption, PollTypes
<1>2. /\ pollInfo[s].count \in 0 .. Interval[s] /\ pollInfo[s].processing \in BOOLEAN
      /\ pollInfo[s].lastFired \in 0 .. MaxMinute
  BY <1>1 DEF Poller!Info
<1>3. (IF Poller!OnSchedule(s) THEN pollInfo[s].count ELSE Poller!Count(s) + 1) \in 0 .. Interval[s]
  BY <1>1, <1>2 DEF Poller!OnSchedule, Poller!Count
<1>4. (IF Poller!OnSchedule(s) /\ Poller!TriggerNow(s) THEN minute ELSE pollInfo[s].lastFired)
        \in 0 .. MaxMinute
  BY <1>1, <1>2
<1>5. (pollInfo[s].processing \/ s \in reading) \in BOOLEAN
  BY <1>2
<1> QED BY <1>3, <1>4, <1>5 DEF Poller!Ticked, Poller!Info

LEMMA PollKeeps == PollerInv /\ Poller!Poll => PollerInv'
<1> SUFFICES ASSUME PollerInv, Poller!Poll PROVE PollerInv'
  OBVIOUS
<1>1. PICK failed \in SUBSET (Poller!NeedPolls \cap Fragile) :
        /\ pollInfo' = [s \in Polled |-> Poller!Ticked(s, Poller!NeedPolls \ failed)]
        /\ batches' = IF Poller!NeedPolls \ failed = {} THEN batches
                      ELSE batches \cup {Poller!Started(Poller!NeedPolls \ failed, failed)}
  BY DEF Poller!Poll
<1> DEFINE reading == Poller!NeedPolls \ failed
           new == Poller!Started(reading, failed)
<1>2. Poller!NeedPolls \subseteq Polled /\ failed \subseteq Poller!NeedPolls
  BY DEF Poller!NeedPolls
<1>3. /\ new \in Poller!Batch
      /\ new.open = reading /\ new.messages = {}
      /\ new.devicesToPoll - new.pollDeviceCount = Cardinality(reading)
  BY <1>2, StartedCounts
<1>4. \A s \in reading : ~pollInfo[s].processing
  BY DEF Poller!NeedPolls
<1>5. \A s \in Polled : /\ pollInfo'[s] \in Poller!Info(s)
                        /\ pollInfo'[s].processing = (pollInfo[s].processing \/ s \in reading)
  BY <1>1, TickedTypes DEF PollerInv
<1>6. batches' = IF reading = {} THEN batches ELSE batches \cup {new}
  BY <1>1
<1>7. pollingMqtt' = Poller!Connector!Quiet /\ UNCHANGED <<minute, unpublished>>
        /\ DOMAIN pollInfo' = Polled
  BY <1>1 DEF Poller!Poll
<1> HIDE DEF reading, new
<1>8. PollTypes'
  <2>1. IsFiniteSet(batches')
    BY <1>6, FS_AddElement DEF PollerInv, PollTypes
  <2>2. batches' \subseteq Poller!Batch
    BY <1>3, <1>6 DEF PollerInv, PollTypes
  <2>3. \A s \in Polled : Poller!Info(s)' = Poller!Info(s)
    BY DEF Poller!Info
  <2> QED BY <1>5, <1>7, <2>1, <2>2, <2>3 DEF PollerInv, PollTypes
<1>9. BatchesApart'
  BY <1>3, <1>4, <1>6 DEF PollerInv, BatchesApart, FlagsFit
<1>10. FlagsFit'
  BY <1>3, <1>5, <1>6 DEF PollerInv, FlagsFit
<1>11. BatchesWait'
  BY <1>3, <1>6 DEF PollerInv, BatchesWait
<1>12. CountersFit'
  BY <1>3, <1>6 DEF PollerInv, CountersFit
<1>13. OneBroker(pollingMqtt)' /\ pollingMqtt'.pending = pollingMqtt.pending
  BY <1>7, QuietFlow DEF PollerInv
<1>14. ReadingsHeld'
  <2>1. \A s : Read(s)' = Read(s)
    BY <1>3, <1>6 DEF Read
  <2> QED BY <1>7, <1>13, <2>1 DEF PollerInv, ReadingsHeld
<1> QED BY <1>8, <1>9, <1>10, <1>11, <1>12, <1>13, <1>14 DEF PollerInv

One(condition) == IF condition THEN 1 ELSE 0

(* The callbacks of an answer: those of the batch that is complete hold what it has read. *)
LEMMA SettleFlow ==
  ASSUME PollerInv, NEW b, NEW s, NEW changed, Poller!Settle(b, s, changed),
         Poller!Answered(b, s) \in Poller!Batch
  PROVE  /\ OneBroker(pollingMqtt')
         /\ \A t : Total(pollingMqtt', t) = Poller!Holding(pollingMqtt.pending, t)
               + One(Poller!Complete(Poller!Answered(b, s)) /\ t \in Poller!Answered(b, s).messages)
<1> DEFINE b2 == Poller!Answered(b, s)
           k1 == IF changed THEN Poller!Connector!GetMqttClient(Poller!Connector!Quiet, Poller!Discovery)
                 ELSE Poller!Connector!Quiet
<1>1. pollingMqtt' = IF Poller!Complete(b2)
                       THEN Poller!Connector!GetMqttClient(k1, Poller!State(b2.messages)) ELSE k1
  BY DEF Poller!Settle
<1>2. b2.messages \subseteq Polled
  BY DEF Poller!Batch
<1>3. Poller!Discovery \in Calls /\ Poller!State(b2.messages) \in Calls
  BY <1>2 DEF Calls, Poller!PollCallbacks
<1>4. OneBroker(k1) /\ \A t : Total(k1, t) = Poller!Holding(pollingMqtt.pending, t)
  <2>1. /\ OneBroker(Poller!Connector!Quiet)
        /\ \A t : Total(Poller!Connector!Quiet, t) = Poller!Holding(pollingMqtt.pending, t)
    BY QuietFlow DEF PollerInv
  <2>2. CASE ~changed
    BY <2>1, <2>2
  <2>3. CASE changed
    <3>1. /\ OneBroker(k1)
          /\ \A t : Total(k1, t) = Total(Poller!Connector!Quiet, t) + Poller!Holding(<<Poller!Discovery>>, t)
      <4>1. k1 = Poller!Connector!GetMqttClient(Poller!Connector!Quiet, Poller!Discovery)
        BY <2>3
      <4> HIDE DEF k1
      <4> QED BY <1>3, <2>1, <4>1, GetMqttClientFlow
    <3>2. \A t : Poller!Holding(<<Poller!Discovery>>, t) = 0
      <4>1. Poller!Discovery.kind # "state"
        BY DEF Poller!Discovery
      <4> QED BY <1>3, <4>1, HoldingOne
    <3> HIDE DEF k1
    <3>3. \A t : Total(k1, t) = Poller!Holding(pollingMqtt.pending, t)
      <4> TAKE t
      <4>1. Poller!Holding(pollingMqtt.pending, t) \in Nat
        BY TotalCounts DEF PollerInv, OneBroker
      <4> QED BY <2>1, <3>1, <3>2, <4>1
    <3> QED BY <3>1, <3>3
  <2> QED BY <2>2, <2>3
<1> HIDE DEF k1
<1>5. CASE Poller!Complete(b2)
  <2> DEFINE c == Poller!State(b2.messages)
  <2>1. c.kind = "state" /\ c.slaves = b2.messages
    BY DEF Poller!State
  <2> HIDE DEF c
  <2>2. \A t : Poller!Holding(<<c>>, t) = One(t \in b2.messages)
    BY <1>3, <2>1, HoldingOne DEF One, c
  <2>3. /\ OneBroker(pollingMqtt')
        /\ \A t : Total(pollingMqtt', t) = Total(k1, t) + Poller!Holding(<<c>>, t)
    BY <1>1, <1>3, <1>4, <1>5, GetMqttClientFlow DEF c
  <2> QED BY <1>4, <1>5, <2>2, <2>3 DEF One
<1>6. CASE ~Poller!Complete(b2)
  <2>1. pollingMqtt' = k1
    BY <1>1, <1>6
  <2>2. \A t : Poller!Holding(pollingMqtt.pending, t) \in Nat
    BY TotalCounts DEF PollerInv, OneBroker
  <2> QED BY <1>4, <1>6, <2>1, <2>2 DEF One
<1> QED BY <1>5, <1>6

(* The batches after an answer, and the readings in them.                              *)
LEMMA SettledBatches ==
  ASSUME PollerInv, NEW b \in batches, NEW s \in Polled, NEW changed, Poller!Settle(b, s, changed)
  PROVE  /\ PollTypes' /\ BatchesApart' /\ FlagsFit' /\ BatchesWait' /\ CountersFit'
         /\ Poller!Answered(b, s) \in Poller!Batch
         /\ \A t : Cardinality(Read(t)') =
              Cardinality(Read(t)) + One(t = s /\ s \in Published)
                - One(Poller!Complete(Poller!Answered(b, s)) /\ t \in Poller!Answered(b, s).messages)
<1> DEFINE rest == batches \ {b}
           b2 == Poller!Answered(b, s)
<1>1. s \in b.open /\ b \in Poller!Batch
  BY DEF Poller!Settle, PollerInv, PollTypes
<1>2. /\ b2 \in Poller!Batch
      /\ b2.open = b.open \ {s}
      /\ b2.messages = b.messages \cup ({s} \cap Published)
      /\ b2.devicesToPoll - b2.pollDeviceCount = Cardinality(b2.open)
      /\ Poller!Complete(b2) <=> b.open \ {s} = {}
  BY <1>1, AnsweredCounts DEF PollerInv, CountersFit
<1>3. batches' = IF Poller!Complete(b2) THEN rest ELSE rest \cup {b2}
  BY DEF Poller!Settle
<1>4. pollInfo' = [pollInfo EXCEPT ![s].processing = FALSE] /\ minute' = minute
  BY DEF Poller!Settle
<1>5. /\ unpublished' = [t \in Polled |-> unpublished[t] + (IF t = s /\ s \in Published THEN 1 ELSE 0)
               - Poller!Holding(pollingMqtt'.run, t) - Poller!Holding(pollingMqtt'.dropped, t)]
  BY DEF Poller!Settle
<1> HIDE DEF rest, b2
<1>6. rest \subseteq batches /\ b \notin rest /\ batches = rest \cup {b}
  BY DEF rest
<1>7. s \notin b.messages /\ b.open \cap b.messages = {}
  BY <1>1 DEF PollerInv, BatchesWait
<1>8. ~Poller!Complete(b2) => b2 \notin batches
  <2> SUFFICES ASSUME ~Poller!Complete(b2), b2 \in batches PROVE FALSE
    OBVIOUS
  <2>1. PICK t \in b.open : t # s
    BY <1>2
  <2>2. t \in Polled /\ t \in b2.open
    BY <1>1, <1>2, <2>1 DEF Poller!Batch
  <2>3. b2 = b
    BY <2>1, <2>2 DEF PollerInv, BatchesApart
  <2> QED BY <1>1, <1>2, <2>3
<1>9. \A t \in Polled : pollInfo'[t].processing = (pollInfo[t].processing /\ t # s)
  BY <1>4 DEF PollerInv, PollTypes, Poller!Info
<1>10. PollTypes'
  <2>1. DOMAIN pollInfo' = Polled /\ \A t \in Polled : pollInfo'[t] \in Poller!Info(t)
    BY <1>4 DEF PollerInv, PollTypes, Poller!Info
  <2>2. \A t \in Polled : Poller!Info(t)' = Poller!Info(t)
    BY DEF Poller!Info
  <2>3. IsFiniteSet(batches')
    <3>1. IsFiniteSet(rest)
      BY <1>6, FS_Subset DEF PollerInv, PollTypes
    <3> QED BY <1>3, <3>1, FS_AddElement
  <2>4. unpublished' \in [Polled -> Int]
    <3>1. pollingMqtt' \in PollConnectors
      BY <1>2, SettleFlow DEF OneBroker, b2
    <3>2. \A t : Poller!Holding(pollingMqtt'.run, t) \in Nat /\ Poller!Holding(pollingMqtt'.dropped, t) \in Nat
      BY <3>1, TotalCounts
    <3> QED BY <1>5, <3>2 DEF PollerInv, PollTypes
  <2> QED BY <1>2, <1>3, <1>4, <1>6, <2>1, <2>2, <2>3, <2>4 DEF PollerInv, PollTypes
<1>11. BatchesApart'
  BY <1>1, <1>2, <1>3, <1>6 DEF PollerInv, BatchesApart
<1>12. FlagsFit'
  <2>1. \A c \in rest : s \notin c.open
    BY <1>1, <1>6 DEF PollerInv, BatchesApart
  <2>2. CASE Poller!Complete(b2)
    BY <1>1, <1>2, <1>3, <1>6, <1>9, <2>1, <2>2 DEF PollerInv, FlagsFit
  <2>3. CASE ~Poller!Complete(b2)
    <3>1. batches' = rest \cup {b2}
      BY <1>3, <2>3
    <3>2. ASSUME NEW t \in Polled
          PROVE  pollInfo'[t].processing <=> \E c \in batches' : t \in c.open
      <4>1. pollInfo[t].processing <=> \E c \in batches : t \in c.open
        BY DEF PollerInv, FlagsFit
      <4>2. t # s => ((\E c \in batches : t \in c.open) <=> \E c \in batches' : t \in c.open)
        BY <1>2, <1>6, <3>1
      <4>3. ~\E c \in batches' : s \in c.open
        BY <1>2, <2>1, <3>1
      <4> QED BY <1>9, <4>1, <4>2, <4>3
    <3> QED BY <3>2 DEF FlagsFit
  <2> QED BY <2>2, <2>3
<1>13. BatchesWait'
  BY <1>2, <1>3, <1>6, <1>7 DEF PollerInv, BatchesWait
<1>14. CountersFit'
  BY <1>2, <1>3, <1>6 DEF PollerInv, CountersFit
<1>15. ASSUME NEW t
       PROVE  Cardinality(Read(t)') =
              Cardinality(Read(t)) + One(t = s /\ s \in Published)
                - One(Poller!Complete(b2) /\ t \in b2.messages)
  <2> DEFINE others == {c \in rest : t \in c.messages}
  <2>1. IsFiniteSet(others) /\ Cardinality(others) \in Nat
    <3>1. others \subseteq batches
      BY <1>6
    <3> QED BY <3>1, FS_Subset, FS_CardinalityType DEF PollerInv, PollTypes
  <2>2. Cardinality(Read(t)) = Cardinality(others) + One(t \in b.messages)
    <3>1. Read(t) = IF t \in b.messages THEN others \cup {b} ELSE others
      BY <1>6 DEF Read
    <3>2. b \notin others
      BY <1>6
    <3> HIDE DEF others
    <3>3. Cardinality(others \cup {b}) = Cardinality(others) + 1
      BY <2>1, <3>2, FS_AddElement
    <3>4. CASE t \in b.messages
      BY <3>1, <3>3, <3>4 DEF One
    <3>5. CASE t \notin b.messages
      BY <2>1, <3>1, <3>5 DEF One
    <3> QED BY <3>4, <3>5
  <2>3. Cardinality(Read(t)') = Cardinality(others) + One(~Poller!Complete(b2) /\ t \in b2.messages)
    <3>1. Read(t)' = IF ~Poller!Complete(b2) /\ t \in b2.messages THEN others \cup {b2} ELSE others
      BY <1>3 DEF Read
    <3>2. ~Poller!Complete(b2) => b2 \notin others
      BY <1>6, <1>8
    <3> HIDE DEF others
    <3>3. CASE ~Poller!Complete(b2) /\ t \in b2.messages
      <4>1. Cardinality(others \cup {b2}) = Cardinality(others) + 1
        BY <2>1, <3>2, <3>3, FS_AddElement
      <4>2. Cardinality(Read(t)') = Cardinality(others \cup {b2})
        BY <3>1, <3>3
      <4> QED BY <3>3, <4>1, <4>2 DEF One
    <3>4. CASE ~(~Poller!Complete(b2) /\ t \in b2.messages)
      <4>1. Cardinality(Read(t)') = Cardinality(others)
        BY <3>1, <3>4
      <4> QED BY <2>1, <3>4, <4>1 DEF One
    <3> QED BY <3>3, <3>4
  <2>4. One(t \in b2.messages) = One(t \in b.messages) + One(t = s /\ s \in Published)
    BY <1>2, <1>7 DEF One
  <2> HIDE DEF others
  <2> QED BY <2>1, <2>2, <2>3, <2>4 DEF One
<1> QED BY <1>2, <1>10, <1>11, <1>12, <1>13, <1>14, <1>15 DEF b2

LEMMA SettleKeeps ==
  ASSUME PollerInv, NEW b \in batches, NEW s \in Polled, NEW changed, Poller!Settle(b, s, changed)
  PROVE  PollerInv'
<1> DEFINE full(t) == Poller!Complete(Poller!Answered(b, s)) /\ t \in Poller!Answered(b, s).messages
<1>1. /\ PollTypes' /\ BatchesApart' /\ FlagsFit' /\ BatchesWait' /\ CountersFit'
      /\ Poller!Answered(b, s) \in Poller!Batch
      /\ \A t : Cardinality(Read(t)') =
           Cardinality(Read(t)) + One(t = s /\ s \in Published) - One(full(t))
  BY SettledBatches
<1>2. /\ OneBroker(pollingMqtt')
      /\ \A t : Total(pollingMqtt', t) = Poller!Holding(pollingMqtt.pending, t) + One(full(t))
  BY <1>1, SettleFlow
<1>3. unpublished' = [t \in Polled |-> unpublished[t] + (IF t = s /\ s \in Published THEN 1 ELSE 0)
         - Poller!Holding(pollingMqtt'.run, t) - Poller!Holding(pollingMqtt'.dropped, t)]
  BY DEF Poller!Settle
<1> HIDE DEF full
<1>4. ASSUME NEW t \in Polled
      PROVE  unpublished'[t] = Cardinality(Read(t)') + Poller!Holding(pollingMqtt'.pending, t)
  <2>1. /\ Poller!Holding(pollingMqtt'.pending, t) \in Nat
        /\ Poller!Holding(pollingMqtt'.run, t) \in Nat
        /\ Poller!Holding(pollingMqtt'.dropped, t) \in Nat
    BY <1>2, TotalCounts DEF OneBroker
  <2>2. Poller!Holding(pollingMqtt.pending, t) \in Nat
    BY TotalCounts DEF PollerInv, OneBroker
  <2>3. Cardinality(Read(t)) \in Nat
    BY ReadCounts DEF PollerInv
  <2>4. unpublished[t] = Cardinality(Read(t)) + Poller!Holding(pollingMqtt.pending, t)
    BY DEF PollerInv, ReadingsHeld
  <2>5. unpublished'[t] = unpublished[t] + One(t = s /\ s \in Published)
         - Poller!Holding(pollingMqtt'.run, t) - Poller!Holding(pollingMqtt'.dropped, t)
    BY <1>3 DEF One
  <2>6. Total(pollingMqtt', t) = Poller!Holding(pollingMqtt.pending, t) + One(full(t))
    BY <1>2
  <2>7. Cardinality(Read(t)') = Cardinality(Read(t)) + One(t = s /\ s \in Published) - One(full(t))
    BY <1>1
  <2>8. One(full(t)) \in Nat /\ One(t = s /\ s \in Published) \in Nat
    BY DEF One
  <2> QED BY <2>1, <2>2, <2>3, <2>4, <2>5, <2>6, <2>7, <2>8 DEF Total
<1>5. ReadingsHeld'
  BY <1>4 DEF ReadingsHeld
<1> QED BY <1>1, <1>2, <1>5 DEF PollerInv

(* Steps that do not touch the batches: those of the clock, of the client, and of others   *)
(* that ask for it.                                                           *)
LEMMA OthersKeep ==
  ASSUME PollerInv, UNCHANGED <<pollInfo, batches>>, minute' \in 0 .. MaxMinute,
         OneBroker(pollingMqtt'),
         \A t : Total(pollingMqtt', t) = Poller!Holding(pollingMqtt.pending, t),
         unpublished' = [t \in Polled |-> unpublished[t]
           - Poller!Holding(pollingMqtt'.run, t) - Poller!Holding(pollingMqtt'.dropped, t)]
  PROVE  PollerInv'
<1>1. ASSUME NEW t \in Polled
      PROVE  /\ unpublished'[t] = Cardinality(Read(t)') + Poller!Holding(pollingMqtt'.pending, t)
             /\ unpublished'[t] \in Int
  <2>1. /\ Poller!Holding(pollingMqtt'.pending, t) \in Nat
        /\ Poller!Holding(pollingMqtt'.run, t) \in Nat
        /\ Poller!Holding(pollingMqtt'.dropped, t) \in Nat
    BY TotalCounts DEF OneBroker
  <2>2. Poller!Holding(pollingMqtt.pending, t) \in Nat
    BY TotalCounts DEF PollerInv, OneBroker
  <2>3. Cardinality(Read(t)) \in Nat /\ Read(t)' = Read(t)
    BY ReadCounts DEF PollerInv, Read
  <2>4. unpublished[t] = Cardinality(Read(t)) + Poller!Holding(pollingMqtt.pending, t)
    BY DEF PollerInv, ReadingsHeld
  <2>5. Total(pollingMqtt', t) = Poller!Holding(pollingMqtt.pending, t)
    OBVIOUS
  <2> QED BY <2>1, <2>2, <2>3, <2>4, <2>5 DEF Total
<1>2. ReadingsHeld' /\ unpublished' \in [Polled -> Int]
  BY <1>1 DEF ReadingsHeld
<1>3. PollTypes'
  <2>1. \A t \in Polled : Poller!Info(t)' = Poller!Info(t)
    BY DEF Poller!Info
  <2> QED BY <1>2, <2>1 DEF PollerInv, PollTypes
<1>4. BatchesApart' /\ FlagsFit' /\ BatchesWait' /\ CountersFit'
  BY DEF PollerInv, BatchesApart, FlagsFit, BatchesWait, CountersFit
<1> QED BY <1>2, <1>3, <1>4 DEF PollerInv

LEMMA MinuteKeeps == PollerInv /\ Poller!MinutePasses => PollerInv'
<1> SUFFICES ASSUME PollerInv, Poller!MinutePasses PROVE PollerInv'
  OBVIOUS
<1>1. /\ pollingMqtt' = Poller!Connector!Quiet /\ UNCHANGED <<pollInfo, batches, unpublished>>
      /\ minute' \in 0 .. MaxMinute
  BY PartsAssumption DEF Poller!PollerAssumption, Poller!MinutePasses, Poller!pollVars, PollerInv, PollTypes
<1>2. OneBroker(pollingMqtt') /\ pollingMqtt'.pending = pollingMqtt.pending
  BY <1>1, QuietFlow DEF PollerInv
<1>3. PollTypes'
  <2>1. \A t \in Polled : Poller!Info(t)' = Poller!Info(t)
    BY DEF Poller!Info
  <2> QED BY <1>1, <2>1 DEF PollerInv, PollTypes
<1>4. BatchesApart' /\ FlagsFit' /\ BatchesWait' /\ CountersFit'
  BY <1>1 DEF PollerInv, BatchesApart, FlagsFit, BatchesWait, CountersFit
<1>5. ReadingsHeld'
  BY <1>1, <1>2 DEF PollerInv, ReadingsHeld, Read
<1> QED BY <1>2, <1>3, <1>4, <1>5 DEF PollerInv

LEMMA PollerKeeps == PollerInv /\ [Poller!Next]_pollerVars => PollerInv'
<1> SUFFICES ASSUME PollerInv, [Poller!Next]_pollerVars PROVE PollerInv'
  OBVIOUS
<1>1. CASE Poller!Poll
  BY <1>1, PollKeeps
<1>2. CASE Poller!ReadSettles
  BY <1>2, SettleKeeps DEF Poller!ReadSettles
<1>3. CASE Poller!MinutePasses
  BY <1>3, MinuteKeeps
<1>4. CASE Poller!Announce
  <2>1. Poller!Discovery \in Calls
    BY DEF Calls, Poller!PollCallbacks
  <2>2. \A t : Poller!Holding(<<Poller!Discovery>>, t) = 0
    <3>1. Poller!Discovery.kind # "state"
      BY DEF Poller!Discovery
    <3> QED BY <2>1, <3>1, HoldingOne
  <2> DEFINE q == Poller!Connector!Quiet
  <2>3. OneBroker(q) /\ \A t : Total(q, t) = Poller!Holding(pollingMqtt.pending, t)
    BY QuietFlow DEF PollerInv
  <2>4. pollingMqtt' = Poller!Connector!GetMqttClient(q, Poller!Discovery)
    BY <1>4 DEF Poller!Announce
  <2> HIDE DEF q
  <2>5. /\ OneBroker(pollingMqtt')
        /\ \A t : Total(pollingMqtt', t) = Total(q, t) + Poller!Holding(<<Poller!Discovery>>, t)
    BY <2>1, <2>3, <2>4, GetMqttClientFlow
  <2>6. \A t : Total(pollingMqtt', t) = Poller!Holding(pollingMqtt.pending, t)
    <3> TAKE t
    <3>1. Poller!Holding(pollingMqtt.pending, t) \in Nat
      BY TotalCounts DEF PollerInv, OneBroker
    <3> QED BY <2>2, <2>3, <2>5, <3>1
  <2> QED BY <1>4, <2>5, <2>6, OthersKeep DEF Poller!Announce, PollerInv, PollTypes
<1>5. CASE Poller!MqttEvent
  <2>1. /\ OneBroker(pollingMqtt')
        /\ \A t : Total(pollingMqtt', t) = Poller!Holding(pollingMqtt.pending, t)
    BY <1>5, EventFlow DEF Poller!MqttEvent, PollerInv
  <2> QED BY <1>5, <2>1, OthersKeep DEF Poller!MqttEvent, PollerInv, PollTypes
<1>6. CASE UNCHANGED pollerVars
  <2>1. UNCHANGED <<pollingMqtt, pollInfo, batches, minute, unpublished>>
    BY <1>6 DEF pollerVars
  <2>2. OneBroker(pollingMqtt)' /\ BatchesApart' /\ FlagsFit' /\ BatchesWait' /\ CountersFit'
    BY <2>1 DEF PollerInv, BatchesApart, FlagsFit, BatchesWait, CountersFit
  <2>3. PollTypes'
    <3>1. \A t \in Polled : Poller!Info(t)' = Poller!Info(t)
      BY DEF Poller!Info
    <3> QED BY <2>1, <3>1 DEF PollerInv, PollTypes
  <2>4. ReadingsHeld'
    BY <2>1 DEF PollerInv, ReadingsHeld, Read
  <2> QED BY <2>2, <2>3, <2>4 DEF PollerInv
<1> QED BY <1>1, <1>2, <1>3, <1>4, <1>5, <1>6 DEF Poller!Next

(* What the invariant says of the properties of the poller.                             *)
LEMMA PollerInvSays ==
  ASSUME PollerInv
  PROVE  /\ Poller!TypeOK /\ Poller!ProcessingMeansReading
         /\ Poller!CountsAgree /\ Poller!EveryReadingIsHeld
<1>1. Poller!EveryReadingIsHeld
  <2> SUFFICES ASSUME NEW s \in Polled PROVE unpublished[s] = Poller!Held(s)
    BY DEF Poller!EveryReadingIsHeld
  <2>1. Poller!Held(s) = Cardinality(Read(s)) + Poller!Holding(pollingMqtt.pending, s)
    BY PollerCardinality DEF Poller!Held, Read
  <2> QED BY <2>1 DEF PollerInv, ReadingsHeld
<1>2. Poller!CountsAgree
  BY PollerCardinality DEF PollerInv, CountersFit, Poller!CountsAgree
<1>3. Poller!ProcessingMeansReading
  <2> SUFFICES ASSUME NEW s \in Polled
               PROVE  Poller!Cardinality({b \in batches : s \in b.open})
                        = IF pollInfo[s].processing THEN 1 ELSE 0
    BY DEF Poller!ProcessingMeansReading
  <2>1. CASE pollInfo[s].processing
    <3>1. PICK b \in batches : s \in b.open
      BY <2>1 DEF PollerInv, FlagsFit
    <3>2. {c \in batches : s \in c.open} = {b}
      BY <3>1 DEF PollerInv, BatchesApart
    <3> QED BY <2>1, <3>2, FS_Singleton, PollerCardinality
  <2>2. CASE ~pollInfo[s].processing
    <3>1. {c \in batches : s \in c.open} = {}
      BY <2>2 DEF PollerInv, FlagsFit
    <3> QED BY <2>2, <3>1, FS_EmptySet, PollerCardinality
  <2> QED BY <2>1, <2>2
<1>4. Poller!TypeOK
  <2>1. \A s \in Polled : unpublished[s] \in Nat
    <3> TAKE s \in Polled
    <3>1. Cardinality(Read(s)) \in Nat /\ Poller!Holding(pollingMqtt.pending, s) \in Nat
      BY ReadCounts, TotalCounts DEF PollerInv, OneBroker
    <3> QED BY <3>1 DEF PollerInv, ReadingsHeld
  <2> QED BY <2>1 DEF PollerInv, PollTypes, Poller!TypeOK
<1> QED BY <1>1, <1>2, <1>3, <1>4

(* However many batches overlap, fail and wait for a client that comes and goes, the flag of     *)
(* a slave is set exactly while one read of it is under way, the counters of a batch tell how    *)
(* many of its reads are open, and every reading is published once, or dropped by the            *)
(* connector: none is forgotten, none published again (mqttpoller.ts: poll).                *)
THEOREM ReadingsArePublished == Spec => []PollerAgrees
<1>1. Init => PollerInv
  BY BeginsWithEach, PollerBegins
<1>2. PollerInv /\ [Next]_vars => PollerInv'
  BY StepsOfEach, PollerKeeps
<1>3. PollerInv => PollerAgrees
  BY PollerInvSays DEF PollerAgrees
<1> QED BY <1>1, <1>2, <1>3, PTL DEF Spec

(***************************************************************************)
(* Schedules.                                                                 *)
(***************************************************************************)

LEMMA ScheduleConstants ==
  /\ Minutes \subseteq 0 .. 59 /\ Hours \subseteq 0 .. 23 /\ Months \subseteq 1 .. 12
  /\ Presets \subseteq Schedule!Offered
  /\ None \notin Nat
  /\ None \notin [minutes : SUBSET Nat, hours : SUBSET Nat, days : SUBSET Nat]
BY PartsAssumption DEF Schedule!ScheduleAssumption, Schedule!AllHours

LEMMA LeastAndGreatest ==
  /\ Schedule!Least[1] = 0 /\ Schedule!Least[2] = 0 /\ Schedule!Least[3] = 1
  /\ Schedule!Least[4] = 1 /\ Schedule!Least[5] = 0
  /\ Schedule!Greatest[1] = 59 /\ Schedule!Greatest[2] = 23 /\ Schedule!Greatest[3] = 31
  /\ Schedule!Greatest[4] = 12 /\ Schedule!Greatest[5] = 7
BY DEF Schedule!Least, Schedule!Greatest

(* The parts of a field without parts.                                               *)
LEMMA PartHasFields ==
  ASSUME NEW lo, NEW hi, NEW step
  PROVE  /\ Schedule!Part(lo, hi, step).lo = lo /\ Schedule!Part(lo, hi, step).hi = hi
         /\ Schedule!Part(lo, hi, step).step = step
BY DEF Schedule!Part

LEMMA ValuesOfAny ==
  ASSUME NEW i \in 1 .. 5
  PROVE  Schedule!Values(Schedule!Any, i) = Schedule!Least[i] .. Schedule!Greatest[i]
BY PartHasFields DEF Schedule!Values, Schedule!Any, Schedule!First, Schedule!Last

LEMMA ValuesOfOnly ==
  ASSUME NEW n \in Nat, NEW i \in 1 .. 5
  PROVE  Schedule!Values(Schedule!Only(n), i) = {n}
<1> DEFINE p == Schedule!Part(n, None, None)
<1>1. p.lo = n /\ p.hi = None /\ p.step = None /\ n # None
  BY PartHasFields, ScheduleConstants
<1>2. Schedule!First(p, i) = n /\ Schedule!Last(p, i) = n
  BY <1>1 DEF Schedule!First, Schedule!Last
<1>3. {v \in Schedule!First(p, i) .. Schedule!Last(p, i) :
         p.step = None \/ (v - Schedule!First(p, i)) % p.step = 0} = {n}
  BY <1>1, <1>2
<1>4. Schedule!Only(n) = {p}
  BY DEF Schedule!Only
<1> HIDE DEF p
<1> QED BY <1>3, <1>4 DEF Schedule!Values

LEMMA ValuesOfEvery ==
  ASSUME NEW n \in Nat, NEW i \in {1, 2}
  PROVE  Schedule!Values(Schedule!Every(n), i) = {v \in 0 .. Schedule!Greatest[i] : v % n = 0}
<1> DEFINE p == Schedule!Part(None, None, n)
<1>1. p.lo = None /\ p.hi = None /\ p.step = n /\ n # None
  BY PartHasFields, ScheduleConstants
<1>2. Schedule!First(p, i) = 0 /\ Schedule!Last(p, i) = Schedule!Greatest[i]
  BY <1>1, LeastAndGreatest DEF Schedule!First, Schedule!Last
<1>3. Schedule!Every(n) = {p} /\ Schedule!Greatest[i] \in Nat
  BY LeastAndGreatest DEF Schedule!Every
<1> HIDE DEF p
<1>4. Schedule!Values(Schedule!Every(n), i)
        = {v \in 0 .. Schedule!Greatest[i] : p.step = None \/ (v - 0) % p.step = 0}
  BY <1>2, <1>3 DEF Schedule!Values
<1>5. \A v \in 0 .. Schedule!Greatest[i] : v - 0 = v
  BY <1>3
<1> QED BY <1>1, <1>4, <1>5

(* The marks are the multiples of the step.                                           *)
LEMMA MarksAreMultiples ==
  ASSUME NEW n \in Nat \ {0}, NEW last \in Nat
  PROVE  Schedule!Marks(n, last) = {v \in 0 .. last : v % n = 0}
<1>1. ASSUME NEW v \in 0 .. last, v % n = 0
      PROVE  v \in Schedule!Marks(n, last)
  <2>1. v = n * (v \div n) + (v % n) /\ v \div n \in Nat
    OBVIOUS
  <2>2. v \div n \in 0 .. last \div n
    OBVIOUS
  <2>3. v = (v \div n) * n
    BY <1>1, <2>1
  <2> QED BY <2>2, <2>3 DEF Schedule!Marks
<1>2. ASSUME NEW k \in 0 .. last \div n, k * n \in 0 .. last
      PROVE  (k * n) % n = 0
  OBVIOUS
<1> QED BY <1>1, <1>2 DEF Schedule!Marks

LEMMA OnlyIsNumber ==
  ASSUME NEW n \in Nat, NEW m \in Nat, Schedule!Only(n) = Schedule!Only(m)
  PROVE  n = m
<1>1. Schedule!Part(n, None, None) = Schedule!Part(m, None, None)
  BY DEF Schedule!Only
<1> QED BY <1>1, PartHasFields

LEMMA EveryIsStep ==
  ASSUME NEW n \in Nat, NEW m \in Nat, Schedule!Every(n) = Schedule!Every(m)
  PROVE  n = m
<1>1. Schedule!Part(None, None, n) = Schedule!Part(None, None, m)
  BY DEF Schedule!Every
<1> QED BY <1>1, PartHasFields

LEMMA NumberIs ==
  ASSUME NEW f, Schedule!Number(f)
  PROVE  Schedule!TheNumber(f) \in 0 .. 99 /\ f = Schedule!Only(Schedule!TheNumber(f))
BY DEF Schedule!Number, Schedule!TheNumber

LEMMA StepIs ==
  ASSUME NEW f, Schedule!Steps(f)
  PROVE  Schedule!TheStep(f) \in 0 .. 99 /\ f = Schedule!Every(Schedule!TheStep(f))
BY DEF Schedule!Steps, Schedule!TheStep

LEMMA OnlyIsNotAny == ASSUME NEW n \in Nat PROVE Schedule!Only(n) # Schedule!Any
<1> SUFFICES ASSUME Schedule!Only(n) = Schedule!Any PROVE FALSE
  OBVIOUS
<1>1. Schedule!Part(n, None, None) = Schedule!Part(None, None, None)
  BY DEF Schedule!Only, Schedule!Any
<1>2. n = None
  BY <1>1, PartHasFields
<1> QED BY <1>2, ScheduleConstants

(* Sunday is 0 and 7.                                                              *)
LEMMA DaysOfWeekOfOnly ==
  ASSUME NEW n \in 0 .. 7
  PROVE  Schedule!DaysOfWeek(Schedule!Only(n)) = {n % 7}
<1>1. Schedule!Values(Schedule!Only(n), 5) = {n}
  BY ValuesOfOnly
<1>2. n = 7 \/ n % 7 = n
  OBVIOUS
<1>3. 7 % 7 = 0
  OBVIOUS
<1>4. CASE n = 7
  BY <1>1, <1>3, <1>4 DEF Schedule!DaysOfWeek
<1>5. CASE n # 7
  BY <1>1, <1>2, <1>5 DEF Schedule!DaysOfWeek
<1> QED BY <1>4, <1>5

(* With an expression for the time of day only, the date does not matter.               *)
LEMMA MatchesDaily ==
  ASSUME NEW e, e[3] = Schedule!Any, e[4] = Schedule!Any, NEW t \in Schedule!Times
  PROVE  Schedule!Matches(e, t) <=>
           /\ t.minute \in Schedule!Values(e[1], 1) /\ t.hour \in Schedule!Values(e[2], 2)
           /\ e[5] = Schedule!Any \/ t.weekday \in Schedule!DaysOfWeek(e[5])
<1>1. t.month \in 1 .. 12
  BY ScheduleConstants DEF Schedule!Times
<1>2. Schedule!Values(e[4], 4) = 1 .. 12
  BY ValuesOfAny, LeastAndGreatest
<1> QED BY <1>1, <1>2 DEF Schedule!Matches

Describes(e, d) ==
  \A t \in Schedule!Times :
    Schedule!Matches(e, t) <=> t.minute \in d.minutes /\ t.hour \in d.hours /\ t.weekday \in d.days

LEMMA DescribesWhat ==
  ASSUME NEW e, e[3] = Schedule!Any, e[4] = Schedule!Any,
         NEW minutes, NEW hours, NEW days,
         Schedule!Values(e[1], 1) = minutes, Schedule!Values(e[2], 2) = hours,
         \/ e[5] = Schedule!Any /\ days = Schedule!AllDays
         \/ e[5] # Schedule!Any /\ days = Schedule!DaysOfWeek(e[5])
  PROVE  Describes(e, Schedule!Described(minutes, hours, days))
<1> DEFINE d == Schedule!Described(minutes, hours, days)
<1>1. d.minutes = minutes /\ d.hours = hours /\ d.days = days
  BY DEF Schedule!Described
<1> HIDE DEF d
<1>2. \A t \in Schedule!Times : t.weekday \in Schedule!AllDays
  BY DEF Schedule!Times
<1>3. ASSUME NEW t \in Schedule!Times
      PROVE  Schedule!Matches(e, t) <=> t.minute \in minutes /\ t.hour \in hours /\ t.weekday \in days
  <2>1. Schedule!Matches(e, t) <=>
          /\ t.minute \in Schedule!Values(e[1], 1) /\ t.hour \in Schedule!Values(e[2], 2)
          /\ e[5] = Schedule!Any \/ t.weekday \in Schedule!DaysOfWeek(e[5])
    BY MatchesDaily
  <2> QED BY <1>2, <2>1
<1> QED BY <1>1, <1>3 DEF Describes, d

(* Each text names the times at which the slave is polled.                             *)
LEMMA DescriptionsAreRight ==
  ASSUME NEW e, Schedule!DescribeCron(e) # None
  PROVE  Describes(e, Schedule!DescribeCron(e))
<1> DEFINE allDate == e[3] = Schedule!Any /\ e[4] = Schedule!Any
           daily == allDate /\ e[5] = Schedule!Any
           first == daily /\ Schedule!Steps(e[1]) /\ e[2] = Schedule!Any
           second == daily /\ e[1] = Schedule!Only(0) /\ Schedule!Steps(e[2])
           third == daily /\ Schedule!Number(e[1]) /\ e[2] = Schedule!Any
           fourth == daily /\ Schedule!Number(e[1]) /\ Schedule!Number(e[2])
           fifth == /\ allDate /\ Schedule!Number(e[1]) /\ Schedule!Number(e[2])
                    /\ Schedule!Number(e[5]) /\ Schedule!TheNumber(e[5]) <= 7
<1>1. Schedule!DescribeCron(e) =
        CASE first -> IF Schedule!TheStep(e[1]) = 0 THEN None
                      ELSE Schedule!Described(Schedule!Marks(Schedule!TheStep(e[1]), 59),
                                              Schedule!AllHours, Schedule!AllDays)
          [] second -> IF Schedule!TheStep(e[2]) = 0 THEN None
                       ELSE Schedule!Described({0}, Schedule!Marks(Schedule!TheStep(e[2]), 23),
                                               Schedule!AllDays)
          [] third -> Schedule!Described({Schedule!TheNumber(e[1])}, Schedule!AllHours, Schedule!AllDays)
          [] fourth -> Schedule!Described({Schedule!TheNumber(e[1])}, {Schedule!TheNumber(e[2])},
                                          Schedule!AllDays)
          [] fifth -> Schedule!Described({Schedule!TheNumber(e[1])}, {Schedule!TheNumber(e[2])},
                                         {Schedule!TheNumber(e[5]) % 7})
          [] OTHER -> None
  BY Zenon DEF Schedule!DescribeCron
<1> HIDE DEF first, second, third, fourth, fifth
<1>2. \/ first /\ Schedule!TheStep(e[1]) # 0
          /\ Schedule!DescribeCron(e) =
               Schedule!Described(Schedule!Marks(Schedule!TheStep(e[1]), 59),
                                  Schedule!AllHours, Schedule!AllDays)
      \/ second /\ Schedule!TheStep(e[2]) # 0
          /\ Schedule!DescribeCron(e) =
               Schedule!Described({0}, Schedule!Marks(Schedule!TheStep(e[2]), 23), Schedule!AllDays)
      \/ third /\ Schedule!DescribeCron(e) =
           Schedule!Described({Schedule!TheNumber(e[1])}, Schedule!AllHours, Schedule!AllDays)
      \/ fourth /\ Schedule!DescribeCron(e) =
           Schedule!Described({Schedule!TheNumber(e[1])}, {Schedule!TheNumber(e[2])}, Schedule!AllDays)
      \/ fifth /\ Schedule!DescribeCron(e) =
           Schedule!Described({Schedule!TheNumber(e[1])}, {Schedule!TheNumber(e[2])},
                              {Schedule!TheNumber(e[5]) % 7})
  BY <1>1
<1> USE DEF first, second, third, fourth, fifth
<1>3. \A n \in 0 .. 99 : \A i \in {1, 2} :
        /\ Schedule!Values(Schedule!Only(n), i) = {n}
        /\ n # 0 => Schedule!Values(Schedule!Every(n), i)
                      = Schedule!Marks(n, Schedule!Greatest[i])
  <2> TAKE n \in 0 .. 99
  <2> TAKE i \in {1, 2}
  <2>1. n \in Nat /\ i \in 1 .. 5 /\ Schedule!Greatest[i] \in Nat
    BY LeastAndGreatest
  <2>2. Schedule!Values(Schedule!Only(n), i) = {n}
    BY <2>1, ValuesOfOnly
  <2>3. Schedule!Values(Schedule!Every(n), i) = {v \in 0 .. Schedule!Greatest[i] : v % n = 0}
    BY <2>1, ValuesOfEvery
  <2>4. n # 0 => Schedule!Marks(n, Schedule!Greatest[i]) = {v \in 0 .. Schedule!Greatest[i] : v % n = 0}
    BY <2>1, MarksAreMultiples
  <2> QED BY <2>2, <2>3, <2>4
<1>4. Schedule!Values(Schedule!Any, 2) = Schedule!AllHours
  <2>1. 2 \in 1 .. 5
    OBVIOUS
  <2>2. Schedule!Values(Schedule!Any, 2) = Schedule!Least[2] .. Schedule!Greatest[2]
    BY <2>1, ValuesOfAny
  <2> QED BY <2>2, LeastAndGreatest DEF Schedule!AllHours
<1>5. Schedule!Greatest[1] = 59 /\ Schedule!Greatest[2] = 23
  BY LeastAndGreatest
<1>6. CASE first /\ Schedule!TheStep(e[1]) # 0
            /\ Schedule!DescribeCron(e) =
                 Schedule!Described(Schedule!Marks(Schedule!TheStep(e[1]), 59),
                                    Schedule!AllHours, Schedule!AllDays)
  <2>1. Schedule!TheStep(e[1]) \in 0 .. 99 /\ e[1] = Schedule!Every(Schedule!TheStep(e[1]))
    BY <1>6, StepIs
  <2>2. Schedule!Values(e[1], 1) = Schedule!Marks(Schedule!TheStep(e[1]), 59)
    BY <1>3, <1>5, <1>6, <2>1
  <2>3. Schedule!Values(e[2], 2) = Schedule!AllHours
    BY <1>4, <1>6
  <2>4. Describes(e, Schedule!Described(Schedule!Marks(Schedule!TheStep(e[1]), 59),
                                       Schedule!AllHours, Schedule!AllDays))
    BY <1>6, <2>2, <2>3, DescribesWhat
  <2> QED BY <1>6, <2>4
<1>7. CASE second /\ Schedule!TheStep(e[2]) # 0
            /\ Schedule!DescribeCron(e) =
                 Schedule!Described({0}, Schedule!Marks(Schedule!TheStep(e[2]), 23), Schedule!AllDays)
  <2>1. Schedule!TheStep(e[2]) \in 0 .. 99 /\ e[2] = Schedule!Every(Schedule!TheStep(e[2]))
    BY <1>7, StepIs
  <2>2. Schedule!Values(e[2], 2) = Schedule!Marks(Schedule!TheStep(e[2]), 23)
    BY <1>3, <1>5, <1>7, <2>1
  <2>3. Schedule!Values(e[1], 1) = {0}
    BY <1>3, <1>7
  <2>4. Describes(e, Schedule!Described({0}, Schedule!Marks(Schedule!TheStep(e[2]), 23),
                                       Schedule!AllDays))
    BY <1>7, <2>2, <2>3, DescribesWhat
  <2> QED BY <1>7, <2>4
<1>8. CASE third /\ Schedule!DescribeCron(e) =
             Schedule!Described({Schedule!TheNumber(e[1])}, Schedule!AllHours, Schedule!AllDays)
  <2>1. Schedule!TheNumber(e[1]) \in 0 .. 99 /\ e[1] = Schedule!Only(Schedule!TheNumber(e[1]))
    BY <1>8, NumberIs
  <2>2. Schedule!Values(e[1], 1) = {Schedule!TheNumber(e[1])}
    BY <1>3, <2>1
  <2>3. Schedule!Values(e[2], 2) = Schedule!AllHours
    BY <1>4, <1>8
  <2>4. Describes(e, Schedule!Described({Schedule!TheNumber(e[1])}, Schedule!AllHours, Schedule!AllDays))
    BY <1>8, <2>2, <2>3, DescribesWhat
  <2> QED BY <1>8, <2>4
<1>9. ASSUME Schedule!Number(e[1]), Schedule!Number(e[2])
      PROVE  /\ Schedule!Values(e[1], 1) = {Schedule!TheNumber(e[1])}
             /\ Schedule!Values(e[2], 2) = {Schedule!TheNumber(e[2])}
  <2>1. /\ Schedule!TheNumber(e[1]) \in 0 .. 99 /\ e[1] = Schedule!Only(Schedule!TheNumber(e[1]))
        /\ Schedule!TheNumber(e[2]) \in 0 .. 99 /\ e[2] = Schedule!Only(Schedule!TheNumber(e[2]))
    BY <1>9, NumberIs
  <2> QED BY <1>3, <2>1
<1>10. CASE fourth /\ Schedule!DescribeCron(e) =
             Schedule!Described({Schedule!TheNumber(e[1])}, {Schedule!TheNumber(e[2])}, Schedule!AllDays)
  <2>1. Describes(e, Schedule!Described({Schedule!TheNumber(e[1])}, {Schedule!TheNumber(e[2])},
                                       Schedule!AllDays))
    BY <1>9, <1>10, DescribesWhat
  <2> QED BY <1>10, <2>1
<1>11. CASE fifth /\ Schedule!DescribeCron(e) =
             Schedule!Described({Schedule!TheNumber(e[1])}, {Schedule!TheNumber(e[2])},
                                {Schedule!TheNumber(e[5]) % 7})
  <2> DEFINE n == Schedule!TheNumber(e[5])
  <2>1. n \in 0 .. 7 /\ e[5] = Schedule!Only(n)
    BY <1>11, NumberIs
  <2> HIDE DEF n
  <2>2. e[5] # Schedule!Any /\ {n % 7} = Schedule!DaysOfWeek(e[5])
    BY <2>1, OnlyIsNotAny, DaysOfWeekOfOnly
  <2>3. Describes(e, Schedule!Described({Schedule!TheNumber(e[1])}, {Schedule!TheNumber(e[2])}, {n % 7}))
    BY <1>9, <1>11, <2>2, DescribesWhat
  <2> QED BY <1>11, <2>3 DEF n
<1> QED BY <1>2, <1>6, <1>7, <1>8, <1>10, <1>11

(* The backend takes what the page offers.                                             *)
LEMMA AcceptsFields ==
  ASSUME NEW i \in 1 .. 5, NEW f,
         \/ f = Schedule!Any
         \/ \E n \in Nat : f = Schedule!Only(n) /\ Schedule!Least[i] <= n /\ n <= Schedule!Greatest[i]
         \/ \E n \in Nat \ {0} : f = Schedule!Every(n)
  PROVE  \A p \in f :
           /\ p.step # 0
           /\ Schedule!Least[i] <= Schedule!First(p, i)
           /\ Schedule!First(p, i) <= Schedule!Last(p, i)
           /\ Schedule!Last(p, i) <= Schedule!Greatest[i]
<1>1. /\ Schedule!Least[i] \in Nat /\ Schedule!Greatest[i] \in Nat
      /\ Schedule!Least[i] <= Schedule!Greatest[i]
  BY LeastAndGreatest
<1>2. CASE f = Schedule!Any
  BY <1>1, <1>2, PartHasFields, ScheduleConstants DEF Schedule!Any, Schedule!First, Schedule!Last
<1>3. ASSUME NEW n \in Nat, f = Schedule!Only(n), Schedule!Least[i] <= n, n <= Schedule!Greatest[i]
      PROVE  \A p \in f :
           /\ p.step # 0
           /\ Schedule!Least[i] <= Schedule!First(p, i)
           /\ Schedule!First(p, i) <= Schedule!Last(p, i)
           /\ Schedule!Last(p, i) <= Schedule!Greatest[i]
  BY <1>1, <1>3, PartHasFields, ScheduleConstants DEF Schedule!Only, Schedule!First, Schedule!Last
<1>4. ASSUME NEW n \in Nat \ {0}, f = Schedule!Every(n)
      PROVE  \A p \in f :
           /\ p.step # 0
           /\ Schedule!Least[i] <= Schedule!First(p, i)
           /\ Schedule!First(p, i) <= Schedule!Last(p, i)
           /\ Schedule!Last(p, i) <= Schedule!Greatest[i]
  BY <1>1, <1>4, PartHasFields, ScheduleConstants DEF Schedule!Every, Schedule!First, Schedule!Last
<1> QED BY <1>2, <1>3, <1>4

LEMMA OfferedAreAccepted == ASSUME NEW e \in Schedule!Offered PROVE Schedule!Accepted(e)
<1>1. PICK m, h : /\ e = <<m, h, Schedule!Any, Schedule!Any, Schedule!Any>>
                  /\ m \in {Schedule!Every(5), Schedule!Every(15), Schedule!Every(30), Schedule!Only(0)}
                  /\ h \in {Schedule!Any, Schedule!Every(6), Schedule!Only(0), Schedule!Only(6)}
  BY DEF Schedule!Offered
<1>2. e[1] = m /\ e[2] = h /\ e[3] = Schedule!Any /\ e[4] = Schedule!Any /\ e[5] = Schedule!Any
  BY <1>1
<1>3. \A i \in 1 .. 5 : i \in {1, 2, 3, 4, 5}
  OBVIOUS
<1>4. ASSUME NEW i \in 1 .. 5
      PROVE  \/ e[i] = Schedule!Any
             \/ \E n \in Nat : e[i] = Schedule!Only(n) /\ Schedule!Least[i] <= n /\ n <= Schedule!Greatest[i]
             \/ \E n \in Nat \ {0} : e[i] = Schedule!Every(n)
  BY <1>1, <1>2, <1>3, LeastAndGreatest
<1> QED BY <1>4, AcceptsFields DEF Schedule!Accepted

LEMMA DescribedIsText ==
  ASSUME NEW minutes \in SUBSET Nat, NEW hours \in SUBSET Nat, NEW days \in SUBSET Nat
  PROVE  Schedule!Described(minutes, hours, days) # None
<1> DEFINE d == [minutes |-> minutes, hours |-> hours, days |-> days]
<1>1. d \in [minutes : SUBSET Nat, hours : SUBSET Nat, days : SUBSET Nat]
  OBVIOUS
<1> HIDE DEF d
<1>2. d # None
  BY <1>1, ScheduleConstants
<1> QED BY <1>2 DEF d, Schedule!Described

LEMMA StepsAreApart ==
  /\ \A n, k \in Nat : Schedule!Only(n) # Schedule!Every(k)
  /\ \A n \in Nat : Schedule!Every(n) # Schedule!Any
<1>1. ASSUME NEW n \in Nat, NEW k \in Nat, Schedule!Only(n) = Schedule!Every(k) PROVE FALSE
  <2>1. Schedule!Part(n, None, None) = Schedule!Part(None, None, k)
    BY <1>1 DEF Schedule!Only, Schedule!Every
  <2>2. n = None
    BY <2>1, PartHasFields
  <2> QED BY <2>2, ScheduleConstants
<1>2. ASSUME NEW n \in Nat, Schedule!Every(n) = Schedule!Any PROVE FALSE
  <2>1. Schedule!Part(None, None, n) = Schedule!Part(None, None, None)
    BY <1>2 DEF Schedule!Any, Schedule!Every
  <2>2. n = None
    BY <2>1, PartHasFields
  <2> QED BY <2>2, ScheduleConstants
<1> QED BY <1>1, <1>2

LEMMA FieldKinds ==
  /\ \A n \in 0 .. 99 : /\ Schedule!Number(Schedule!Only(n)) /\ Schedule!TheNumber(Schedule!Only(n)) = n
                       /\ ~Schedule!Steps(Schedule!Only(n)) /\ Schedule!Only(n) # Schedule!Any
  /\ \A n \in 0 .. 99 : /\ Schedule!Steps(Schedule!Every(n)) /\ Schedule!TheStep(Schedule!Every(n)) = n
                       /\ ~Schedule!Number(Schedule!Every(n)) /\ Schedule!Every(n) # Schedule!Any
  /\ ~Schedule!Number(Schedule!Any) /\ ~Schedule!Steps(Schedule!Any)
<1>1. ASSUME NEW n \in 0 .. 99
      PROVE  /\ Schedule!Number(Schedule!Only(n)) /\ Schedule!TheNumber(Schedule!Only(n)) = n
             /\ ~Schedule!Steps(Schedule!Only(n)) /\ Schedule!Only(n) # Schedule!Any
  <2>1. Schedule!Number(Schedule!Only(n))
    BY DEF Schedule!Number
  <2>2. Schedule!TheNumber(Schedule!Only(n)) = n
    BY <2>1, NumberIs, OnlyIsNumber
  <2>3. ~Schedule!Steps(Schedule!Only(n))
    BY StepsAreApart DEF Schedule!Steps
  <2> QED BY <2>1, <2>2, <2>3, OnlyIsNotAny
<1>2. ASSUME NEW n \in 0 .. 99
      PROVE  /\ Schedule!Steps(Schedule!Every(n)) /\ Schedule!TheStep(Schedule!Every(n)) = n
             /\ ~Schedule!Number(Schedule!Every(n)) /\ Schedule!Every(n) # Schedule!Any
  <2>1. Schedule!Steps(Schedule!Every(n))
    BY DEF Schedule!Steps
  <2>2. Schedule!TheStep(Schedule!Every(n)) = n
    BY <2>1, StepIs, EveryIsStep
  <2>3. ~Schedule!Number(Schedule!Every(n))
    BY StepsAreApart DEF Schedule!Number
  <2> QED BY <2>1, <2>2, <2>3, StepsAreApart
<1>3. ~Schedule!Number(Schedule!Any)
  BY OnlyIsNotAny DEF Schedule!Number
<1>4. ~Schedule!Steps(Schedule!Any)
  BY StepsAreApart DEF Schedule!Steps
<1> QED BY <1>1, <1>2, <1>3, <1>4

LEMMA OfferedAreDescribed == ASSUME NEW e \in Schedule!Offered PROVE Schedule!DescribeCron(e) # None
<1>1. /\ e[3] = Schedule!Any /\ e[4] = Schedule!Any /\ e[5] = Schedule!Any
      /\ \/ e[2] = Schedule!Any /\ \E n \in 1 .. 99 : e[1] = Schedule!Every(n)
         \/ e[2] = Schedule!Any /\ e[1] = Schedule!Only(0)
         \/ e[1] = Schedule!Only(0) /\ \E n \in 1 .. 99 : e[2] = Schedule!Every(n)
         \/ e[1] = Schedule!Only(0) /\ \E n \in 0 .. 99 : e[2] = Schedule!Only(n)
  BY DEF Schedule!Offered
<1>2. 0 \in 0 .. 99 /\ ~Schedule!Number(e[5]) /\ \A n \in 1 .. 99 : n \in 0 .. 99
  BY <1>1, FieldKinds
<1>3. /\ Schedule!AllHours \in SUBSET Nat /\ Schedule!AllDays \in SUBSET Nat
      /\ \A n \in 0 .. 99, last \in Nat : Schedule!Marks(n, last) \in SUBSET Nat
      /\ \A n \in 0 .. 99 : {n} \in SUBSET Nat
  BY DEF Schedule!AllHours, Schedule!AllDays, Schedule!Marks
<1>4. ASSUME e[2] = Schedule!Any, NEW n \in 1 .. 99, e[1] = Schedule!Every(n)
      PROVE  Schedule!DescribeCron(e) # None
  <2>1. n \in 0 .. 99 /\ n # 0
    OBVIOUS
  <2>2. /\ Schedule!Steps(e[1]) /\ Schedule!TheStep(e[1]) = n /\ ~Schedule!Number(e[1])
        /\ ~Schedule!Steps(e[2]) /\ ~Schedule!Number(e[2])
    BY <1>4, <2>1, FieldKinds
  <2>3. Schedule!DescribeCron(e)
          = Schedule!Described(Schedule!Marks(n, 59), Schedule!AllHours, Schedule!AllDays)
    BY <1>1, <1>2, <1>4, <2>1, <2>2 DEF Schedule!DescribeCron
  <2>4. Schedule!Marks(n, 59) \in SUBSET Nat
    BY <1>3, <2>1
  <2> QED BY <1>3, <2>3, <2>4, DescribedIsText
<1>5. ASSUME e[2] = Schedule!Any, e[1] = Schedule!Only(0)
      PROVE  Schedule!DescribeCron(e) # None
  <2>1. /\ ~Schedule!Steps(e[1]) /\ Schedule!TheNumber(e[1]) = 0 /\ Schedule!Number(e[1])
        /\ ~Schedule!Steps(e[2]) /\ ~Schedule!Number(e[2])
    BY <1>2, <1>5, FieldKinds
  <2>2. Schedule!DescribeCron(e) = Schedule!Described({0}, Schedule!AllHours, Schedule!AllDays)
    BY <1>1, <1>2, <1>5, <2>1 DEF Schedule!DescribeCron
  <2> QED BY <1>2, <1>3, <2>2, DescribedIsText
<1>6. ASSUME e[1] = Schedule!Only(0), NEW n \in 1 .. 99, e[2] = Schedule!Every(n)
      PROVE  Schedule!DescribeCron(e) # None
  <2>1. n \in 0 .. 99 /\ n # 0
    OBVIOUS
  <2>2. /\ Schedule!Steps(e[2]) /\ Schedule!TheStep(e[2]) = n /\ ~Schedule!Number(e[2])
        /\ ~Schedule!Steps(e[1]) /\ e[2] # Schedule!Any
    BY <1>2, <1>6, <2>1, FieldKinds
  <2>3. Schedule!DescribeCron(e)
          = Schedule!Described({0}, Schedule!Marks(n, 23), Schedule!AllDays)
    BY <1>1, <1>2, <1>6, <2>1, <2>2 DEF Schedule!DescribeCron
  <2>4. Schedule!Marks(n, 23) \in SUBSET Nat
    BY <1>3, <2>1
  <2> QED BY <1>2, <1>3, <2>3, <2>4, DescribedIsText
<1>7. ASSUME e[1] = Schedule!Only(0), NEW n \in 0 .. 99, e[2] = Schedule!Only(n)
      PROVE  Schedule!DescribeCron(e) # None
  <2>1. /\ ~Schedule!Steps(e[2]) /\ Schedule!TheNumber(e[2]) = n /\ Schedule!Number(e[2])
        /\ Schedule!Number(e[1]) /\ Schedule!TheNumber(e[1]) = 0
        /\ ~Schedule!Steps(e[1]) /\ e[2] # Schedule!Any
    BY <1>2, <1>7, FieldKinds
  <2>2. Schedule!DescribeCron(e) = Schedule!Described({0}, {n}, Schedule!AllDays)
    BY <1>1, <1>2, <1>7, <2>1 DEF Schedule!DescribeCron
  <2> QED BY <1>2, <1>3, <2>2, DescribedIsText
<1> QED BY <1>1, <1>4, <1>5, <1>6, <1>7

(* Whatever expression is typed, the page says of it when the slave is polled or nothing at      *)
(* all, and what it offers is accepted (describeCron, cronSchedule.ts).                    *)
THEOREM TextsTellTheTimes == Spec => []FiresAsDescribed
<1>1. FiresAsDescribed
  <2>1. expression \in Presets =>
          Schedule!Accepted(expression) /\ Schedule!DescribeCron(expression) # None
    BY ScheduleConstants, OfferedAreAccepted, OfferedAreDescribed
  <2>2. Schedule!DescribeCron(expression) # None => Describes(expression, Schedule!DescribeCron(expression))
    BY DescriptionsAreRight
  <2> QED BY <2>1, <2>2 DEF FiresAsDescribed, Schedule!FiresAsDescribed, Describes
<1> QED BY <1>1, PTL

(***************************************************************************)
(* EntityValues: division.                                                     *)
(***************************************************************************)

LEMMA DivMod ==
  ASSUME NEW n \in Int, NEW d \in Nat \ {0}
  PROVE  n = (n \div d) * d + (n % d) /\ n % d \in 0 .. d - 1 /\ n \div d \in Int
OBVIOUS

(* A multiple of d that is less than d away from 0.                               *)
LEMMA SmallMultiple ==
  ASSUME NEW k \in Int, NEW d \in Nat \ {0}, k * d < d, -d < k * d
  PROVE  k = 0
<1>1. CASE k >= 1
  <2>1. k * d >= d
    BY <1>1
  <2> QED BY <2>1
<1>2. CASE k <= -1
  <2>1. k * d <= -d
    BY <1>2
  <2> QED BY <2>1
<1> QED BY <1>1, <1>2

LEMMA DivModOf ==
  ASSUME NEW d \in Nat \ {0}, NEW q \in Int, NEW r \in 0 .. d - 1
  PROVE  (q * d + r) \div d = q /\ (q * d + r) % d = r
<1> DEFINE n == q * d + r
           p == n \div d
           s == n % d
<1>1. n \in Int
  OBVIOUS
<1>2. n = p * d + s /\ s \in 0 .. d - 1 /\ p \in Int
  <2> HIDE DEF n
  <2> QED BY <1>1, DivMod
<1> HIDE DEF p, s
<1>3. (q - p) * d = s - r
  <2>1. q * d + r = p * d + s
    BY <1>2
  <2> QED BY <1>2, <2>1
<1>4. q - p = 0
  <2> DEFINE k == q - p
  <2>1. k \in Int /\ k * d < d /\ -d < k * d
    BY <1>2, <1>3
  <2> HIDE DEF k
  <2>2. k = 0
    BY <2>1, SmallMultiple
  <2> QED BY <2>2 DEF k
<1>5. p = q /\ s = r
  BY <1>2, <1>3, <1>4
<1> QED BY <1>5 DEF p, s

(* A quotient without its fraction is less than a unit away, and within the bounds of what   *)
(* was divided.                                                                *)
LEMMA QuotientFits ==
  ASSUME NEW a \in Int, NEW b \in Int \ {0}, NEW q, q = Values!Quotient(a, b)
  PROVE  /\ q \in Int
         /\ Values!Distance(q * b, a) < Values!Distance(b, 0)
         /\ \A lo, hi \in Int :
              LET sign == IF b < 0 THEN -1 ELSE 1
              IN  lo <= 0 /\ 0 <= hi /\ lo * (sign * b) <= sign * a /\ sign * a <= hi * (sign * b)
                    => lo <= q /\ q <= hi
<1> DEFINE x == IF a < 0 THEN -a ELSE a
           d == IF b < 0 THEN -b ELSE b
           p == x \div d
           f == x % d
<1>1. x \in Nat /\ d \in Nat \ {0}
  OBVIOUS
<1>2. x = p * d + f /\ f \in 0 .. d - 1 /\ p \in Int /\ p >= 0
  <2> HIDE DEF x, d
  <2>1. x = p * d + f /\ f \in 0 .. d - 1 /\ p \in Int
    BY <1>1, DivMod
  <2>2. p >= 0
    BY <1>1
  <2> QED BY <2>1, <2>2
<1>3. q = IF (a < 0) = (b < 0) THEN p ELSE -p
  BY DEF Values!Quotient
<1> HIDE DEF p, f
<1>4. q \in Int
  BY <1>2, <1>3
<1>5. q * b = IF a < 0 THEN -(p * d) ELSE p * d
  <2>1. CASE b < 0
    <3>1. d = -b /\ p * d = -(p * b)
      BY <1>2, <2>1
    <3>2. (-p) * b = -(p * b)
      BY <1>2
    <3> QED BY <1>2, <1>3, <2>1, <3>1, <3>2
  <2>2. CASE ~(b < 0)
    <3>1. d = b /\ (-p) * b = -(p * b)
      BY <1>2, <2>2
    <3> QED BY <1>2, <1>3, <2>2, <3>1
  <2> QED BY <2>1, <2>2
<1>6. Values!Distance(q * b, a) < Values!Distance(b, 0)
  <2>1. p * d \in Int
    BY <1>1, <1>2
  <2> DEFINE y == p * d
  <2>2. y \in Int /\ x = y + f /\ q * b = IF a < 0 THEN -y ELSE y
    BY <1>2, <1>5, <2>1
  <2> HIDE DEF y
  <2> QED BY <1>1, <1>2, <2>2 DEF Values!Distance
<1>7. ASSUME NEW lo \in Int, NEW hi \in Int, NEW sign, sign = IF b < 0 THEN -1 ELSE 1, lo <= 0, 0 <= hi,
             lo * (sign * b) <= sign * a, sign * a <= hi * (sign * b)
      PROVE  lo <= q /\ q <= hi
  <2>1. sign * b = d /\ sign * a = (IF (a < 0) = (b < 0) THEN x ELSE -x)
    BY <1>7
  <2>2. CASE (a < 0) = (b < 0)
    <3>1. p * d <= hi * d
      BY <1>1, <1>2, <1>7, <2>1, <2>2
    <3>2. p <= hi
      <4>1. CASE p >= hi + 1
        <5>1. p * d >= hi * d + d
          BY <1>1, <1>2, <4>1
        <5> QED BY <1>1, <1>2, <3>1, <5>1
      <4> QED BY <1>2, <4>1
    <3> QED BY <1>2, <1>3, <1>7, <2>2, <3>2
  <2>3. CASE ~((a < 0) = (b < 0))
    <3>1. lo * d <= -x
      BY <1>7, <2>1, <2>3
    <3>2. lo * d <= -(p * d) /\ (-lo) * d = -(lo * d) /\ -(p * d) \in Int /\ lo * d \in Int
      BY <1>1, <1>2, <3>1
    <3>3. p * d <= (-lo) * d
      BY <3>2, <1>1, <1>2
    <3>4. p <= -lo
      <4>1. CASE p >= -lo + 1
        <5>1. p * d >= (-lo) * d + d
          BY <1>1, <1>2, <4>1
        <5> QED BY <1>1, <1>2, <3>3, <5>1
      <4> QED BY <1>2, <4>1
    <3> QED BY <1>2, <1>3, <1>7, <2>3, <3>4
  <2> QED BY <2>2, <2>3
<1> QED BY <1>4, <1>6, <1>7

(***************************************************************************)
(* Registers and their bytes.                                                   *)
(***************************************************************************)

LEMMA ByteIs == Byte \in Nat \ {0, 1}
BY PartsAssumption DEF Values!ValuesAssumption

LEMMA WordIs ==
  /\ Values!Word \in Nat \ {0} /\ Values!Word >= 4 /\ Values!Word = Byte * Byte
  /\ Values!Range32 \in Nat \ {0} /\ Values!Range32 = Values!Word * Values!Word
  /\ Values!Range32 >= Values!Word
<1>1. Byte * Byte \in Nat /\ Byte * Byte >= 4
  BY ByteIs
<1>2. Values!Word \in Nat \ {0} /\ Values!Word >= 4 /\ Values!Word = Byte * Byte
  BY <1>1 DEF Values!Word
<1>3. Values!Word * Values!Word \in Nat /\ Values!Word * Values!Word >= Values!Word
  BY <1>2
<1> QED BY <1>2, <1>3 DEF Values!Range32

(* A number below d * d has two digits to the base d.                               *)
LEMMA TwoDigits ==
  ASSUME NEW d \in Nat \ {0}, NEW n \in Nat, n < d * d
  PROVE  n \div d \in 0 .. d - 1 /\ n % d \in 0 .. d - 1 /\ n = (n \div d) * d + (n % d)
<1> DEFINE p == n \div d
           f == n % d
<1>1. n = p * d + f /\ f \in 0 .. d - 1 /\ p \in Int /\ p >= 0
  <2>1. n \in Int /\ n \div d >= 0
    OBVIOUS
  <2> QED BY <2>1, DivMod
<1> HIDE DEF p, f
<1>2. CASE p >= d
  <2>1. p * d >= d * d
    BY <1>1, <1>2
  <2> QED BY <1>1, <2>1
<1>3. p \in 0 .. d - 1
  BY <1>1, <1>2
<1> QED BY <1>1, <1>3 DEF p, f

LEMMA DigitsBound ==
  ASSUME NEW d \in Nat \ {0}, NEW a \in 0 .. d - 1, NEW b \in 0 .. d - 1
  PROVE  a * d + b \in 0 .. d * d - 1
<1>1. a * d <= (d - 1) * d /\ a * d >= 0 /\ (d - 1) * d = d * d - d /\ a * d \in Int /\ d * d \in Int
  OBVIOUS
<1> QED BY <1>1

LEMMA SwapBack ==
  ASSUME NEW r \in 0 .. Values!Word - 1
  PROVE  /\ Values!SwapBytesInRegister(r) \in 0 .. Values!Word - 1
         /\ Values!SwapBytesInRegister(Values!SwapBytesInRegister(r)) = r
<1> DEFINE a == r \div Byte
           b == r % Byte
<1>1. Byte \in Nat \ {0} /\ r \in Nat /\ r < Byte * Byte
  BY ByteIs, WordIs
<1>2. a \in 0 .. Byte - 1 /\ b \in 0 .. Byte - 1 /\ r = a * Byte + b
  BY <1>1, TwoDigits
<1>3. Values!SwapBytesInRegister(r) = b * Byte + a
  BY DEF Values!SwapBytesInRegister
<1> HIDE DEF a, b
<1>4. (b * Byte + a) \div Byte = b /\ (b * Byte + a) % Byte = a
  BY <1>1, <1>2, DivModOf
<1>5. b * Byte + a \in 0 .. Values!Word - 1
  BY <1>1, <1>2, DigitsBound, WordIs
<1>6. Values!SwapBytesInRegister(b * Byte + a) = a * Byte + b
  BY <1>4 DEF Values!SwapBytesInRegister
<1> QED BY <1>2, <1>3, <1>5, <1>6

Numbers == {e \in Converted : e.converter = "number"}

LEMMA NumberIs32 ==
  ASSUME NEW e \in Numbers
  PROVE  /\ e.format \in {"default", "signedInt16", "signedInt32", "unsignedInt32"}
         /\ e.registers = (IF Values!Is32(e) THEN 2 ELSE 1)
         /\ e.swapBytes \in BOOLEAN /\ e.swapWords \in BOOLEAN
         /\ e.multiplier \in Int /\ e.offset \in Int
         /\ Values!Multiplier(e) \in Int \ {0}
<1>1. e \in Converted /\ e.converter = "number"
  BY DEF Numbers
<1>2. /\ e.format \in {"default", "signedInt16", "signedInt32", "unsignedInt32"}
      /\ e.registers = (IF Values!Is32(e) THEN 2 ELSE 1)
      /\ e.swapBytes \in BOOLEAN /\ e.swapWords \in BOOLEAN
      /\ e.multiplier \in Int /\ e.offset \in Int
  BY <1>1, PartsAssumption DEF Values!ValuesAssumption
<1> QED BY <1>2 DEF Values!Multiplier

(* Swapping bytes and words is its own inverse.                                     *)
LEMMA SwappedBack ==
  ASSUME NEW e \in Numbers, NEW rs,
         (rs = <<rs[1]>> /\ ~Values!Is32(e)) \/ (rs = <<rs[1], rs[2]>> /\ Values!Is32(e)),
         \A i \in DOMAIN rs : rs[i] \in 0 .. Values!Word - 1
  PROVE  /\ Values!Swapped(e, Values!Swapped(e, rs)) = rs
         /\ Len(Values!Swapped(e, rs)) = Len(rs)
         /\ DOMAIN Values!Swapped(e, rs) = 1 .. e.registers
<1> DEFINE swap(s) == IF e.swapBytes THEN [i \in DOMAIN s |-> Values!SwapBytesInRegister(s[i])] ELSE s
           turn(s) == IF e.swapWords /\ Values!Is32(e) THEN <<s[2], s[1]>> ELSE s
           b(r) == IF e.swapBytes THEN Values!SwapBytesInRegister(r) ELSE r
<1>1. ASSUME NEW s PROVE Values!Swapped(e, s) = turn(swap(s))
  BY DEF Values!Swapped
<1>2. ASSUME NEW r \in 0 .. Values!Word - 1 PROVE b(b(r)) = r
  BY SwapBack
<1>3. ASSUME NEW x PROVE swap(<<x>>) = <<b(x)>>
  OBVIOUS
<1>4. ASSUME NEW x, NEW y PROVE swap(<<x, y>>) = <<b(x), b(y)>>
  OBVIOUS
<1> HIDE DEF b, swap
<1>5. CASE rs = <<rs[1]>> /\ ~Values!Is32(e)
  <2>1. rs[1] \in 0 .. Values!Word - 1
    <3>1. 1 \in DOMAIN rs
      BY <1>5
    <3> QED BY <3>1
  <2>2. Values!Swapped(e, rs) = <<b(rs[1])>>
    BY <1>1, <1>3, <1>5
  <2>3. Values!Swapped(e, <<b(rs[1])>>) = <<b(b(rs[1]))>>
    BY <1>1, <1>3, <1>5
  <2>4. Values!Swapped(e, Values!Swapped(e, rs)) = rs
    BY <1>2, <1>5, <2>1, <2>2, <2>3
  <2>5. Len(rs) = 1
    BY <1>5
  <2> QED BY <1>5, <2>2, <2>4, <2>5, NumberIs32
<1>6. CASE rs = <<rs[1], rs[2]>> /\ Values!Is32(e)
  <2>1. rs[1] \in 0 .. Values!Word - 1 /\ rs[2] \in 0 .. Values!Word - 1
    <3>1. 1 \in DOMAIN rs /\ 2 \in DOMAIN rs
      BY <1>6
    <3> QED BY <3>1
  <2> DEFINE x == b(rs[1])
             y == b(rs[2])
  <2>2. b(x) = rs[1] /\ b(y) = rs[2]
    BY <1>2, <2>1
  <2>3. swap(rs) = <<x, y>> /\ swap(<<x, y>>) = <<rs[1], rs[2]>> /\ swap(<<y, x>>) = <<rs[2], rs[1]>>
    BY <1>4, <1>6, <2>2
  <2> HIDE DEF x, y
  <2>4. Len(rs) = 2 /\ e.registers = 2
    BY <1>6, NumberIs32
  <2>5. CASE e.swapWords
    <3>1. Values!Swapped(e, rs) = <<y, x>>
      BY <1>1, <1>6, <2>3, <2>5
    <3>2. Values!Swapped(e, <<y, x>>) = <<rs[1], rs[2]>>
      BY <1>1, <1>6, <2>3, <2>5
    <3> QED BY <1>6, <2>4, <3>1, <3>2
  <2>6. CASE ~e.swapWords
    <3>1. Values!Swapped(e, rs) = <<x, y>>
      BY <1>1, <2>3, <2>6
    <3>2. Values!Swapped(e, <<x, y>>) = <<rs[1], rs[2]>>
      BY <1>1, <2>3, <2>6
    <3> QED BY <1>6, <2>4, <3>1, <3>2
  <2> QED BY <2>5, <2>6
<1> QED BY <1>5, <1>6

(***************************************************************************)
(* Numbers are read back.                                                      *)
(***************************************************************************)

LEMMA SignedBack ==
  ASSUME NEW range \in Nat \ {0}, NEW n \in Int, -(range \div 2) <= n
  PROVE  /\ n <= range \div 2 - 1 => Values!Signed(n % range, range) = n
         /\ 0 <= n /\ n < range => n % range = n
<1> DEFINE half == range \div 2
<1>1. half \in Nat /\ half <= range /\ 2 * half <= range
  OBVIOUS
<1> HIDE DEF half
<1>2. 0 <= n /\ n < range => n % range = n
  <2>1. CASE 0 <= n /\ n < range
    <3>1. n \in 0 .. range - 1 /\ 0 * range + n = n
      BY <2>1
    <3> QED BY <3>1, DivModOf
  <2> QED BY <2>1
<1>3. ASSUME n < 0, -half <= n PROVE n % range = n + range
  <2>1. n + range \in 0 .. range - 1 /\ (-1) * range + (n + range) = n
    BY <1>1, <1>3
  <2> QED BY <2>1, DivModOf
<1>4. -half <= n /\ n <= half - 1 => Values!Signed(n % range, range) = n
  <2> SUFFICES ASSUME -half <= n, n <= half - 1 PROVE Values!Signed(n % range, range) = n
    OBVIOUS
  <2>1. CASE n < 0
    <3>1. n % range = n + range /\ n + range >= half
      BY <1>1, <1>3, <2>1
    <3> QED BY <3>1 DEF Values!Signed, half
  <2>2. CASE ~(n < 0)
    <3>1. n % range = n /\ ~(n >= half)
      BY <1>1, <1>2, <2>2
    <3> QED BY <3>1 DEF Values!Signed, half
  <2> QED BY <2>1, <2>2
<1> QED BY <1>2, <1>4 DEF half

(* The registers of n in canonical order.                                          *)
Canonical(e, n) ==
  IF Values!Is32(e) THEN <<(n % Values!Range32) \div Values!Word, n % Values!Word>>
  ELSE <<n % Values!Word>>

LEMMA WordsOf ==
  ASSUME NEW n \in Int
  PROVE  /\ n % Values!Word \in 0 .. Values!Word - 1
         /\ (n % Values!Range32) \div Values!Word \in 0 .. Values!Word - 1
         /\ n % Values!Range32 = ((n % Values!Range32) \div Values!Word) * Values!Word + (n % Values!Word)
         /\ n % Values!Range32 \in 0 .. Values!Range32 - 1
<1> DEFINE w == Values!Word
           p == n \div Values!Range32
           s == n % Values!Range32
           a == s \div w
           b == s % w
<1>1. w \in Nat \ {0} /\ Values!Range32 \in Nat \ {0} /\ Values!Range32 = w * w
  BY WordIs
<1>2. n = p * Values!Range32 + s /\ s \in 0 .. Values!Range32 - 1 /\ p \in Int
  BY <1>1, DivMod
<1> HIDE DEF w, p, s
<1>3. a \in 0 .. w - 1 /\ b \in 0 .. w - 1 /\ s = a * w + b
  <2>1. s \in Nat /\ s < w * w
    BY <1>1, <1>2
  <2> QED BY <1>1, <2>1, TwoDigits
<1> HIDE DEF a, b
<1>4. n = (p * w + a) * w + b
  <2>1. p * (w * w) = (p * w) * w /\ (p * w + a) * w = (p * w) * w + a * w /\ p * w \in Int
        /\ (p * w) * w \in Int /\ a * w \in Int
    BY <1>1, <1>2, <1>3
  <2> QED BY <1>1, <1>2, <1>3, <2>1
<1>5. p * w + a \in Int
  <2>1. p * w \in Int
    BY <1>1, <1>2
  <2> QED BY <1>3, <2>1
<1>6. n % w = b
  <2> DEFINE q == p * w + a
  <2>1. q \in Int /\ n = q * w + b
    BY <1>4, <1>5
  <2> HIDE DEF q
  <2> QED BY <1>1, <1>3, <2>1, DivModOf
<1> QED BY <1>2, <1>3, <1>6 DEF w, s, a

LEMMA RawBack ==
  ASSUME NEW e \in Numbers, NEW n \in Int, Values!Lowest(e) <= n, n <= Values!Highest(e)
  PROVE  Values!Raw(e, Canonical(e, n)) = n
<1> DEFINE w == Values!Word
           r == Values!Range32
<1>1. w \in Nat \ {0} /\ r \in Nat \ {0} /\ r >= w
  BY WordIs
<1>2. /\ n % r = ((n % r) \div w) * w + (n % w)
      /\ n % r \in 0 .. r - 1 /\ n % w \in 0 .. w - 1
  BY WordsOf
<1>3. w \div 2 \in Nat /\ r \div 2 \in Nat
  BY <1>1
<1>4. /\ -(w \div 2) <= n => /\ n <= w \div 2 - 1 => Values!Signed(n % w, w) = n
                             /\ 0 <= n /\ n < w => n % w = n
      /\ -(r \div 2) <= n => /\ n <= r \div 2 - 1 => Values!Signed(n % r, r) = n
                             /\ 0 <= n /\ n < r => n % r = n
  <2>1. -(w \div 2) <= n => /\ n <= w \div 2 - 1 => Values!Signed(n % w, w) = n
                            /\ 0 <= n /\ n < w => n % w = n
    BY <1>1, SignedBack
  <2>2. -(r \div 2) <= n => /\ n <= r \div 2 - 1 => Values!Signed(n % r, r) = n
                            /\ 0 <= n /\ n < r => n % r = n
    BY <1>1, SignedBack
  <2> QED BY <2>1, <2>2
<1>5. CASE e.format = "default"
  <2>1. ~Values!Is32(e) /\ Values!Lowest(e) = 0 /\ Values!Highest(e) = w - 1
    BY <1>5 DEF Values!Is32, Values!Lowest, Values!Highest
  <2>2. n % w = n
    <3> HIDE DEF w
    <3> QED BY <1>1, <1>3, <1>4, <2>1
  <2> QED BY <1>5, <2>1, <2>2 DEF Values!Raw, Canonical
<1>6. CASE e.format = "signedInt16"
  <2>1. ~Values!Is32(e) /\ Values!Lowest(e) = -(w \div 2) /\ Values!Highest(e) = w \div 2 - 1
    BY <1>6 DEF Values!Is32, Values!Lowest, Values!Highest
  <2> QED BY <1>4, <1>6, <2>1 DEF Values!Raw, Canonical
<1>7. CASE e.format = "unsignedInt32"
  <2>1. Values!Is32(e) /\ Values!Lowest(e) = 0 /\ Values!Highest(e) = r - 1
    BY <1>7 DEF Values!Is32, Values!Lowest, Values!Highest
  <2>2. n % r = n
    <3> HIDE DEF r
    <3> QED BY <1>1, <1>3, <1>4, <2>1
  <2>3. Values!Raw(e, Canonical(e, n)) = ((n % r) \div w) * w + (n % w)
    BY <1>7, <2>1 DEF Values!Raw, Canonical
  <2> QED BY <1>2, <2>2, <2>3
<1>8. CASE e.format = "signedInt32"
  <2>1. Values!Is32(e) /\ Values!Lowest(e) = -(r \div 2) /\ Values!Highest(e) = r \div 2 - 1
    BY <1>8 DEF Values!Is32, Values!Lowest, Values!Highest
  <2>2. Values!Raw(e, Canonical(e, n)) = Values!Signed(((n % r) \div w) * w + (n % w), r)
    BY <1>8, <2>1 DEF Values!Raw, Canonical
  <2> QED BY <1>2, <1>4, <2>1, <2>2
<1> QED BY <1>5, <1>6, <1>7, <1>8, NumberIs32

LEMMA BoundsOf ==
  ASSUME NEW e \in Numbers
  PROVE  /\ Values!Lowest(e) \in Int /\ Values!Highest(e) \in Int
         /\ Values!Lowest(e) <= 0 /\ 0 <= Values!Highest(e)
         /\ e.format = "default" => Values!Lowest(e) = 0 /\ Values!Highest(e) = Values!Word - 1
<1>1. Values!Word \in Nat /\ Values!Word >= 4 /\ Values!Range32 \in Nat /\ Values!Range32 >= 4
  BY WordIs
<1>2. Values!Word \div 2 >= 1 /\ Values!Range32 \div 2 >= 1 /\ Values!Word \div 2 \in Int /\ Values!Range32 \div 2 \in Int
  BY <1>1
<1> QED BY <1>1, <1>2, NumberIs32 DEF Values!Lowest, Values!Highest

(* A number within its range is written as its registers, and read back.                *)
LEMMA NumberBack ==
  ASSUME NEW e \in Numbers, NEW v \in Int, Values!InRange(e, v), NEW data, data = Values!NumberTo(e, v)
  PROVE  /\ DOMAIN data = 1 .. e.registers /\ Len(data) = e.registers
         /\ \E x \in Int : /\ Values!NumberFrom(e, data) = <<x>>
                           /\ Values!Distance(x, v) < Values!Distance(Values!Multiplier(e), 0)
<1> DEFINE n == Values!Unscaled(e, v)
           m == Values!Multiplier(e)
           a == v - e.offset
<1>1. m \in Int \ {0} /\ e.offset \in Int /\ a \in Int
  BY NumberIs32
<1>2. n = Values!Quotient(a, m)
  BY DEF Values!Unscaled
<1> HIDE DEF n
<1>3. n \in Int /\ Values!Distance(n * m, a) < Values!Distance(m, 0)
  <2> HIDE DEF a, m
  <2> QED BY <1>1, <1>2, QuotientFits
<1>4. Values!Lowest(e) <= n /\ n <= Values!Highest(e)
  <2> DEFINE lo == Values!Lowest(e)
             hi == Values!Highest(e)
             sign == IF m < 0 THEN -1 ELSE 1
  <2>1. lo * (sign * m) <= sign * a /\ sign * a <= hi * (sign * m)
    BY DEF Values!InRange
  <2>2. lo \in Int /\ hi \in Int /\ lo <= 0 /\ 0 <= hi
    BY BoundsOf
  <2> HIDE DEF lo, hi, a, m
  <2>3. lo <= n /\ n <= hi
    BY <1>1, <1>2, <2>1, <2>2, QuotientFits
  <2> QED BY <2>3 DEF lo, hi
<1>5. data = Values!Swapped(e, Canonical(e, n))
  <2>1. CASE e.format = "default"
    <3>1. ~Values!Is32(e)
      BY <2>1 DEF Values!Is32
    <3>2. n % Values!Word = n
      <4>1. Values!Word \in Nat \ {0} /\ Values!Word \div 2 \in Nat /\ 0 <= n /\ n < Values!Word
        BY <1>3, <1>4, <2>1, BoundsOf, WordIs
      <4> QED BY <1>3, <4>1, SignedBack
    <3>3. CASE e.swapBytes
      BY <2>1, <3>1, <3>3 DEF Values!NumberTo, Canonical, n
    <3>4. CASE ~e.swapBytes
      <4>1. data = <<n>>
        BY <2>1, <3>4 DEF Values!NumberTo, n
      <4>2. Values!Swapped(e, <<n>>) = <<n>>
        BY <3>1, <3>4 DEF Values!Swapped
      <4> QED BY <3>1, <3>2, <4>1, <4>2 DEF Canonical
    <3> QED BY <3>3, <3>4, NumberIs32
  <2>2. CASE e.format # "default"
    BY <2>2 DEF Values!NumberTo, Canonical, n
  <2> QED BY <2>1, <2>2
<1> DEFINE rs == Canonical(e, n)
<1>6. /\ (rs = <<rs[1]>> /\ ~Values!Is32(e)) \/ (rs = <<rs[1], rs[2]>> /\ Values!Is32(e))
      /\ \A i \in DOMAIN rs : rs[i] \in 0 .. Values!Word - 1
      /\ Len(rs) = e.registers
  BY <1>3, WordsOf, NumberIs32 DEF Canonical
<1> HIDE DEF rs
<1>7. /\ Values!Swapped(e, data) = rs
      /\ Len(data) = Len(rs)
      /\ DOMAIN data = 1 .. e.registers
  <2>1. data = Values!Swapped(e, rs)
    BY <1>5 DEF rs
  <2> QED BY <1>6, <2>1, SwappedBack
<1>8. Values!Raw(e, rs) = n
  BY <1>3, <1>4, RawBack DEF rs
<1>9. e.registers \in Nat
  BY NumberIs32
<1>10. Values!NumberFrom(e, data) = <<n * m + e.offset>>
  BY <1>6, <1>7, <1>8, <1>9 DEF Values!NumberFrom
<1>11. n * m \in Int
  <2> HIDE DEF m
  <2> QED BY <1>1, <1>3
<1>12. Values!Distance(n * m + e.offset, v) < Values!Distance(m, 0)
  <2> DEFINE x == n * m
  <2>1. x \in Int /\ Values!Distance(x, v - e.offset) < Values!Distance(m, 0)
    BY <1>3, <1>11
  <2> HIDE DEF x, m
  <2>2. Values!Distance(x + e.offset, v) = Values!Distance(x, v - e.offset)
    BY <1>1, <2>1 DEF Values!Distance
  <2> QED BY <2>1, <2>2 DEF x
<1> QED BY <1>1, <1>6, <1>7, <1>10, <1>11, <1>12

(***************************************************************************)
(* Texts are read back.                                                        *)
(***************************************************************************)

Texts == {e \in Converted : e.converter = "text"}

LEMMA TextHas ==
  ASSUME NEW e \in Texts
  PROVE  e.stringlength \in Nat /\ e.registers = (e.stringlength + 1) \div 2 /\ e.registers \in Nat
<1>1. e \in Converted /\ e.converter = "text"
  BY DEF Texts
<1>2. e.stringlength \in Nat /\ e.registers = (e.stringlength + 1) \div 2
  BY <1>1, PartsAssumption DEF Values!ValuesAssumption
<1> QED BY <1>2

(* The bytes TextFrom converts.                                                   *)
ByteOf(e, data, rest, k) ==
  LET register(i) == IF i \in DOMAIN data THEN Values!TextRegister(e, data[i]) ELSE 0
  IN  IF k > 2 * ((e.stringlength + 2) \div 2) THEN rest
      ELSE IF k % 2 = 1 THEN register((k + 1) \div 2) \div Byte
      ELSE register(k \div 2) % Byte

LEMMA ValuesCardinality == ASSUME NEW S PROVE Values!Cardinality(S) = Cardinality(S)
BY Zenon DEF Values!Cardinality, Cardinality

(* The i-th of the first numbers.                                                   *)
LEMMA NthOfFirst ==
  ASSUME NEW n \in Nat, NEW i \in 1 .. n
  PROVE  Values!Nth(1 .. n, i) = i
<1>1. ASSUME NEW r \in 1 .. n PROVE Cardinality({q \in 1 .. n : q < r}) = r - 1
  <2>1. {q \in 1 .. n : q < r} = 1 .. r - 1
    OBVIOUS
  <2>2. r - 1 \in Nat
    OBVIOUS
  <2>3. Cardinality(1 .. r - 1) = r - 1
    <3> DEFINE k == r - 1
    <3>1. k \in Int /\ 1 \in Int /\ (1 > k <=> k = 0) /\ k - 1 + 1 = k
      BY <2>2
    <3> HIDE DEF k
    <3>2. Cardinality(1 .. k) = k
      BY <3>1, FS_Interval
    <3> QED BY <3>2 DEF k
  <2> QED BY <2>1, <2>3
<1>2. \A r \in 1 .. n : Values!Cardinality({q \in 1 .. n : q < r}) = i - 1 <=> r = i
  BY <1>1, ValuesCardinality
<1> QED BY <1>2 DEF Values!Nth

(* A text of ASCII is read as it is; no text gets longer.                             *)
LEMMA DecodedIs ==
  ASSUME NEW n \in Nat, NEW b, DOMAIN b = 1 .. n, b = [k \in 1 .. n |-> b[k]]
  PROVE  /\ Len(Values!Decoded(b)) \in Nat /\ Len(Values!Decoded(b)) <= n
         /\ (\A k \in 1 .. n : b[k] \in Values!Ascii) => Values!Decoded(b) = b
<1> DEFINE starts == {k \in DOMAIN b : b[k] \in Values!Ascii \/ k = 1 \/ b[k - 1] \in Values!Ascii}
           first(i) == b[Values!Nth(starts, i)]
           decoded == [i \in 1 .. Cardinality(starts) |->
                         IF first(i) \in Values!Ascii THEN first(i) ELSE Values!Foreign]
<1>1. IsFiniteSet(1 .. n) /\ Cardinality(1 .. n) = n
  BY FS_Interval
<1>2. starts \subseteq 1 .. n
  OBVIOUS
<1>3. Cardinality(starts) \in Nat /\ Cardinality(starts) <= n
  <2> HIDE DEF starts
  <2> QED BY <1>1, <1>2, FS_Subset, FS_CardinalityType
<1>4. Values!Decoded(b) = decoded
  <2>1. Values!Cardinality(starts) = Cardinality(starts)
    BY ValuesCardinality
  <2>2. Values!Decoded(b) = [i \in 1 .. Values!Cardinality(starts) |->
                               IF first(i) \in Values!Ascii THEN first(i) ELSE Values!Foreign]
    BY Zenon DEF Values!Decoded
  <2> HIDE DEF starts
  <2> QED BY <2>1, <2>2
<1>5. ASSUME \A k \in 1 .. n : b[k] \in Values!Ascii PROVE decoded = b
  <2>1. starts = 1 .. n
    BY <1>5
  <2> HIDE DEF starts
  <2>2. \A i \in 1 .. n : first(i) = b[i]
    BY <2>1, NthOfFirst
  <2>3. decoded = [i \in 1 .. n |-> b[i]]
    BY <1>1, <1>5, <2>1, <2>2
  <2> QED BY <2>3
<1>6. Len(decoded) = Cardinality(starts)
  <2> HIDE DEF starts
  <2> QED BY <1>3
<1> HIDE DEF decoded, starts
<1> QED BY <1>3, <1>4, <1>5, <1>6

(* The text the first bytes are.                                                    *)
TextOf(e, data, rest, last) == Values!Decoded([k \in 1 .. last |-> ByteOf(e, data, rest, k)])

(* A text ends at a 0 at the latest.                                                 *)
LEMMA TextEnds ==
  ASSUME NEW e \in Texts, NEW data, NEW rest, data # <<>>, NEW z \in Nat \ {0},
         z <= 2 * e.stringlength, ByteOf(e, data, rest, z) = 0
  PROVE  \E last \in Nat : /\ last < z
                           /\ Values!TextFrom(e, data, rest) = <<TextOf(e, data, rest, last)>>
<1> DEFINE byte(k) == ByteOf(e, data, rest, k)
           zeros == {k \in 1 .. 2 * e.stringlength : byte(k) = 0}
           first == CHOOSE k \in zeros : \A j \in zeros : k <= j
           last == IF zeros = {} THEN 2 * e.stringlength ELSE first - 1
<1>1. Values!TextFrom(e, data, rest) = <<Values!Decoded([k \in 1 .. last |-> byte(k)])>>
  BY Zenon DEF Values!TextFrom, ByteOf
<1>2. z \in zeros /\ zeros \subseteq Nat
  BY TextHas
<1>3. \E k \in zeros : \A j \in zeros : k <= j
  <2> HIDE DEF zeros
  <2> QED BY <1>2, SmallestOf
<1>4. first \in zeros /\ \A j \in zeros : first <= j
  <2> HIDE DEF zeros
  <2> QED BY <1>3
<1>5. first \in 1 .. 2 * e.stringlength
  BY <1>4
<1> HIDE DEF first
<1>6. last = first - 1
  BY <1>2
<1>7. last \in Nat /\ last < z
  BY <1>2, <1>4, <1>5, <1>6
<1>8. Values!TextFrom(e, data, rest) = <<TextOf(e, data, rest, last)>>
  BY <1>1, Zenon DEF TextOf
<1> HIDE DEF last, zeros
<1> QED BY <1>7, <1>8

(* A text of ASCII, of full and even length.                                         *)
LEMMA TextBack ==
  ASSUME NEW e \in Texts, NEW v \in Seq(0 .. Byte - 1), Len(v) = e.stringlength, Len(v) % 2 = 0,
         \A k \in 1 .. Len(v) : v[k] \in Values!Ascii,
         NEW data, Len(data) \in Nat \ {0}, DOMAIN data = 1 .. Len(data), data # <<>>, NEW rest,
         \/ Len(data) < e.registers
         \/ Len(data) = e.registers /\ \A i \in 1 .. e.registers : data[i] = Values!TextTo(e, v)[i]
  PROVE  \E text : /\ Values!TextFrom(e, data, rest) = <<text>>
                   /\ text = v \/ Len(text) < Len(v)
<1> DEFINE n == e.stringlength
           m == e.registers
<1>1. n \in Nat /\ m \in Nat /\ n = 2 * m
  <2>1. n \in Nat /\ n % 2 = 0 /\ m = (n + 1) \div 2
    BY TextHas
  <2> HIDE DEF n, m
  <2> QED BY <2>1
<1>2. DOMAIN data = 1 .. Len(data) /\ Len(data) \in Nat /\ Len(data) >= 1
  OBVIOUS
<1>3. m >= 1 /\ e.stringlength = n
  BY <1>1, <1>2
<1> HIDE DEF n, m
<1>4. 2 * ((e.stringlength + 2) \div 2) = n + 2
  BY <1>1, <1>3
<1>5. 0 \div Byte = 0 /\ 0 % Byte = 0
  BY ByteIs
<1>6. CASE Len(data) < e.registers
  <2> DEFINE z == n - 1
  <2>1. z \in Nat \ {0} /\ z <= 2 * e.stringlength /\ ~(z > n + 2) /\ z % 2 = 1 /\ (z + 1) \div 2 = m
    BY <1>1, <1>3
  <2>2. m \notin DOMAIN data
    BY <1>1, <1>2, <1>6 DEF m
  <2>3. ByteOf(e, data, rest, z) = 0
    <3> HIDE DEF z
    <3> QED BY <1>4, <1>5, <2>1, <2>2 DEF ByteOf
  <2>4. PICK last \in Nat : /\ last < z
                            /\ Values!TextFrom(e, data, rest) = <<TextOf(e, data, rest, last)>>
    <3> HIDE DEF z
    <3>1. z \in Nat \ {0} /\ z <= 2 * e.stringlength /\ ByteOf(e, data, rest, z) = 0 /\ data # <<>>
      BY <2>1, <2>3
    <3> QED BY <3>1, TextEnds
  <2> DEFINE text == [k \in 1 .. last |-> ByteOf(e, data, rest, k)]
  <2>5. Len(Values!Decoded(text)) \in Nat /\ Len(Values!Decoded(text)) <= last
    <3>1. DOMAIN text = 1 .. last /\ text = [k \in 1 .. last |-> text[k]]
      OBVIOUS
    <3> HIDE DEF text
    <3> QED BY <3>1, DecodedIs
  <2>6. Len(Values!Decoded(text)) < Len(v)
    BY <1>1, <1>3, <2>4, <2>5
  <2> QED BY <2>4, <2>6 DEF TextOf
<1>7. CASE Len(data) = e.registers /\ \A i \in 1 .. e.registers : data[i] = Values!TextTo(e, v)[i]
  <2> DEFINE z == n + 1
  <2>1. z \in Nat \ {0} /\ z <= 2 * e.stringlength /\ ~(z > n + 2) /\ z % 2 = 1 /\ (z + 1) \div 2 = m + 1
    BY <1>1, <1>3
  <2>2. m + 1 \notin DOMAIN data
    BY <1>1, <1>2, <1>7 DEF m
  <2>3. ByteOf(e, data, rest, z) = 0
    <3> HIDE DEF z
    <3> QED BY <1>4, <1>5, <2>1, <2>2 DEF ByteOf
  <2>4. PICK last \in Nat : /\ last < z
                            /\ Values!TextFrom(e, data, rest) = <<TextOf(e, data, rest, last)>>
    <3> HIDE DEF z
    <3>1. z \in Nat \ {0} /\ z <= 2 * e.stringlength /\ ByteOf(e, data, rest, z) = 0 /\ data # <<>>
      BY <2>1, <2>3
    <3> QED BY <3>1, TextEnds
  <2> DEFINE text == [k \in 1 .. last |-> ByteOf(e, data, rest, k)]
  <2>5. /\ Len(Values!Decoded(text)) \in Nat /\ Len(Values!Decoded(text)) <= last
        /\ (\A k \in 1 .. last : text[k] \in Values!Ascii) => Values!Decoded(text) = text
    <3>1. DOMAIN text = 1 .. last /\ text = [k \in 1 .. last |-> text[k]]
      OBVIOUS
    <3> HIDE DEF text
    <3> QED BY <3>1, DecodedIs
  <2>6. ASSUME NEW i \in 1 .. m
        PROVE  ByteOf(e, data, rest, 2 * i - 1) = v[2 * i - 1] /\ ByteOf(e, data, rest, 2 * i) = v[2 * i]
    <3> DEFINE x == v[2 * i - 1]
               y == v[2 * i]
    <3>1. x \in 0 .. Byte - 1 /\ y \in 0 .. Byte - 1
      <4>1. 2 * i - 1 \in 1 .. Len(v) /\ 2 * i \in 1 .. Len(v)
        BY <1>1, <1>3
      <4> QED BY <4>1, ElementOfSeq
    <3>2. i \in 1 .. (Len(v) + 1) \div 2 /\ 2 * i <= Len(v)
      BY <1>1, <1>3
    <3>3. data[i] = Values!TextRegister(e, x * Byte + y)
      <4>1. data[i] = Values!TextTo(e, v)[i]
        BY <1>7 DEF m
      <4> QED BY <3>2, <4>1 DEF Values!TextTo
    <3> HIDE DEF x, y
    <3>4. x * Byte + y \in 0 .. Values!Word - 1
      BY <3>1, ByteIs, WordIs, DigitsBound
    <3>5. Values!TextRegister(e, data[i]) = x * Byte + y
      BY <3>3, <3>4, SwapBack DEF Values!TextRegister
    <3>6. (x * Byte + y) \div Byte = x /\ (x * Byte + y) % Byte = y
      <4>1. x \in Int /\ Byte \in Nat \ {0}
        BY <3>1, ByteIs
      <4> QED BY <3>1, <4>1, DivModOf
    <3>7. i \in DOMAIN data
      BY <1>1, <1>2, <1>7 DEF m
    <3>8. ByteOf(e, data, rest, 2 * i - 1) = x
      <4>1. ~(2 * i - 1 > n + 2) /\ (2 * i - 1) % 2 = 1 /\ ((2 * i - 1) + 1) \div 2 = i
        BY <1>1
      <4> QED BY <1>4, <3>5, <3>6, <3>7, <4>1 DEF ByteOf
    <3>9. ByteOf(e, data, rest, 2 * i) = y
      <4>1. ~(2 * i > n + 2) /\ (2 * i) % 2 # 1 /\ (2 * i) \div 2 = i
        BY <1>1
      <4> QED BY <1>4, <3>5, <3>6, <3>7, <4>1 DEF ByteOf
    <3> QED BY <3>8, <3>9 DEF x, y
  <2>7. \A k \in 1 .. n : ByteOf(e, data, rest, k) = v[k]
    <3> TAKE k \in 1 .. n
    <3>1. PICK i \in 1 .. m : k = 2 * i - 1 \/ k = 2 * i
      <4>1. (k + 1) \div 2 \in 1 .. m /\ (k = 2 * ((k + 1) \div 2) - 1 \/ k = 2 * ((k + 1) \div 2))
        BY <1>1
      <4> QED BY <4>1
    <3> QED BY <2>6, <3>1
  <2>8. CASE last = n
    <3>1. text = v
      <4>1. v = [k \in 1 .. n |-> v[k]]
        BY <1>3
      <4> QED BY <2>7, <2>8, <4>1
    <3>2. Values!Decoded(text) = v
      <4>1. \A k \in 1 .. last : text[k] \in Values!Ascii
        BY <1>3, <2>8, <3>1
      <4> HIDE DEF text
      <4> QED BY <2>5, <3>1, <4>1
    <3> QED BY <2>4, <3>2 DEF TextOf
  <2>9. CASE last # n
    <3>1. Len(Values!Decoded(text)) < Len(v)
      BY <1>1, <1>3, <2>4, <2>5, <2>9
    <3> QED BY <2>4, <3>1 DEF TextOf
  <2> QED BY <2>8, <2>9
<1> QED BY <1>6, <1>7

(***************************************************************************)
(* What is read of a device.                                                    *)
(***************************************************************************)

LEMMA RegistersOf ==
  ASSUME NEW e \in Converted
  PROVE  /\ e.registers \in Nat
         /\ e.converter \in {"number", "select", "binary", "text"}
         /\ e.converter \in {"select", "binary"} => e.registers = 1
<1>1. CASE e.converter = "number"
  <2>1. e \in Numbers
    BY <1>1 DEF Numbers
  <2> QED BY <1>1, <2>1, NumberIs32
<1>2. CASE e.converter = "text"
  <2>1. e \in Texts
    BY <1>2 DEF Texts
  <2> QED BY <1>2, <2>1, TextHas
<1>3. CASE e.converter \notin {"number", "text"}
  BY <1>3, PartsAssumption DEF Values!ValuesAssumption
<1> QED BY <1>1, <1>2, <1>3

(* All registers as they are, or fewer of them.                                      *)
LEMMA ReadWithoutIs ==
  ASSUME entity.registers \in Nat, NEW unread \in SUBSET (1 .. entity.registers),
         NEW data, data = Values!ReadWithout(unread)
  PROVE  /\ Len(data) \in Nat /\ DOMAIN data = 1 .. Len(data)
         /\ Len(data) = 0 => data = <<>>
         /\ \/ Len(data) = entity.registers /\ \A i \in 1 .. entity.registers : data[i] = device[i]
            \/ Len(data) < entity.registers
<1> DEFINE n == entity.registers
           read == (1 .. n) \ unread
<1>1. IsFiniteSet(1 .. n) /\ Cardinality(1 .. n) = n
  BY FS_Interval
<1>2. IsFiniteSet(read) /\ Cardinality(read) \in Nat
  BY <1>1, FS_Subset, FS_CardinalityType
<1>3. data = [i \in 1 .. Cardinality(read) |-> device[Values!Nth(read, i)]]
  <2>1. data = [i \in 1 .. Values!Cardinality(read) |-> device[Values!Nth(read, i)]]
    BY Zenon DEF Values!ReadWithout, read, n
  <2> HIDE DEF read
  <2> QED BY <2>1, ValuesCardinality
<1>4. CASE unread = {}
  <2>1. read = 1 .. n
    BY <1>4
  <2>2. \A i \in 1 .. n : Values!Nth(read, i) = i
    BY <2>1, NthOfFirst
  <2> HIDE DEF read
  <2>3. Cardinality(read) = n
    BY <1>1, <2>1
  <2>4. data = [i \in 1 .. n |-> device[i]]
    BY <1>3, <2>2, <2>3
  <2> QED BY <2>4
<1>5. CASE unread # {}
  <2>1. Cardinality(read) < n
    <3>1. read \subseteq 1 .. n /\ read # 1 .. n
      BY <1>5
    <3> DEFINE all == 1 .. n
    <3>2. IsFiniteSet(all) /\ Cardinality(all) = n /\ read \subseteq all /\ read # all /\ n \in Nat
      BY <1>1, <3>1
    <3> HIDE DEF read, all, n
    <3> QED BY <1>2, <3>2, FS_Subset
  <2> HIDE DEF read
  <2> QED BY <1>2, <1>3, <2>1
<1> QED BY <1>4, <1>5

(***************************************************************************)
(* Commands are read back.                                                      *)
(***************************************************************************)

Sent(e, v) ==
  CASE e.converter = "number" -> Values!NumberTo(e, v)
    [] e.converter = "select" -> Values!SelectTo(e, v)
    [] e.converter = "binary" -> Values!BinaryTo(v)
    [] e.converter = "text" -> Values!TextTo(e, v)

(* The registers a command has written are still there.                              *)
ValueInv ==
  /\ entity \in Converted
  /\ DOMAIN device = 1 .. entity.registers
  /\ \/ commanded = <<>>
     \/ \E v \in Commands[entity.converter] :
          /\ commanded = <<v>>
          /\ \A i \in DOMAIN device \cap DOMAIN Sent(entity, v) : device[i] = Sent(entity, v)[i]
  /\ Values!CommandsReadBack

LEMMA NumberReadBack ==
  ASSUME ValueInv, entity.converter = "number", NEW unread \in SUBSET (1 .. entity.registers),
         NEW v \in Commands["number"],
         \A i \in DOMAIN device \cap DOMAIN Sent(entity, v) : device[i] = Sent(entity, v)[i],
         Values!InRange(entity, v)
  PROVE  LET p == Values!NumberFrom(entity, Values!ReadWithout(unread))
         IN  p # <<>> => Values!Distance(p[1], v) < Values!Distance(Values!Multiplier(entity), 0)
<1> DEFINE e == entity
           data == Values!ReadWithout(unread)
           sent == Values!NumberTo(e, v)
           p == Values!NumberFrom(e, data)
<1>1. e \in Numbers /\ v \in Int /\ e.registers \in Nat /\ e.registers >= 1 /\ DOMAIN device = 1 .. e.registers
  <2>1. e \in Numbers
    BY DEF ValueInv, Numbers
  <2>2. Commands["number"] \subseteq Int
    BY PartsAssumption DEF Values!ValuesAssumption
  <2> QED BY <2>1, <2>2, NumberIs32 DEF ValueInv
<1>2. PICK x \in Int : /\ DOMAIN sent = 1 .. e.registers /\ Len(sent) = e.registers
                       /\ Values!NumberFrom(e, sent) = <<x>>
                       /\ Values!Distance(x, v) < Values!Distance(Values!Multiplier(e), 0)
  BY <1>1, NumberBack
<1>3. /\ Len(data) \in Nat /\ DOMAIN data = 1 .. Len(data)
      /\ \/ Len(data) = e.registers /\ \A i \in 1 .. e.registers : data[i] = device[i]
         \/ Len(data) < e.registers
  BY <1>1, ReadWithoutIs
<1>4. \A i \in 1 .. e.registers : device[i] = sent[i]
  BY <1>1, <1>2 DEF Sent
<1> HIDE DEF data, sent
<1>5. CASE Len(data) < e.registers
  BY <1>5 DEF Values!NumberFrom, data
<1>6. CASE Len(data) = e.registers /\ \A i \in 1 .. e.registers : data[i] = device[i]
  <2>1. /\ DOMAIN data = DOMAIN sent /\ \A i \in DOMAIN sent : data[i] = sent[i]
        /\ Len(data) = Len(sent) /\ data[1] = sent[1]
        /\ Values!Is32(e) => data[2] = sent[2]
    BY <1>1, <1>2, <1>3, <1>4, <1>6, NumberIs32
  <2>2. Values!NumberFrom(e, data) = Values!NumberFrom(e, sent)
    <3>1. Values!Raw(e, Values!Swapped(e, data)) = Values!Raw(e, Values!Swapped(e, sent))
      <4>1. Values!Swapped(e, data)[1] = Values!Swapped(e, sent)[1]
        BY <1>1, <1>2, <1>3, <1>6, <2>1, NumberIs32 DEF Values!Swapped
      <4>2. Values!Is32(e) => Values!Swapped(e, data)[2] = Values!Swapped(e, sent)[2]
        BY <1>1, <1>2, <1>3, <1>6, <2>1, NumberIs32 DEF Values!Swapped
      <4> QED BY <4>1, <4>2 DEF Values!Raw, Values!Is32
    <3> QED BY <2>1, <3>1 DEF Values!NumberFrom
  <2> QED BY <1>2, <2>2 DEF data
<1> QED BY <1>3, <1>5, <1>6 DEF data

LEMMA SelectReadBack ==
  ASSUME ValueInv, entity.converter = "select", NEW unread \in SUBSET (1 .. entity.registers), NEW v,
         \A i \in DOMAIN device \cap DOMAIN Sent(entity, v) : device[i] = Sent(entity, v)[i],
         NEW named, named = {r \in DOMAIN entity.names : entity.names[r] = v}, named # {},
         \A r \in named : r \in DOMAIN Values!Options(entity) /\ Values!Options(entity)[r] = v
  PROVE  LET p == Values!SelectFrom(entity, Values!ReadWithout(unread))
         IN  p # <<>> => p[1] = v
<1> DEFINE data == Values!ReadWithout(unread)
           sent == Values!SelectTo(entity, v)
           r == CHOOSE q \in DOMAIN entity.names : entity.names[q] = v
<1>1. r \in named
  OBVIOUS
<1>2. sent = <<r>>
  BY DEF Values!SelectTo
<1> HIDE DEF r
<1>3. entity.registers = 1 /\ DOMAIN device = 1 .. 1
  BY RegistersOf DEF ValueInv
<1>4. device[1] = r
  BY <1>2, <1>3 DEF Sent
<1>5. /\ Len(data) \in Nat /\ DOMAIN data = 1 .. Len(data)
      /\ Len(data) = 0 => data = <<>>
      /\ \/ Len(data) = 1 /\ data[1] = device[1]
         \/ Len(data) < 1
  BY <1>3, ReadWithoutIs
<1> HIDE DEF data, sent
<1>6. CASE data = <<>>
  BY <1>6 DEF Values!SelectFrom, data
<1>7. CASE data # <<>>
  <2>1. data[1] = r
    BY <1>4, <1>5, <1>7
  <2>2. Values!SelectFrom(entity, data) = <<v>>
    BY <1>1, <1>7, <2>1 DEF Values!SelectFrom
  <2> QED BY <2>2 DEF data
<1> QED BY <1>6, <1>7

LEMMA BinaryReadBack ==
  ASSUME ValueInv, entity.converter = "binary", NEW unread \in SUBSET (1 .. entity.registers),
         NEW v \in Commands["binary"],
         \A i \in DOMAIN device \cap DOMAIN Sent(entity, v) : device[i] = Sent(entity, v)[i]
  PROVE  LET p == Values!BinaryFrom(Values!ReadWithout(unread))
         IN  p # <<>> => p[1] = v
<1> DEFINE data == Values!ReadWithout(unread)
<1>1. v \in {"ON", "OFF"}
  BY PartsAssumption DEF Values!ValuesAssumption
<1>2. entity.registers = 1 /\ DOMAIN device = 1 .. 1
  BY RegistersOf DEF ValueInv
<1>3. device[1] = IF v = "ON" THEN 1 ELSE 0
  BY <1>2 DEF Sent, Values!BinaryTo
<1>4. /\ Len(data) \in Nat /\ DOMAIN data = 1 .. Len(data)
      /\ Len(data) = 0 => data = <<>>
      /\ \/ Len(data) = 1 /\ data[1] = device[1]
         \/ Len(data) < 1
  BY <1>2, ReadWithoutIs
<1> HIDE DEF data
<1>5. data # <<>> => data[1] = IF v = "ON" THEN 1 ELSE 0
  BY <1>3, <1>4
<1>6. Values!BinaryFrom(data) = IF data = <<>> THEN <<>> ELSE <<v>>
  BY <1>1, <1>5 DEF Values!BinaryFrom
<1> QED BY <1>6 DEF data

LEMMA TextReadBack ==
  ASSUME ValueInv, entity.converter = "text", NEW unread \in SUBSET (1 .. entity.registers), NEW rest,
         NEW v \in Commands["text"],
         \A i \in DOMAIN device \cap DOMAIN Sent(entity, v) : device[i] = Sent(entity, v)[i],
         v \in Seq(Values!Ascii), Len(v) = entity.stringlength, Len(v) % 2 = 0
  PROVE  LET p == Values!TextFrom(entity, Values!ReadWithout(unread), rest)
         IN  p # <<>> => p[1] = v \/ Len(p[1]) < Len(v)
<1> DEFINE data == Values!ReadWithout(unread)
           m == entity.registers
<1>1. entity \in Texts /\ v \in Seq(0 .. Byte - 1)
  BY PartsAssumption DEF Values!ValuesAssumption, ValueInv, Texts
<1>2. m \in Nat /\ m = (Len(v) + 1) \div 2 /\ DOMAIN device = 1 .. m
  BY <1>1, TextHas DEF ValueInv
<1>3. \A i \in 1 .. m : device[i] = Values!TextTo(entity, v)[i]
  <2>1. DOMAIN Values!TextTo(entity, v) = 1 .. m
    BY <1>2 DEF Values!TextTo
  <2> QED BY <1>2, <2>1 DEF Sent
<1>4. /\ Len(data) \in Nat /\ DOMAIN data = 1 .. Len(data)
      /\ Len(data) = 0 => data = <<>>
      /\ \/ Len(data) = m /\ \A i \in 1 .. m : data[i] = device[i]
         \/ Len(data) < m
  BY <1>2, ReadWithoutIs
<1> HIDE DEF data
<1>5. CASE data = <<>>
  BY <1>5 DEF Values!TextFrom, data
<1>6. CASE data # <<>>
  <2>1. PICK text : Values!TextFrom(entity, data, rest) = <<text>> /\ (text = v \/ Len(text) < Len(v))
    <3>1. Len(data) \in Nat \ {0}
      BY <1>4, <1>6
    <3>2. \/ Len(data) < entity.registers
          \/ Len(data) = entity.registers
             /\ \A i \in 1 .. entity.registers : data[i] = Values!TextTo(entity, v)[i]
      BY <1>3, <1>4
    <3>3. \A k \in 1 .. Len(v) : v[k] \in Values!Ascii
      BY ElementOfSeq
    <3> QED BY <1>1, <1>4, <1>6, <3>1, <3>2, <3>3, TextBack
  <2> QED BY <2>1 DEF data
<1> QED BY <1>5, <1>6

LEMMA ValuesBegin == Values!Init => ValueInv
<1> SUFFICES ASSUME Values!Init PROVE ValueInv
  OBVIOUS
<1>1. entity \in Converted /\ device \in [1 .. entity.registers -> Contents] /\ commanded = <<>>
  BY DEF Values!Init
<1> QED BY <1>1 DEF ValueInv, Values!CommandsReadBack

(* What is published when the last command was v.                                     *)
ReadsBack(e, v, p) ==
  CASE e.converter = "number" ->
         Values!InRange(e, v) => Values!Distance(p[1], v) < Values!Distance(Values!Multiplier(e), 0)
    [] e.converter = "select" ->
         LET named == {r \in DOMAIN e.names : e.names[r] = v}
         IN  named # {} /\ (\A r \in named : r \in DOMAIN Values!Options(e) /\ Values!Options(e)[r] = v)
               => p[1] = v
    [] e.converter = "binary" -> p[1] = v
    [] e.converter = "text" ->
         v \in Seq(Values!Ascii) /\ Len(v) = e.stringlength /\ Len(v) % 2 = 0 => p[1] = v \/ Len(p[1]) < Len(v)

LEMMA PollReadsBack ==
  ASSUME ValueInv, NEW unread \in SUBSET (1 .. entity.registers), NEW rest, Values!Poll(unread, rest)
  PROVE  ValueInv'
<1> DEFINE e == entity
           data == Values!ReadWithout(unread)
           p == CASE e.converter = "number" -> Values!NumberFrom(e, data)
                  [] e.converter = "select" -> Values!SelectFrom(e, data)
                  [] e.converter = "binary" -> Values!BinaryFrom(data)
                  [] e.converter = "text" -> Values!TextFrom(e, data, rest)
<1>1. published' = p
  BY Zenon DEF Values!Poll
<1>2. entity' = entity /\ device' = device /\ commanded' = commanded
  BY DEF Values!Poll
<1>3. ASSUME commanded # <<>>, p # <<>> PROVE ReadsBack(e, commanded[1], p)
  <2>1. PICK v \in Commands[e.converter] :
          /\ commanded = <<v>>
          /\ \A i \in DOMAIN device \cap DOMAIN Sent(e, v) : device[i] = Sent(e, v)[i]
    BY <1>3 DEF ValueInv
  <2>2. commanded[1] = v
    BY <2>1
  <2>3. CASE e.converter = "number"
    <3>1. Values!InRange(e, v) => Values!Distance(p[1], v) < Values!Distance(Values!Multiplier(e), 0)
      <4>1. p = Values!NumberFrom(e, data)
        BY <2>3
      <4> HIDE DEF p
      <4> QED BY <1>3, <2>1, <2>3, <4>1, NumberReadBack
    <3> HIDE DEF p
    <3> QED BY <2>2, <2>3, <3>1 DEF ReadsBack
  <2>4. CASE e.converter = "select"
    <3> DEFINE named == {r \in DOMAIN e.names : e.names[r] = v}
    <3>1. named # {} /\ (\A r \in named : r \in DOMAIN Values!Options(e) /\ Values!Options(e)[r] = v)
            => p[1] = v
      <4>1. p = Values!SelectFrom(e, data)
        BY <2>4
      <4> HIDE DEF p
      <4> QED BY <1>3, <2>1, <2>4, <4>1, SelectReadBack
    <3> HIDE DEF p
    <3> QED BY <2>2, <2>4, <3>1 DEF ReadsBack
  <2>5. CASE e.converter = "binary"
    <3>1. p[1] = v
      <4>1. p = Values!BinaryFrom(data)
        BY <2>5
      <4> HIDE DEF p
      <4> QED BY <1>3, <2>1, <2>5, <4>1, BinaryReadBack
    <3> HIDE DEF p
    <3> QED BY <2>2, <2>5, <3>1 DEF ReadsBack
  <2>6. CASE e.converter = "text"
    <3>1. v \in Seq(Values!Ascii) /\ Len(v) = e.stringlength /\ Len(v) % 2 = 0 => p[1] = v \/ Len(p[1]) < Len(v)
      <4>1. p = Values!TextFrom(e, data, rest)
        BY <2>6
      <4> HIDE DEF p
      <4> QED BY <1>3, <2>1, <2>6, <4>1, TextReadBack
    <3> HIDE DEF p
    <3> QED BY <2>2, <2>6, <3>1 DEF ReadsBack
  <2>7. e.converter \in {"number", "select", "binary", "text"}
    BY RegistersOf DEF ValueInv
  <2> QED BY <2>3, <2>4, <2>5, <2>6, <2>7
<1> HIDE DEF p
<1>4. Values!CommandsReadBack'
  <2> SUFFICES ASSUME (commanded # <<>> /\ published # <<>>)' PROVE ReadsBack(entity', commanded'[1], published')
    BY DEF Values!CommandsReadBack, ReadsBack
  <2>1. commanded # <<>> /\ p # <<>>
    BY <1>1, <1>2
  <2> QED BY <1>1, <1>2, <1>3, <2>1
<1>5. Sent(entity, commanded[1])' = Sent(entity, commanded[1])
  BY <1>2
<1> QED BY <1>2, <1>4, <1>5 DEF ValueInv

LEMMA CommandReadsBack ==
  ASSUME ValueInv, NEW v \in Commands[entity.converter], Values!Command(v)
  PROVE  ValueInv'
<1> DEFINE sent == Sent(entity, v)
<1>1. /\ entity' = entity /\ commanded' = <<v>> /\ published' = <<>>
      /\ device' = [i \in DOMAIN device |-> IF i \in DOMAIN sent THEN sent[i] ELSE device[i]]
  BY Zenon DEF Values!Command, Sent
<1>2. sent' = sent
  BY <1>1 DEF Sent
<1> HIDE DEF sent
<1>3. DOMAIN device' = DOMAIN device
      /\ \A i \in DOMAIN device' \cap DOMAIN sent : device'[i] = sent[i]
  BY <1>1
<1>4. Values!CommandsReadBack'
  BY <1>1 DEF Values!CommandsReadBack
<1> QED BY <1>1, <1>2, <1>3, <1>4 DEF ValueInv, sent

LEMMA ValuesKeep == ValueInv /\ [Values!Next]_valueVars => ValueInv'
<1>1. ValueInv /\ Values!Next => ValueInv'
  BY PollReadsBack, CommandReadsBack DEF Values!Next
<1>2. ASSUME ValueInv, UNCHANGED valueVars PROVE ValueInv'
  <2>1. entity' = entity /\ device' = device /\ commanded' = commanded /\ published' = published
    BY <1>2 DEF valueVars
  <2>2. Values!CommandsReadBack'
    BY <1>2, <2>1 DEF ValueInv, Values!CommandsReadBack
  <2> QED BY <1>2, <2>1, <2>2 DEF ValueInv
<1> QED BY <1>1, <1>2

(* Whatever is commanded, a poll that follows publishes it, whether all registers could be     *)
(* read or not: numbers of every format and order of bytes and words, negative multipliers       *)
(* too, options, switches and texts (Converter.modbus2mqtt and mqtt2modbus).                *)
THEOREM CommandsComeBack == Spec => []CommandsReadBack
<1>1. Init => ValueInv
  BY BeginsWithEach, ValuesBegin
<1>2. ValueInv /\ [Next]_vars => ValueInv'
  BY StepsOfEach, ValuesKeep
<1>3. ValueInv => CommandsReadBack
  BY DEF ValueInv, CommandsReadBack
<1> QED BY <1>1, <1>2, <1>3, PTL DEF Spec

(***************************************************************************)
(* Payloads: paths and their prefixes.                                            *)
(***************************************************************************)

Prefix(p, i) == SubSeq(p, 1, i)

(* p and q go the same way for i steps.                                              *)
Together(p, q, i) == \A k \in 1 .. i : p[k] = q[k]

LEMMA PrefixIs ==
  ASSUME NEW N, NEW p \in Seq(N), NEW i \in 0 .. Len(p)
  PROVE  /\ Prefix(p, i) \in Seq(N) /\ Len(Prefix(p, i)) = i
         /\ \A k \in 1 .. i : Prefix(p, i)[k] = p[k]
BY DEF Prefix

LEMMA SamePrefix ==
  ASSUME NEW N, NEW p \in Seq(N), NEW q \in Seq(N), NEW i \in 0 .. Len(p), NEW j \in 0 .. Len(q)
  PROVE  Prefix(p, i) = Prefix(q, j) <=> i = j /\ Together(p, q, i)
<1>1. /\ Prefix(p, i) \in Seq(N) /\ Len(Prefix(p, i)) = i
      /\ Prefix(q, j) \in Seq(N) /\ Len(Prefix(q, j)) = j
      /\ \A k \in 1 .. i : Prefix(p, i)[k] = p[k]
      /\ \A k \in 1 .. j : Prefix(q, j)[k] = q[k]
  BY PrefixIs
<1>2. ASSUME i = j, Together(p, q, i) PROVE Prefix(p, i) = Prefix(q, j)
  <2> DEFINE a == Prefix(p, i)
             b == Prefix(q, j)
  <2>1. a \in Seq(N) /\ b \in Seq(N) /\ Len(a) = Len(b) /\ \A k \in 1 .. Len(a) : a[k] = b[k]
    BY <1>1, <1>2 DEF Together
  <2> HIDE DEF a, b
  <2>2. a = b
    BY <2>1, SeqEqual
  <2> QED BY <2>2 DEF a, b
<1>3. ASSUME Prefix(p, i) = Prefix(q, j) PROVE i = j /\ Together(p, q, i)
  <2>1. i = j
    BY <1>1, <1>3
  <2>2. \A k \in 1 .. i : p[k] = q[k]
    BY <1>1, <1>3, <2>1
  <2> QED BY <2>1, <2>2 DEF Together
<1> QED BY <1>2, <1>3

LEMMA WholePrefix ==
  ASSUME NEW N, NEW p \in Seq(N)
  PROVE  Prefix(p, Len(p)) = p
<1> DEFINE a == Prefix(p, Len(p))
<1>1. a \in Seq(N) /\ Len(a) = Len(p) /\ \A k \in 1 .. Len(p) : a[k] = p[k]
  BY PrefixIs
<1> HIDE DEF a
<1>2. a = p
  BY <1>1, SeqEqual
<1> QED BY <1>2 DEF a

LEMMA PrefixMeans ==
  ASSUME NEW N, NEW p \in Seq(N), NEW q \in Seq(N)
  PROVE  StateOfSlave!IsPrefix(p, q) <=> Len(p) <= Len(q) /\ Together(p, q, Len(p))
<1>1. StateOfSlave!IsPrefix(p, q) <=> Len(p) <= Len(q) /\ Prefix(p, Len(p)) = Prefix(q, Len(p))
  BY DEF StateOfSlave!IsPrefix, Prefix
<1>2. Len(p) <= Len(q) => Len(p) \in 0 .. Len(p) /\ Len(p) \in 0 .. Len(q)
  OBVIOUS
<1>3. Len(p) <= Len(q) => (Prefix(p, Len(p)) = Prefix(q, Len(p)) <=> Together(p, q, Len(p)))
  BY <1>2, SamePrefix
<1> QED BY <1>1, <1>3

LEMMA LesserOf ==
  ASSUME NEW a \in Nat, NEW b \in Nat, NEW m, m = StateOfSlave!Min({a, b})
  PROVE  m \in {a, b} /\ m <= a /\ m <= b
<1> DEFINE S == {a, b}
<1>1. S \subseteq Nat /\ S # {} /\ a \in S /\ b \in S
  OBVIOUS
<1>2. m = CHOOSE x \in S : \A y \in S : x <= y
  BY Zenon DEF StateOfSlave!Min
<1> HIDE DEF S
<1>3. \E x \in S : \A y \in S : x <= y
  BY <1>1, SmallestOf
<1>4. m \in S /\ \A y \in S : m <= y
  BY <1>2, <1>3
<1> QED BY <1>1, <1>4 DEF S

(* Where two paths without conflict part, each has a step to go, into the same kind of place. *)
LEMMA ConflictMeans ==
  ASSUME NEW N, NEW p \in Seq(N), NEW q \in Seq(N), ~StateOfSlave!Conflict(p, q)
  PROVE  \E f \in Nat :
           /\ f < Len(p) /\ f < Len(q) /\ Together(p, q, f)
           /\ StateOfSlave!Kind(p[f + 1]) = StateOfSlave!Kind(q[f + 1])
           /\ \A i \in 0 .. Len(p) : i <= Len(q) /\ Together(p, q, i) => i <= f
<1> DEFINE n == StateOfSlave!Min({Len(p), Len(q)})
           common == {i \in 0 .. n : SubSeq(p, 1, i) = SubSeq(q, 1, i)}
           f == StateOfSlave!Max(common)
<1>1. Len(p) \in Nat /\ Len(q) \in Nat
  OBVIOUS
<1>2. n \in Nat /\ n <= Len(p) /\ n <= Len(q) /\ n \in {Len(p), Len(q)}
  <2>1. n \in {Len(p), Len(q)} /\ n <= Len(p) /\ n <= Len(q)
    BY <1>1, LesserOf
  <2> HIDE DEF n
  <2> QED BY <1>1, <2>1
<1>3. ASSUME NEW i \in 0 .. n PROVE i \in common <=> Together(p, q, i)
  <2>1. i \in 0 .. Len(p) /\ i \in 0 .. Len(q)
    BY <1>1, <1>2
  <2>2. SubSeq(p, 1, i) = SubSeq(q, 1, i) <=> Together(p, q, i)
    BY <2>1, SamePrefix DEF Prefix
  <2> QED BY <2>2
<1>4. 0 \in common
  <2>1. Together(p, q, 0)
    BY DEF Together
  <2>2. 0 \in 0 .. n
    BY <1>2
  <2> QED BY <1>3, <2>1, <2>2
<1>5. common \in SUBSET (0 .. n) /\ common # {}
  <2>1. common \in SUBSET (0 .. n)
    OBVIOUS
  <2> QED BY <1>4, <2>1
<1>6. f = Greatest(common)
  BY Zenon DEF StateOfSlave!Max, Greatest
<1>7. f \notin {Len(p), Len(q)} /\ StateOfSlave!Kind(p[f + 1]) = StateOfSlave!Kind(q[f + 1])
  BY Zenon DEF StateOfSlave!Conflict
<1> HIDE DEF n, common, f
<1>8. f \in common /\ \A i \in common : f >= i
  BY <1>2, <1>5, <1>6, GreatestOf
<1>9. f \in 0 .. n
  BY <1>5, <1>8
<1>10. f \in Nat /\ f < Len(p) /\ f < Len(q)
  BY <1>1, <1>2, <1>7, <1>9
<1>11. Together(p, q, f)
  BY <1>3, <1>8, <1>9
<1>12. ASSUME NEW i \in 0 .. Len(p), i <= Len(q), Together(p, q, i) PROVE i <= f
  <2>1. i \in 0 .. n
    BY <1>1, <1>2, <1>12
  <2>2. i \in common
    BY <1>3, <1>12, <2>1
  <2> QED BY <1>8, <1>9, <2>1, <2>2
<1> QED BY <1>7, <1>10, <1>11, <1>12

(***************************************************************************)
(* Payloads: what setByPath changes.                                             *)
(***************************************************************************)

(* The containers on the way to p can be entered or made.                              *)
Passable(tree, p) ==
  \A i \in 0 .. Len(p) - 1 :
    StateOfSlave!GetByPath(tree, Prefix(p, i))
      \in {StateOfSlave!Undefined, StateOfSlave!Null, StateOfSlave!Kind(p[i + 1])}

RootFits(tree, p) == StateOfSlave!GetByPath(tree, <<>>) = StateOfSlave!Kind(p[1])

MadeFor(q, m) == {Prefix(q, i) : i \in 0 .. m - 1}

(* How far an assignment goes, and what it leaves behind.                               *)
LEMMA StopIs ==
  ASSUME NEW N, NEW q \in Seq(N), NEW tree
  PROVE  /\ StateOfSlave!Stop(tree, q) \in 0 .. Len(q) + 1
         /\ Passable(tree, q) /\ (\A i \in DOMAIN q : q[i] \notin TooHigh)
              => StateOfSlave!Stop(tree, q) = Len(q) + 1
<1> DEFINE halts == {i \in 0 .. Len(q) :
                       StateOfSlave!Blocked(tree, q, i) \/ (i > 0 /\ q[i] \in TooHigh)}
           S == halts \cup {Len(q) + 1}
           stop == StateOfSlave!Stop(tree, q)
<1>1. Len(q) \in Nat /\ DOMAIN q = 1 .. Len(q)
  OBVIOUS
<1>2. S \subseteq 0 .. Len(q) + 1 /\ S # {} /\ S \subseteq Nat
  BY <1>1
<1>3. stop = CHOOSE x \in S : \A y \in S : x <= y
  BY Zenon DEF StateOfSlave!Stop, StateOfSlave!Min
<1> HIDE DEF S, stop
<1>4. stop \in S
  <2>1. \E x \in S : \A y \in S : x <= y
    BY <1>2, SmallestOf
  <2> QED BY <1>3, <2>1
<1>5. ASSUME Passable(tree, q), \A i \in DOMAIN q : q[i] \notin TooHigh PROVE stop = Len(q) + 1
  <2>1. halts = {}
    <3> SUFFICES ASSUME NEW i \in 0 .. Len(q), StateOfSlave!Blocked(tree, q, i) \/ (i > 0 /\ q[i] \in TooHigh)
                 PROVE  FALSE
      OBVIOUS
    <3>1. ~(i > 0 /\ q[i] \in TooHigh)
      BY <1>1, <1>5
    <3>2. StateOfSlave!Blocked(tree, q, i)
      BY <3>1
    <3>3. i < Len(q)
          /\ StateOfSlave!GetByPath(tree, Prefix(q, i))
               \notin {StateOfSlave!Undefined, StateOfSlave!Null, StateOfSlave!Kind(q[i + 1])}
      BY <3>2 DEF StateOfSlave!Blocked, Prefix
    <3>4. i \in 0 .. Len(q) - 1
      BY <1>1, <3>3
    <3> QED BY <1>5, <3>3, <3>4 DEF Passable
  <2> QED BY <1>4, <2>1 DEF S
<1> QED BY <1>2, <1>4, <1>5 DEF stop

(* new is tree with value at the end of q, and containers made for the first m steps.     *)
BecomesBy(new, tree, q, value, m, done) ==
  \A r :
    /\ r \in done => StateOfSlave!GetByPath(new, r) = value
    /\ r \notin done /\ r \in MadeFor(q, m) =>
         StateOfSlave!GetByPath(new, r) = StateOfSlave!Kind(q[Len(r) + 1])
    /\ r \notin done /\ r \notin MadeFor(q, m)
         /\ (\A d \in done : ~StateOfSlave!IsPrefix(d, r)) =>
         StateOfSlave!GetByPath(new, r) = StateOfSlave!GetByPath(tree, r)

Becomes(new, tree, q, value) ==
  \E m \in 0 .. Len(q), done \in SUBSET {q} :
    /\ StateOfSlave!Stop(tree, q) = Len(q) + 1 => done = {q} /\ m = Len(q)
    /\ BecomesBy(new, tree, q, value, m, done)

LEMMA SetByPathIs ==
  ASSUME NEW N, NEW q \in Seq(N), NEW tree, tree # Thrown, NEW value,
         NEW new, new = StateOfSlave!SetByPath(tree, q, value), new # Thrown
  PROVE  Becomes(new, tree, q, value)
<1> DEFINE stop == StateOfSlave!Stop(tree, q)
           m == StateOfSlave!Min({stop, Len(q)})
           done == IF stop > Len(q) THEN {q} ELSE {}
           made == {SubSeq(q, 1, i) : i \in 0 .. m - 1}
           kept == {p \in DOMAIN tree : \A d \in done : ~StateOfSlave!IsPrefix(d, p)}
           there == {d \in done : value # StateOfSlave!Undefined}
           At(p) == IF p \in done THEN value
                    ELSE IF p \in made THEN StateOfSlave!Kind(q[Len(p) + 1])
                    ELSE tree[p]
<1>1. new = [p \in made \cup kept \cup there |-> At(p)]
  <2>1. ~StateOfSlave!Throws(tree, q)
    BY Zenon DEF StateOfSlave!SetByPath
  <2> QED BY <2>1, Zenon DEF StateOfSlave!SetByPath
<1>2. Len(q) \in Nat /\ stop \in 0 .. Len(q) + 1
  BY StopIs
<1>3. m \in 0 .. Len(q) /\ (stop > Len(q) => m = Len(q))
  <2> HIDE DEF stop
  <2> QED BY <1>2, LesserOf
<1>4. made = MadeFor(q, m)
  BY DEF MadeFor, Prefix
<1>5. q \in done => q \notin made /\ q \notin kept
  <2>1. ASSUME q \in made PROVE FALSE
    <3>1. PICK i \in 0 .. m - 1 : q = Prefix(q, i)
      BY <2>1 DEF Prefix
    <3>2. i \in 0 .. Len(q) /\ i < Len(q)
      <4> HIDE DEF m
      <4> QED BY <1>2, <1>3
    <3>3. Len(Prefix(q, i)) = i
      BY <3>2, PrefixIs
    <3> QED BY <3>1, <3>2, <3>3
  <2>2. ASSUME q \in done PROVE q \notin kept
    <3>1. StateOfSlave!IsPrefix(q, q)
      <4>1. Len(q) <= Len(q) /\ Together(q, q, Len(q))
        BY <1>2 DEF Together
      <4> QED BY <4>1, PrefixMeans
    <3> HIDE DEF done
    <3> QED BY <2>2, <3>1
  <2> QED BY <2>1, <2>2
<1>6. done \in SUBSET {q} /\ (stop = Len(q) + 1 => done = {q} /\ m = Len(q))
  <2> HIDE DEF stop, m
  <2> QED BY <1>2, <1>3
<1> HIDE DEF stop, m, done, made
<1>7. ASSUME NEW r, r \in done PROVE StateOfSlave!GetByPath(new, r) = value
  <2>1. r = q
    BY <1>6, <1>7
  <2>2. CASE value # StateOfSlave!Undefined
    <3>1. r \in made \cup kept \cup there
      BY <1>7, <2>2
    <3>2. At(r) = value
      BY <1>7
    <3> HIDE DEF kept, there, At
    <3>3. r \in DOMAIN new /\ new[r] = At(r)
      BY <1>1, <3>1
    <3> QED BY <3>2, <3>3 DEF StateOfSlave!GetByPath
  <2>3. CASE value = StateOfSlave!Undefined
    <3>1. r \notin made \cup kept \cup there
      BY <1>5, <1>7, <2>1, <2>3
    <3> HIDE DEF kept, there, At
    <3>2. r \notin DOMAIN new
      BY <1>1, <3>1
    <3> QED BY <2>3, <3>2 DEF StateOfSlave!GetByPath
  <2> QED BY <2>2, <2>3
<1>8. ASSUME NEW r, r \notin done, r \in made
      PROVE  StateOfSlave!GetByPath(new, r) = StateOfSlave!Kind(q[Len(r) + 1])
  <2>1. At(r) = StateOfSlave!Kind(q[Len(r) + 1])
    BY <1>8
  <2> HIDE DEF kept, there, At
  <2>2. r \in DOMAIN new /\ new[r] = At(r)
    BY <1>1, <1>8
  <2> QED BY <2>1, <2>2 DEF StateOfSlave!GetByPath
<1>9. ASSUME NEW r, r \notin done, r \notin made, \A d \in done : ~StateOfSlave!IsPrefix(d, r)
      PROVE  StateOfSlave!GetByPath(new, r) = StateOfSlave!GetByPath(tree, r)
  <2>1. At(r) = tree[r] /\ (r \in kept <=> r \in DOMAIN tree) /\ r \notin there
    BY <1>9
  <2> HIDE DEF kept, there, At
  <2>2. r \in DOMAIN new <=> r \in DOMAIN tree
    BY <1>1, <1>9, <2>1
  <2>3. r \in DOMAIN new => new[r] = At(r)
    BY <1>1
  <2> QED BY <2>1, <2>2, <2>3 DEF StateOfSlave!GetByPath
<1>10. BecomesBy(new, tree, q, value, m, done)
  BY <1>4, <1>7, <1>8, <1>9 DEF BecomesBy
<1> QED BY <1>3, <1>6, <1>10 DEF stop, Becomes

(* An assignment to a name without conflict leaves a name and its way alone.            *)
LEMMA KeepsOthers ==
  ASSUME NEW N, NEW p \in Seq(N), NEW q \in Seq(N), ~StateOfSlave!Conflict(p, q),
         NEW tree, tree # Thrown, Passable(tree, p), NEW value,
         NEW new, new = StateOfSlave!SetByPath(tree, q, value), new # Thrown
  PROVE  /\ Passable(new, p) /\ StateOfSlave!GetByPath(new, p) = StateOfSlave!GetByPath(tree, p)
         /\ RootFits(tree, p) => RootFits(new, p)
<1>1. PICK f \in Nat :
        /\ f < Len(p) /\ f < Len(q) /\ Together(p, q, f)
        /\ StateOfSlave!Kind(p[f + 1]) = StateOfSlave!Kind(q[f + 1])
        /\ \A i \in 0 .. Len(p) : i <= Len(q) /\ Together(p, q, i) => i <= f
  BY ConflictMeans
<1>2. PICK m \in 0 .. Len(q), done \in SUBSET {q} : BecomesBy(new, tree, q, value, m, done)
  <2>1. Becomes(new, tree, q, value)
    BY SetByPathIs
  <2> QED BY <2>1 DEF Becomes
<1>3. Len(p) \in Nat /\ Len(q) \in Nat
  OBVIOUS
<1>4. ASSUME NEW i \in 0 .. Len(p)
      PROVE  \/ StateOfSlave!GetByPath(new, Prefix(p, i)) = StateOfSlave!GetByPath(tree, Prefix(p, i))
             \/ /\ i < Len(p)
                /\ StateOfSlave!GetByPath(new, Prefix(p, i)) = StateOfSlave!Kind(p[i + 1])
  <2> DEFINE r == Prefix(p, i)
  <2>1. r \in Seq(N) /\ Len(r) = i /\ \A k \in 1 .. i : r[k] = p[k]
    BY PrefixIs
  <2>2. ASSUME StateOfSlave!IsPrefix(q, r) PROVE FALSE
    <3> HIDE DEF r
    <3>1. Len(q) <= i /\ Together(q, r, Len(q))
      BY <2>1, <2>2, PrefixMeans
    <3>2. Together(p, q, Len(q))
      BY <1>3, <2>1, <3>1 DEF Together
    <3> QED BY <1>1, <1>3, <3>1, <3>2
  <2>3. r # q
    <3> HIDE DEF r
    <3>1. ASSUME r = q PROVE StateOfSlave!IsPrefix(q, r)
      <4>1. Len(q) <= Len(q) /\ Together(q, q, Len(q))
        BY <1>3 DEF Together
      <4> QED BY <3>1, <4>1, PrefixMeans
    <3> QED BY <2>2, <3>1
  <2>4. r \notin done /\ \A d \in done : ~StateOfSlave!IsPrefix(d, r)
    <3> HIDE DEF r
    <3> QED BY <2>2, <2>3
  <2>5. ASSUME r \in MadeFor(q, m)
        PROVE  i < Len(p) /\ StateOfSlave!Kind(q[i + 1]) = StateOfSlave!Kind(p[i + 1])
    <3>1. PICK j \in 0 .. m - 1 : r = Prefix(q, j)
      BY <2>5 DEF MadeFor
    <3>2. j \in 0 .. Len(q)
      BY <1>3
    <3>3. i = j /\ Together(p, q, i)
      BY <3>1, <3>2, SamePrefix
    <3>4. i <= f
      BY <1>1, <3>2, <3>3
    <3>5. i < f => p[i + 1] = q[i + 1]
      BY <1>1 DEF Together
    <3> QED BY <1>1, <1>3, <3>4, <3>5
  <2> HIDE DEF r
  <2>6. CASE r \in MadeFor(q, m)
    BY <1>2, <2>1, <2>4, <2>5, <2>6 DEF r, BecomesBy
  <2>7. CASE r \notin MadeFor(q, m)
    BY <1>2, <2>4, <2>7 DEF r, BecomesBy
  <2> QED BY <2>6, <2>7
<1>5. Passable(new, p)
  <2> SUFFICES ASSUME NEW i \in 0 .. Len(p) - 1
               PROVE  StateOfSlave!GetByPath(new, Prefix(p, i))
                        \in {StateOfSlave!Undefined, StateOfSlave!Null, StateOfSlave!Kind(p[i + 1])}
    BY DEF Passable
  <2>1. i \in 0 .. Len(p)
    BY <1>3
  <2> QED BY <1>4, <2>1 DEF Passable
<1>6. StateOfSlave!GetByPath(new, p) = StateOfSlave!GetByPath(tree, p)
  <2>1. Prefix(p, Len(p)) = p /\ Len(p) \in 0 .. Len(p) /\ ~(Len(p) < Len(p))
    BY <1>3, WholePrefix
  <2> QED BY <1>4, <2>1
<1>7. RootFits(tree, p) => RootFits(new, p)
  <2>1. Prefix(p, 0) = <<>> /\ 0 \in 0 .. Len(p) /\ 0 + 1 = 1
    BY <1>3 DEF Prefix
  <2> QED BY <1>4, <2>1 DEF RootFits
<1> QED BY <1>5, <1>6, <1>7

LEMMA SetsItsOwn ==
  ASSUME NEW N, NEW p \in Seq(N), \A i \in DOMAIN p : p[i] \notin TooHigh,
         NEW tree, tree # Thrown, Passable(tree, p), NEW value,
         NEW new, new = StateOfSlave!SetByPath(tree, p, value), new # Thrown
  PROVE  /\ Passable(new, p) /\ StateOfSlave!GetByPath(new, p) = value
         /\ p # <<>> => RootFits(new, p)
<1>1. StateOfSlave!Stop(tree, p) = Len(p) + 1
  BY StopIs
<1>2. BecomesBy(new, tree, p, value, Len(p), {p})
  <2>1. PICK m \in 0 .. Len(p), done \in SUBSET {p} :
          /\ StateOfSlave!Stop(tree, p) = Len(p) + 1 => done = {p} /\ m = Len(p)
          /\ BecomesBy(new, tree, p, value, m, done)
    <3>1. Becomes(new, tree, p, value)
      BY SetByPathIs
    <3> QED BY <3>1 DEF Becomes
  <2> QED BY <1>1, <2>1
<1>3. ASSUME NEW i \in 0 .. Len(p) - 1
      PROVE  StateOfSlave!GetByPath(new, Prefix(p, i)) = StateOfSlave!Kind(p[i + 1])
  <2>1. i \in 0 .. Len(p) /\ i # Len(p)
    OBVIOUS
  <2>2. Len(Prefix(p, i)) = i
    BY <2>1, PrefixIs
  <2>3. Prefix(p, i) # p
    BY <2>1, <2>2
  <2>4. Prefix(p, i) \in MadeFor(p, Len(p))
    BY DEF MadeFor
  <2> QED BY <1>2, <2>2, <2>3, <2>4 DEF BecomesBy
<1>4. p # <<>> => RootFits(new, p)
  <2>1. p # <<>> => 0 \in 0 .. Len(p) - 1 /\ Prefix(p, 0) = <<>> /\ 0 + 1 = 1
    BY DEF Prefix
  <2> QED BY <1>3, <2>1 DEF RootFits
<1> QED BY <1>2, <1>3, <1>4 DEF Passable, BecomesBy

(***************************************************************************)
(* Payloads: the fold over the entities.                                          *)
(***************************************************************************)

Place(n) == slave.entities[n].path

Given(v, n, default) == IF v[n] = StateOfSlave!Undefined THEN default ELSE v[n]

Placed(tree, n, S, v, default) ==
  IF n \notin S THEN tree ELSE StateOfSlave!SetByPath(tree, Place(n), Given(v, n, default))

Trees(N, V) == {Thrown} \cup UNION {[D -> V] : D \in SUBSET Seq(N)}

LEMMA SetByPathTyped ==
  ASSUME NEW N, NEW q \in Seq(N), NEW V, {StateOfSlave!Object, StateOfSlave!Array} \subseteq V,
         NEW tree \in Trees(N, V), NEW value \in V
  PROVE  StateOfSlave!SetByPath(tree, q, value) \in Trees(N, V)
<1> DEFINE stop == StateOfSlave!Stop(tree, q)
           m == StateOfSlave!Min({stop, Len(q)})
           done == IF stop > Len(q) THEN {q} ELSE {}
           made == {SubSeq(q, 1, i) : i \in 0 .. m - 1}
           kept == {p \in DOMAIN tree : \A d \in done : ~StateOfSlave!IsPrefix(d, p)}
           there == {d \in done : value # StateOfSlave!Undefined}
           At(p) == IF p \in done THEN value
                    ELSE IF p \in made THEN StateOfSlave!Kind(q[Len(p) + 1])
                    ELSE tree[p]
           D == made \cup kept \cup there
           new == [p \in D |-> At(p)]
<1>1. CASE tree = Thrown \/ StateOfSlave!Throws(tree, q)
  BY <1>1, Zenon DEF StateOfSlave!SetByPath, Trees
<1>2. CASE ~(tree = Thrown \/ StateOfSlave!Throws(tree, q))
  <2>1. StateOfSlave!SetByPath(tree, q, value) = new
    BY <1>2, Zenon DEF StateOfSlave!SetByPath
  <2>2. PICK E \in SUBSET Seq(N) : tree \in [E -> V]
    BY <1>2 DEF Trees
  <2>3. m \in Int /\ m <= Len(q)
    <3>1. stop \in 0 .. Len(q) + 1 /\ Len(q) \in Nat
      BY StopIs
    <3> HIDE DEF stop
    <3> QED BY <3>1, LesserOf
  <2>4. made \subseteq Seq(N)
    <3> SUFFICES ASSUME NEW i \in 0 .. m - 1 PROVE SubSeq(q, 1, i) \in Seq(N)
      OBVIOUS
    <3> HIDE DEF m
    <3>1. i \in 0 .. Len(q)
      BY <2>3
    <3> QED BY <3>1, PrefixIs DEF Prefix
  <2>5. D \in SUBSET Seq(N)
    <3>1. kept \subseteq E /\ there \subseteq {q}
      <4> HIDE DEF stop
      <4> QED BY <2>2
    <3> HIDE DEF made, kept, there
    <3> QED BY <2>2, <2>4, <3>1
  <2>6. ASSUME NEW p \in D PROVE At(p) \in V
    <3>1. CASE p \in done
      BY <3>1
    <3>2. CASE p \notin done /\ p \in made
      BY <3>2 DEF StateOfSlave!Kind
    <3>3. CASE p \notin done /\ p \notin made
      <4>1. p \in E
        <5>1. p \in kept
          <6>1. p \notin there
            BY <3>3
          <6> HIDE DEF kept, made, there
          <6> QED BY <2>6, <3>3, <6>1
        <5>2. p \in DOMAIN tree
          <6> HIDE DEF done
          <6> QED BY <5>1
        <5> QED BY <2>2, <5>2
      <4>2. At(p) = tree[p]
        BY <3>3
      <4> HIDE DEF At
      <4> QED BY <2>2, <4>1, <4>2
    <3> QED BY <3>1, <3>2, <3>3
  <2> HIDE DEF D, At
  <2>7. new \in [D -> V]
    BY <2>6
  <2> HIDE DEF new
  <2> QED BY <2>1, <2>5, <2>7 DEF Trees
<1> QED BY <1>1, <1>2

(* A payload grows by one entity after the other.                                      *)
LEMMA BuiltStepwise ==
  ASSUME NEW n \in Nat, DOMAIN slave.entities = 1 .. n,
         NEW N, \A k \in 1 .. n : Place(k) \in Seq(N), NEW S, NEW v, NEW default
  PROVE  \E trees :
           /\ trees[0] = StateOfSlave!Empty /\ trees[n] = StateOfSlave!Built(S, v, default)
           /\ \A k \in 1 .. n : trees[k] = Placed(trees[k - 1], k, S, v, default)
<1> DEFINE V == {StateOfSlave!Object, StateOfSlave!Array, default} \cup {v[k] : k \in 1 .. n}
           T == Trees(N, V)
           numbers == 1 .. n
           F == [a \in T \X numbers |-> Placed(a[1], a[2], S, v, default)]
           seq == [k \in DOMAIN slave.entities |-> k]
           Grown(f, s) == IF s = {} THEN StateOfSlave!Empty
                          ELSE Placed(f[s \ {StateOfSlave!Max(s)}], seq[StateOfSlave!Max(s)], S, v, default)
           Def(f) == [s \in SUBSET (DOMAIN seq) |-> Grown(f, s)]
           iter == CHOOSE f : f = Def(f)
<1>1. seq = [k \in numbers |-> k] /\ DOMAIN seq = numbers /\ \A k \in numbers : seq[k] = k
  OBVIOUS
<1>2. ASSUME NEW s PROVE StateOfSlave!Max(s) = Greatest(s)
  BY Zenon DEF StateOfSlave!Max, Greatest
<1>3. StateOfSlave!Empty \in T
  <2>1. StateOfSlave!Empty \in [{} -> V]
    BY DEF StateOfSlave!Empty
  <2> HIDE DEF V
  <2> QED BY <2>1 DEF Trees
<1>4. ASSUME NEW t \in T, NEW k \in numbers PROVE Placed(t, k, S, v, default) \in T
  <2>1. Given(v, k, default) \in V /\ {StateOfSlave!Object, StateOfSlave!Array} \subseteq V
    BY DEF Given
  <2>2. Place(k) \in Seq(N)
    OBVIOUS
  <2> HIDE DEF V
  <2>3. StateOfSlave!SetByPath(t, Place(k), Given(v, k, default)) \in T
    BY <2>1, <2>2, SetByPathTyped
  <2> QED BY <2>3 DEF Placed
<1> HIDE DEF T, seq
<1>5. F \in [T \X numbers -> T]
      /\ \A t \in T : \A k \in numbers : F[<<t, k>>] = Placed(t, k, S, v, default)
  <2> HIDE DEF numbers
  <2> QED BY <1>4
<1> HIDE DEF F
<1>6. PICK f \in [SUBSET numbers -> T] : FoldsDown(f, numbers, StateOfSlave!Empty, F)
  <2>1. numbers = 1 .. n
    OBVIOUS
  <2> HIDE DEF numbers
  <2> QED BY <1>3, <1>5, <2>1, FoldedUpTo
<1>7. f = Def(f)
  <2>1. ASSUME NEW s \in SUBSET numbers, s # {}
        PROVE  f[s] = Placed(f[s \ {StateOfSlave!Max(s)}], seq[StateOfSlave!Max(s)], S, v, default)
    <3>1. Greatest(s) \in s /\ f[s] = F[<<f[s \ {Greatest(s)}], Greatest(s)>>]
      BY <1>6, <2>1 DEF FoldsDown
    <3>2. Greatest(s) \in numbers /\ f[s \ {Greatest(s)}] \in T
      <4> HIDE DEF numbers
      <4> QED BY <1>6, <3>1
    <3> QED BY <1>1, <1>2, <1>5, <3>1, <3>2
  <2>2. f[{}] = StateOfSlave!Empty
    BY <1>6 DEF FoldsDown
  <2> HIDE DEF numbers
  <2>3. \A s \in SUBSET numbers : f[s] = Grown(f, s)
    BY <2>1, <2>2
  <2> HIDE DEF Grown
  <2>4. f = [s \in SUBSET numbers |-> f[s]] /\ Def(f) = [s \in SUBSET numbers |-> Grown(f, s)]
    BY <1>1, <1>6
  <2> HIDE DEF Def
  <2> QED BY <2>3, <2>4
<1>8. iter = Def(iter)
  <2> HIDE DEF Def
  <2> QED BY <1>7, Zenon
<1>9. StateOfSlave!Built(S, v, default) = iter[numbers]
  <2>1. StateOfSlave!Built(S, v, default) = iter[DOMAIN seq]
    BY DEF StateOfSlave!Built, StateOfSlave!FoldLeft, StateOfSlave!MapThenFoldSet, Placed, Place, Given, seq
  <2> HIDE DEF iter
  <2> QED BY <1>1, <2>1
<1> HIDE DEF iter
<1>10. iter[{}] = StateOfSlave!Empty
  BY <1>8
<1>11. ASSUME NEW k \in 1 .. n PROVE iter[1 .. k] = Placed(iter[1 .. k - 1], k, S, v, default)
  <2>1. 1 .. k \in SUBSET numbers /\ 1 .. k # {} /\ Greatest(1 .. k) = k /\ (1 .. k) \ {k} = 1 .. k - 1
    BY GreatestUpTo
  <2>2. \A s \in SUBSET numbers :
          s # {} => iter[s] = Placed(iter[s \ {StateOfSlave!Max(s)}], seq[StateOfSlave!Max(s)], S, v, default)
    <3> HIDE DEF numbers
    <3> QED BY <1>1, <1>8
  <2>3. seq[k] = k
    BY <1>1
  <2> HIDE DEF numbers
  <2> QED BY <1>2, <2>1, <2>2, <2>3
<1> DEFINE trees == [k \in 0 .. n |-> iter[1 .. k]]
<1>12. trees[0] = StateOfSlave!Empty
  <2>1. 1 .. 0 = {} /\ 0 \in 0 .. n
    OBVIOUS
  <2> QED BY <1>10, <2>1
<1>13. trees[n] = StateOfSlave!Built(S, v, default)
  BY <1>9
<1>14. ASSUME NEW k \in 1 .. n PROVE trees[k] = Placed(trees[k - 1], k, S, v, default)
  <2>1. k \in 0 .. n /\ k - 1 \in 0 .. n
    OBVIOUS
  <2> HIDE DEF iter
  <2> QED BY <1>11, <2>1
<1> HIDE DEF trees
<1> QED BY <1>12, <1>13, <1>14

(***************************************************************************)
(* Payloads: each clear entity keeps its place.                                     *)
(***************************************************************************)

Tokens == UNION {{Place(n)[i] : i \in DOMAIN Place(n)} : n \in DOMAIN slave.entities}

LEMMA LayoutIs ==
  ASSUME slave \in Layouts
  PROVE  \E n \in Nat : /\ DOMAIN slave.entities = 1 .. n
                        /\ \A k \in 1 .. n : Place(k) \in Seq(Tokens) /\ Place(k) # <<>>
<1> DEFINE n == Len(slave.entities)
<1>1. /\ slave.entities \in Seq(StateOfSlave!Range(slave.entities))
      /\ \A e \in StateOfSlave!Range(slave.entities) : e.path \in Seq(StateOfSlave!Range(e.path)) \ {<<>>}
  BY PartsAssumption DEF StateOfSlave!PayloadAssumption
<1>2. n \in Nat /\ DOMAIN slave.entities = 1 .. n
  BY <1>1
<1>3. ASSUME NEW k \in 1 .. n PROVE Place(k) \in Seq(Tokens) /\ Place(k) # <<>>
  <2> DEFINE p == Place(k)
             R == StateOfSlave!Range(p)
  <2>1. slave.entities[k] \in StateOfSlave!Range(slave.entities)
    BY <1>2 DEF StateOfSlave!Range
  <2>2. p \in Seq(R) /\ p # <<>>
    BY <1>1, <2>1 DEF Place
  <2>3. R \subseteq Tokens
    BY <1>2 DEF StateOfSlave!Range, Tokens
  <2> HIDE DEF p, R
  <2>4. p \in Seq(Tokens)
    BY <2>2, <2>3
  <2> QED BY <2>2, <2>4 DEF p
<1> QED BY <1>2, <1>3

(* tree has what a clear entity n of S was given, if it has come by.                     *)
PlaceKept(tree, n, v, default) ==
  tree # Thrown =>
    /\ StateOfSlave!GetByPath(tree, Place(n)) = Given(v, n, default)
    /\ RootFits(tree, Place(n))

LEMMA BuiltKeeps ==
  ASSUME slave \in Layouts, NEW S, S \subseteq DOMAIN slave.entities, NEW v, NEW default,
         NEW c \in StateOfSlave!Clear(S)
  PROVE  PlaceKept(StateOfSlave!Built(S, v, default), c, v, default)
<1>1. PICK n \in Nat : /\ DOMAIN slave.entities = 1 .. n
                       /\ \A k \in 1 .. n : Place(k) \in Seq(Tokens) /\ Place(k) # <<>>
  BY LayoutIs
<1>2. PICK trees :
        /\ trees[0] = StateOfSlave!Empty /\ trees[n] = StateOfSlave!Built(S, v, default)
        /\ \A k \in 1 .. n : trees[k] = Placed(trees[k - 1], k, S, v, default)
  BY <1>1, BuiltStepwise
<1> DEFINE p == Place(c)
<1>3. /\ c \in S /\ c \in 1 .. n
      /\ \A k \in S \ {c} : ~StateOfSlave!Conflict(p, Place(k))
      /\ \A i \in DOMAIN p : p[i] \notin TooHigh
  BY <1>1 DEF StateOfSlave!Clear, Place
<1>4. p \in Seq(Tokens) /\ p # <<>>
  BY <1>1, <1>3
<1> HIDE DEF p
<1> DEFINE fine(k) == trees[k] # Thrown =>
             /\ Passable(trees[k], p)
             /\ c <= k => /\ StateOfSlave!GetByPath(trees[k], p) = Given(v, c, default)
                          /\ RootFits(trees[k], p)
           good == {k \in 0 .. n : fine(k)}
<1>5. 0 \in good
  <2>1. Passable(StateOfSlave!Empty, p)
    BY DEF Passable, StateOfSlave!Empty, StateOfSlave!GetByPath
  <2>2. ~(c <= 0) /\ 0 \in 0 .. n
    BY <1>3
  <2> QED BY <1>2, <2>1, <2>2
<1>6. ASSUME NEW j \in 0 .. n - 1, j \in good PROVE j + 1 \in good
  <2> DEFINE k == j + 1
             tree == trees[j]
             new == trees[k]
             value == Given(v, k, default)
  <2>1. k \in 1 .. n /\ k \in 0 .. n /\ k - 1 = j /\ fine(j)
    BY <1>6
  <2>2. new = Placed(tree, k, S, v, default)
    BY <1>2, <2>1
  <2>3. c <= j <=> c <= k /\ c # k
    BY <1>3, <2>1
  <2>4. tree # Thrown =>
          /\ Passable(tree, p)
          /\ c <= j => StateOfSlave!GetByPath(tree, p) = Given(v, c, default) /\ RootFits(tree, p)
    BY <2>1
  <2>5. Place(k) \in Seq(Tokens)
    BY <1>1, <2>1
  <2> HIDE DEF tree, new, value, k
  <2>6. CASE k \notin S
    <3>1. new = tree /\ c # k
      BY <1>3, <2>2, <2>6 DEF Placed
    <3>2. fine(k)
      BY <2>3, <2>4, <3>1 DEF new
    <3> QED BY <2>1, <3>2 DEF k
  <2>7. CASE k \in S
    <3> SUFFICES ASSUME new # Thrown
                 PROVE  /\ Passable(new, p)
                        /\ c <= k => /\ StateOfSlave!GetByPath(new, p) = Given(v, c, default)
                                     /\ RootFits(new, p)
      BY <2>1 DEF new, k
    <3>1. new = StateOfSlave!SetByPath(tree, Place(k), value)
      BY <2>2, <2>7 DEF Placed, value
    <3>2. tree # Thrown
      BY <3>1 DEF StateOfSlave!SetByPath
    <3>3. CASE k = c
      <4>1. new = StateOfSlave!SetByPath(tree, p, value) /\ Passable(tree, p)
        BY <2>4, <3>1, <3>2, <3>3 DEF p
      <4>2. /\ Passable(new, p) /\ StateOfSlave!GetByPath(new, p) = value
            /\ p # <<>> => RootFits(new, p)
        BY <1>3, <1>4, <3>2, <4>1, SetsItsOwn
      <4> QED BY <1>4, <3>3, <4>2 DEF value
    <3>4. CASE k # c
      <4>1. ~StateOfSlave!Conflict(p, Place(k)) /\ Passable(tree, p)
        BY <1>3, <2>4, <2>7, <3>2, <3>4
      <4>2. /\ Passable(new, p) /\ StateOfSlave!GetByPath(new, p) = StateOfSlave!GetByPath(tree, p)
            /\ RootFits(tree, p) => RootFits(new, p)
        BY <1>4, <2>5, <3>1, <3>2, <4>1, KeepsOthers
      <4> QED BY <2>3, <2>4, <3>2, <3>4, <4>2
    <3> QED BY <3>3, <3>4
  <2> QED BY <2>6, <2>7 DEF k
<1>7. fine(n)
  <2>1. good \in SUBSET (0 .. n)
    BY Zenon
  <2>2. n \in good
    <3>1. n \in 0 .. n
      OBVIOUS
    <3> HIDE DEF good
    <3> QED BY <1>5, <1>6, <2>1, <3>1, UpToByOne
  <2> HIDE DEF fine
  <2> QED BY <2>2
<1> QED BY <1>2, <1>3, <1>7 DEF PlaceKept, p

(* A key of the payload itself is beside the names that begin otherwise.                *)
LEMMA WithKeyKeeps ==
  ASSUME NEW N, NEW p \in Seq(N), p # <<>>, NEW tree, NEW key, NEW value, p[1] # key
  PROVE  StateOfSlave!GetByPath(StateOfSlave!WithKey(tree, key, value), p) = StateOfSlave!GetByPath(tree, p)
<1> DEFINE kept == {q \in DOMAIN tree : ~StateOfSlave!IsPrefix(<<key>>, q)}
           At(q) == IF q = <<>> THEN StateOfSlave!Object ELSE IF q = <<key>> THEN value ELSE tree[q]
           new == [q \in kept \cup {<<>>, <<key>>} |-> At(q)]
<1>1. StateOfSlave!WithKey(tree, key, value) = new
  BY Zenon DEF StateOfSlave!WithKey
<1>2. p # <<key>> /\ Len(p) \in Nat /\ Len(p) >= 1
  OBVIOUS
<1>3. ~StateOfSlave!IsPrefix(<<key>>, p)
  <2> SUFFICES ASSUME SubSeq(<<key>>, 1, Len(<<key>>)) = SubSeq(p, 1, Len(<<key>>)) PROVE FALSE
    BY DEF StateOfSlave!IsPrefix
  <2>1. Len(<<key>>) = 1 /\ SubSeq(<<key>>, 1, 1)[1] = key
    OBVIOUS
  <2>2. 1 \in 0 .. Len(p) /\ 1 \in 1 .. 1
    BY <1>2
  <2>3. SubSeq(p, 1, 1)[1] = p[1]
    BY <2>2, PrefixIs DEF Prefix
  <2> QED BY <2>1, <2>3
<1>4. p \in kept <=> p \in DOMAIN tree
  BY <1>3
<1>5. At(p) = tree[p]
  BY <1>2
<1> HIDE DEF kept, At
<1>6. p \in DOMAIN new <=> p \in DOMAIN tree
  BY <1>2, <1>4
<1>7. p \in DOMAIN new => new[p] = tree[p]
  BY <1>5
<1> HIDE DEF new
<1> QED BY <1>1, <1>6, <1>7 DEF StateOfSlave!GetByPath

LEMMA ClearIs ==
  ASSUME slave \in Layouts, NEW S, S \subseteq DOMAIN slave.entities, NEW c \in StateOfSlave!Clear(S)
  PROVE  Place(c) \in Seq(Tokens) /\ Place(c) # <<>> /\ Place(c)[1] \notin {"pollDate", "modbusValues"}
<1>1. PICK n \in Nat : /\ DOMAIN slave.entities = 1 .. n
                       /\ \A k \in 1 .. n : Place(k) \in Seq(Tokens) /\ Place(k) # <<>>
  BY LayoutIs
<1>2. c \in 1 .. n /\ Place(c)[1] \notin {"pollDate", "modbusValues"}
  BY <1>1 DEF StateOfSlave!Clear, Place
<1> QED BY <1>1, <1>2

HoldsAll(tree, S, v, default) ==
  tree # Thrown => \A c \in S : StateOfSlave!GetByPath(tree, Place(c)) = Given(v, c, default)

LEMMA PayloadsHold ==
  ASSUME slave \in Layouts, NEW v
  PROVE  /\ HoldsAll(StateOfSlave!StateOf(v), StateOfSlave!Clear(StateOfSlave!Exposed), v, StateOfSlave!Null)
         /\ HoldsAll(StateOfSlave!BodyOf(v), StateOfSlave!Clear(StateOfSlave!Pushed), v, StateOfSlave!Undefined)
         /\ HoldsAll(StateOfSlave!ContextOf(v),
                     StateOfSlave!KeyedFirst(StateOfSlave!Clear(StateOfSlave!Entities)), v, StateOfSlave!Undefined)
<1>1. /\ StateOfSlave!Exposed \subseteq DOMAIN slave.entities
      /\ StateOfSlave!Pushed \subseteq DOMAIN slave.entities
      /\ StateOfSlave!Entities \subseteq DOMAIN slave.entities
  BY DEF StateOfSlave!Exposed, StateOfSlave!Pushed, StateOfSlave!Entities
<1>2. ASSUME NEW c \in StateOfSlave!Clear(StateOfSlave!Exposed), StateOfSlave!StateOf(v) # Thrown
      PROVE  StateOfSlave!GetByPath(StateOfSlave!StateOf(v), Place(c)) = Given(v, c, StateOfSlave!Null)
  <2> DEFINE tree == StateOfSlave!Built(StateOfSlave!Exposed, v, StateOfSlave!Null)
  <2>1. PlaceKept(tree, c, v, StateOfSlave!Null)
    BY <1>1, BuiltKeeps
  <2>2. Place(c) \in Seq(Tokens) /\ Place(c) # <<>> /\ Place(c)[1] # "modbusValues"
    BY <1>1, ClearIs
  <2>3. \/ StateOfSlave!StateOf(v) = tree
        \/ /\ StateOfSlave!StateOf(v) = StateOfSlave!WithKey(tree, "modbusValues", StateOfSlave!Object)
           /\ tree # Thrown
    BY Zenon DEF StateOfSlave!StateOf, StateOfSlave!IsObject
  <2> HIDE DEF tree
  <2> QED BY <1>2, <2>1, <2>2, <2>3, WithKeyKeeps DEF PlaceKept
<1>3. ASSUME NEW c \in StateOfSlave!Clear(StateOfSlave!Pushed), StateOfSlave!BodyOf(v) # Thrown
      PROVE  StateOfSlave!GetByPath(StateOfSlave!BodyOf(v), Place(c)) = Given(v, c, StateOfSlave!Undefined)
  <2>1. PlaceKept(StateOfSlave!BodyOf(v), c, v, StateOfSlave!Undefined)
    BY <1>1, BuiltKeeps DEF StateOfSlave!BodyOf
  <2> QED BY <1>3, <2>1 DEF PlaceKept
<1>4. ASSUME NEW c \in StateOfSlave!KeyedFirst(StateOfSlave!Clear(StateOfSlave!Entities)),
             StateOfSlave!ContextOf(v) # Thrown
      PROVE  StateOfSlave!GetByPath(StateOfSlave!ContextOf(v), Place(c)) = Given(v, c, StateOfSlave!Undefined)
  <2> DEFINE tree == StateOfSlave!Built(StateOfSlave!Entities, v, StateOfSlave!Undefined)
  <2>1. c \in StateOfSlave!Clear(StateOfSlave!Entities) /\ StateOfSlave!Kind(Place(c)[1]) = StateOfSlave!Object
    BY DEF StateOfSlave!KeyedFirst, Place
  <2>2. PlaceKept(tree, c, v, StateOfSlave!Undefined)
    BY <1>1, <2>1, BuiltKeeps
  <2>3. Place(c) \in Seq(Tokens) /\ Place(c) # <<>> /\ Place(c)[1] # "pollDate"
    BY <1>1, <2>1, ClearIs
  <2>4. tree # Thrown
    BY <1>4, Zenon DEF StateOfSlave!ContextOf
  <2>5. StateOfSlave!IsObject(tree)
    <3> HIDE DEF tree
    <3> QED BY <2>1, <2>2, <2>4 DEF PlaceKept, RootFits, StateOfSlave!IsObject
  <2>6. StateOfSlave!ContextOf(v) = StateOfSlave!WithKey(tree, "pollDate", StateOfSlave!Value(0))
    BY <2>4, <2>5, Zenon DEF StateOfSlave!ContextOf
  <2> HIDE DEF tree
  <2> QED BY <2>2, <2>3, <2>4, <2>6, WithKeyKeeps DEF PlaceKept
<1> QED BY <1>2, <1>3, <1>4 DEF HoldsAll

PayloadInv == slave \in Layouts /\ StateOfSlave!EntitiesKeepTheirPlace

(* A push that is sent has the body and the URL of the values.                              *)
LEMMA SentIsBuilt ==
  ASSUME NEW v
  PROVE  LET p == StateOfSlave!PushOf(v)
         IN  p.what = "sent" => p.body = StateOfSlave!BodyOf(v) /\ p.url = StateOfSlave!ContextOf(v)
<1> DEFINE p == StateOfSlave!PushOf(v)
           Other(what) == [what |-> what, body |-> StateOfSlave!Empty, url |-> StateOfSlave!Empty]
           built == [what |-> "sent", body |-> StateOfSlave!BodyOf(v), url |-> StateOfSlave!ContextOf(v)]
<1>1. p \in {Other("failed"), Other("unresolved"), Other("no root"), Other("nothing selected"), built}
  BY Zenon DEF StateOfSlave!PushOf
<1>2. \A w : Other(w).what = w
  OBVIOUS
<1>3. built.body = StateOfSlave!BodyOf(v) /\ built.url = StateOfSlave!ContextOf(v)
  OBVIOUS
<1> HIDE DEF p, Other, built
<1>4. p.what = "sent" => p = built
  <2>1. /\ "failed" # "sent" /\ "unresolved" # "sent" /\ "no root" # "sent"
        /\ "nothing selected" # "sent"
    OBVIOUS
  <2> QED BY <1>1, <1>2, <2>1
<1> QED BY <1>3, <1>4 DEF p

LEMMA PayloadBegins == StateOfSlave!Init => PayloadInv
<1> SUFFICES ASSUME StateOfSlave!Init PROVE PayloadInv
  OBVIOUS
<1>1. slave \in Layouts /\ state = StateOfSlave!Empty /\ pushed.what = "nothing"
  BY DEF StateOfSlave!Init, StateOfSlave!Nothing
<1> QED BY <1>1 DEF PayloadInv, StateOfSlave!EntitiesKeepTheirPlace

(* What each entity holds, when the slave is the same.                                     *)
LEMMA HeldAfter ==
  ASSUME slave' = slave, NEW S, NEW tree, NEW default,
         HoldsAll(tree, S, values', default)
  PROVE  tree # Thrown =>
           \A n \in S : StateOfSlave!GetByPath(tree, slave'.entities[n].path) =
                          IF values'[n] = StateOfSlave!Undefined THEN default ELSE values'[n]
BY DEF HoldsAll, Place, Given

LEMMA PollKeepsPlaces ==
  ASSUME PayloadInv, StateOfSlave!Poll
  PROVE  PayloadInv'
<1> DEFINE st == StateOfSlave!StateOf(values')
           pu == StateOfSlave!PushOf(values')
<1>1. /\ slave' = slave
      /\ state' \in {st, StateOfSlave!Empty}
      /\ pushed' \in {StateOfSlave!Nothing, pu}
  BY Zenon DEF StateOfSlave!Poll
<1>2. /\ HoldsAll(st, StateOfSlave!Clear(StateOfSlave!Exposed), values', StateOfSlave!Null)
      /\ HoldsAll(StateOfSlave!BodyOf(values'), StateOfSlave!Clear(StateOfSlave!Pushed), values',
                  StateOfSlave!Undefined)
      /\ HoldsAll(StateOfSlave!ContextOf(values'),
                  StateOfSlave!KeyedFirst(StateOfSlave!Clear(StateOfSlave!Entities)), values',
                  StateOfSlave!Undefined)
  BY PayloadsHold DEF PayloadInv
<1>3. pu.what = "sent" => pu.body = StateOfSlave!BodyOf(values') /\ pu.url = StateOfSlave!ContextOf(values')
  BY SentIsBuilt
<1>4. StateOfSlave!Nothing.what # "sent"
  BY DEF StateOfSlave!Nothing
<1> HIDE DEF st, pu
<1> DEFINE exposed == StateOfSlave!Clear(StateOfSlave!Exposed)
           body == StateOfSlave!Clear(StateOfSlave!Pushed)
           url == StateOfSlave!KeyedFirst(StateOfSlave!Clear(StateOfSlave!Entities))
<1>5. exposed' = exposed /\ body' = body /\ url' = url
  BY <1>1 DEF StateOfSlave!Clear, StateOfSlave!Exposed, StateOfSlave!Pushed, StateOfSlave!Entities,
              StateOfSlave!KeyedFirst
<1>6. state' # StateOfSlave!Empty => StateOfSlave!Holds(state, exposed, StateOfSlave!Null)'
  <2> SUFFICES ASSUME state' = st
               PROVE  StateOfSlave!Holds(state, exposed, StateOfSlave!Null)'
    BY <1>1
  <2>1. HoldsAll(state', exposed, values', StateOfSlave!Null)
    BY <1>2
  <2> HIDE DEF exposed
  <2> QED BY <1>1, <1>5, <2>1, HeldAfter DEF StateOfSlave!Holds
<1>7. ASSUME pushed'.what = "sent"
      PROVE  /\ StateOfSlave!Holds(pushed.body, body, StateOfSlave!Undefined)'
             /\ StateOfSlave!Holds(pushed.url, url, StateOfSlave!Undefined)'
  <2>1. pushed'.body = StateOfSlave!BodyOf(values') /\ pushed'.url = StateOfSlave!ContextOf(values')
    BY <1>1, <1>3, <1>4, <1>7
  <2>2. /\ HoldsAll(pushed'.body, body, values', StateOfSlave!Undefined)
        /\ HoldsAll(pushed'.url, url, values', StateOfSlave!Undefined)
    BY <1>2, <2>1
  <2> HIDE DEF body, url
  <2> QED BY <1>1, <1>5, <2>2, HeldAfter DEF StateOfSlave!Holds
<1>8. slave' \in Layouts
  BY <1>1 DEF PayloadInv
<1>9. StateOfSlave!EntitiesKeepTheirPlace'
  BY <1>6, <1>7 DEF StateOfSlave!EntitiesKeepTheirPlace
<1> QED BY <1>8, <1>9 DEF PayloadInv

LEMMA PayloadKeeps == PayloadInv /\ [StateOfSlave!Next]_payloadVars => PayloadInv'
<1>1. PayloadInv /\ StateOfSlave!Next => PayloadInv'
  BY PollKeepsPlaces DEF StateOfSlave!Next
<1>2. ASSUME PayloadInv, UNCHANGED payloadVars PROVE PayloadInv'
  <2>1. slave' = slave /\ values' = values /\ state' = state /\ pushed' = pushed
    BY <1>2 DEF payloadVars
  <2>2. /\ StateOfSlave!Clear(StateOfSlave!Exposed)' = StateOfSlave!Clear(StateOfSlave!Exposed)
        /\ StateOfSlave!Clear(StateOfSlave!Pushed)' = StateOfSlave!Clear(StateOfSlave!Pushed)
        /\ StateOfSlave!KeyedFirst(StateOfSlave!Clear(StateOfSlave!Entities))' =
             StateOfSlave!KeyedFirst(StateOfSlave!Clear(StateOfSlave!Entities))
    BY <2>1 DEF StateOfSlave!Clear, StateOfSlave!Exposed, StateOfSlave!Pushed, StateOfSlave!Entities,
                StateOfSlave!KeyedFirst
  <2>3. StateOfSlave!EntitiesKeepTheirPlace'
    BY <1>2, <2>1, <2>2 DEF PayloadInv, StateOfSlave!EntitiesKeepTheirPlace, StateOfSlave!Holds
  <2> QED BY <1>2, <2>1, <2>3 DEF PayloadInv
<1> QED BY <1>1, <1>2

(* Whatever names the entities of a slave have, and whichever of them have a value: one      *)
(* whose name is in no conflict with those of others has its value at its place in the state,  *)
(* in what is pushed, and, if the name begins with a key, in what the URL of the push is       *)
(* filled from (Slave.ts: setByPath, getStatePayload, getHttpPushPayload,                    *)
(* getResolvedHttpPushUrl).                                                              *)
THEOREM EntitiesInPlace == Spec => []EntitiesKeepTheirPlace
<1>1. Init => PayloadInv
  BY BeginsWithEach, PayloadBegins
<1>2. PayloadInv /\ [Next]_vars => PayloadInv'
  BY StepsOfEach, PayloadKeeps
<1>3. PayloadInv => EntitiesKeepTheirPlace
  BY DEF PayloadInv, EntitiesKeepTheirPlace
<1> QED BY <1>1, <1>2, <1>3, PTL DEF Spec
=============================================================================
