---------------------------- MODULE MqttCommands ----------------------------
(***************************************************************************)
(* MqttCommands: messages that arrive for a slave, and the poll requested by   *)
(* HTTP.  A command writes entities, all at once, and then publishes the state  *)
(* of the slave as a poll does: read the registers, wait for the client, publish *)
(* the state and that the slave is online, push it to its HTTP endpoint.  Each    *)
(* step may fail, and some failures leave the promise of the request unsettled.  *)
(***************************************************************************)
EXTENDS Naturals, Sequences, FiniteSets

CONSTANTS
  Requests,    \* messages and HTTP requests to come
  Slaves, Entities,
  Kind,        \* Kind[r]: "command" (/set/ of the slave), "entity" (/set/ of an
               \* entity), "trigger" (triggerPoll), "http" (POST /slave/poll)
  To,          \* To[r]: the slave whose topic or id it is
  Wanted,      \* Wanted[r]: the entities a command names
  ReadOnly,    \* entities that cannot be written
  Unwritable,  \* those whose write throws: no address, no converter
  PrefixOf,    \* pairs of slaves: the base topic of the first starts that of the second
  Publishes,   \* slaves whose state goes to MQTT
  Pushes       \* slaves with an HTTP push

CommandsAssumption ==
  /\ Kind \in [Requests -> {"command", "entity", "trigger", "http"}]
  /\ To \in [Requests -> Slaves]
  /\ Wanted \in [Requests -> SUBSET Entities]
  /\ ReadOnly \subseteq Entities
  /\ PrefixOf \subseteq Slaves \X Slaves

VARIABLES
  subscribedSlaves,  \* the slaves in the order of their subscription
  request,           \* what has become of each request
  applied,           \* writes that have reached their device: <<slave, request, entity>>
  connected          \* the MQTT client

vars == <<subscribedSlaves, request, applied, connected>>

(* request[r] has the stage its promise waits in, the slave it was taken for,    *)
(* the open writes, those of its writes its reading shows, if that was good,       *)
(* and the answer of the HTTP handler.                                        *)

(* The handler of POST /slave/poll is answered by its promise or its timer,     *)
(* whichever is first.                                                       *)
Answer(q, r, a) == IF Kind[r] = "http" /\ q.answer = "none" THEN a ELSE q.answer

Goes(r, stage) ==
  request' = [request EXCEPT ![r].stage = stage,
                             ![r].answer = CASE stage = "resolved" -> Answer(request[r], r, "ok")
                                             [] stage = "rejected" -> Answer(request[r], r, "error")
                                             [] OTHER -> @]

(***************************************************************************)
(* Dispatch.                                                                *)
(***************************************************************************)

StartsWith(s, t) == s = t \/ <<s, t>> \in PrefixOf

(* The first subscribed slave whose base topic starts the topic of a message    *)
(* to slave s.                                                              *)
Addressee(s) ==
  LET matching == {i \in DOMAIN subscribedSlaves : StartsWith(subscribedSlaves[i], s)}
  IN  IF matching = {} THEN {}
      ELSE {subscribedSlaves[CHOOSE i \in matching : \A j \in matching : i <= j]}

(* Entities to be written.  A slave that got the message of another one finds   *)
(* no entity of that name.                                                   *)
ToWrite(r, s) == IF s = To[r] THEN Wanted[r] \ ReadOnly ELSE {}

Arrives(r, s) ==
  request' = [request EXCEPT ![r].stage = "reading", ![r].slave = s]

(* Mutant: the state is read while the writes are under way.                  *)
BeginsReading(r, s, started) ==
  request' = [request EXCEPT ![r].stage = "reading", ![r].slave = s, ![r].open = started]

Begins(r, s, started) ==
  request' = [request EXCEPT ![r].stage = "writing", ![r].slave = s, ![r].open = started]

(* Refused: nobody settles later what is rejected at once; writes begun before  *)
(* one that throws are not taken back.                                        *)
Refused(r, s, started) ==
  request' = [request EXCEPT ![r].stage = "rejected", ![r].slave = s, ![r].open = started]

(* onMqttMessage.  A message nobody is subscribed for is ignored.             *)
Receive(r) ==
  /\ Kind[r] # "http"
  /\ request[r].stage = "new"
  /\ \E s \in Addressee(To[r]) :
       IF Kind[r] = "trigger" /\ s = To[r] THEN Arrives(r, s)
       ELSE LET names == ToWrite(r, s)
            IN  \/ names = {} /\ Refused(r, s, {})
                \/ \E started \in SUBSET (names \ Unwritable) :
                     names \cap Unwritable # {} /\ Refused(r, s, started)
                \/ names # {} /\ names \cap Unwritable = {} /\ Begins(r, s, names)
  /\ UNCHANGED <<subscribedSlaves, applied, connected>>

(* POST /slave/poll.                                                         *)
PollRequested(r) ==
  /\ Kind[r] = "http"
  /\ request[r].stage = "new"
  /\ Arrives(r, To[r])
  /\ UNCHANGED <<subscribedSlaves, applied, connected>>

(* Mutant: the timer is armed for the read only.                              *)
PollTimeoutOfRead(r) ==
  /\ Kind[r] = "http"
  /\ request[r].stage = "reading"
  /\ request' = [request EXCEPT ![r].answer = Answer(request[r], r, "timeout")]
  /\ request' # request
  /\ UNCHANGED <<subscribedSlaves, applied, connected>>

(* The client of POST /slave/poll has waited long enough.                     *)
PollTimeout(r) ==
  /\ Kind[r] = "http"
  /\ request[r].stage \notin {"new", "resolved", "rejected"}
  /\ request' = [request EXCEPT ![r].answer = Answer(request[r], r, "timeout")]
  /\ request' # request
  /\ UNCHANGED <<subscribedSlaves, applied, connected>>

(***************************************************************************)
(* Writing.  The writes go on whatever becomes of the request.                *)
(***************************************************************************)

WriteSucceeds(r, e) ==
  /\ e \in request[r].open
  /\ applied' = applied \cup {<<request[r].slave, r, e>>}
  /\ LET open == request[r].open \ {e}
     IN  request' = [request EXCEPT ![r].open = open,
                       ![r].stage = IF @ = "writing" /\ open = {} THEN "reading" ELSE @]
  /\ UNCHANGED <<subscribedSlaves, connected>>

(* sendCommand has no catch for its writes: its promise is left alone, as is     *)
(* the state of the slave.                                                   *)
WriteFails(r, e) ==
  /\ e \in request[r].open
  /\ request' = [request EXCEPT ![r].open = @ \ {e},
                   ![r].stage = IF @ # "writing" THEN @
                                ELSE IF Kind[r] = "command" THEN "stuck" ELSE "rejected"]
  /\ UNCHANGED <<subscribedSlaves, applied, connected>>

(***************************************************************************)
(* publishState.                                                            *)
(***************************************************************************)

(* Without a bus nothing is read and the promise is left alone, and likewise    *)
(* without the specification file.                                           *)
NothingToRead(r) ==
  /\ request[r].stage = "reading"
  /\ Goes(r, "stuck")
  /\ UNCHANGED <<subscribedSlaves, applied, connected>>

(* A read that fails gives a state without values.                            *)
ReadEnds(r, good) ==
  /\ request[r].stage = "reading"
  /\ request' = [request EXCEPT ![r].stage = IF connected THEN "state" ELSE "client",
                                ![r].good = good,
                                ![r].snapshot = IF good THEN {w \in applied : w[2] = r} ELSE {}]
  /\ UNCHANGED <<subscribedSlaves, applied, connected>>

(* The connector runs the callbacks that wait, or drops some.                 *)
Connects ==
  /\ ~connected
  /\ connected' = TRUE
  /\ request' = [r \in Requests |->
                   IF request[r].stage = "client" THEN [request[r] EXCEPT !.stage = "state"]
                   ELSE request[r]]
  /\ UNCHANGED <<subscribedSlaves, applied>>

Disconnects ==
  /\ connected
  /\ connected' = FALSE
  /\ UNCHANGED <<subscribedSlaves, request, applied>>

Drops(r) ==
  /\ request[r].stage = "client"
  /\ Goes(r, "stuck")
  /\ UNCHANGED <<subscribedSlaves, applied, connected>>

After(r) == IF request[r].slave \in Pushes THEN "push" ELSE "resolved"

(* publishAsync of the state and of "online", unless MQTT is off for the slave.   *)
PublishSucceeds(r) ==
  /\ \/ /\ request[r].stage = "state"
        /\ Goes(r, IF request[r].slave \in Publishes THEN "online" ELSE After(r))
     \/ request[r].stage = "online" /\ Goes(r, After(r))
  /\ UNCHANGED <<subscribedSlaves, applied, connected>>

PublishFails(r) ==
  /\ request[r].stage \in {"state", "online"}
  /\ request[r].slave \in Publishes
  /\ Goes(r, "offline")
  /\ UNCHANGED <<subscribedSlaves, applied, connected>>

(* The bus was deleted while the client was awaited.                          *)
BusGone(r) ==
  /\ request[r].stage = "state"
  /\ Goes(r, "rejected")
  /\ UNCHANGED <<subscribedSlaves, applied, connected>>

(* The attempt to flag the slave offline may fail as well.                    *)
FlaggedOffline(r) ==
  /\ request[r].stage = "offline"
  /\ Goes(r, "rejected")
  /\ UNCHANGED <<subscribedSlaves, applied, connected>>

(* HttpPush.pushState never throws: whatever fails is recorded.               *)
Pushed(r) ==
  /\ request[r].stage = "push"
  /\ Goes(r, "resolved")
  /\ UNCHANGED <<subscribedSlaves, applied, connected>>

(* The slaves, in the order in which they were subscribed.                      *)
Orders ==
  {q \in [1 .. Cardinality(Slaves) -> Slaves] : \A i, j \in DOMAIN q : q[i] = q[j] => i = j}

Init ==
  /\ subscribedSlaves \in Orders
  /\ request = [r \in Requests |->
                  [stage |-> "new", slave |-> To[r], open |-> {}, snapshot |-> {},
                   good |-> FALSE, answer |-> "none"]]
  /\ applied = {}
  /\ connected = FALSE

Next ==
  \/ \E r \in Requests :
       \/ Receive(r) \/ PollRequested(r) \/ PollTimeout(r)
       \/ \E e \in Entities : WriteSucceeds(r, e) \/ WriteFails(r, e)
       \/ NothingToRead(r) \/ Drops(r) \/ BusGone(r)
       \/ \E good \in BOOLEAN : ReadEnds(r, good)
       \/ PublishSucceeds(r) \/ PublishFails(r) \/ FlaggedOffline(r) \/ Pushed(r)
  \/ Connects
  \/ Disconnects

Spec == Init /\ [][Next]_vars

(* Timers fire.  Nothing else is owed: what a request waits for may never come.  *)
FairSpec == Spec /\ \A r \in Requests : WF_vars(PollTimeout(r))

(***************************************************************************)
(* Properties.                                                              *)
(***************************************************************************)

(* A command that is reported as done (sendCommand, sendEntityCommandWithPublish) *)
(* has published a state that was read from the device after each of its writes,  *)
(* if the device could be read.                                               *)
DoneMeansSeen ==
  \A r \in Requests :
    request[r].stage = "resolved" /\ Kind[r] \in {"command", "entity"} /\ request[r].good =>
      \A e \in ToWrite(r, To[r]) : <<To[r], r, e>> \in request[r].snapshot

(* A poll requested by HTTP is answered, although what it waits for may never   *)
(* settle (withTimeout of POST /slave/poll).                                   *)
PollRequestsAnswered ==
  \A r \in Requests :
    Kind[r] = "http" => (request[r].stage # "new" ~> request[r].answer # "none")
=============================================================================
