----------------------------- MODULE MqttPoller -----------------------------
(***************************************************************************)
(* MqttPoller: every 100 ms a tick looks which slaves of the bus are due,     *)
(* reads them all, and publishes what it read in one go when the last of them *)
(* has answered.  Reads take many ticks, so that several such batches are      *)
(* under way at a time; a flag per slave keeps them apart.  Publication goes   *)
(* through the MqttConnector.                                               *)
(***************************************************************************)
EXTENDS Naturals, Sequences, FiniteSets

CONSTANTS
  Slaves,      \* slaves with a poll mode that polls, and a specification
  Published,   \* those that publish to MQTT, the others push to HTTP only
  Fragile,     \* those whose specification file may be gone
  Mute,        \* those whose read never settles: no register to ask for
  Interval,    \* Interval[s]: ticks between two polls, 0 for a cron schedule
  Schedule,    \* Schedule[s]: the minutes that match the cron schedule of s
  MaxMinute,   \* bound: how long time goes on
  Settings, MaxClients, MaxListeners

VARIABLES
  mqtt,        \* the connector
  pollInfo,    \* MqttPoller.slavePollInfo
  batches,     \* the calls of poll whose last read is still to come
  minute,      \* the wall clock
  unpublished  \* history: how many readings of a slave are not published yet

pollVars == <<pollInfo, batches, unpublished>>
vars == <<mqtt, minute, pollVars>>

NeverFired == 0

Info(s) ==
  [count : 0 .. Interval[s], processing : BOOLEAN, lastFired : 0 .. MaxMinute]

Batch ==
  [open : SUBSET Slaves, messages : SUBSET Slaves, devicesToPoll : Nat, pollDeviceCount : Nat]

(* What the poller asks the connector to do: publish what a batch has read,   *)
(* or republish the discovery of a slave.                                    *)
State(slaves) == [kind |-> "state", slaves |-> slaves]
Discovery     == [kind |-> "discovery", slaves |-> {}]

PollCallbacks == {State(S) : S \in SUBSET Slaves} \cup {Discovery}

Connector ==
  INSTANCE MqttConnector WITH Callbacks <- PollCallbacks

PollerAssumption ==
  /\ IsFiniteSet(Slaves)
  /\ Published \subseteq Slaves
  /\ Fragile \subseteq Slaves
  /\ Mute \subseteq Slaves
  /\ MaxMinute \in Nat
  /\ Interval \in [Slaves -> Nat]
  /\ Schedule \in [Slaves -> SUBSET (1 .. MaxMinute)]
  /\ Connector!ConnectorAssumption

(***************************************************************************)
(* One tick.                                                                *)
(***************************************************************************)

OnSchedule(s) == Interval[s] = 0

Count(s) == IF pollInfo[s].count >= Interval[s] THEN 0 ELSE pollInfo[s].count

TriggerNow(s) ==
  IF OnSchedule(s)
    THEN pollInfo[s].lastFired # minute /\ minute \in Schedule[s]
    ELSE Count(s) = 0

NeedPolls == {s \in Slaves : TriggerNow(s) /\ ~pollInfo[s].processing}

(* Mutant: the failed function leaves the flag set.                          *)
TickedFailing(s, reading) ==
  [count      |-> IF OnSchedule(s) THEN pollInfo[s].count ELSE Count(s) + 1,
   processing |-> pollInfo[s].processing \/ s \in NeedPolls,
   lastFired  |-> IF OnSchedule(s) /\ TriggerNow(s) THEN minute ELSE pollInfo[s].lastFired]

(* The entry of s after the tick; the slaves in reading are being read, those *)
(* whose specification file is gone have failed already.                     *)
Ticked(s, reading) ==
  [count      |-> IF OnSchedule(s) THEN pollInfo[s].count ELSE Count(s) + 1,
   processing |-> pollInfo[s].processing \/ s \in reading,
   lastFired  |-> IF OnSchedule(s) /\ TriggerNow(s) THEN minute ELSE pollInfo[s].lastFired]

Started(reading, failed) ==
  [open |-> reading, messages |-> {},
   devicesToPoll |-> Cardinality(reading \cup failed), pollDeviceCount |-> Cardinality(failed)]

Poll ==
  /\ Connector!IsConnected(mqtt)
  /\ \E failed \in SUBSET (NeedPolls \cap Fragile) :
       LET reading == NeedPolls \ failed
       IN  /\ pollInfo' = [s \in Slaves |-> Ticked(s, reading)]
           /\ batches' = IF reading = {} THEN batches
                         ELSE batches \cup {Started(reading, failed)}
  /\ mqtt' = Connector!Quiet
  /\ UNCHANGED <<minute, unpublished>>

(***************************************************************************)
(* A read settles: next() of the subscription.                              *)
(***************************************************************************)

Complete(b) == b.pollDeviceCount = b.devicesToPoll

(* Mutant: the messages of the slave replace those read before.              *)
AnsweredAlone(b, s) ==
  [open |-> b.open \ {s},
   messages |-> {s} \cap Published,
   devicesToPoll |-> b.devicesToPoll,
   pollDeviceCount |-> b.pollDeviceCount + 1]

Answered(b, s) ==
  [open |-> b.open \ {s},
   messages |-> b.messages \cup ({s} \cap Published),
   devicesToPoll |-> b.devicesToPoll,
   pollDeviceCount |-> b.pollDeviceCount + 1]

(* Readings of s that callbacks hold.                                        *)
Holding(callbacks, s) ==
  Cardinality({i \in DOMAIN callbacks : callbacks[i].kind = "state" /\ s \in callbacks[i].slaves})

(* The reading of s is known; changed tells whether its discovery has changed. *)
Settle(b, s, changed) ==
  LET b2 == Answered(b, s)
      k1 == IF changed THEN Connector!GetMqttClient(Connector!Quiet, Discovery)
                       ELSE Connector!Quiet
  IN  /\ s \in b.open \ Mute
      /\ IF Complete(b2)
           THEN /\ batches' = batches \ {b}
                /\ mqtt' = Connector!GetMqttClient(k1, State(b2.messages))
           ELSE /\ batches' = (batches \ {b}) \cup {b2}
                /\ mqtt' = k1
      /\ pollInfo' = [pollInfo EXCEPT ![s].processing = FALSE]
      /\ unpublished' = [t \in Slaves |->
                           unpublished[t] + (IF t = s /\ s \in Published THEN 1 ELSE 0)
                             - Holding(mqtt'.run, t) - Holding(mqtt'.dropped, t)]
      /\ UNCHANGED <<minute>>

(***************************************************************************)
(* The surroundings.                                                        *)
(***************************************************************************)

MinutePasses ==
  /\ minute < MaxMinute
  /\ minute' = minute + 1
  /\ mqtt' = Connector!Quiet
  /\ UNCHANGED pollVars

(* Another user of the connector, as onUpdateSlave, gets the client.          *)
Announce ==
  /\ \A i \in DOMAIN mqtt.pending : mqtt.pending[i] # Discovery
  /\ mqtt' = Connector!GetMqttClient(Connector!Quiet, Discovery)
  /\ unpublished' = [t \in Slaves |->
                       unpublished[t] - Holding(mqtt'.run, t) - Holding(mqtt'.dropped, t)]
  /\ UNCHANGED <<minute, pollInfo, batches>>

MqttEvent ==
  /\ Connector!ConnectorEvent
  /\ unpublished' = [t \in Slaves |->
                       unpublished[t] - Holding(mqtt'.run, t) - Holding(mqtt'.dropped, t)]
  /\ UNCHANGED <<minute, pollInfo, batches>>

Init ==
  /\ Connector!Init
  /\ pollInfo = [s \in Slaves |-> [count |-> 0, processing |-> FALSE, lastFired |-> NeverFired]]
  /\ batches = {}
  /\ minute = 0
  /\ unpublished = [s \in Slaves |-> 0]

ReadSettles == \E b \in batches, s \in Slaves, changed \in BOOLEAN : Settle(b, s, changed)

Next ==
  \/ Poll
  \/ ReadSettles
  \/ MinutePasses
  \/ Announce
  \/ MqttEvent

Spec == Init /\ [][Next]_vars

(* Every read of a slave that has registers settles, see EveryCallSettles of  *)
(* RtuWorker.                                                               *)
FairSpec ==
  Spec /\ \A s \in Slaves :
    WF_vars(\E b \in batches, changed \in BOOLEAN : Settle(b, s, changed))

(***************************************************************************)
(* Properties.                                                              *)
(***************************************************************************)

(* Every variable has its type; the tick counter never exceeds the interval.  *)
TypeOK ==
  /\ DOMAIN pollInfo = Slaves
  /\ \A s \in Slaves : pollInfo[s] \in Info(s)
  /\ batches \subseteq Batch
  /\ minute \in 0 .. MaxMinute
  /\ unpublished \in [Slaves -> Nat]

(* The flag of a slave tells exactly whether a read of it is under way, and no *)
(* slave is read twice at a time, however many batches overlap and fail.      *)
ProcessingMeansReading ==
  \A s \in Slaves :
    LET reads == {b \in batches : s \in b.open}
    IN  Cardinality(reads) = IF pollInfo[s].processing THEN 1 ELSE 0

(* Readings of s that wait in batches or in the connector.                    *)
Held(s) == Cardinality({b \in batches : s \in b.messages}) + Holding(mqtt.pending, s)

(* Every reading is published exactly once, or was dropped by the connector:  *)
(* none is forgotten with its batch, none is published again.                 *)
EveryReadingIsHeld == \A s \in Slaves : unpublished[s] = Held(s)

(* A batch counts down to the read that will publish it: neither a failure at *)
(* once nor the order of the answers makes it stop early or never.            *)
CountsAgree ==
  \A b \in batches : b.devicesToPoll - b.pollDeviceCount = Cardinality(b.open)

(* A poll ends, whether the read succeeds, fails or cannot even start.        *)
EveryPollEnds ==
  \A s \in Slaves \ Mute : pollInfo[s].processing ~> ~pollInfo[s].processing

=============================================================================
