--------------------------- MODULE PollingPartsMC ---------------------------
(***************************************************************************)
(* Small instances of the parts of PollingParts, for TLC.                     *)
(***************************************************************************)
EXTENDS PollingParts

(***************************************************************************)
(* MqttConnector: three users, and two brokers to choose from.                 *)
(***************************************************************************)

ThreeUses == {"publish", "discover", "unsubscribe"}
Home == {"home"}
HomeAndCloud == {"home", "cloud"}

(***************************************************************************)
(* MqttPoller: a slave that is polled every other tick, one with a cron         *)
(* schedule, and one whose specification has no entity.                        *)
(***************************************************************************)

PolledSlaves == {"meter", "clock", "blank"}
FragileSlaves == {"meter", "clock"}
MuteSlaves == {"blank"}
Intervals == [s \in PolledSlaves |-> IF s = "clock" THEN 0 ELSE 2]
Schedules == [s \in PolledSlaves |-> IF s = "clock" THEN {1, 2} ELSE {}]

(***************************************************************************)
(* MqttCommands: a command with two entities to write and one that is read only,   *)
(* one whose second entity cannot be written, one for an entity of a slave whose    *)
(* topic starts alike, and a poll on request.                                  *)
(***************************************************************************)

FourMessages == {"set", "bad", "one", "poll"}
TwoSlaves == {"s1", "s10"}
CommandedEntities == {"a", "b", "c", "ro"}
ReadOnlyEntities == {"ro"}
UnwritableEntities == {"b"}
PrefixPairs == {<<"s1", "s10">>}
KindOf ==
  [r \in FourMessages |-> CASE r \in {"set", "bad"} -> "command" [] r = "one" -> "entity" [] r = "poll" -> "http"]
SlaveOf == [r \in FourMessages |-> IF r = "one" THEN "s10" ELSE "s1"]
EntitiesNamed ==
  [r \in FourMessages |-> CASE r = "set" -> {"a", "c", "ro"} [] r = "bad" -> {"a", "b"}
                             [] r = "one" -> {"a"} [] r = "poll" -> {}]

(***************************************************************************)
(* EntityValues, with bytes of four values, two of them ASCII, and words of 16.    *)
(***************************************************************************)

Number(f, b, w, m, o) ==
  [converter |-> "number", registers |-> IF f \in {"signedInt32", "unsignedInt32"} THEN 2 ELSE 1,
   format |-> f, swapBytes |-> b, swapWords |-> w, multiplier |-> m, offset |-> o]

Selection(options, names) ==
  [converter |-> "select", registers |-> 1, options |-> options, names |-> names]

Text(n, b) ==
  [converter |-> "text", registers |-> (n + 1) \div 2, stringlength |-> n, swapBytes |-> b]

OnOff(on) == [r \in {0, 5} |-> IF r = 0 THEN "off" ELSE on]

SomeEntities ==
  {Number(f, b, w, m, o) : f \in {"default", "signedInt16", "unsignedInt32", "signedInt32"},
                           b \in BOOLEAN, w \in BOOLEAN, m \in {0, 3, -2}, o \in {0, 1}}
  \cup {Selection(<<>>, OnOff("on")), Selection(OnOff("high"), OnOff("on"))}
  \cup {[converter |-> "binary", registers |-> 1]}
  \cup {Text(n, b) : n \in {2, 3, 4}, b \in BOOLEAN}

Words == {0, 5, 7, 14}
Commanded ==
  [number |-> {-130, -129, -9, -8, -1, 0, 1, 2, 7, 15, 16, 24, 45, 127, 255, 256, 765},
   select |-> {"off", "on", "high"}, binary |-> {"ON", "OFF"},
   text |-> UNION {[1 .. n -> {0, 1, 3}] : n \in 0 .. 4}]

(***************************************************************************)
(* StatePayload: three entities in every order, with names that conflict and      *)
(* names that do not.                                                        *)
(***************************************************************************)

Named(path, variable, push, select) ==
  [path |-> path, variable |-> variable, push |-> push, select |-> select]

Paths == {<<"a">>, <<"a", "b">>, <<"a", "d">>, <<"a", "0", "b">>, <<"0", "b">>, <<"0", "d">>,
          <<"a", "9999">>, <<"c">>}

Layout(p, q, r, toMqtt) ==
  [entities |-> <<Named(p, FALSE, TRUE, FALSE), Named(q, FALSE, TRUE, TRUE),
                  Named(r, r = <<"c">>, FALSE, FALSE)>>,
   root |-> IF toMqtt THEN <<>> ELSE <<"a">>,
   placeholders |-> IF toMqtt THEN {} ELSE {<<"c">>, <<"pollDate">>},
   mqtt |-> toMqtt]

ThreeEntities == {Layout(p, q, r, toMqtt) : p \in Paths, q \in Paths, r \in Paths, toMqtt \in BOOLEAN}
Numerals == {"0", "9999"}
HighNumerals == {"9999"}

(***************************************************************************)
(* PollSchedule: every shape of a field, in range and out of it.                  *)
(***************************************************************************)

Field(lo, hi, step) == {[lo |-> lo, hi |-> hi, step |-> step]}
AnyValue == Field(None, None, None)
Only(n) == Field(n, None, None)
Every(n) == Field(None, None, n)

ManyFields ==
  << {AnyValue, Only(0), Only(59), Only(60), Every(0), Every(7), Every(90), Only(0) \cup Only(30)},
     {AnyValue, Only(6), Only(24), Every(6), Field(6, 12, 3), Field(22, None, 1)},
     {AnyValue, Only(1), Every(2)},
     {AnyValue, Only(12)},
     {AnyValue, Only(0), Only(7), Only(8), Field(5, 7, None)} >>
SomePresets ==
  {<<Every(15), AnyValue, AnyValue, AnyValue, AnyValue>>, <<Only(0), AnyValue, AnyValue, AnyValue, AnyValue>>,
   <<Only(0), Every(6), AnyValue, AnyValue, AnyValue>>, <<Only(0), Only(6), AnyValue, AnyValue, AnyValue>>}
SomeMinutes == {0, 7, 56, 59}
SomeHours == {0, 6, 18, 23}
SomeDays == {1, 2, 31}
SomeMonths == {1, 12}
=============================================================================
