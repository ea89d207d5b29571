-------------------------- MODULE ManagementPartsMC --------------------------
(***************************************************************************)
(* Small instances of the parts of ManagementParts, for TLC.                     *)
(***************************************************************************)
EXTENDS ManagementParts

(***************************************************************************)
(* Configuration: an archive with one bus, one with two, and one whose           *)
(* modbus2mqtt.yaml cannot be parsed.                                         *)
(***************************************************************************)

ConnectionNames == {"usb", "tcp"}
ThreeArchives ==
  {[busses |-> [i \in {1} |-> "usb"], config |-> "good"],
   [busses |-> [i \in {0, 2} |-> "tcp"], config |-> "good"],
   [busses |-> [i \in {0} |-> "tcp"], config |-> "bad"]}

(***************************************************************************)
(* SpecificationFiles: an old file of each version, for each function code, with    *)
(* and without a value.                                                      *)
(***************************************************************************)

OldFile(version, at, readonly, converter, testdata) ==
  [version |-> version, at |-> at, readonly |-> readonly, converter |-> converter,
   testdata |-> testdata, number |-> 0]

Datum(at, value) == [at |-> at, value |-> value]

AnyOldFile ==
  {None, OldFile("unknown", <<3, 7>>, TRUE, "number", None)} \cup
  {OldFile("0.1", <<fc, 7>>, TRUE, c, Datum(fc2 * 100000 + 7, v)) :
     fc \in {1, 3, 4, 6, 15, 16}, fc2 \in {1, 3, 6}, c \in {"sensor", "select_sensor"}, v \in {5, None}} \cup
  {OldFile(version, <<t, 7>>, r, "number", Datum(<<t, 7>>, v)) :
     version \in {"0.2", "0.3", "0.4", "0.5"}, t \in {1, 3, 4}, r \in BOOLEAN, v \in {5, None}}

(***************************************************************************)
(* Contribution: two requests for one specification, and another name it may take.  *)
(***************************************************************************)

MeterAndPump == {"meter", "pump"}
TwoRequests == {1, 2}
ForTheOne == [r \in TwoRequests |-> "meter"]
TwoThresholds == <<1, 2>>

(***************************************************************************)
(* SpecificationEditor: a file without nextEntityId.                           *)
(***************************************************************************)

TwoOldEntities ==
  {[entities |-> <<[id |-> 1, key |-> 1], [id |-> 2, key |-> 2]>>, nextEntityId |-> 0]}

(***************************************************************************)
(* SlaveCards: two specifications that share an entity id, and a slave that may      *)
(* be referenced.                                                            *)
(***************************************************************************)

TwoIds == {1, 2}
TwoSpecs == {"meter", "pump"}
EntitiesOfSpecs == [s \in TwoSpecs |-> IF s = "meter" THEN {1, 2} ELSE {2}]

Stored(ref, spec, hidden) == [ref |-> ref, spec |-> spec, hidden |-> hidden]

OneOrTwoSlaves ==
  {[id \in {1} |-> Stored(None, "meter", {1})],
   [id \in TwoIds |-> IF id = 1 THEN Stored(None, "meter", {}) ELSE Stored(1, None, {})]}

(***************************************************************************)
(* StartUp with two busses.                                                  *)
(***************************************************************************)

TwoBusses == {1, 2}

(***************************************************************************)
(* DeviceDetection, with requests of at most 4 registers: a gap to read across, one  *)
(* too wide, a request that gets too long, and another register type.              *)
(***************************************************************************)

OneSpec == {"meter"}
GapLayouts ==
  {{}, {1} \X {0, 2, 3, 4}, {1} \X {1, 4}, ({1} \X {0, 1}) \cup ({2} \X {1})}

(***************************************************************************)
(* TcpBridge: two ports to choose from, and one client.                         *)
(***************************************************************************)

TwoPorts == {502, 503}
OneClient == {1}

(***************************************************************************)
(* Settings: with and without a supervisor and a port from the environment, a file     *)
(* written by hand, and an archive that has placeholders.                         *)
(***************************************************************************)

FewValues ==
  [server |-> {"broker"}, login |-> {"theirs"}, token |-> {"t", None}, language |-> {"de"}]
ThreeEnvironments ==
  {[hassio |-> TRUE, https |-> None]} \cup {[hassio |-> FALSE, https |-> p] : p \in {None, "env"}}
Setting(server, login, token, language, port) ==
  [server |-> server, login |-> login, token |-> token, language |-> language, port |-> port]
ByHand == {Setting("broker", "ours", None, None, "own")}
WithPlaceholders == {Setting("broker", "placeholder", "placeholder", "de", None)}
Untouched == Setting(None, None, None, "en", None)
=============================================================================
