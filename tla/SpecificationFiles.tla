------------------------- MODULE SpecificationFiles -------------------------
(***************************************************************************)
(* SpecificationFiles: the files of one local specification.  It may have a      *)
(* YAML file of an older version, which is migrated as it is read and replaced    *)
(* by a JSON file when the specification is first written; and the process may    *)
(* crash between any two steps, or fail to remove a file.                       *)
(***************************************************************************)
EXTENDS Integers, Sequences, FiniteSets, SequencesExt

CONSTANTS
  OldFiles,   \* YAML files there may be at the beginning
  MaxWrites,  \* bound: how often the specification is written
  MaxFaults,  \* bound: crashes between two steps, and files that stay
  None        \* no file, no specification, undefined

VARIABLES
  yaml,    \* <name>.yaml
  json,    \* <name>.json
  memory,  \* the entry of ConfigSpecification.specifications
  latest,  \* history: what was last written or deleted
  writes,  \* history
  faults   \* history

vars == <<yaml, json, memory, latest, writes, faults>>

(* A specification is an entity, a value of the test data, and the number of the write    *)
(* it comes from.  Both say where in the device: `<fc, address>' until version 0.1,         *)
(* `<registerType, address>' later.  Test data of 0.1 is one number.                     *)
Specification(version, at, readonly, converter, testdata, number) ==
  [version |-> version, at |-> at, readonly |-> readonly, converter |-> converter,
   testdata |-> testdata, number |-> number]

Datum(at, value) == [at |-> at, value |-> value]

NoData == -1   \* error: no data available

(***************************************************************************)
(* Migrator.                                                                *)
(***************************************************************************)

Coils == 1
HoldingRegister == 3
AnalogInputs == 4

(* fc2registerType.                                                           *)
RegisterType(fc) ==
  CASE fc \in {3, 21, 16} -> HoldingRegister
    [] fc \in {1, 15, 20} -> Coils
    [] fc \in {4, 6, 22}  -> AnalogInputs
    [] OTHER              -> None
Readonly(fc) == fc \in {3, 1, 4, 22}

FCOffset == 100000

(* getConvertername0_1.                                                       *)
ConverterName(name) ==
  CASE name = "sensor" -> "number"
    [] name \in {"select_sensor", "binary_sensor"} -> "select"
    [] OTHER -> name

Migrate01(s) ==
  LET fc == s.at[1]
      data == s.testdata
      type == RegisterType(data.at \div FCOffset)
  IN  [s EXCEPT !.version = "0.2", !.converter = ConverterName(@),
         !.at = IF RegisterType(fc) = None THEN @ ELSE <<RegisterType(fc), @[2]>>,
         !.readonly = IF RegisterType(fc) = None THEN @ ELSE Readonly(fc),
         !.testdata = IF type = None THEN None ELSE Datum(<<type, data.at % FCOffset>>, data.value)]

(* A value that is missing becomes an error.                                    *)
Migrate02(s) ==
  [s EXCEPT !.version = "0.3",
     !.testdata = IF @ # None /\ @.value = None THEN Datum(@.at, NoData) ELSE @]

Migrate03(s) == [s EXCEPT !.version = "0.4"]

Migrate04(s) == [s EXCEPT !.version = "0.5"]

(* One round of migrate: None when the version is unknown.                         *)
Advanced(s) ==
  IF s = None THEN None
  ELSE CASE s.version = "0.1" -> Migrate01(s)
         [] s.version = "0.2" -> Migrate02(s)
         [] s.version = "0.3" -> Migrate03(s)
         [] s.version = "0.4" -> Migrate04(s)
         [] s.version = "0.5" -> s
         [] OTHER -> None

(* maxCount rounds.                                                          *)
Migrated(s) == Advanced(Advanced(Advanced(Advanced(Advanced(s)))))

(***************************************************************************)
(* What the files may hold.                                                   *)
(***************************************************************************)

(* A value that was read, the error that stands for one, or nothing.               *)
ValueType == Nat \cup {NoData, None}
Data == [at : Nat \X Nat, value : ValueType]

Converters == {"number", "select", "text", "binary", "value"}

FirstVersion ==
  [version : {"0.1"}, at : {f \in Nat : RegisterType(f) # None} \X (0 .. FCOffset - 1),
   readonly : BOOLEAN, converter : Converters \cup {"sensor", "select_sensor", "binary_sensor"},
   testdata : [at : Nat, value : ValueType], number : Nat]

LaterVersion ==
  [version : {"0.2", "0.3", "0.4", "0.5", "unknown"}, at : Nat \X Nat, readonly : BOOLEAN,
   converter : Converters, testdata : Data \cup {None}, number : Nat]

FilesAssumption ==
  /\ OldFiles \subseteq FirstVersion \cup LaterVersion \cup {None}
  /\ None \notin Nat \cup Data \cup LaterVersion /\ None # [version |-> "broken"]
  /\ MaxWrites \in Nat /\ MaxFaults \in Nat

(***************************************************************************)
(* SpecPersistence.                                                          *)
(***************************************************************************)

Broken == [version |-> "broken"]

(* Mutant: the YAML file is read while there is one.                               *)
LoadedYamlFirst(y, j) ==
  IF y # None THEN Migrated(y) ELSE IF j \in {None, Broken} THEN None ELSE j

(* readFromDirectory: a YAML file beside a JSON file is not read, whatever is in that.     *)
Loaded(y, j) ==
  IF j = Broken THEN None ELSE IF j # None THEN j ELSE IF y # None THEN Migrated(y) ELSE None

Files(y, j) == yaml' = y /\ json' = j

Fault == faults < MaxFaults /\ faults' = faults + 1

(* The process ends with these files, and starts again.                           *)
CrashWith(y, j) ==
  /\ Fault
  /\ Files(y, j)
  /\ memory' = Loaded(y, j)

(* writeItem; an old file that cannot be removed stays (cleanOldFiles).              *)
Written(s) ==
  \/ Files(None, s) /\ memory' = s /\ UNCHANGED faults
  \/ yaml # None /\ Fault /\ Files(yaml, s) /\ memory' = s
  \/ CrashWith(yaml, Broken)
  \/ CrashWith(yaml, s)

(* writeSpecificationFromFileSpec.                                               *)
Write ==
  /\ writes < MaxWrites
  /\ writes' = writes + 1
  /\ LET s == Specification("0.5", <<HoldingRegister, 7>>, FALSE, "number",
                            Datum(<<HoldingRegister, 7>>, 1), writes')
     IN  Written(s) /\ latest' = s

(* deleteSpecification; what cannot be deleted is read again.                       *)
Delete ==
  /\ memory # None
  /\ \/ Files(None, None) /\ memory' = None /\ latest' = None /\ UNCHANGED faults
     \/ CrashWith(yaml, None) /\ latest' = None
     \/ Fault /\ yaml # None /\ Files(yaml, None) /\ memory' = Loaded(yaml, None) /\ latest' = latest
     \/ Fault /\ json # None /\ UNCHANGED <<yaml, json, latest>> /\ memory' = Loaded(yaml, json)
  /\ UNCHANGED writes

Restart ==
  /\ memory' = Loaded(yaml, json)
  /\ UNCHANGED <<yaml, json, latest, writes, faults>>

Init ==
  /\ yaml \in OldFiles
  /\ json = None
  /\ memory = Loaded(yaml, json)
  /\ latest = yaml
  /\ writes = 0
  /\ faults = 0

Next == Write \/ Delete \/ Restart

Spec == Init /\ [][Next]_vars

(***************************************************************************)
(* Properties.                                                              *)
(***************************************************************************)

(* Where the entity of s is read: the kind of register, as far as its version tells.      *)
Place(s) ==
  IF s.version = "0.1" THEN <<RegisterType(s.at[1]), s.at[2]>> ELSE s.at

(* The value that the test data of s has for the entity.                            *)
Reading(s) ==
  IF s.version = "0.1"
    THEN IF s.testdata.at = s.at[1] * FCOffset + s.at[2] THEN s.testdata.value ELSE None
  ELSE IF s.testdata # None /\ s.testdata.at = s.at THEN s.testdata.value ELSE None

(* After one crash or failure, a specification that is loaded is the one that was written    *)
(* last, never one from before, and it reads the same register and identifies the same      *)
(* test data as its file of whatever version did; and it is loaded unless it was deleted   *)
(* or the crash left half of its file (specPersistence.ts: readFromDirectory, writeItem).   *)
NothingOldComesBack ==
  /\ memory # None /\ latest # None =>
       /\ memory.number = latest.number
       /\ Place(memory) = Place(latest)
       /\ Reading(latest) # None => Reading(memory) = Reading(latest)
  /\ memory = None => latest = None \/ json = Broken \/ Migrated(latest) = None
=============================================================================
