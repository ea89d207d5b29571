--------------------------- MODULE Configuration ---------------------------
(***************************************************************************)
(* Configuration: the list of busses, kept three times (the properties in        *)
(* ConfigBus, the Bus objects, a directory per bus), the import of an archive     *)
(* with its marker file, and starting again from what is in the files.           *)
(* Handlers run to their end; only reading the configuration may have to wait      *)
(* for the supervisor, and starting for the index of public specifications.       *)
(***************************************************************************)
EXTENDS Integers, Sequences, FiniteSets, FiniteSetsExt, SequencesExt, Functions

CONSTANTS
  Connections,  \* connection data of busses
  NoConnection, \* of a Bus object that has the properties ConfigBus has
  Archives,     \* archives to import: [busses, config], see ArchiveType
  MaxId,        \* bound: highest id of a bus
  MaxReloads    \* bound: imports whose reload waits for the supervisor

BusIds == 0 .. MaxId

(* Busses by their ids.                                                      *)
BusTable == UNION {[S -> Connections] : S \in SUBSET BusIds}

(* "bad" is a modbus2mqtt.yaml that cannot be parsed.                         *)
ArchiveType == [busses : BusTable, config : {"none", "good", "bad"}]

ArchivesAssumption ==
  /\ Archives \subseteq ArchiveType /\ NoConnection \notin Connections
  /\ MaxId \in Nat /\ MaxReloads \in Nat

VARIABLES
  process,       \* "down", "starting" (the configuration is read) or "up"
  disk,          \* the local directory: [busses, config, marker]
  configBusses,  \* ConfigBus.busses
  busses,        \* Bus.busses: [id, stale], stale being the properties of an object
                 \* ConfigBus does not know any more, or NoConnection
  reloads,       \* imports that wait for the supervisor before they reload
  partial,       \* history: the directory holds what an unfinished import wrote
  apart          \* history: the directory was changed by hand, or not reloaded

vars == <<process, disk, configBusses, busses, reloads, partial, apart>>

Empty == [busses |-> <<>>, config |-> "none", marker |-> FALSE]

TypeOK ==
  /\ process \in {"down", "starting", "up"}
  /\ disk \in [busses : BusTable \cup {<<>>}, config : {"none", "good", "bad"}, marker : BOOLEAN]
  /\ configBusses \in BusTable \cup {<<>>}
  /\ \A i \in DOMAIN busses :
       busses[i] \in [id : BusIds, stale : Connections \cup {NoConnection}]
  /\ reloads \in 0 .. MaxReloads
  /\ partial \in BOOLEAN /\ apart \in BOOLEAN

With(table, id, c) == [i \in DOMAIN table \cup {id} |-> IF i = id THEN c ELSE table[i]]

Without(table, id) == Restrict(table, DOMAIN table \ {id})

(* The numbers of S from the lowest to the highest.                              *)
Ascending(S) ==
  CHOOSE q \in [1 .. Cardinality(S) -> S] : \A i, j \in 1 .. Cardinality(S) : i < j => q[i] < q[j]

KnownIds == {busses[i].id : i \in DOMAIN busses}

(***************************************************************************)
(* Bus.readBussesFromConfig.                                                 *)
(***************************************************************************)

(* Objects of configured busses get the configured properties.                *)
Updated(table, q) ==
  [i \in DOMAIN q |-> IF q[i].id \in DOMAIN table THEN [q[i] EXCEPT !.stale = NoConnection]
                      ELSE IF q[i].stale # NoConnection THEN q[i]
                      ELSE [q[i] EXCEPT !.stale = configBusses[q[i].id]]]

Appended(table, q) ==
  LET new == DOMAIN table \ {q[i].id : i \in DOMAIN q}
  IN  q \o [i \in 1 .. Cardinality(new) |->
              [id |-> Ascending(new)[i], stale |-> NoConnection]]

(* "delete removed busses": the loop goes on behind the element that moved up    *)
(* into the place of a removed one, so every other one of a row of removed busses  *)
(* stays.                                                                    *)
Swept(table, q) ==
  LET Kept(i) == q[i].id \in DOMAIN table
      Row(i) == Max({j \in 0 .. i - 1 : j = 0 \/ Kept(j)}) + 1
      stays == {i \in DOMAIN q : Kept(i) \/ (i - Row(i)) % 2 = 1}
  IN  [k \in 1 .. Cardinality(stays) |-> q[Ascending(stays)[k]]]

Refreshed(table) == Swept(table, Appended(table, Updated(table, busses)))

StaleAmong(q) == {i \in DOMAIN q : q[i].stale # NoConnection}

(***************************************************************************)
(* Requests for busses.                                                     *)
(***************************************************************************)

NewId == Max({-1} \cup DOMAIN configBusses) + 1

(* An object that still exists under the new id is taken as it is.              *)
AddBus(c) ==
  /\ process = "up"
  /\ NewId \in BusIds
  /\ LET table == With(configBusses, NewId, c)
     IN  /\ configBusses' = table
         /\ busses' = IF NewId \in KnownIds THEN busses ELSE Refreshed(table)
  /\ disk' = [disk EXCEPT !.busses = With(@, NewId, c)]
  /\ UNCHANGED <<process, reloads, partial, apart>>

(* The properties of a bus that ConfigBus does not know are written as well.     *)
UpdateBus(i, c) ==
  /\ process = "up"
  /\ i \in DOMAIN busses
  /\ LET b == busses[i]
     IN  /\ IF b.stale = NoConnection
            THEN /\ configBusses[b.id] # c
                 /\ configBusses' = With(configBusses, b.id, c)
                 /\ UNCHANGED busses
            ELSE /\ b.stale # c
                 /\ busses' = [busses EXCEPT ![i].stale = c]
                 /\ UNCHANGED configBusses
         /\ disk' = [disk EXCEPT !.busses = With(@, b.id, c)]
  /\ UNCHANGED <<process, reloads, partial, apart>>

(* Mutant: the directory is left.                                            *)
DeleteBusKeepingFiles(i) ==
  /\ process = "up"
  /\ i \in DOMAIN busses
  /\ busses' = RemoveAt(busses, i)
  /\ configBusses' = Without(configBusses, busses[i].id)
  /\ UNCHANGED <<process, disk, reloads, partial, apart>>

DeleteBus(i) ==
  /\ process = "up"
  /\ i \in DOMAIN busses
  /\ LET id == busses[i].id
     IN  /\ busses' = RemoveAt(busses, i)
         /\ configBusses' = Without(configBusses, id)
         /\ disk' = IF id \in DOMAIN configBusses
                    THEN [disk EXCEPT !.busses = Without(@, id)] ELSE disk
  /\ UNCHANGED <<process, reloads, partial, apart>>

SaveConfiguration ==
  /\ process = "up"
  /\ disk.config # "good"
  /\ disk' = [disk EXCEPT !.config = "good"]
  /\ UNCHANGED <<process, configBusses, busses, reloads, partial, apart>>

(***************************************************************************)
(* Importing.                                                               *)
(***************************************************************************)

HasLocalUserContent == disk.config # "none" \/ disk.busses # <<>>

(* Mutant: the marker is removed whatever happens.                            *)
PartsUnmarked(a) ==
  [busses : {IF S = {} THEN <<>> ELSE Restrict(a.busses, S) : S \in SUBSET DOMAIN a.busses},
   config : {"none", a.config}, marker : {FALSE}]

(* Every set of entries may have been written when an import stops.              *)
Parts(a) ==
  [busses : {IF S = {} THEN <<>> ELSE Restrict(a.busses, S) : S \in SUBSET DOMAIN a.busses},
   config : {"none", a.config}, marker : {TRUE}]

(* An entry that cannot be parsed or written; the marker stays.                *)
ImportFails(a) ==
  /\ process = "up"
  /\ ~HasLocalUserContent
  /\ disk' \in Parts(a)
  /\ partial' = TRUE
  /\ apart' = TRUE
  /\ UNCHANGED <<process, configBusses, busses, reloads>>

CrashInImport(a) ==
  /\ process = "up"
  /\ ~HasLocalUserContent
  /\ disk' \in Parts(a)
  /\ partial' = TRUE
  /\ process' = "down"
  /\ configBusses' = <<>> /\ busses' = <<>> /\ reloads' = 0
  /\ UNCHANGED apart

(* The archive is written and its configuration read, which may have to ask the   *)
(* supervisor for the login of MQTT, or fails.                                 *)
Import(a) ==
  /\ process = "up"
  /\ ~HasLocalUserContent
  /\ disk' = [busses |-> a.busses, config |-> a.config, marker |-> FALSE]
  /\ partial' = FALSE
  /\ apart' = TRUE
  /\ IF a.config = "bad" THEN UNCHANGED reloads
     ELSE reloads < MaxReloads /\ reloads' = reloads + 1
  /\ UNCHANGED <<process, configBusses, busses>>

(* ConfigBus.readBusses and Bus.readBussesFromConfig.                          *)
Reload ==
  /\ reloads > 0
  /\ reloads' = reloads - 1
  /\ configBusses' = disk.busses
  /\ busses' = Refreshed(disk.busses)
  /\ apart' = (StaleAmong(busses') # {})
  /\ UNCHANGED <<process, disk, partial>>

(***************************************************************************)
(* The process and the user's file manager.                                  *)
(***************************************************************************)

Start ==
  /\ process = "down"
  /\ ~disk.marker
  /\ disk.config # "bad"
  /\ process' = "starting"
  /\ UNCHANGED <<disk, configBusses, busses, reloads, partial, apart>>

StartServer ==
  /\ process = "starting"
  /\ process' = "up"
  /\ configBusses' = disk.busses
  /\ busses' = Appended(disk.busses, <<>>)
  /\ apart' = FALSE
  /\ UNCHANGED <<disk, reloads, partial>>

Crash ==
  /\ process # "down"
  /\ process' = "down"
  /\ configBusses' = <<>> /\ busses' = <<>> /\ reloads' = 0
  /\ UNCHANGED <<disk, partial, apart>>

(* What an operator is told to do after a partial import.                       *)
DeleteLocalDirectory ==
  /\ disk # Empty
  /\ disk' = Empty
  /\ partial' = FALSE
  /\ apart' = TRUE
  /\ UNCHANGED <<process, configBusses, busses, reloads>>

Init ==
  /\ process = "down"
  /\ disk = Empty
  /\ configBusses = <<>> /\ busses = <<>>
  /\ reloads = 0
  /\ partial = FALSE /\ apart = FALSE

Next ==
  \/ \E c \in Connections : AddBus(c) \/ \E i \in 1 .. Len(busses) : UpdateBus(i, c)
  \/ \E i \in 1 .. Len(busses) : DeleteBus(i)
  \/ SaveConfiguration
  \/ \E a \in Archives : Import(a) \/ ImportFails(a) \/ CrashInImport(a)
  \/ Reload
  \/ Start \/ StartServer \/ Crash
  \/ DeleteLocalDirectory

Spec == Init /\ [][Next]_vars

(***************************************************************************)
(* Properties.                                                              *)
(***************************************************************************)

(* Whatever busses are added, edited, deleted and imported while the process runs, *)
(* crashes and starts: each configured bus has one object with its properties, and  *)
(* the directories say the same (Bus.addBus, readBussesFromConfig, deleteBus).     *)
BussesMatchFiles ==
  process = "up" /\ ~apart =>
    /\ disk.busses = configBusses
    /\ KnownIds = DOMAIN configBusses
    /\ Cardinality(KnownIds) = Len(busses)
    /\ StaleAmong(busses) = {}

(* A process never starts from what an unfinished import left, whoever tries again  *)
(* or saves in between (ConfigPersistence.read, importLocalZip).                 *)
NeverStartsPartial == [][process # "up" /\ process' = "up" => ~partial]_vars

=============================================================================
