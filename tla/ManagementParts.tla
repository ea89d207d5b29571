--------------------------- MODULE ManagementParts ---------------------------
(***************************************************************************)
(* ManagementParts: an instance of each part that keeps, edits or starts with what  *)
(* users have configured.  A behaviour is one of SlaveReferences or of one of the    *)
(* instances below, and all others stay where they begin.  The parts share no state: *)
(* parts that do are composed in their own modules.                               *)
(***************************************************************************)
EXTENDS SlaveReferences, Sequences, FiniteSets

CONSTANTS
  Connections, NoConnection, Archives, MaxBusId, MaxReloads,        \* of Configuration
  OldFiles, MaxWrites, MaxFaults,                                   \* of SpecificationFiles
  Contributable, Calls, For, Thresholds, EscalateAfter, MaxPulls, MaxRestarts, \* of Contribution
  EditedFiles, MaxEntities, MaxArrivals,                                 \* of SpecificationEditor
  CardIds, CardSpecs, EntitiesOf, Beginnings, MaxCards, MaxSteps, MaxSent, \* of SlaveCards
  Busses,                                                           \* of StartUp
  Detectable, Layouts, MaxDelta, MaxRegisters,                      \* of DeviceDetection
  Ports, Clients, MaxServers, MaxUpdates,                           \* of TcpBridge
  Placeholder, Blank, EnteredValues, Environments, Handwritten, Exported,
  NewConfig, DefaultPort, MaxChecks, MaxEntries                     \* of Settings

VARIABLES
  part,  \* the part that runs
  process, disk, configBusses, busses, reloads, partial, apart, \* of Configuration
  yaml, json, memory, latest, writes, faults, \* of SpecificationFiles
  local, public, upstream, known, pulls, branches, deletions, contributions,
  closing, request, restarts, kept, moved, \* of Contribution
  file, loaded, shown, touched, requests, made, \* of SpecificationEditor
  stored, cards, forms, cache, sent, steps, \* of SlaveCards
  env, directories, stage, logins, connecting, listening, initialised, started, \* of StartUp
  layout, collected, reads, open, values, phase, identified, \* of DeviceDetection
  tcpBridgePort, servers, tcprtuBridge, disturbed, client, \* of TcpBridge
  running, environment, config, mainFile, secrets, archive, configurePage, checks,
  unwritten, torn, entries \* of Settings

Local == INSTANCE Configuration WITH MaxId <- MaxBusId

OneFile == INSTANCE SpecificationFiles

Community == INSTANCE Contribution WITH
  memory <- known, Specs <- Contributable, Requests <- Calls

Editor == INSTANCE SpecificationEditor WITH Files <- EditedFiles, MaxRequests <- MaxArrivals

Page == INSTANCE SlaveCards WITH
  requests <- sent, Ids <- CardIds, Specs <- CardSpecs, MaxRequests <- MaxSent

Server == INSTANCE StartUp WITH request <- logins

Detection == INSTANCE DeviceDetection WITH
  requests <- reads, stage <- phase, Specs <- Detectable

Bridge == INSTANCE TcpBridge

MainConfiguration == INSTANCE Settings WITH
  process <- running, env <- environment, memory <- config, yaml <- mainFile,
  page <- configurePage, apart <- unwritten, steps <- entries,
  Values <- EnteredValues, MaxSteps <- MaxEntries

(***************************************************************************)
(* One of them at a time.                                                    *)
(***************************************************************************)

ASSUME PartsAssumption ==
  /\ Local!ArchivesAssumption
  /\ Community!ContributionAssumption
  /\ Detection!DetectionAssumption
  /\ Bridge!BridgeAssumption
  /\ OneFile!FilesAssumption
  /\ Editor!EditorAssumption
  /\ Page!CardsAssumption
  /\ MainConfiguration!SettingsAssumption

localVars == <<process, disk, configBusses, busses, reloads, partial, apart>>
fileVars == <<yaml, json, memory, latest, writes, faults>>
communityVars ==
  <<local, public, upstream, known, pulls, branches, deletions, contributions,
    closing, request, restarts, kept, moved>>
editorVars == <<file, loaded, shown, touched, requests, made>>
pageVars == <<stored, cards, forms, cache, sent, steps>>
serverVars == <<env, directories, stage, logins, connecting, listening, initialised, started>>
detectionVars == <<layout, collected, reads, open, values, phase, identified>>
bridgeVars == <<tcpBridgePort, servers, tcprtuBridge, disturbed, client>>
settingsVars ==
  <<running, environment, config, mainFile, secrets, archive, configurePage, checks,
    unwritten, torn, entries>>

First(S) == CHOOSE x \in S : TRUE

(* A part that begins in many states stays in one of them while another one runs.  *)
Begin ==
  /\ part \in {"slaves", "configuration", "files", "contribution", "editor", "page",
               "startUp", "detection", "bridge", "settings"}
  /\ Init
  /\ Local!Init
  /\ OneFile!Init /\ (part # "files" => yaml = First(OldFiles))
  /\ Community!Init
  /\ Editor!Init /\ (part # "editor" => file = First(EditedFiles))
  /\ Page!Init /\ (part # "page" => stored = First(Beginnings))
  /\ Server!Init /\ (part # "startUp" => directories = {} /\ env = First(Server!Environment))
  /\ Detection!Init /\ (part # "detection" => \A s \in Detectable : layout[s] = First(Layouts))
  /\ Bridge!Init /\ (part # "bridge" => tcpBridgePort = None)
  /\ MainConfiguration!Init
  /\ part # "settings" => environment = First(Environments) /\ mainFile = None /\ archive = None

Slaves ==
  /\ part = "slaves" /\ Next
  /\ UNCHANGED <<part, localVars, fileVars, communityVars, editorVars, pageVars, serverVars,
                 detectionVars, bridgeVars, settingsVars>>

LocalDirectory ==
  /\ part = "configuration" /\ Local!Next
  /\ UNCHANGED <<part, vars, fileVars, communityVars, editorVars, pageVars, serverVars,
                 detectionVars, bridgeVars, settingsVars>>

FilesOfSpecification ==
  /\ part = "files" /\ OneFile!Next
  /\ UNCHANGED <<part, vars, localVars, communityVars, editorVars, pageVars, serverVars,
                 detectionVars, bridgeVars, settingsVars>>

Contributing ==
  /\ part = "contribution" /\ Community!Next
  /\ UNCHANGED <<part, vars, localVars, fileVars, editorVars, pageVars, serverVars,
                 detectionVars, bridgeVars, settingsVars>>

EditingSpecification ==
  /\ part = "editor" /\ Editor!Next
  /\ UNCHANGED <<part, vars, localVars, fileVars, communityVars, pageVars, serverVars,
                 detectionVars, bridgeVars, settingsVars>>

EditingSlaves ==
  /\ part = "page" /\ Page!Next
  /\ UNCHANGED <<part, vars, localVars, fileVars, communityVars, editorVars, serverVars,
                 detectionVars, bridgeVars, settingsVars>>

Starting ==
  /\ part = "startUp" /\ Server!Next
  /\ UNCHANGED <<part, vars, localVars, fileVars, communityVars, editorVars, pageVars,
                 detectionVars, bridgeVars, settingsVars>>

Detecting ==
  /\ part = "detection" /\ Detection!Next
  /\ UNCHANGED <<part, vars, localVars, fileVars, communityVars, editorVars, pageVars, serverVars,
                 bridgeVars, settingsVars>>

Bridging ==
  /\ part = "bridge" /\ Bridge!Next
  /\ UNCHANGED <<part, vars, localVars, fileVars, communityVars, editorVars, pageVars, serverVars,
                 detectionVars, settingsVars>>

Configuring ==
  /\ part = "settings" /\ MainConfiguration!Next
  /\ UNCHANGED <<part, vars, localVars, fileVars, communityVars, editorVars, pageVars, serverVars,
                 detectionVars, bridgeVars>>

Step ==
  \/ Slaves \/ LocalDirectory \/ FilesOfSpecification \/ Contributing \/ EditingSpecification
  \/ EditingSlaves \/ Starting \/ Detecting \/ Bridging \/ Configuring

allVars ==
  <<part, vars, localVars, fileVars, communityVars, editorVars, pageVars, serverVars,
    detectionVars, bridgeVars, settingsVars>>

(* The fairness of StartUp.                                                   *)
Fairness ==
  /\ WF_serverVars(part = "startUp" /\ Server!Migrate)
  /\ WF_serverVars(part = "startUp" /\ Server!ReadConfiguration)
  /\ \A r \in Server!Requests :
       /\ WF_serverVars(part = "startUp" /\ Server!Timeout(r))
       /\ WF_serverVars(part = "startUp" /\ Server!Settles(r))
  /\ WF_serverVars(part = "startUp" /\ Server!GithubReady)
  /\ \A b \in Busses : WF_serverVars(part = "startUp" /\ Server!ConnectionSettles(b))
  /\ WF_serverVars(part = "startUp" /\ Server!OidcReady)
  /\ WF_serverVars(part = "startUp" /\ Server!Listen)

PartsSpec == Begin /\ [][Step]_allVars /\ Fairness

(***************************************************************************)
(* Properties, explained in the modules of the parts.                          *)
(***************************************************************************)

(* Busses, their configuration and their directories say the same (Bus.addBus,          *)
(* readBussesFromConfig, deleteBus), and what is configured is what another start would   *)
(* read from the files (ConfigPersistence.write, read, importLocalZip).              *)
MemoryMatchesFiles ==
  /\ part = "configuration" => Local!TypeOK /\ Local!BussesMatchFiles
  /\ part = "settings" => MainConfiguration!RestartChangesNothing

(* A process never starts from what an unfinished import left (importLocalZip).          *)
NeverStartsPartial == Local!NeverStartsPartial

(* Neither a crash nor a file that stays brings back an old specification (specPersistence.ts). *)
NothingOldComesBack == part = "files" => OneFile!NothingOldComesBack

(* Memory, files and what is polled agree on contributions, except those an outdated     *)
(* page has renamed, and no specification is lost that was not deleted or renamed        *)
(* (configspec.ts: changeContributionStatus, readYaml).                             *)
ContributionsKept ==
  part = "contribution" => Community!ContributionsKept /\ Community!NoSpecificationLost

(* No two entities of a specification have one id (specification.component.ts: addEntity). *)
EntityIdsUnique == part = "editor" => Editor!EntityIdsUnique

(* What is stored of a slave is what the user saw when saving it (saveSlave).          *)
SavesWhatIsShown == part = "page" => Page!SavesWhatIsShown

(* A start ends, with the program running or ended (modbus2mqtt.ts: init).             *)
EventuallyServes == part = "startUp" => Server!EventuallyServes

(* A bus has one poller, and only when all is set up (httpServerBase.ts: listen).        *)
OnePollerEach == part = "startUp" => Server!OnePollerEach

(* A detection answers for each register it was asked for (ModbusRTUProcessor).    *)
ReadsAreExact == part = "detection" => Detection!ReadsAreExact

(* The bus serves the port that is configured, through the bridge it knows (updateBus). *)
BridgeFollowsBus == part = "bridge" => Bridge!BridgeFollowsBus
=============================================================================
