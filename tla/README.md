# Verification of modbus2mqtt

modbus2mqtt polls Modbus devices over serial lines or TCP and publishes what it reads to an MQTT
broker, for Home Assistant among others. It is a single Node process: no two statements run at the same
time, but promises, timers, sockets and HTTP requests interleave at every `await`, callback and `.then`,
several queues and flags live across those points, and configuration is kept in files that are read
again after a restart. A web page keeps copies of that configuration beside it. This directory models the parts where that makes the code hard to get right.
All definitions are read off the TypeScript sources under `backend/src` and `frontend/src`; `PROJECT.json` (which writes `src/` for the root of the repository) maps each of
them to its lines.

1. [Inventory](#1-inventory)
2. [The modules](#2-the-modules)
3. [What TLC checks](#3-what-tlc-checks)
4. [What is proved](#4-what-is-proved)
5. [Where code and documentation disagree](#5-where-code-and-documentation-disagree)
6. [What is not covered](#6-what-is-not-covered)
7. [Plan](#7-plan)

## 1. Inventory

| Component | Files (`backend/src/…`) | State | Operations | Modelled in |
|---|---|---|---|---|
| Bus request path | `server/modbusRTUqueue.ts`, `modbusRTUprocessor.ts`, `modbusRTUworker.ts` | queue of entries, `isRunning`, register cache, error list, counters per minute | `execute` (queue a call), `run`/`processOneEntry`, `handleErrors`/`retry`/`splitAddresses`, `cleanupCache` | `RtuWorker` |
| Modbus connection | `server/modbusAPI.ts`, `server/bus.ts` | the client of modbus-serial, `connectMutex`, `modbusClientTimedOut`, connection data | read, write, `initialConnect`, `reconnectRTU`, `updateBus` | `ModbusConnection`, `ConnectionService` |
| MQTT connection | `server/mqttconnector.ts` | one MQTT client, its listeners, `onConnectCallbacks` | `getMqttClient`, `executeActions`, events of the library, change of the broker | `MqttConnector` |
| Poller | `server/mqttpoller.ts`, `slaveStatus.ts` | `slavePollInfo` per slave, the batches of ticks | tick, a read that settles or fails, publication | `MqttPoller` |
| Slaves and references | `server/configbus.ts`, `persistence/busPersistence.ts`, `http/routes/slaveRoutes.ts`, `specificationRoutes.ts` | slaves in memory, a file each | write, delete, detach, save or delete a specification, restart | `SlaveReferences` |
| MQTT discovery | `server/mqttdiscover.ts` | subscribed slaves, last published payloads, what the broker retains | publish, republish, withdraw, subscribe, for slaves and busses | `MqttDiscovery` |
| MQTT subscriptions and commands | `server/mqttsubscriptions.ts`, `httpPush.ts` | topics, slaves in the order of subscription | commands, trigger polls, publish and push state | `MqttCommands` |
| State payload | `shared/server/Slave.ts` | none | names of entities as paths into a payload | `StatePayload` |
| Value conversion | `specification/*Converter.ts` | none | registers to values and back | `EntityValues` |
| Cron schedules | `server/cronSchedule.ts`, page of a slave | the expression in the form | parse, match, describe | `PollSchedule` |
| Device detection, register ranges | `server/modbusRTUprocessor.ts`, `bus.ts` | registers of all specifications, results of a detection | collect, join to requests, split, compare | `DeviceDetection` |
| TCP bridge | `server/tcprtubridge.ts`, `bus.ts` | server objects and their ports | start, stop, edit, requests of clients | `TcpBridge` |
| Bus life cycle, import | `server/bus.ts`, `persistence/*` | the list of busses three times, the marker of an import | add, edit, delete, import, crash, restart | `Configuration` |
| Main configuration, secrets | `server/config.ts`, `persistence/configPersistence.ts`, page of the settings | `modbus2mqtt.yaml`, `secrets.yaml`, memory, the form | open, edit, validate, save, export, import, restart | `Settings` |
| Specification files | `specification/specPersistence.ts`, `configspec.ts` | a YAML or a JSON file per specification | read, migrate, write, delete, crash | `SpecificationFiles` |
| Contribution and its poller | `specification/configspec.ts`, `contribution*.ts`, `m2mgithub.ts` | specification status, pull requests, poll timers | contribute, poll, close, delete, rename, restart | `Contribution` |
| Start up | `server/modbus2mqtt.ts`, `config.ts`, `http/httpServerBase.ts` | where the chain of the start stands, ports, pollers | migrate, ask the supervisor, connect, listen | `StartUp` |
| Pages with state of their own | `frontend/src/app/select-slave`, `specification`, `configure` | cards, forms, answers under way | edit, save, cancel, poll, detach, delete | `SlaveCards`, `SpecificationEditor`, `Settings` |
| HTTP server, login | `server/http/**` | sessions, pending OpenID logins | routes | routes of the components above; login not modelled |
| Specification checks | `specification/specDiff.ts`, `specValidator.ts`, `validate.ts` | none | comparisons | not modelled |
| Test server, mocks, tools | `modbusTCPserver.ts`, `submitRequestMock.ts`, … | – | – | not modelled |

How they interact:

```
 page ──HTTP──► routes ──► ConfigBus (slaves, files) ──events──► MqttDiscover ─┐
                  │  └───► ConfigSpecification ──► GitHub                      │ getMqttClient(callback)
                  └──► Bus ──► ModbusAPI (connection, mutex) ◄── TCP bridge    ▼
                                 │ execute                ▲               MqttConnector ◄──► broker
                                 ▼                        │                 ▲        │
                          queue ─► worker ─► device   MqttPoller ───────────┘        │ messages
                                                          ▲                          ▼
                                                          └──────────────── MqttSubscriptions
```

* Calls: a poll, a device detection, a command or a bridge request enters `ModbusAPI`, waits for a
  connection if there is none, and becomes entries of the queue. Its promise is settled by callbacks
  of these entries that count results.
* Shared state: the queue and `isRunning` by all callers of a bus; the client by requests and `updateBus`;
  `onConnectCallbacks` by discovery, poller and subscriptions; `slavePollInfo` by ticks and answers;
  slaves, busses and specifications by requests, with their files as second copy and the pages as a third.
* Events: `ConfigListener` events of `ConfigBus` and `ConfigSpecification` drive the discovery.
* The start runs through all of them once, in a chain of callbacks.

What is hard, and what makes each part correct (all hazards are listed with their lines in
`PROJECT.json`):

* **Request path.** One worker for many callers, restarted by whoever finds it idle; split and retried
  entries that go back into the queue in the middle of a promise chain; a caller that settles by counting.
  Correct means: one request on the line at a time; no register of a call lost or answered twice; the
  most urgent entry first; failures reported though a cached value is served; every promise settled.
* **Connection.** Opening and closing take time, and calls, updates and closing ports interleave with them.
  Correct means: no overlapping open (the device file would stay locked), the settings of the user in use,
  callers served in the order in which they came and by an open port, the mutex always released.
* **MQTT connection.** Callbacks of unrelated users share one list that three events flush.
  Correct means: run in order, on a connected client, nothing waiting beside a connected client.
* **Poller.** Batches of several ticks overlap, each with its counters, and a flag per slave spans them.
  Correct means: never two reads of a slave at a time, never a flag left set, every reading published
  once or visibly dropped.
* **Discovery.** What is published is decided by comparing objects that may be changed under the comparison, and goes
  out later or never. Correct means: the broker ends up with what is configured, and nothing that is gone is served.
* **Commands.** Several writes, a read, a client and an HTTP endpoint in a row, each of which may fail.
  Correct means: a command reported as done has published what the device then had.
* **Conversions, payload, schedule, register ranges.** Algorithms with many corners, and always two of them that must
  agree: to the device and back, description and clock, joining and splitting.
* **Everything with files** (slaves, busses, settings, specifications, contributions). Handlers write several files, and a crash or a
  failure comes in between; copies in memory must say what the next start would read.
  Correct means: nothing configured lost or brought back, no start from half of an import.
* **Pages.** Answers come in any order, for cards that may have been replaced. Correct means: what is stored is what the user
  saw when saving it.
* **Start and bridge.** Callbacks that somebody else runs, or does not. Correct means: the start ends, one poller per bus, one server per bridge.

## 2. The modules

Each component has one module with its state, actions and properties; `…MC` modules give TLC functions and
sequences a `.cfg` cannot write down; `…Proofs` modules extend the component's module with theorems.
Operators preceded by a comment "Mutant:" are variants of the definition that follows, each with a plausible
mistake; they are used to make sure that the properties notice it, and are no part of any specification.

`MqttPoller` and `MqttDiscovery` are composed with `MqttConnector` by `INSTANCE`: each calls `getMqttClient` with callbacks of its own.
`PollingParts` and `ManagementParts` are no composition. They are sums: the variable `part` chooses in the beginning which
instance runs, and the others stay in an initial state. Their state spaces add up, and one run checks them all. Their constants are those of
the parts, renamed where two would be called the same; `PollingPartsMC` and `ManagementPartsMC` give them values, `PollingProofs`,
`ManagementProofs` and `DeviceDetectionProofs` prove about the sums what each part promises, for every value. `FoldProofs` has the lemmas about folds and
least and greatest numbers that several of them cite.

### `RtuWorker`, `RequestService`

`queue`, `isRunning` and `cache` are the fields of the same names. A call `r` has `job[r]` (what it asks
for), `result[r]` (the result maps of `ModbusRTUProcessor.execute`) and `status[r]` (its promise).
`chains` is the set of runs of `processOneEntry` under way; the code never stores it, it is what lives on
the event loop, with the point where a run has yielded:

| stage | the promise chain waits for |
|---|---|
| `wire` | modbus-serial |
| `failed` | the catch of `executeModbusFunctionCodeRead`, which gives the entry up |
| `next` | the `.then` that calls `processOneEntry` again |

`handlers` counts the catch handlers around the running `processOneEntry`; since the chain nests, a
rejection reaches the innermost one. It exists for one purpose, an entry that cannot be executed: with
a handler the chain goes on, without one it ends.

| Action | Code |
|---|---|
| `Submit` | `execute` and `ModbusRTUQueue.enqueue`: one entry per range, insertion sorted by task (`Enqueue`), and `run()` on the first insertion, which takes the entry before the others are pushed |
| `Proceed` | `processOneEntry`: the next entry (`Begin`, from the cache or on the wire), or the end (`Finish`) |
| `ReadSucceeds`, `WriteSucceeds`, `WriteFails` | the answer, `updateCache`, `onResolve`/`onError` |
| `ReadFails` | `handleErrors`: `Report` (`addError`), then split, retry or give up (`Remedy`) |
| `FailPermanently` | `updateCacheError` and the last known value for a poll (`FailureResult`) |
| `GrowOld`, `CleanupCache` | time and the cleanup timer |

Values are abstracted to where a result comes from (`value`, `cached`, `lastKnown`, `error`), timestamps to
three ages: younger than `errorTimeout`, younger than `dataTimeout`, older. Addresses stand for the
registers of all slaves and types of the bus.

`RequestService` is what the callers of a bus rely on: each register asked for gets one result, no result is
revised, the promise settles with the last of them. `ImplementsService` states that the worker implements
it, with `asked` read off `job`.

### `ModbusConnection`, `ConnectionService`

`client` is `modbusClient` with its `isOpen`, `waiting` and `working` are the queue and holder of
`connectMutex`, `config` and `openedWith` the settings of the bus and those the client got. A holder of the
mutex is `closing` or `opening`, the two points where it waits for a callback of modbus-serial.
`Request`, `BridgeRequest`, `InitialConnect` and `UpdateBus` are the ways in; `StartsTask`, `Closed`,
`Opened` and `OpenFails` the life in the mutex; `Attempt` is all that is seen of `RtuWorker`, the outcome of
its requests, which sets `modbusClientTimedOut`; `PortCloses` may happen at any time. `skipped` and `wanted`
are history.

`ConnectionService` is what the callers that share the client rely on: one line in front of the port, first come first served; whoever passes without an
error finds the port open, and nobody reaches the client before there is one. It knows neither settings nor tasks in a mutex. Only
`BridgeRequest` passes the line by, and may meet a closed port. `ImplementsService` maps `port` to `client`, and `line` to the holder of
`connectMutex` in front of `waiting` (`Line`). That no request runs without a client (`NeverWithoutClient`) follows from it, and is a theorem of its own.

### `MqttConnector`

The connector is one record and its operations are functions on it, since `getMqttClient` is called in the
middle of other handlers and sometimes twice. `clients` holds the clients of the mqtt library, those
being ended included, since a client that is replaced lives until its `end` is complete; `ends` are these
pending ends. A step leaves in `run` and `dropped` what it did to the callbacks.

### `MqttPoller`

The callbacks it gives to `MqttConnector` are "publish the readings of these slaves" and
"republish a discovery". `Poll` is a tick, `Settle` the answer to one read, which may call
`getMqttClient` for the discovery and, when it is the last of its batch, for the readings.
`batches` are the closures of the calls of `poll`. `MqttEvent` are the connector's own events, `Announce`
another user of it. Intervals are in ticks, cron schedules are the set of minutes they match.

### `SlaveReferences`

`slaves` is the bus in memory, `files` what `s<id>.yaml` say. Of the fields outside
`OWN_SLAVE_FIELDS` the specification is kept, because it decides whether a file is loaded, and `pollMode`
for all others. Handlers run to their end, so each is one action; a crash between two of
their files is an action of its own that restarts with the files written so far (`CrashWhileClearing`,
`CrashWhileDetaching`; the order in which the files of references are written is left open). Unlinking may
fail, which the code only logs. Reading the files resolves references in the order of the ids
(`Materialized`); it is stated as the function that satisfies the equation of a slave in terms of lower
ids rather than by recursion.

### `MqttDiscovery`

`config` are the slave objects of the bus, `home` is what `MqttDiscover` and `MqttSubscriptions` keep (the subscribed slave,
the payloads published last, the topics of the session) together with what the broker retains, `mqtt` the connector with the callbacks that
wait. The subscribed slave may be the very object the configuration changes: a handle is `Current` while it is, and becomes the
object with its last contents when that is replaced or deleted. This decides what `DiscoveryEntities` finds outdated.

| Action | Code |
|---|---|
| `SaveSlave`, `DeleteSlave`, `DeleteBus` | `writeslave`, `deleteSlave`, `deleteBusProperties`, with the handlers of their events: `onUpdateSlave`, `onDeleteSlave`, `onDeleteBus` |
| `SaveSpecification` | saving a specification for a slave, which gives its object the new contents |
| `SaveSpecificationElsewhere`, `DeleteSpecification` | saving it for a slave that is not on this bus, and deleting it: no event tells of either |
| `PollStarts`, `PollEnds` | a read that ends with `republishDiscoveryIfChanged` for the object it started with |
| `GetSlave` | `getSlaveBySlaveId`, which gives the object what the specification file says |
| `MqttEvent` | events of the connector, which run (`Run`) or drop (`Dropped`) callbacks |
| `Restart` | the program starts again, with the files and an empty memory; the broker keeps its messages |

`lost` and `mute` are history: slaves whose callback was dropped or crossed, and slaves that had no command topic when they were deleted, because their
specification was gone or no longer had an entity that can be written. The code unsubscribes from what `getCommandTopic` names then, not from what was subscribed.

### `MqttCommands`

`request[r]` is where each message or HTTP request stands, `applied` the writes that have reached the device, and the snapshot of a request
what its read has seen. `Receive` is `onMqttMessage` with the dispatch to the first slave whose base topic is a prefix (`Addressee`);
`WriteSucceeds`/`WriteFails` one entity each; `ReadEnds`, `Connects`, `PublishSucceeds`, `PublishFails`, `Pushed` the way of
`publishState`; `Drops` a callback that the connector loses; `PollRequested` and `PollTimeout` the route that polls a slave and its `withTimeout`.

### `EntityValues`, `StatePayload`, `PollSchedule`

Three algorithms, as operators with an action that applies them. `EntityValues` converts registers to values and back (`Poll`, `Command`): number
formats with sign, byte and word order, multiplier and offset; select options, ON/OFF, text. The size of a byte is a constant, so that the
limits are within reach. A text is decoded as UTF-8 by `buffer.toString()`: bytes in the lower half of the range are the characters they stand for (`Ascii`), the others
become something that is none of them (`Foreign`), so that only ASCII texts come back. `StatePayload` builds the payloads of a poll from names like `a.0.b`: a payload is a function from
the paths that exist to what is there, and `Thrown` an exception. `EntitiesKeepTheirPlace` is about entities whose name is in no conflict with another one; the
URL of a push is filled without those whose name begins with an index, since they make the payload an array, for which the code starts from an empty
object (`getResolvedHttpPushUrl` says so). `PollSchedule` has the parser and `matches` of the backend on one side, and the
form and the description of the page on the other.

### `DeviceDetection`

`Detect` collects the registers of all specifications, or takes what was `collected` before, and `Prepare` joins them into
requests: sorted (`Sorted`), by register type, across gaps of at most `MaxDelta`, up to `MaxRegisters`. `Answered` counts
answers, `Split` puts the registers of a request that failed back one by one, `EditSpecification` is the user.

### `Configuration`

`configBusses`, `busses` and `disk` are the three lists of busses, `process` is whether the program is down, reading its configuration or up.
An import leaves any part of an archive with the marker when it crashes (`CrashInImport`) or fails (`ImportFails`); a successful one is reloaded
once the supervisor has answered (`Reload`), by `readBussesFromConfig` with the loop that skips a bus (`Swept`).

### `Settings`

`memory` is `Config.config`, `yaml` and `secrets` its two files, `page` the `ConfigureComponent`. Logins and the token go to the second file
and leave placeholders in the first (`Public`, `Private`, `Read`); what is exported has the placeholders only.
`Checked` is an answer of `validateConnection`, which may belong to an earlier state of the form. `Interrupted` is a save that is cut off before or
between its files. `Completed` are the defaults and the environment that `getConfiguration` puts over the configuration.

### `SpecificationFiles`

`yaml` and `json` are the two files, `memory` the entry of the list of specifications. Reading migrates from any version (`Migrated`); writing is
JSON first and then removal of the YAML file (`Files`), where a crash leaves an intermediate state or half a file (`CrashWith`), and a removal may fail.

### `Contribution`

The local and the public directory, memory, and GitHub: `upstream`, `branches`, `pulls`. A request goes through `Contribute`, `GithubInit`, `RepoChecked`,
`Push`, `CreatePullRequest`, `Contributed` and the best-effort `CleanUp`; `PollTask` and `Tick` are the timers of the poller, with the thresholds
of its interval; `CloseInit`, `CloseAnswered`, `CloseFails` is the one `closeContribution` at a time; `BranchDeleted` a promise that nobody awaits. `Reviewed` is a
maintainer, `Save`, `Rename`, `Delete` the user, `Restart` reads everything back from files. `Rename` has no guard on the status: the code tests the one the page posts, and a page
that was opened while the specification was new has that status for ever. `moved` is history: specifications renamed in this way although they were contributed, which
then have memory and poller but no file.

### `StartUp`

`stage` is the callback the start waits for, `request` stands for each call to the supervisor: sent, with headers, settled, or late, when its timeout
came first and the answer after it. `Proceed` is what the caller does with the first answer, and with a second one. `Listen` opens one port, or two with HTTPS, and
runs the callback that starts the pollers.

### `TcpBridge`

`servers` are the server objects in the order they were made, each open, closing or closed, one without a port being one whose port was in use; `tcprtuBridge` is the one `Bus`
knows. `UpdateBus` is the part of `updateBus` that stops the one and starts the next from the callback.

### `SlaveCards`, `SpecificationEditor`

The pages of slaves and of a specification. `stored`, respectively `file` and `loaded`, are the server; `cards` and `forms`, respectively `shown`, the page;
`requests` what is under way. A request has its effect on the server when it is sent and carries its answer; answers arrive in any
order (`Arrive`), also for cards the page has replaced meanwhile. Of a slave the reference, the specification and the hidden entities are kept; of a
specification the ids of its entities and `nextEntityId`.

## 3. What TLC checks

State counts are those of the complete search; all passing runs are exhaustive for their instance.

| Run | Instance | Distinct states | Properties |
|---|---|---|---|
| `worker_safety` | 3 calls, registers 1–3; poll, poll with a gap, device detections, write, write that cannot be executed; all three ages among polls and detections of registers 1–2 | 987,156 | `TypeOK`, `OneInFlight`, `OwedOnce`, `FailuresAreReported`, `MostUrgentFirst`, `ImplementsService`, `NoHoleWhileYoung` |
| `worker_liveness` | 3 calls, registers 1–3; poll, detection, write, bridge; fair | 168,353 | `NothingLost`, `NeverWedged`, `EveryCallSettles` |
| `worker_wedge` | 2 calls; poll, write, write that cannot be executed | – | `NeverWedged` is violated |
| `connection` | 3 callers that call again and again, 2 lines; fair | 79,384 | `OpensOnlyClosedPort`, `StaleOnlyAfterTimeout`, `EveryCallSettles`, `ImplementsService` |
| `connection_framing` | 2 callers, 2 lines, 2 framings | – | `UpdateReachesPort` is violated |
| `discovery` | 1 slave, 2 entities, 3 versions of the specification, 3 edits; fair | 37,491 | `NoStraySubscription`, `EventuallyAnnounced` |
| `discovery_bus` | the same | – | `BusDeletionWithdraws` is violated |
| `polling` | the sum below; fair | 118,174 | 9, see below |
| `payload_throws` | payloads of two entities | – | `PayloadNeverThrows` is violated |
| `management` | the sum below; fair | 405,417 | 14, see below |
| `contribution` | 2 specifications, one of them contributed, 1 request, 2 pull requests; fair | 107,543 | `PullRequestsNoticed` |
| `slaves_chain` | 3 slaves, 1 specification | – | `OneLevelDeep` is violated |

The parts of the two sums:

| Part | Instance | States, about | Properties |
|---|---|---|---|
| `MqttConnector` | 3 users, 2 brokers, 3 clients at a time | 10,200 | `CallbacksInOrder`, `NobodyWaitsForEver` |
| `MqttPoller` | a slave polled every other tick, one with a cron schedule, one whose read never settles; minutes 0–2 | 8,700 | `PollerAgrees`, `EveryPollEnds` |
| `MqttCommands` | a command with two writes, one whose second write is refused, one for a slave with a similar topic, a poll by HTTP | 80,900 | `DoneMeansSeen`, `PollRequestsAnswered` |
| `StatePayload` | three entities in every order, eight names | 9,200 | `EntitiesKeepTheirPlace` |
| `EntityValues` | bytes of four values; numbers, options, texts, ASCII and others | 7,600 | `CommandsReadBack` |
| `PollSchedule` | 8 × 6 × 3 × 2 × 5 fields, and presets | 1,600 | `FiresAsDescribed` |
| `Settings` | 3 environments, a file by hand, an archive with placeholders, 4 steps of the user | 53,000 | `MemoryMatchesFiles` |
| `Configuration` | 3 archives, 2 connections, ids 0–2 | 30,400 | `MemoryMatchesFiles`, `NeverStartsPartial` |
| `SpecificationEditor` | an old file with two entities, 3 entities, 2 requests | 26,000 | `EntityIdsUnique` |
| `SlaveCards` | 2 slaves, 2 specifications that share an entity, 3 steps | 14,800 | `SavesWhatIsShown` |
| `Contribution` | 2 specifications, 2 requests for one of them, 2 pull requests, 1 restart | 273,000 | `ContributionsKept` |
| `SlaveReferences` | 3 slave ids, 1 specification | 4,500 | `NoCycles`, `FollowsRoot`, `ConfigurationSurvives`, `NoSlaveIsOrphaned` |
| `StartUp` | 2 busses, all environments | 1,800 | `EventuallyServes`, `OnePollerEach` |
| `TcpBridge` | 2 ports, 1 client, 2 updates | 800 | `BridgeFollowsBus` |
| `SpecificationFiles` | old files of each version, 2 writes, 1 fault | 600 | `NothingOldComesBack` |
| `DeviceDetection` | 4 layouts of registers | 400 | `ReadsAreExact` |

### What the runs show

* **worker_safety.** A call can split (detection), retry (poll) or overtake (write) while
  the others are queued or on the wire. The write that cannot be executed is included to show that its
  rejected chain never leads to a second worker. The limit of four retries for crc errors and one for
  the others lets the kind of error change between attempts, which is where `errorCount` could pass a limit.
  Registers pass `errorTimeout` and `dataTimeout` one at a time, before, between and after the reads, and so does
  the cleanup: a poll of two registers can fail with both, one or none in the cache. They do so only while all calls are polls or detections of registers 1
  and 2 (the action constraint `FewJobsAge`), which keeps the search small: the properties about ages are about
  polls, which fall back on the cache, and detections, which are answered from it.
* **worker_liveness, worker_wedge.** The first shows that the worker cannot get stuck or
  lose a register as long as each write has a function code, the second that without this it can
  (section 5). The same property, `NeverWedged`, holds in one and not in the other.
* **connection.** Two calls that find the port closed, an update before, between and after them, and a port
  that closes under each. Three callers are what it takes: one in the mutex, one behind it, one that
  changes the settings meanwhile.
* **discovery.** A specification whose entities change their kind, come and go while the slave is polled, saved, deleted
  and added again, and the program restarts; callbacks wait, run late or are dropped. A slave that is gone is not subscribed again and not triggered, nor sent commands, and a slave that stays is
  announced in the end, unless a callback of its own was dropped or its messages crossed others in flight; that excuse is the history variable `lost`. For commands there
  is another one, `mute`: those of a slave that had no command topic when it was deleted stay subscribed (section 5).
* **polling.** Two requests before the end of a replaced MQTT client is complete create two clients
  with one client id, and the properties of the connector hold nevertheless: three clients are the old one and two replacements.
  An interval of two has ticks at which its slave is due and ticks at which it is not, both
  while an earlier read is still open; with the cron slave and the mute one there are batches that complete at once, late or
  never, beside one another. Of the two commands for several entities one has two that can be written and one that is read only, and either write may fail
  before or after the other one is carried out; the other one has an entity whose register type cannot be written, beside one that can.
* **management, what is stored.** `MemoryMatchesFiles` and the properties of the slaves say that another start would find what the process works with, whatever was
  saved, imported, or interrupted before; `NothingOldComesBack` and `ContributionsKept` say it of specifications, also when one is renamed, from an outdated page too. An interrupted import is tried again, given up,
  or answered by restarts until someone removes the directory. Three slaves are the smallest chain of references, the smallest circle that a check of one end
  of a reference could miss, and a root with two references that are detached one after the other.
* **management, the pages.** Every order of answers to two requests under way. Polls, cancelled edits and a second listing replace a card in the
  middle of a save. Entities are made while the answer with the ids of the file is still out.
* **management, start, bridge, detection.** A start with every step failing, answers of the supervisor that come after their timeout, two busses of which each may fail to connect; a bus edited
  while its bridge closes; requests that are joined across a gap, split by length and split again by an error.
* **contribution.** One contribution is polled since the restart, the other one since its request. Checks fail, are
  left out and are made up for, pull requests are merged and closed, specifications saved, renamed and deleted in between. A pull request that is decided is noticed unless
  that of the other specification is still open, or that specification was renamed away and its check can do nothing but fail. In these two cases it need not be (section 5).

### What the properties excuse

Each excuse is a variable marked "history" or a condition in the property, and a case in which the code promises nothing, or breaks its promise in a way
section 5 or 6 names: a callback that the connector dropped (`lost`); the commands of a slave that had no command topic when it was deleted (`mute`); a contributed specification that
an outdated page has renamed, until the next start (`moved`); files changed by hand or reset by an import before the next
start (`apart` of `Configuration` and `Settings`); the very first save interrupted between the two files, after which the placeholder is taken for the login (`torn`); an edit
of the bus while a bridge is closing (`disturbed`); a second fault (`SpecificationFiles` has one).

### Bounds

| Bound | Where | Why it is enough |
|---|---|---|
| each call of `RtuWorker` is made once | `Requests` | calls share nothing but queue and cache, so three cover one on the wire, one queued and one arriving |
| `MaxAge` | `GrowOld` | the code tells three ages apart; 0 leaves time out where no property depends on it |
| `MaxClients` | `Request` of `MqttConnector` | no more replacements at a time than clients; another one would repeat the second. 1 in `MqttPoller` and `MqttDiscovery`, whose subject it is not |
| `MaxListeners` | `Reconnected` | reconnect listeners are leaked without limit; a reconnect drops a callback per listener, and 2 tell "one" from "several" |
| `MaxMinute` | `MinutePasses` | two scheduled minutes: a late answer can swallow the second poll |
| `MaxEdits`, `MaxVersion`, `MaxPending` | `MqttDiscovery` | a change, another one before the first is published, and one that takes the first back |
| `MaxId`, `MaxReloads` | `Configuration` | three ids have a gap in the middle; two imports may both wait for the supervisor |
| `MaxChecks`, `MaxSteps` | `Settings` | a first save takes four steps: open, a server, something else, save |
| `MaxWrites`, `MaxFaults` | `SpecificationFiles` | a write over the migrated file, and one over that |
| `MaxPulls`, `MaxRestarts`, `Thresholds` | `Contribution` | a pull request that is closed and one that follows; the interval grows once in `management` and has one length in `contribution`, whose restart is its initial state |
| `MaxEntities`, `MaxRequests` | `SpecificationEditor` | the page makes one entity more than the file has, with the answers to both of its first requests still out |
| `MaxCards`, `MaxSteps`, `MaxRequests` | `SlaveCards` | a card that is replaced while a request of it and another one are out |
| `MaxDelta`, `MaxRegisters` | `DeviceDetection` | constants of the code, made small |
| `MaxServers`, `MaxUpdates` | `TcpBridge` | a bridge replaced by one on another port and that one again |

`CHECK_DEADLOCK FALSE` is used where an instance comes to rest: for `RtuWorker`, whose calls are used up; for `MqttDiscovery`, whose edits are;
for `Contribution` without open pull requests; and for the two sums, in which several parts end. `SYMMETRY` over the calls is used in `worker_safety`, which
checks no liveness.

### Fairness

Callers, users, brokers that go away, maintainers and devices that fail are never obliged to do anything.

* `RtuWorker`: `WF(WorkerStep)`. modbus-serial answers or reports a timeout for each request, and
  Node runs the microtasks of a promise chain.
* `ModbusConnection`: modbus-serial calls back from `open` and `close` (well or badly), a promise
  in `connectMutex` goes on when the mutex is released, and the queue settles each call, which is
  `EveryCallSettles` of `RtuWorker`.
* `MqttConnector`: a client that lives gets connected while the broker can be reached, and the
  library completes `end`. A broker that never comes back leaves callbacks waiting or drops them, which no
  property excludes.
* `MqttPoller`: each read of a slave that has registers settles, again `EveryCallSettles` of `RtuWorker`. A
  slave whose specification has no register to ask for is not covered by it (`Mute`).
* `MqttDiscovery`: the broker can be reached in the end, and a slave is polled again and again (`EveryPollEnds`).
* `MqttCommands`: the timer of `withTimeout` fires; nothing else is owed.
* `Contribution`: timers fire (weak), and GitHub, asked again and again, answers in the end (strong). Which of two timers that are due comes first, and how long a
  check takes, is left open.
* `StartUp`: the program's own steps and its timers happen, a connection that is tried settles well or badly, and so does an
  answer whose headers have arrived. The supervisor may stay silent, and the timeouts are what ends that. `GithubReady` assumes that the `git` and `gh` child
  processes end, well or badly: nothing in the code limits their time.
* All others state safety only.

## 4. What is proved

TLAPS proves the following for every value of the constants that satisfies the named `ASSUME`s of the
module: any number of calls, registers, jobs, retry limits, lines, framings, slaves, specifications, archives and busses.

| Module | Theorem | Property |
|---|---|---|
| `RtuWorkerProofs` | `TypeCorrect`, `OneRequestAtATime`, `NoRegisterOwedTwice` | `TypeOK`, `OneInFlight`, `OwedOnce` |
| | `WorkerImplementsService` | `ImplementsService` |
| | `NoSilentFailure`, `YoungValuesHold` | `FailuresAreReported`, `NoHoleWhileYoung` |
| | `NothingGetsLost`, `WorkerNeverWedged` | `NothingLost`, `NeverWedged`, for jobs without a write that cannot be executed (`AllWritable`) |
| | `UrgentWorkFirst` | `MostUrgentFirst` |
| `ModbusConnectionProofs` | `TypeCorrect`, `NoOverlappingOpen`, `StaleByTimeoutOnly`, `ClientBeforeRequests` | `TypeOK`, `OpensOnlyClosedPort`, `StaleOnlyAfterTimeout`, `NeverWithoutClient` |
| | `ConnectionImplementsService` | `ImplementsService` |
| `SlaveReferencesProofs` | `TypeCorrect`, `ReferencesAcyclic`, `RootIsFollowed`, `NobodyOrphaned`, `NothingForgotten` | `TypeOK`, `NoCycles`, `FollowsRoot`, `NoSlaveIsOrphaned`, `ConfigurationSurvives` |
| `MqttDiscoveryProofs` | `NobodyStraysBehind` | `NoStraySubscription` |
| `ManagementProofs` | `PartialImportNeverServes` | `NeverStartsPartial` (`Configuration`) |
| | `RestartsChangeNothing` | `MemoryMatchesFiles` (`Configuration`, `Settings`) |
| | `ContributionsAreKept` | `ContributionsKept` (`Contribution`) |
| | `OnePollerPerBus` | `OnePollerEach` (`StartUp`) |
| | `OldFilesStayAway` | `NothingOldComesBack` (`SpecificationFiles`), for at most one fault (`MaxFaults <= 1`) |
| | `BridgeServesThePort` | `BridgeFollowsBus` (`TcpBridge`) |
| | `EntitiesAreTold`, `ShownIsSaved` | `EntityIdsUnique` (`SpecificationEditor`), `SavesWhatIsShown` (`SlaveCards`) |
| `PollingProofs` | `NobodyOvertakes` | `CallbacksInOrder` (`MqttConnector`) |
| | `ReadingsArePublished` | `PollerAgrees` (`MqttPoller`) |
| | `CommandsAreSeen` | `DoneMeansSeen` (`MqttCommands`) |
| | `TextsTellTheTimes` | `FiresAsDescribed` (`PollSchedule`) |
| | `CommandsComeBack` | `CommandsReadBack` (`EntityValues`) |
| | `EntitiesInPlace` | `EntitiesKeepTheirPlace` (`StatePayload`) |
| `DeviceDetectionProofs` | `DetectionReadsAll` | `ReadsAreExact` (`DeviceDetection`) |

With these, every invariant and every action property of a passing run is a theorem; what is left to TLC alone is liveness. `FoldProofs` holds lemmas only.

What is assumed of the constants is what the code or the shape of the data gives: addresses are numbers, jobs are of the kinds the callers make, a retry
limit is a number (`RtuWorker`); files have one of the known versions, and old files of specifications have no two entities of one id (`FilesAssumption`,
`EditorAssumption`); a slave in a file references one of the same directory (`CardsAssumption`); the texts that may be entered are not the placeholder of a secret
(`SettingsAssumption`); presets are texts the page offers (`ScheduleAssumption`); a byte has at least two values, the
registers of an entity are as many as its format or text length needs, and commanded texts have characters of one byte, of which those above ASCII need not come back (`ValuesAssumption`); the entities of a slave come in a sequence, and a name has at least one part (`PayloadAssumption`);
slaves, specifications and their registers are finitely many, as they are counted or
gone through one by one (`PollerAssumption`, `CardsAssumption`, `DiscoveryAssumption`, `DetectionAssumption`). The values that stand for "nothing" differ from all others. TLC evaluates each of these on the runs of the module.

The arguments:

* **Worker, safety.** `OwedOnce` alone is not inductive: an entry taken by a second worker, or one of
  a call that was never made, could owe anything. `IInv` adds `OneInFlight`, that a worker which is not
  running has neither chain nor entries (`IdleHasNoWork`), and that a call not yet made has no results and no
  entries (`FreshCalls`). The lemmas about `Enqueue` say that its result holds exactly the old and the
  new entries and keeps them pairwise apart; those about `SplitEntries`, that the parts are apart and lie
  within the entry they replace.
* **Service.** Each step that gives results is `Answer` of the call concerned, `Submit` is `Submit` or
  a submission answered from the cache at once, everything else stutters. It needs that a call is settled
  exactly if its results are complete (`SettledWhenComplete`) and that only registers asked for have
  results (`OnlyAsked`), both of which rest on `OwedOnce`: counting results is sound because none
  is given twice.
* **Worker, progress.** With `AllWritable`, no rejection escapes: `PInv` adds that every entry can be
  executed (`ExecutableWork`), and then a running worker always keeps a chain, and a register is
  handed from the queue to the chain to the results without a gap.
* **Connection.** The heart of `IInv` is what a call in the mutex knows: at most one call holds it
  (`OneHolder`); while it opens, the client is closed (`OpensClosed`); only updates close
  (`ClosesForUpdate`); a call that opens with outdated settings has an update waiting behind it
  (`OutdatedTarget`); and for an outdated open client an update waits, is closing it, or was skipped after a
  timeout (`OutdatedClient`).
* **Slaves.** `IInv` is `TypeOK ∧ NoCycles ∧ FollowsRoot`. Circles are excluded since each write
  either keeps a reference, removes one, or points at a slave that has none (`Acceptable`), which any
  subset of slaves survives (`PersistedAcyclic`). `SInv` adds that the file of a standalone slave says what
  is in memory (`Stored`), from which a restart, complete or in the middle of a handler, gives back each
  configuration.
* **Worker, errors.** An entry carries the operation and the options of its call through every split and retry (`GenuineWork`); a read reaches its catch only
  after `addError` (`ReportedFailures`), and hence every error in the cache is on the error list for its register (`ReportedErrors`). What a call is then told
  is either from its own entry or from the cache it reads through. `YoungValuesHold` follows from the same invariant, since a failed poll looks into the cache for each of its registers.
* **Worker, order.** The queue is sorted by urgency whenever a callback is over (`Sorted`): in a sorted list the entries that are at least as urgent as a task are
  a prefix (`AheadIsPrefix`), behind which `Enqueue` puts what is new, parts of a split included. The head is what goes on the bus next.
* **Connection, client.** A call that has left the mutex without an error has seen a client, and `modbusClient` is never unset; so a request reaches the queue with one.
* **Connection, service.** On the invariants of the last two points: `StartsTask` with a task that goes on moves the first of those who wait to the holder, which leaves `Line` as it is
  (`LineTaken`), a call that queues is appended behind both (`LineAppend`), and the end of a task takes the head away (`LineHeld`), by `Admit` or `Refuse`. That the
  holder is one (`OneHolder`) makes the line well defined; that it has a client (`OpensClient`) makes `Closed` and `Opened` steps of a port that exists. `PortCloses` and `Closed` are `Shut` or nothing.
* **Connector.** Nobody waits beside a connected client unless an `end` is under way (`Flushed`), which needs that the client is one that lives, and that there is
  always one left to replace those being ended (`Sound`). What a step ran or dropped is then all of what waited, in the order of the calls.
* **Poller.** That a flag means a read is only inductive together with the batches being apart: no slave is open in two
  of them (`BatchesApart`), since a tick takes a slave only when its flag is not set (`FlagsFit`). The counters go down by exactly the
  read that settled (`CountersFit`), and a batch whose counter is zero has its callback with the connector or its readings published (`ReadingsHeld`).
* **Discovery.** A slave that has left the configuration is either not subscribed or the callback of its deletion still waits (`Withdraws`), and a slave that is not subscribed is not
  triggered (`Silent`) nor, unless it is in `mute`, sent commands (`Hushed`): the callback of its deletion names the command topic of every slave that has one (`Addressed`). No callback subscribes anybody or has
  a slave triggered that is not subscribed (`Quieter`), in whichever row they run, and a deletion that waited is afterwards waiting still, has run, or was dropped (`Passes`),
  which is when its slave is entered in `lost`. A restart announces the slaves it finds, in any order, and no others (`AnnouncedAreSubscribed`).
* **Commands.** Of each entity a command is to write, the write is still open or has reached the device (`WritesAreFollowed`); a snapshot is taken when none is open and
  nothing takes it back.
* **Schedules.** This is a fact about the operators: of each shape that `describeCron` puts into words, the minutes, hours and days it names are those the parser
  computes from the fields (`DescriptionsAreRight`), for all numbers in the fields, those out of range included, which never fire; the presets of the page are accepted and described.
* **Import and configuration.** Whatever an unfinished import has written is marked (`PartialIsMarked`), as the marker is the first file of any part
  of it and every other writer leaves it where it is; reading the configuration refuses a marked directory (`ReadWithoutMarker`). The two lists of busses refer to one another
  (`Refers`), each bus once (`Apart`), and to the files unless these were changed beside the process (`BussesAgree`). Logins
  and the token: no placeholder is ever in memory, in the secrets or on the page (`SecretsAreFiled`), and from that memory is what reading both files and
  completing them would give (`MemoryIsFiled`); a first save cut off between its files is excluded, with the history variable `torn`, since there the
  placeholders do become the logins (see 5).
* **Specification files.** As long as nothing has failed there is one file (`OneFileUndisturbed`), and the JSON file, when there is one that is not broken, has what was saved last
  (`LatestIsThere`); so the one fault that may come finds either the old file or the latest one to fall back to. After two faults, a removal that fails and later a broken file, the
  older contents do come back; hence the hypothesis of the theorem, which is also the bound of the run.
* **Contribution.** A pull request that a contributed file, memory, a poller, a request or the running check refers to is one of that specification (`FiledPulls`, `CallsInv`, `CheckInv`),
  also if an outdated page has renamed it, and one that was merged has brought its specification upstream (`PullsInv`); so what a closed contribution removes from the local directory is public.
* **Start.** A request that still counts belongs to the stage that waits for it (`CallerWaits`); so an answer either lets the start go on, once, or is
  recognised as late. Pollers and ports come only after that stage (`NobodyPollsEarly`, `RoutesBeforePort`).
* **Bridge.** All servers but the last are closed; the last is open with the port of the bus, or closing with a callback that opens that port (`LastFollows`).
* **Pages.** The page, the file and each body under way have entities of different ids (`EditorInv`), since a new id is greater than all those of the page. Each answer to a
  save still belongs to what was shown when it was sent (`Faithful`), and every other answer leaves the stored slaves alone (`PageInv`).

* **Values.** What a command leaves in the registers stays until the next one (`ValueInv`). A number is published from all of its registers or not at all, a text that was read in
  part is shorter than what was commanded. For numbers there is a lemma for each step of both conversions: bytes and words swapped twice are as before (`SwapBack`), a
  signed number comes back from its remainder (`SignedBack`), and a quotient times the multiplier, also a negative one, misses the dividend by less than the multiplier (`NumberBack`).
* **Payload.** For one entity whose name is in no conflict, a tree is *passable* if whatever lies on the way to its place is a container of the right kind (`Passable`). Assigning
  another entity keeps that and leaves the value at the place as it is (`KeepsOthers`): the two names part at a step where both go on, so what the other one makes, replaces
  or gives up on lies off the way. Its own assignment finds the way free and puts the value there (`SetsItsOwn`).
* **Detection.** Sorted registers exist and leave none out, since the number of registers before one is its place (`RegistersAreSorted`). Each register that is joined
  to the requests so far keeps them in order, within their length, and covering what they covered (`JoinedKeeps`); so requests have no register in common, and the count of
  addresses is the number of registers (`CountIsExact`). While a detection runs, results and open requests are apart and together make up what is
  asked for (`Reading`); splitting a request changes neither. Hence the results are as many as the addresses with the last answer, and not before.

None of the installed provers can instantiate the library's induction theorems. Where a fold or a
count over a set had to be reasoned about, the lemma `UpToByOne` (a set of numbers that contains 0 and with each its successor) takes their place. It is proved from the smallest element of a
set of numbers, and that from the smallest subset of a finite set. A fold is the function it is defined by, which has to be shown to exist (`FoldIsThere`, `FoldedUpTo`); after
that it is followed step by step (`PreparedStepwise`, `BuiltStepwise`).

Two definitions were rewritten so that they can be reasoned about, and mean what they meant: `ReadWithout` of `EntityValues` and `Sorted` of `DeviceDetection` used
`SetToSortSeq`, which rests on `SortSeq` of the `TLC` module, of which the provers have no definition. And two properties said too much, which the instances had not shown.
`EntitiesKeepTheirPlace` said of all entities that the URL of a push has their value, also of those whose name begins with an index. `CommandsReadBack` said
of a selected name that it comes back if one of its keys gives it back; of two keys with one name, the converter may take the other one.

Only model-checked:

* every liveness property, since TLAPS 1.4.5 does not handle fairness and `ENABLED`: `EveryCallSettles` of calls and of connections, `NobodyWaitsForEver`, `EveryPollEnds`,
  `PollRequestsAnswered`, `EventuallyAnnounced`, `PullRequestsNoticed`, `EventuallyServes`;
* the five runs that show a disagreement.

No module has a `RECURSIVE` operator, with which the provers would not work.

## 5. Where code and documentation disagree

Each is the counterexample of a run with `expect: violation`; quotes and lines are in `PROJECT.json`.

| Run | What happens |
|---|---|
| `worker_wedge` | A command for an entity whose register type cannot be written (a discrete input) reaches an idle worker. `processOneEntry` returns a rejected promise nobody handles, `isRunning` stays set, and all later calls of the bus wait for ever. |
| `connection_framing` | `connectionChanged` does not compare data bits, parity and stop bits. Editing only these is answered as a success, is not stored, and does not reach the port. |
| `slaves_chain` | The check that keeps references one level deep looks at the referenced slave only; a slave others reference may itself become a reference. |
| `discovery_bus` | `onDeleteBus` discards the result of `concat`, so the list of withdrawals stays empty: Home Assistant keeps the entities of a deleted bus. |
| `payload_throws` | An entity named like the place another one needs for its children makes `setByPath` throw from the poll, where its comment says that conflicts are skipped so that building a payload never throws. |

What was met on the way and has no run:

* A slave is deleted after its specification was deleted, or lost its last entity that can be written: `getCommandTopic` names no topic any more, so `onDeleteSlave` leaves
  the command topics subscribed (`mqttdiscover.ts:465`), although the comment at line 345 has the slave unsubscribed. `NoStraySubscription` without its last excuse is violated by this.
* Two contributions are polled in step and share `inCloseContribution`. Each check of the second is due while the first is being checked, and left out for a whole interval: its pull
  request is merged, and nobody notices while the other one is open. `PullRequestsNoticed` without its second alternative is violated by this, without any edit or failure.
* A page opened before the contribution still posts the status `added`, which is all that the check "Cannot rename a published file" (`configspec.ts:198`) looks at. The contributed
  file is unlinked, memory and poller keep it: `ContributionsKept` does not hold of the specifications in `moved`.
* A reading that completes while the broker is away leaves the list of `executeActions` without its callback being run.
* Deleting the specification of a referenced slave writes a file that is not loaded again; after a restart its references have no root.
* The command of several writes has no catch: one that fails leaves its promise unsettled.
* A message for `s10` goes to `s1` when that was subscribed first, its base topic being a prefix.
* A bus that stands behind a removed one in the list is not looked at when the configuration is read again, and stays until the next start.
* The comment at the poll intervals of a contribution speaks of seconds, minutes, hours and days. A tick is 15 seconds and a threshold `value / 100` ticks, so the first interval of
  "5 seconds" is 51 ticks, about 13 minutes.
* The poller of a contribution whose specification was renamed away fails at each check and goes on until the next start, and meanwhile takes the turns of others.
* A text with characters above ASCII does not come back from its registers: it is written byte by byte, and read as UTF-8.
* Pollers are started once, when the port is open (`modbus2mqtt.ts:161`). A bus that is added or imported later is not polled before the next start, although
  `docs/getting-started.md:140` has data "automatically polled at the interval you configured"; the poller of a deleted bus is not stopped, and goes on with a new bus of the same id.
* After an import `MqttConnector.resetInstance` replaces the connector, but discovery, subscriptions and running pollers keep the one before it; both use the same client id.
* The page of a schedule loops for ever on a step of zero, which the parser refuses.
* On the page of the settings, an answer to an earlier check enables saving a broker that was not checked; a token nobody entered is posted as `['']`; a token
  that is cleared stays; the language alone is not saved without a server. If the very first save is cut off between its files, the
  placeholders are taken for the logins.
* Passwords with quotes or backslashes do not survive the way through `secrets.yaml`, since they are pasted into the text before it is parsed; nor do those with `$$`, which `replace` interprets.

## 6. What is not covered

* Within the modelled components, as listed in `PROJECT.json` under `components`: the request counters per minute and the error list's
  order, length and expiry (`RtuWorker`); `fakeModbus` (`ModbusConnection`); TLS settings
  (`MqttConnector`, `Settings`); the error list of a slave (`MqttPoller`); images and documents of specifications; texts of issues and pull requests;
  the encrypted token of a push and the fields that are a slave's own (`SlaveReferences`); floats (`EntityValues`).
* The poller of a bus after its start: what becomes of it when busses are added, imported or deleted; `MqttConnector.resetInstance` after an import.
* `MqttDiscovery` is checked with one slave (`NoStraySubscription` is proved for any number): what two slaves do to one another through prefixes of topics is in `MqttCommands` only.
* A written register is not told apart from a read one: that a failed poll after a write serves the value from
  before it (the cache is not touched by writes) is a hazard listed without property.
* `StartUp` has no exceptions thrown within `startServer` itself, only steps that fail and answers that come late or never.
* File writes succeed or fail as a whole, except those of specifications, which a crash may leave broken.
* `HTTP server, routes and sessions`: the routes are glue and part of the actions that serve them; sessions and the login with OpenID Connect are left for
  a module of their own.
* `Specification checks` compare two specifications and keep no state; development tools, formatting and logging are left out.

## 7. Plan

1. **More of the system.** The pollers of busses that come and go, with `MqttConnector.resetInstance`; `OidcLogin` (sessions, a login that is answered twice or after its time); the worker's error list and counters; the page of an entity; push tokens
   and certificates; the specification checks as pure functions.
2. **Larger instances.** `MqttDiscovery` with two slaves of one specification, `Contribution` with a restart in the middle of two requests, each in a run of its own.
3. **More proofs.** That `StartUp` implements an abstract service, as the worker and the connection do.
