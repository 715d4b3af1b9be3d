# A verification of the AutoDRIVE Race Control Tower

TLA+ models of the Race Control Tower (RCT, `rct/`), the TLC configurations that check
them on small instances, and proofs that TLAPS checks for every instance.

RCT is one Python process on one asyncio event loop. It stands between a simulator
(Socket.IO server side), a handful of DevKits (RCT is their Socket.IO client) and the
browsers of race control (plain WebSockets and REST). Asyncio switches tasks only where a
coroutine really suspends, so an action of these modules is the code between two such
points, and what can go wrong is what happens in between.

## Inventory

| Part | State | Operations | What makes it hard |
|---|---|---|---|
| Bridge relay (`server.py` 1081-1282, `bridge.py` 17-136) | `bridge_history`, `control_cache`, each DevKit's `queue`, `control_queue`, `awaiting_initial_bridge`, `connected` | a simulator's frame and its answer, `on_connect`, a DevKit's control, `send_loop`, `control_loop` | handlers of several frames at once; a broadcast in the middle of a handler; full queues; a control answered with a *later* frame; reconnections that keep queues |
| DevKit lifecycle (`server.py` 361-543, 1018-1079) | the three task handles, `enabled`, endpoint, the client's connection | `start`, `stop`, `configure`, `run`, and the handlers that call them | `stop` suspends up to four times, twice for broadcasts that have no timeout, and owns the handles meanwhile; commands and the simulator's connect and disconnect overlap |
| Monitor hub and shared state (`monitor.py`, `state.py`, `server.py` 604-637, 986-1016, 1540-1607) | `clients`, `RaceControlState`, sockets, rate tracker | join, leave, broadcast, `publish_status`, the refresh loop, REST GETs | sockets that stall or break in a broadcast; the set changes while it is iterated; handlers that change the state, await `stop` and publish later; a read that also refreshes |
| Payloads (`protocol.py`, `server.py` 282-332, 1284-1320) | `latest_front_camera_fields`, topic selections, presplit payloads | rewriting ids in both directions, the topic filter, the presplit | two paths that must agree; values cached under one selection and sent under another; key collisions |
| Monitor messages (`server.py` 1381-1430) | none of their own | debugging events to the simulator or DevKits | producers that need no simulator, while nothing drains the queues |
| Telemetry (`bridge.py` from 193, `server.py` 955-984, 1162-1199, 1546-1574, 618-630) | `monitor_vehicle_telemetry`, `monitor_vehicle_positions`, `trace_lidar_vehicle_ids` | reading events, merging what they tell, broadcast or stream, the trace-lidar command | partial, damaged and topic payloads; scans that need a position; keys that only look like a scan |
| REST validation, protocol paths, configuration, static files, Engine.IO compatibility | none, or constant | parsing, serving | - |
| Browser (`frontend/index.html`) | last status and telemetry, trace buttons with their requests, pending edits | reception, commands, drawing | presses and edits that cross statuses; lost requests; a page loaded again |

The parts call each other in one process: the simulator's `connect` starts every DevKit,
its `disconnect` stops them; a frame goes into the history and to the DevKits owed one; a
control goes through `control_queue` into the cache, and the answer to each frame is the
cache. Almost every handler also broadcasts to the monitors and awaits that, which is how a
browser comes to matter to the control path.

What makes each part right:

* Relay: a DevKit's controls take effect in order and the last one stays, overflow or not; the simulator
  never goes back; no DevKit misses the frame that starts its exchange, unless another event pushes it out of a full
  queue; everything queued moves on.
* Lifecycle: an enabled DevKit has its tasks and keeps dialing while a simulator is there, a disabled one has
  none and no connection; no task without a handle; no two enabled DevKits on one endpoint; commands return
  while the monitors read.
* Hub and state: the count of monitors is that of the sockets; what a monitor shows never gets older, and is the
  current state once its socket is drained and whoever changed it has published; every change reaches a monitor that reads, whatever the others do.
* Payloads: a DevKit gets its own part of a frame, all of it and nothing else, less the topics that are
  off; it makes no difference when its payload was made; its controls come back under its own id.
* Telemetry: what the tower knows of a vehicle is the last valid reading, field by field; a scan is one its
  LiDAR made while it was traced, laid where the vehicle then was; the page shows all of it.
* Browser: commands come from what the operator sees; a vehicle is traced while its button is held; an edit is
  not undone by an older status.

The hazards are listed, each at its line, in `PROJECT.json`.

## Modules

* **`BridgeRelay`** models the relay. `SimulatorBridge` is `handle_simulator_bridge_event` up to its
  telemetry broadcast, `Echo` the rest of it; `OnConnect`, `Drop`, `Connect` and
  `ConnectFails` are a DevKit's connection; `SendNext` and `SendHeld` are `send_loop` with
  and without a connection; `TakeControl`, `Merge`, `AwaitFrame` and `Answer` are
  `control_loop` and `process_devkit_bridge_control` between their four suspension points;
  `SimulatorDisconnect` includes what `stop` does to every DevKit; `MonitorEvent` is an operator's debugging event. The caches' locks are
  never contended (no one suspends while holding one) and a put never waits (the oldest
  item is dropped first), so neither is a point of its own. A frame is its number, its time
  stamp and the DevKits for which the filter and the rewrite leave something; a control is its
  number, its time stamp and the ids whose fields it names. `view` is not in the code: it is the
  control cache the simulator last received. `sent`, `pushed`, `session`, `cancelled`, `served` (a frame was
  emitted to the DevKit in this session) and `displaced` (an event took a queued frame's place in a full queue)
  are history the properties speak of.
* **`ControlRegister`** is what the control path promises: a register of one entry per vehicle,
  written by DevKits in the order of their controls, read whole by the simulator.
  `BridgeRelay` implements it with `register <- cache`, `seen <- view`.
* **`BridgeRelay_proofs`** has its theorems, **`FrameOrder_proofs`** the one about the order of frames.
* **`DevKitLifecycle`** models the tasks behind the handles of each DevKit. A handler that calls `stop` is a
  record in `handler` that says where it is and what it does when `stop` returns (`kind`; a retired DevKit is
  stopped a second time). It is in `client.disconnect()`, awaiting the status broadcast of `on_disconnect`
  (`notify`) and then the closed connection (`closing`); in the gather (`joining`); or in the broadcast of `stop`
  itself (`publishing`), which a DevKit that still or again counts as `connected` gets, as when its `on_connect` ran
  during the gather. `Place` says where a `stop` suspends first, `Halt` what it did until then, `Conclude` what it
  does after the gather. A broadcast returns when `monitor`, one browser, reads. Task ids are reused once free. The send and control loops
  are started and cancelled by the same lines and are one task here. `simulators` is
  `simulator_sids`: the first to come starts the DevKits, each further one starts what is not running, the last
  to leave stops them.
* **`DevKitLifecycle_proofs`** has its theorems, for handlers one at a time.
* **`MonitorHub`** models sockets, broadcasts under way (`flight`: who still has to start, who waits for
  the socket to drain, who failed), the handler of each socket, the changes of
  `RaceControlState`, and the rate of one DevKit with its refresh loop. `Change` and `Command` are the handlers
  that publish what they change without a suspension in between. The others are in steps: `StopBegins` (the
  state may change before `stop`, which may cancel a control's broadcast), `StopNotifies` (the status that
  `stop` publishes itself), `StopReturns` (what changes after it, and the status of its caller). A failed dial and a
  rejected `configure-devkits` (`ConnectFails`, `Rejected`) leave a change that nobody publishes (`unpublished`). `Active` bounds
  whose handlers get commands. A `Monitor` is one
  socket; a browser that reconnects is another one.
* **`MonitorHub_proofs`** has its theorems.
* **`TelemetryExtraction`** is what `bridge.py` reads out of an event, as operators without recursion (they fold
  over the items of the payload, in order). A key is the vehicle it names and the words the code looks for in
  it, a value its form (text, packed, number, list, dict, points, ranges) and its numbers; `Junk` is an item
  that is no number. Rejected values, topic messages that silence the items beside them, and the
  order in which keys are tried are those of the code; geometry is not.
* **`Telemetry`** is one tower, one browser and the socket between them. `Event` is `publish_simulator_telemetry`;
  `Press`, `Release` are the trace button, which posts only what it does not show already and chains a vehicle's
  requests; `Serve` is the trace-lidar handler, `Fail` a lost request, `StreamStatus` and `StreamTelemetry` the
  two sends of `monitor_stream_loop`, `Receive` the page, `Load` the page opened again, `PublishStatus` any other
  handler that publishes. `log`, `loaded`, `upset` and `misled` are history the properties speak of.
* **`Telemetry_proofs`** has the theorems about the trace button, **`TelemetryCache_proofs`** those about the
  cache and the page.
* **`VehicleRewriting`** has `protocol.py` as recursive functions on trees. A text is the set of ids the
  patterns find in it and the rest of it; a dict is the set of its items, and of items whose keys are renamed to
  the same one either may stay (in the code the last one does). `Words` is what the rest of a text
  may be, `Depth` how deep a payload may be nested: a number of any size, so that the functions have a domain.
* **`VehicleRewriting_proofs`** has theorems about the rewriting alone.
* **`DevKitPayload`** uses it for what becomes of a frame: `Bridge` is `handle_simulator_bridge_event` with
  the front camera fields, the presplit and the initial frames; `Send` is a record sent later; `Switch`
  is `POST topics`. Which record is sent when is left to `BridgeRelay`, any retained one may be. One field
  stands for each kind of topic: the front camera (off, taken from the latest frame), the
  LIDAR (on), the position (restricted, off). All settings of presplit and camera are initial states.
  `FieldAssumption` says that the simulator's topic fields are plain texts (numbers, base64) in which the
  patterns find no vehicle.
* **`DevKitPayload_proofs`** has its theorems.
* **`MCBridgeRelay`**, **`MCDevKitLifecycle`**, **`MCMonitorHub`**, **`MCDevKitPayload`**, **`MCTelemetry`** give TLC the constants.

Operators named `...Faulty...` are plausible mistakes in the operator they stand before. No
specification uses them; a property is only kept if one of them breaks it.

## Runs

| Run | Instance | Shows |
|---|---|---|
| `relay_one` | 1 DevKit, queues of 2, 3 controls, 2 frames, 2 sessions, 3 clock values, a monitor that may stall | types and queue bounds; `ControlOrder`, `ViewBehindCache`, `LastControlWins`, `InitialFrameNotLost`, `ControlsReachSimulatorInOrder`, `FramesInOrder` |
| `relay_pair` | 2 DevKits whose controls name both ids, as those of `tests/mock_devkit.py`; 2 frames | the path implements `ControlRegister` |
| `relay_live` | 1 DevKit, queues of 1, an event besides frames, frames that may leave nothing for it | `InitialFrameNotLost`; controls are merged, frames answered, queues drained |
| `life_serial` | 2 DevKits, 2 endpoints, 2 simulators, handlers one at a time | `stop` waits only for what it cancelled, unique endpoints, no orphan task, an enabled DevKit is served and dialed again and again, a disabled one is down |
| `life_race` | 1 DevKit, 1 simulator, handlers overlap, a monitor that may stall | every handler returns if the monitor reads again and again |
| `telemetry` | 2 vehicles, one with a DevKit; 2 events out of 8, 4 inputs, streaming or not | the cache is the last valid reading of each field; scans are genuine and rightly placed; the page shows the cache; button and tower agree; a streaming tower brings the page up to date |
| `hub` | 2 sockets, of which one always reads and the other sends commands; 2 changes, 1 control | `monitor_clients` exact; a drained browser shows the current state; none goes back to an older one; a reading one learns every change |
| `payload` | 2 DevKits, 2 frames of 4 shapes, 2 topic switches, 8 settings | a DevKit is sent exactly its own part; nothing of a topic that stayed off; no camera older than the frame; presplit and late payload agree; what comes back is again its own |
| `relay_stall` | a monitor that may stall | **violated**: a monitor that does not read keeps controls from being merged |
| `life_reconnect` | a simulator leaves and returns | **violated**: the DevKit stays without tasks |
| `life_unique` | 2 clients | **violated**: two DevKits get one endpoint |
| `hub_rate` | 1 socket, GETs | **violated**: a GET makes monitors keep an old rate |

The bounds are in guards of the environment's actions, never in the system's own. A queue
of 2 with 3 controls overflows while the loop holds one; 3 clock values with a retention of
1 make a frame older than, as old as and newer than a control, and expire; two sessions let
a control of the first be answered in the second; two frames make two handlers that echo
concurrently. `InitialFrameNotLost` is checked
with queues of two, where controls' answers overflow them, and of one, where a debugging or simulator event pushes the
initial frame out (`displaced`). In `hub` an input may launch a broadcast only while none is under way
(`MaxFlight`), but a leaving socket, a `stop` and its caller launch theirs beside it, so that statuses with different facts
overlap and their order on one socket matters. In
`relay_pair` the monitor keeps reading: a stall only disables `Echo`, `Merge` and `AwaitFrame`, and the
schedules without it include every delay; `relay_one` has the stalls themselves. The shapes of
`payload` are those of `tests/bridge_sample.json` and `tests/test_protocol.py`, nested up to three deep (`Depth`); each
text names at most one vehicle (one that names two is kept by both, with the other's id in it; the proofs cover those).

The 8 events of `telemetry` are the frame of `tests/bridge_sample.json`, the same frame with its position
and LiDAR damaged, and the topic messages of `tests/test_bridge.py`; two of them in either order make every pair of an
earlier and a later reading, and 4 inputs leave two for a press and another, a lost request, a load or
a foreign status. A socket takes a broadcast whatever it holds; the stream loop awaits the drain
(`HighWater` = 0: nothing unread). A run of `telemetry` ends when the inputs are used up, so it does not check
deadlock.

`life_serial` excludes overlapping handlers because `life_reconnect` and `life_unique` show
what they do; it is what holds of the commands one after another.

`relay_one` has no vehicle besides the DevKit's own; that a second DevKit may
overwrite the entries is covered by `relay_pair` and by the proofs.

**Fairness.** The event loop runs every ready task: weak fairness of the loops, of
`on_connect`, of tasks and sends. In `BridgeRelay` and `DevKitLifecycle` a step after a
broadcast needs the monitor to be reading, which it may cease to, so `Echo`, the control
loop and the steps of a `stop` have strong fairness: a monitor that reads again and again lets a broadcast through.
That it does is the premise of `HandlersReturn`; while it stalls for good, a `stop` never returns (`server.py` 402, 472).
Dials and closing a socket end within their timeouts. In `Telemetry` the stream loop wakes at
its rate, the page receives what was sent, and the tower answers requests. Nothing is assumed of the simulator,
the DevKits, the network, the clock, commands, or of a monitor outside `Reader`.
`QueueDrains` concerns a connection that lasts, `KeepsDialing` a DevKit left alone.

## Proofs

`BridgeRelay_proofs` proves for every set of DevKits, queue size, retention, presplit or
not, and all bounds (`RelayAssumption`):

* `TypeCorrect`: the types, among them that no queue exceeds its size (a put is on a
  tail when the queue is full), so that enqueueing never suspends.
* `ControlOrderHolds`, `ViewNeverAhead`: the order of controls. `ViewBehindCache` is not inductive alone: a merge could
  install an older control. `OrderInv` adds `ControlOrder`: for each DevKit, what the cache
  and the view have of it is older than what its loop has not merged, which is older than
  what is queued, which is in order of sending. `PutEntries` and `TailEntries` say what a
  put and a take leave in a queue; each action preserves the three parts by one lemma.
* `ControlsInOrder`: an action property from `OrderInv`. Only `Echo` and `SimulatorConnect` change
  the view (`ViewChanges`).
* `RegisterImplemented`: refinement. `CacheChanges` and `MergeIsWrite` show that only `Merge` changes
  the cache and that it is a `Write`; the view changes only in the two ways of
  `ControlRegister`.
* `LastControlInForce`, for controls that name only id 1 (a stock DevKit): `LastInv` adds
  to the type invariant where the last control is, in the queue's last place, in the loop, in the
  cache or cancelled, and that a vehicle's entry is its own DevKit's.
* `InitialFrameKept`: a connected DevKit whose send loop lives is owed its initial frame, or has a frame in its queue or in
  the loop's hands, or was sent one in this session, or an event displaced one. `FrameInv` adds the types, that frames have
  ids other than 0 (which marks events) and that a DevKit is only connected while there is a simulator; what a put and a
  take do to the frames of a queue are lemmas.
* `FramesStayInOrder` (`FrameOrder_proofs`): `FrameOrderInv` adds that the history is in the order of its time
  stamps and loses its last frame only with all others, that a DevKit's controls are answered in the order of
  theirs, and (`Ahead`) that a frame which may answer a control of the present session is no older than
  what was queued before, while a DevKit owed its initial frame has none such: `on_connect` and the handler of
  a frame cannot be overtaken by the control loop.

`DevKitLifecycle_proofs` proves six of its invariants for all sets of DevKits, simulators, clients and
endpoints, from two assumptions: handlers run one at a time (`Serial`; `life_reconnect` and
`life_unique` show that two of the properties fail without it) and the endpoints at startup differ
(`InitialUnique`; nothing in `config.py` checks that, and the commands do). None of
them is inductive. `IInv` adds where each connection is: *settled*, with no handler at work and either up (a
live run task and loop behind the handles) or clear (no task, no connection, no handle), or being
*stopped* by the one handler there is, whose record agrees with the tasks it cancelled and says what the DevKit will be
next (`Stopped`, `Purpose`). Each operator on a connection (`Start`, `Cancel`, `Place`, `Halt`, `Stopping`) has a
lemma on what it leaves, and so have the ways a handler may go (`GoesOn`, `GoesTo`, `Returns`, `Begins`); each action is
then one lemma. The monitor may stall: none of the six depends on when a broadcast returns.

`MonitorHub_proofs` proves `TypeOK`, `MirrorExact`, `DrainedMonitorCurrent` and `ShownNeverOlder` for every set of
sockets. The last two need `HubFresh`: for each open socket, what the browser has, the messages in its
socket, and those of the broadcasts that have not reached it are in the order of the revisions they
carry (`Ordered`), and the last of them carries the current one, unless a handler has yet to publish or nobody will.

`Telemetry_proofs` proves that tracing follows the button and that the buttons show the tracing, for every
number of vehicles, any payloads and lengths of queues. `FollowInv`: a button no status upset shows the finger, and the last
unanswered request, or else the tower, agrees with it. `ShowInv`: the last status not yet received names the vehicles
that are traced.

`TelemetryCache_proofs` proves `TypeOK`, `LatestReading`, `ScanGenuine`, `ScanPlaced` and `PageShowsCache` for any
vehicles, payloads of any length and any number of events, from `TelemetryAssumption` and, for the scans,
`LidarAssumption`: what the simulator sends of LiDARs that is no scan (rates, intensities, packed strings) comes beside
a range array of the same vehicle, as in `tests/bridge_sample.json`. (`extract_lidar_scans` takes any key with "lidar"
for a scan, and a range array only then replaces it.) `LatestReading` follows from what one event
does to the cache (`Updated`, `Merged`). `ScanGenuine` and `ScanPlaced` are not inductive apart: `ScanInv` says that
*one* event both measured the scan and placed it. `PageInv` follows the last telemetry not yet received: it tells the
whole cache, or the page has it already.

`VehicleRewriting_proofs` proves two facts for payloads of any shape and depth and any two ids:

* `RoundTrip`: whatever a DevKit is sent comes back to it unchanged when it returns it. No two keys
  that stay are renamed to the same one (`KeysApart`), so no item is lost on the way.
* `OwnPart`: the leaves of a rewritten payload are those of the payload that are the vehicle's own or nobody's, renamed.

Both are by induction over payloads. The library's induction theorems take an operator as a parameter, which the
provers cannot instantiate; `TreeInduction` states the principle of a *set* that holds a payload whenever it
holds its parts, and follows from the least depth at which one is missing (`MinNat`, from `WFMin`). The same
argument shows that each recursive function satisfies its equation (`TreeIs`, `ContainsIs`, `RewriteIs`, `LeavesIs`).

`DevKitPayload_proofs` proves all six invariants of the run `payload`, for any DevKits, frames, switches and settings
(`PayloadAssumption`, `FieldAssumption`; `WordsAssumption` only names the texts). `PInv` relates the
state to the frames as they came: `latest` has the cameras of the last one; each record of the history has its frame as
kept, presplit payloads made of its own frame, cameras and topics, and allows the topics that are on (`GoodRecord`);
what was sent was made of its frame, the cameras of that frame or a later one, and topics that were on
meanwhile (`GoodDelivery`). The rest is what the filter and the rewriting make of
such a frame: `FieldOut` (a field that arrives is a default or genuine, and its topic on), `OwnOut` (what no topic
governs, from `OwnPart`), `SamePayload` (a camera replaced in the history does not matter, the frame's own one is put
back), and `RoundTrip`.

Only model-checked:

* liveness (`ControlEventuallyMerged`, `FrameEchoed`, `QueueDrains`, `HandlersReturn`, `KeepsDialing`,
  `StatusReachesReader`, `StreamCatchesUp`): TLAPS does not reason about `ENABLED` and fairness here.

## What could follow

1. The rest of the browser: its pending endpoint edits and topic selections against statuses that were sent
   before a command took effect.
2. Several simulators in `BridgeRelay`: which of them is answered by what.

## Where documents and code disagree

The violated runs have a finding each in `PROJECT.json`. These need no run:

* docs/monitor-protocol.md:225 says that a frame no DevKit waits for is forwarded to all; the code queues
  frames only for DevKits owed their initial one or answered (`server.py` 1135-1139, 1269-1282).
* docs/monitor-protocol.md:223 says that after a DevKit's `Bridge` event RCT "emits the complete outgoing cache to
  the simulator"; the code merges the event into the cache and emits that only as the answer to the simulator's next
  frame (`server.py` 1230-1250, 1140, 1252-1267).
* With the presplit cache (the default of `config.py`) the history holds the rewritten payloads, `DROP_VALUE`
  included. `send_cached_incoming_bridge` (1147-1154) and `send_next_bridge_after` (1271-1278) compare only the
  payload they rewrite themselves with it and queue a presplit one as it is; `send_loop` then ends with the exception its
  emit raises. It takes a frame without the vehicle's data while all filterable topics are on, since the
  filter adds a default for each topic that is off. `BridgeRelay`
  models this (`Queued`, `Emit`, `failed`), `InitialFrameNotLost` speaks of
  loops that live, and `QueueDrains` is checked without the presplit cache. The proofs cover both settings.
* docs/monitor-protocol.md:133-160 shows telemetry with the source "simulator", the event's name and
  `last_lap_count`; the code sends the source "rct-cache", the event "cached", `last_lap_time` instead, and
  also `lap_time`, `linear_velocity`, `orientation_quaternion`, `heading_yaw` and `lidar_scan`.
* The tower lays LiDAR distances around the vehicle's position (`bridge.py` 430-447); the page takes the points for
  relative ones and adds position and heading again (`index.html` 1213-1231).
* No text says what the trace button promises. As written, a status that was sent before a press took effect clears
  the button; a release before the next status then posts nothing, and the vehicle stays traced
  (`upset` in `Telemetry`).

## Not modelled

* More than one simulator in `BridgeRelay` (`DevKitLifecycle` has them).
* Parsing of requests, paths and environment, and their error answers: they return before any state changes.
* The Engine.IO adaptation (formats only), static files, logging (with `collision_counts`, which only a
  log line reads).
* The geometry of telemetry, the fields of the state nothing publishes by themselves (`queued_messages`).
* The browser's drawing, endpoint edits and topic selections.
* The time between a dropped link and the end of the broadcast of its `on_disconnect`, during which the Engine.IO client
  still says it is connected: `LinkDrops` is one step.
* Crash recovery does not arise: RCT keeps nothing on disk, and a restart is a fresh `Init`.
