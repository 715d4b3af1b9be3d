----------------------------- MODULE Telemetry -----------------------------
(***************************************************************************)
(* The telemetry of the vehicles on its way from the simulator to a        *)
(* browser.  publish_simulator_telemetry merges what each event tells into *)
(* a cache (TelemetryExtraction says what that is) and, unless             *)
(* RCT_MONITOR_WS_HZ streams it, broadcasts the whole cache.  LiDAR scans  *)
(* are read of traced vehicles only: those whose trace button is held, as  *)
(* far as the tower knows.  The button posts each change to the tower, one *)
(* request per vehicle at a time, and every status sets it to what the     *)
(* tower says.                                                             *)
(*                                                                         *)
(* One browser, with its page opened as ?experiment=1; how a broadcast     *)
(* reaches several sockets is the matter of MonitorHub.  A status is       *)
(* abstracted to the vehicles it names as traced.  loaded, log, upset and  *)
(* misled are history.                                                     *)
(*                                                                         *)
(* The definitions named Faulty... are plausible mistakes in the operator  *)
(* that follows them; no specification uses them.                          *)
(***************************************************************************)
EXTENDS TelemetryExtraction, FiniteSets

CONSTANTS
    Vehicle,    \* the ids of vehicles that events name
    DevKit,     \* those that have a DevKit, and so a trace button
    Payload,    \* what the simulator's events may carry
    HighWater,  \* messages the socket buffers before a send has to wait
    MaxEvent, MaxInput  \* bounds, used in guards only

ASSUME TelemetryAssumption ==
    /\ DevKit \subseteq Vehicle /\ Vehicle \subseteq Nat \ {0}
    /\ {HighWater, MaxEvent, MaxInput} \subseteq Nat
    /\ \A payload \in Payload :
         /\ payload.topic \in Seq(PayloadItem(Vehicle)) /\ Len(payload.topic) <= 1
         /\ payload.items \in Seq(PayloadItem(Vehicle))

Entries(payload) == ToSet(payload.topic) \cup ToSet(payload.items)

(* What the simulator sends of LiDARs (tests/bridge_sample.json): the      *)
(* rates, intensities and packed strings, which extract_lidar_scans takes  *)
(* for scans too, come beside a range array of the same vehicle.           *)
PlainScan(e) ==
    /\ e.words \cap {"rate", "intensity"} = {} /\ e.value.form # "packed"
    /\ e.value.form = "dict" => Len(e.value.items) = 2

ASSUME LidarAssumption ==
    \A payload \in Payload : \A e \in Entries(payload) :
        /\ IsRangeArrayKey(e.words) => e.words \cap {"rate", "intensity"} = {}
        /\ IsScanKey(e.words) =>
             \/ PlainScan(e)
             \/ \E a \in ToSet(payload.items) : a.vehicle = e.vehicle /\ IsRangeArrayKey(a.words)

VARIABLES
    streaming,  \* RCT_MONITOR_WS_HZ > 0
    traced,     \* trace_lidar_vehicle_ids
    positions,  \* monitor_vehicle_positions
    cache,      \* monitor_vehicle_telemetry
    stream,     \* where monitor_stream_loop is
    wire,       \* messages written to the browser's socket, not yet received
    shown,      \* the telemetry the page has last received
    active,     \* traceLidarActive: the state of each trace button
    held,       \* whether each button is really held
    requests,   \* traceLidarRequests: posts not yet answered, per vehicle
    inputs,     \* number of events, presses, losses, other statuses and loads
    loaded,     \* the cache when the page was loaded
    log,        \* the events, each with the vehicles traced when it came
    upset,      \* vehicles of which a status contradicted the finger, or a
                \* request was lost, since their button last posted
    misled      \* vehicles of which a request was lost since the last status

towerVars == <<streaming, traced, positions, cache, stream>>
pageVars == <<shown, active, held, requests, loaded, upset, misled>>
vars == <<towerVars, wire, pageVars, inputs, log>>

Field == {FieldRules[i].field : i \in DOMAIN FieldRules}

(* Types; and the positions that place scans are those of the cache.       *)
TypeOK ==
    /\ streaming \in BOOLEAN /\ stream \in {"status", "telemetry"}
    /\ traced \subseteq DevKit
    /\ \A v \in DOMAIN cache : DOMAIN cache[v] \subseteq Field \cup {"heading_yaw", "lidar_scan"}
    /\ DOMAIN positions = {v \in DOMAIN cache : "ips" \in DOMAIN cache[v]}
    /\ \A v \in DOMAIN positions : positions[v] = cache[v]["ips"]
    /\ active \in [DevKit -> BOOLEAN] /\ held \in [DevKit -> BOOLEAN]
    /\ requests \in [DevKit -> Seq(BOOLEAN)]
    /\ upset \subseteq DevKit /\ misled \subseteq DevKit

(* The part of the cache that cached_telemetry_message sends.              *)
Filled(known) == [v \in {w \in DOMAIN known : known[w] # <<>>} |-> known[v]]

StatusMessage(ids) == [kind |-> "status", traced |-> ids, vehicles |-> <<>>]
TelemetryMessage(known) == [kind |-> "telemetry", traced |-> {}, vehicles |-> Filled(known)]

Init ==
    /\ streaming \in BOOLEAN
    /\ traced = {} /\ positions = <<>> /\ cache = <<>> /\ stream = "status"
    /\ wire = <<StatusMessage({})>>
    /\ shown = <<>> /\ loaded = <<>> /\ log = <<>>
    /\ active = [v \in DevKit |-> FALSE]
    /\ held = [v \in DevKit |-> FALSE]
    /\ requests = [v \in DevKit |-> <<>>]
    /\ inputs = 0
    /\ upset = {} /\ misled = {}

-----------------------------------------------------------------------------
Input == inputs < MaxInput /\ inputs' = inputs + 1

(* An event of the simulator (publish_simulator_telemetry).                *)

ForgetfulFaultyPlaced(known, read) ==
    [v \in {w \in DOMAIN read : "ips" \in DOMAIN read[w]} |-> read[v]["ips"]]
Placed(known, read) ==
    Updated(known, [v \in {w \in DOMAIN read : "ips" \in DOMAIN read[w]} |-> read[v]["ips"]])

(* A range array goes before anything else that looks like a scan.         *)
FaultyScans(payload, known, read) ==
    Updated(RangeArrays(payload, traced), LidarScans(payload, traced, Placed(known, read)))
StaleFaultyScans(payload, known, read) ==
    Updated(LidarScans(payload, traced, known), RangeArrays(payload, traced))
Scans(payload, known, read) ==
    Updated(LidarScans(payload, traced, Placed(known, read)), RangeArrays(payload, traced))

Merged(known, found) ==
    Updated(known, [v \in DOMAIN found |-> Updated(Of(known, v), found[v])])

WithScans(read, scans) ==
    Merged(read, [v \in DOMAIN scans |-> [f \in {"lidar_scan"} |-> scans[v]]])

PartialFaultyPublished(known, found) ==
    IF streaming \/ Filled(known) = <<>> THEN wire ELSE Append(wire, TelemetryMessage(found))
Published(known, found) ==
    IF streaming \/ Filled(known) = <<>> THEN wire ELSE Append(wire, TelemetryMessage(known))

Event(payload) ==
    /\ Len(log) < MaxEvent /\ Input
    /\ log' = Append(log, [payload |-> payload, traced |-> traced])
    /\ LET read == MonitorTelemetry(payload)
           found == WithScans(read, Scans(payload, positions, read))
           known == Merged(cache, found) IN
       /\ positions' = Placed(positions, read)
       /\ cache' = known
       /\ wire' = IF found = <<>> THEN wire ELSE Published(known, found)
    /\ UNCHANGED <<streaming, traced, stream, pageVars>>

-----------------------------------------------------------------------------
(* The trace button of the page (addTraceLidarHandlers, setTraceLidar):    *)
(* it posts only what it does not show already.                            *)

Set(v, down) ==
    /\ held[v] # down
    /\ held' = [held EXCEPT ![v] = down]
    /\ IF active[v] = down THEN UNCHANGED <<active, requests, upset>>
       ELSE /\ active' = [active EXCEPT ![v] = down]
            /\ requests' = [requests EXCEPT ![v] = Append(@, down)]
            /\ upset' = upset \ {v}
    /\ UNCHANGED <<towerVars, wire, shown, loaded, misled, log>>

Press(v) ==
    /\ Input
    /\ Set(v, TRUE)

Release(v) == Set(v, FALSE) /\ UNCHANGED inputs

(* handle_monitor_trace_lidar_command: the page posts a vehicle's requests *)
(* one after the other.                                                    *)
UnchainedFaultyServe(v) ==
    \E i \in DOMAIN requests[v] :
       LET ids == IF requests[v][i] THEN traced \cup {v} ELSE traced \ {v} IN
       /\ traced' = ids
       /\ wire' = Append(wire, StatusMessage(ids))
       /\ requests' = [requests EXCEPT ![v] = RemoveAt(@, i)]
       /\ UNCHANGED <<streaming, positions, cache, stream, shown, active, held,
                      loaded, upset, misled, inputs, log>>
EarlyFaultyServe(v) ==
    /\ requests[v] # <<>>
    /\ traced' = IF Head(requests[v]) THEN traced \cup {v} ELSE traced \ {v}
    /\ wire' = Append(wire, StatusMessage(traced))
    /\ requests' = [requests EXCEPT ![v] = Tail(@)]
    /\ UNCHANGED <<streaming, positions, cache, stream, shown, active, held,
                   loaded, upset, misled, inputs, log>>
Serve(v) ==
    /\ requests[v] # <<>>
    /\ traced' = IF Head(requests[v]) THEN traced \cup {v} ELSE traced \ {v}
    /\ wire' = Append(wire, StatusMessage(traced'))
    /\ requests' = [requests EXCEPT ![v] = Tail(@)]
    /\ UNCHANGED <<streaming, positions, cache, stream, shown, active, held,
                   loaded, upset, misled, inputs, log>>

(* The request does not reach the tower; the page only warns.              *)
Fail(v) ==
    /\ requests[v] # <<>> /\ Input
    /\ requests' = [requests EXCEPT ![v] = Tail(@)]
    /\ upset' = IF Len(requests[v]) = 1 THEN upset \cup {v} ELSE upset
    /\ misled' = misled \cup {v}
    /\ UNCHANGED <<towerVars, wire, shown, active, held, loaded, log>>

-----------------------------------------------------------------------------
(* What else is sent, and received.                                        *)

(* Anything else in the tower that publishes the status.                   *)
PublishStatus ==
    /\ Input
    /\ wire' = Append(wire, StatusMessage(traced))
    /\ UNCHANGED <<towerVars, pageVars, log>>

(* monitor_stream_loop sends a status and then, once the socket drained,   *)
(* the cache.                                                              *)
StreamStatus ==
    /\ streaming /\ stream = "status" /\ Len(wire) <= HighWater
    /\ stream' = "telemetry"
    /\ wire' = Append(wire, StatusMessage(traced))
    /\ UNCHANGED <<streaming, traced, positions, cache, pageVars, inputs, log>>

EndingFaultyStreamTelemetry ==
    /\ stream = "telemetry" /\ Len(wire) <= HighWater /\ Filled(cache) # <<>>
    /\ stream' = "status"
    /\ wire' = Append(wire, TelemetryMessage(cache))
    /\ UNCHANGED <<streaming, traced, positions, cache, pageVars, inputs, log>>
StreamTelemetry ==
    /\ stream = "telemetry" /\ Len(wire) <= HighWater
    /\ stream' = "status"
    /\ wire' = IF Filled(cache) = <<>> THEN wire ELSE Append(wire, TelemetryMessage(cache))
    /\ UNCHANGED <<streaming, traced, positions, cache, pageVars, inputs, log>>

(* handleMonitorMessage.                                                   *)
Receive ==
    /\ wire # <<>>
    /\ wire' = Tail(wire)
    /\ LET message == Head(wire) IN
       IF message.kind = "telemetry"
       THEN shown' = message.vehicles /\ UNCHANGED <<active, upset, misled>>
       ELSE /\ active' = [v \in DevKit |-> v \in message.traced]
            /\ upset' = upset \cup {v \in DevKit : (v \in message.traced) # held[v]}
            /\ misled' = {}
            /\ UNCHANGED shown
    /\ UNCHANGED <<towerVars, held, requests, loaded, inputs, log>>

(* The page is loaded again: its requests are gone, no button is held, and *)
(* its new socket is greeted with a status (handle_monitor_ws).            *)
Load ==
    /\ Input
    /\ wire' = <<StatusMessage(traced)>>
    /\ shown' = <<>> /\ loaded' = cache
    /\ active' = [v \in DevKit |-> FALSE]
    /\ held' = [v \in DevKit |-> FALSE]
    /\ requests' = [v \in DevKit |-> <<>>]
    /\ upset' = upset \cup {v \in DevKit : held[v] \/ requests[v] # <<>>}
    /\ misled' = {}
    /\ UNCHANGED <<towerVars, log>>

-----------------------------------------------------------------------------
Next ==
    \/ \E payload \in Payload : Event(payload)
    \/ \E v \in DevKit : Press(v) \/ Release(v) \/ Serve(v) \/ Fail(v)
    \/ PublishStatus \/ StreamStatus \/ StreamTelemetry \/ Receive \/ Load

Spec == Init /\ [][Next]_vars

(* The loop wakes at its rate, the socket works and the tower answers.     *)
Fairness ==
    /\ WF_vars(StreamStatus) /\ WF_vars(StreamTelemetry) /\ WF_vars(Receive)
    /\ \A v \in DevKit : WF_vars(Serve(v))

FairSpec == Spec /\ Fairness

-----------------------------------------------------------------------------
(* Properties.                                                             *)

(* The readings of a field of a vehicle that an event carries: those of    *)
(* its topic if that has any, else those of its items.                     *)
Naming(entries, v, f) ==
    {e \in ToSet(entries) : e.vehicle = v /\ MonitorField(e.words) = f}
TopicReadings(payload, v, f) ==
    {TopicReading(f, e.value) : e \in Naming(payload.topic, v, f)} \ {NoValue}
ItemReadings(payload, v, f) ==
    {Reading(f, e.value) : e \in Naming(payload.items, v, f)} \ {NoValue}

Carried ==
    [payload \in Payload |-> [v \in Vehicle |-> [f \in Field |->
        IF \E w \in Vehicle, g \in Field : TopicReadings(payload, w, g) # {}
        THEN TopicReadings(payload, v, f) ELSE ItemReadings(payload, v, f)]]]

Carriers(v, f) == {i \in DOMAIN log : Carried[log[i].payload][v][f] # {}}

(* What the tower knows of a vehicle is, field by field, the reading of    *)
(* the last event that carried a valid one: no event, topic message or     *)
(* rejected value in between loses or replaces it (server.py,              *)
(* publish_simulator_telemetry).                                           *)
LatestReading ==
    \A v \in Vehicle, f \in Field :
        IF Carriers(v, f) = {} THEN f \notin DOMAIN Of(cache, v)
        ELSE /\ f \in DOMAIN Of(cache, v)
             /\ cache[v][f] \in Carried[log[Max(Carriers(v, f))].payload][v][f]

(* Event i measured the scan that the cache has of v: v was traced then, a *)
(* key of its LiDAR other than its rate or intensities has the scan's      *)
(* distances or coordinates (or nothing readable), and no frame since then *)
(* had a range array of v while it was traced.                             *)
HasScan(v) == "lidar_scan" \in DOMAIN Of(cache, v)
Measures(i, v) ==
    /\ v \in log[i].traced
    /\ \E e \in Entries(log[i].payload) :
         /\ e.vehicle = v /\ "lidar" \in e.words /\ e.words \cap {"rate", "intensity"} = {}
         /\ cache[v]["lidar_scan"].items \in {<<>>, e.value.items, NumericOnly(e.value.items)}
    /\ \A j \in (i + 1)..Len(log) :
         v \in log[j].traced => \A e \in ToSet(log[j].payload.items) :
                                   ~(e.vehicle = v /\ IsRangeArrayKey(e.words))

(* A scan on display was measured by that vehicle's LiDAR while it was     *)
(* traced: scan rates, intensities and the digits of packed strings, which *)
(* extract_lidar_scans takes for scans too, never get into the cache, and  *)
(* a frame replaces an older scan.                                         *)
ScanGenuine == \A v \in Vehicle : HasScan(v) => \E i \in DOMAIN log : Measures(i, v)

(* Distances that the tower turns into points are laid around the place    *)
(* where the vehicle was when they were measured: its position in the same *)
(* event, wherever it stands in there, or its last one (server.py,         *)
(* lidar_positions).                                                       *)
ScanPlaced ==
    \A v \in Vehicle :
        HasScan(v) /\ cache[v]["lidar_scan"].form = "polar" =>
            \E i \in DOMAIN log :
                LET seen == {j \in Carriers(v, "ips") : j <= i} IN
                /\ Measures(i, v) /\ seen # {}
                /\ \E r \in Carried[log[Max(seen)].payload][v]["ips"] :
                      r.items = cache[v]["lidar_scan"].origin

Sent(kind) == \E i \in DOMAIN wire : wire[i].kind = kind

(* Without streaming, a page with no telemetry left to receive shows the   *)
(* whole cache, or has not been sent any since it was loaded: every event  *)
(* that tells something reaches it, with all that earlier ones told.       *)
PageShowsCache ==
    ~streaming /\ ~Sent("telemetry") =>
        shown = Filled(cache) \/ (shown = <<>> /\ cache = loaded)

(* A vehicle is traced exactly while its button is held, once the tower    *)
(* answered its requests, unless a status contradicted the finger or a     *)
(* request was lost since the button last posted (index.html,              *)
(* postTraceLidar; server.py, handle_monitor_trace_lidar_command).         *)
TraceFollowsButton ==
    \A v \in DevKit \ upset : requests[v] = <<>> => (v \in traced) = held[v]

(* A page with no request unanswered and no status left to receive shows a *)
(* button as pressed exactly when its vehicle is traced, unless a request  *)
(* was lost since its last status.                                         *)
ButtonShowsTracing ==
    \A v \in DevKit \ misled :
        requests[v] = <<>> /\ ~Sent("status") => active[v] = (v \in traced)

(* A tower that streams brings the page up to date once nothing new comes: *)
(* the whole cache, even after a load, and the buttons as they are, even   *)
(* after lost requests (server.py, monitor_stream_loop).                   *)
StreamCatchesUp ==
    streaming =>
        <>[](shown = Filled(cache) /\ \A v \in DevKit : active[v] = (v \in traced))
=============================================================================
