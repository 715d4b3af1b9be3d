--------------------------- MODULE DevKitPayload ---------------------------
(***************************************************************************)
(* What a DevKit is sent of a frame.  A frame becomes a DevKit's payload   *)
(* by the topic filter (fields of topics that are off get defaults, the    *)
(* front camera is taken from the latest frame) and the rewriting of       *)
(* vehicle ids; either when the frame arrives, for all DevKits (presplit), *)
(* or when it is sent.  Between the two, topics are switched and other     *)
(* frames arrive.                                                          *)
(*                                                                         *)
(* Which frame is sent when is the matter of BridgeRelay; here any         *)
(* retained one may be.  One field stands for each of the topics below;    *)
(* the other filterable topics differ only in names.  Every topic's field  *)
(* has a default, so the filter never removes one.  delivered, received    *)
(* and the components raw, allowed and selected of a record are history.   *)
(*                                                                         *)
(* The definitions named Faulty... are plausible mistakes in the operator  *)
(* that follows them; no specification uses them.                          *)
(***************************************************************************)
EXTENDS VehicleRewriting, FiniteSets

CONSTANTS
    DevKit,    \* vehicle ids of the DevKits
    Contents,  \* Contents[n]: the payloads that the n-th frame may have
    MaxFrame, MaxSwitch  \* bounds, used in guards only

ASSUME PayloadAssumption ==
    /\ DevKit \subseteq Nat \ {0}
    /\ MaxFrame \in Nat /\ MaxSwitch \in Nat
    /\ \A n \in 1..MaxFrame : \A p \in Contents[n] : p \in Value /\ p.kind = "dict"

VARIABLES
    settings,  \* enable_presplit_bridge_cache and the two on front cameras
    topics,    \* resolved_topic_selections: the topics that are on
    switches,  \* number of topic switches
    latest,    \* latest_front_camera_fields
    history,   \* BridgeHistory._records
    received,  \* all frames, as they came
    delivered  \* the last Bridge payload queued for each DevKit

vars == <<settings, topics, switches, latest, history, received, delivered>>

Topic == {"front_camera", "lidar", "ips"}
DefaultTopics == {"lidar"}

Suffix == [front_camera |-> "Front Camera Image", lidar |-> "LIDAR Range Array",
           ips |-> "Position"]

Field(vehicle, topic) == Text(Suffix[topic], 0, {vehicle})

ASSUME WordsAssumption ==
    /\ {"white", "empty", "default"} \subseteq Words
    /\ \A t \in Topic : Suffix[t] \in Words

(* The simulator's fields hold numbers and images, as texts that name no   *)
(* vehicle; at is the frame they are of.                                   *)
ASSUME FieldAssumption ==
    \A n \in 1..MaxFrame : \A p \in Contents[n] : \A item \in p.items :
        (\E t \in Topic : item.key.words = Suffix[t]) =>
            item.value \in Texts /\ item.value.ids = {} /\ item.value.at = n

White == Text("white", 0, {})
Empty == Text("empty", 0, {})
Default == Text("default", 0, {})

(* FRONT_CAMERA_IMAGE_KEYS.                                                *)
IsCamera(item) == \E vehicle \in {1, 2} : item.key = Field(vehicle, "front_camera")
Nothing == [frame |-> 0, payload |-> DropValue, allowed |-> {}]

Init ==
    /\ settings \in [presplit : BOOLEAN, white : BOOLEAN, empty : BOOLEAN]
    /\ topics = DefaultTopics /\ switches = 0
    /\ latest = {} /\ history = <<>> /\ received = <<>>
    /\ delivered = [d \in DevKit |-> Nothing]

-----------------------------------------------------------------------------
(* filter_simulator_bridge_payload_for_devkit, then the rewriting.         *)

FaultyOwnField(d, topic) == Field(1, topic)
OwnField(d, topic) == Field(d, topic)

(* dict.update.                                                            *)
Put(items, new) == {i \in items : \A j \in new : i.key # j.key} \cup new

(* The vehicle's camera comes from the latest camera fields, or is white   *)
(* when its topic is off.  The other topics that are off get defaults,     *)
(* even those whose field the frame lacks.                                 *)
Filter(payload, d, cameras, on) ==
    LET camera == OwnField(d, "front_camera")
        merged == Put(payload.items, {c \in cameras : c.key.ids = {d}})
        hidden == IF "front_camera" \notin on /\ \E i \in merged : i.key = camera
                  THEN {Item(camera, White)} ELSE {}
        cleared == {Item(OwnField(d, t), Default) : t \in (Topic \ on) \ {"front_camera"}}
    IN  Dict(Put(merged, hidden \cup cleared))

(* prebuilt_devkit_bridge_payload.                                         *)
Prebuilt(payload, d, cameras, on) == ToDevKit(Filter(payload, d, cameras, on), d)

ReplaceCamera(payload, value) ==
    Dict({IF IsCamera(i) THEN Item(i.key, value) ELSE i : i \in payload.items})

(* What the history keeps of a frame: its camera may be replaced twice.    *)
Kept(raw) ==
    LET shown == IF settings.white THEN ReplaceCamera(raw, White) ELSE raw IN
    IF settings.empty THEN ReplaceCamera(shown, Empty) ELSE shown

(* send_cached_incoming_bridge and send_next_bridge_after: the presplit    *)
(* payload if there is one, whatever it is, else one built now.            *)
Outgoing(d, r, cameras) ==
    IF d \in DOMAIN r.presplit THEN r.presplit[d] ELSE Prebuilt(r.payload, d, cameras, topics)

UncheckedFaultyDelivery(d, r, cameras) ==
    [frame |-> r.frame, payload |-> Outgoing(d, r, cameras), allowed |-> r.allowed]
Delivery(d, r, cameras) ==
    LET payload == Outgoing(d, r, cameras) IN
    IF payload = DropValue /\ d \notin DOMAIN r.presplit THEN delivered[d]
    ELSE [frame |-> r.frame, payload |-> payload, allowed |-> r.allowed]

-----------------------------------------------------------------------------
(* handle_simulator_bridge_event: owed are the DevKits that wait for their *)
(* initial frame.                                                          *)
CameraItems(raw) == {i \in raw.items : IsCamera(i)}

StickyFaultyCameras(raw) == IF CameraItems(raw) = {} THEN latest ELSE CameraItems(raw)
Cameras(raw) == CameraItems(raw)

EarlyFaultyPresplit(raw, cameras) ==
    [d \in IF settings.presplit THEN DevKit ELSE {} |-> Prebuilt(raw, d, latest, topics)]
Presplit(raw, cameras) ==
    [d \in IF settings.presplit THEN DevKit ELSE {} |-> Prebuilt(raw, d, cameras, topics)]

Bridge(raw, owed) ==
    LET cameras == Cameras(raw)
        r == [frame |-> Len(received) + 1, payload |-> Kept(raw),
              presplit |-> Presplit(raw, cameras), allowed |-> topics, selected |-> topics]
    IN  /\ Len(received) < MaxFrame
        /\ received' = Append(received, raw)
        /\ latest' = cameras
        /\ history' = Append(history, r)
        /\ delivered' = [d \in DevKit |->
                           IF d \in owed THEN Delivery(d, r, cameras) ELSE delivered[d]]
        /\ UNCHANGED <<settings, topics, switches>>

(* A retained record is sent: the latest on connection, another one as the *)
(* answer to a control.                                                    *)
Send(d, i) ==
    /\ delivered' = [delivered EXCEPT ![d] = Delivery(d, history[i], latest)]
    /\ UNCHANGED <<settings, topics, switches, latest, history, received>>

(* The oldest record expires.                                              *)
Expire ==
    /\ history # <<>>
    /\ history' = Tail(history)
    /\ UNCHANGED <<settings, topics, switches, latest, received, delivered>>

(* POST topics: topics are switched on or off; one at a time here.  What   *)
(* is as it was stays so, and is not counted as a switch.                  *)
Switch(topic, on) ==
    /\ topics' = IF on THEN topics \cup {topic} ELSE topics \ {topic}
    /\ IF topics' = topics THEN switches' = switches
       ELSE switches < MaxSwitch /\ switches' = switches + 1
    /\ history' = [i \in DOMAIN history |-> [history[i] EXCEPT !.allowed = @ \cup topics']]
    /\ UNCHANGED <<settings, latest, received, delivered>>

Next ==
    \/ \E owed \in SUBSET DevKit :
         \E raw \in Contents[Len(received) + 1] : Bridge(raw, owed)
    \/ \E d \in DevKit, i \in DOMAIN history : Send(d, i)
    \/ Expire
    \/ \E topic \in Topic, on \in BOOLEAN : Switch(topic, on)

Spec == Init /\ [][Next]_vars

-----------------------------------------------------------------------------
(* Properties.                                                             *)

(* What a top-level key of a payload for a DevKit says: a topic's field of *)
(* the DevKit's own vehicle.                                               *)
IsField(item, vehicle) == \E t \in Topic : item.key = Field(vehicle, t)

DeliveredItems(d) ==
    IF delivered[d].payload = DropValue THEN {} ELSE delivered[d].payload.items

(* A DevKit is never sent the real value of a topic that was off all the   *)
(* time from the arrival of the frame to the sending, whichever way the    *)
(* payload was made (server.py, filter_simulator_bridge_payload_for_devkit)*)
OffTopicWithheld ==
    \A d \in DevKit, t \in Topic : \A item \in DeliveredItems(d) :
        item.key = Field(1, t) /\ item.value.at # 0 => t \in delivered[d].allowed

(* A real value of a topic's field is that of the DevKit's own vehicle in  *)
(* the frame that is sent; only the front camera may come from another     *)
(* frame, a later one (server.py, latest_front_camera_fields).             *)
FieldsGenuine ==
    \A d \in DevKit, t \in Topic : \A item \in DeliveredItems(d) :
        LET n == item.value.at IN
        item.key = Field(1, t) /\ n # 0 =>
            /\ Item(Field(d, t), item.value) \in received[n].items
            /\ IF t = "front_camera" THEN n >= delivered[d].frame ELSE n = delivered[d].frame

Rest(items, vehicle) == {item \in items : ~ IsField(item, vehicle)}

(* Of everything that no topic governs a DevKit is sent exactly what is    *)
(* its own or nobody's, and all of that, with its vehicle renamed to 1     *)
(* (protocol.py, _rewrite_json_value).                                     *)
OwnPartExact ==
    \A d \in DevKit :
        LET raw == received[delivered[d].frame]
            own == {l \in Leaves[raw] :
                      /\ ~ IsField([key |-> l.path[1]], d)
                      /\ \A t \in l.texts : ~ Foreign(t, d)}
            Renamed(l) == <<[i \in DOMAIN l.path |-> RewriteText(l.path[i], d, 1)],
                            RewriteText(l.leaf, d, 1)>>
        IN  delivered[d].frame # 0 =>
              {Renamed(l) : l \in own}
                = {<<l.path, l.leaf>> : l \in Leaves[Dict(Rest(DeliveredItems(d), 1))]}

(* Unless a newer frame came or a topic was switched, a DevKit is sent the *)
(* same whether its payload was made on arrival or is made now, for all    *)
(* settings of the front camera (server.py, enable_presplit_bridge_cache). *)
PathsAgree ==
    \A i \in DOMAIN history : \A d \in DOMAIN history[i].presplit :
        history[i].frame = Len(received) /\ history[i].selected = topics =>
            history[i].presplit[d] = Prebuilt(history[i].payload, d, latest, topics)

(* What a DevKit was sent, renamed to its vehicle as it would be on its    *)
(* way to the simulator, and back, is the same: no item is lost or merged  *)
(* with another (protocol.py, rewrite_devkit_payload_to_simulator).        *)
EchoComesBack ==
    \A d \in DevKit :
        delivered[d].payload # DropValue =>
            ToDevKit(ToSimulator(delivered[d].payload, d), d) = delivered[d].payload

(* Types; a payload that the rewriting dropped is only queued if it was    *)
(* presplit (server.py, send_cached_incoming_bridge).                      *)
TypeOK ==
    /\ topics \subseteq Topic
    /\ Len(received) <= MaxFrame /\ Len(history) <= Len(received)
    /\ \A d \in DevKit :
         /\ delivered[d].frame \in 0..Len(received)
         /\ delivered[d].payload = DropValue => delivered[d].frame = 0 \/ settings.presplit
         /\ delivered[d].payload \in Value \cup {DropValue}
         /\ delivered[d].payload.kind \in {"dict", "drop"}

=============================================================================
