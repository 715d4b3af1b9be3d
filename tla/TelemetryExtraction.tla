------------------------ MODULE TelemetryExtraction ------------------------
(***************************************************************************)
(* What the Race Control Tower reads out of a simulator event for its      *)
(* monitors: extract_monitor_telemetry, extract_lidar_range_arrays and     *)
(* extract_lidar_scans.                                                    *)
(*                                                                         *)
(* A payload is the items of a dict, in order, and at most one topic: a    *)
(* topic message names a topic and carries one value.  A key is the id of  *)
(* the vehicle it names (0 for none) and the words in it that matter.  A   *)
(* value is a form and its items, numbers or Junk:                         *)
(*   text, packed   a string; a gzipped and base64-encoded one             *)
(*   number         a number or a boolean                                  *)
(*   list, dict     of coordinates, in order; a dict may lack the last     *)
(*   points, ranges a list of points; {"ranges": [...]}                    *)
(* Read values have forms of their own: numbers, yaw (the numbers it is    *)
(* computed from), points, polar (distances from an origin) and ranges.    *)
(* Positions keep x and y only; the coordinates of a list of points, or of *)
(* one point, are in one sequence.                                         *)
(*                                                                         *)
(* The definitions named Faulty... are plausible mistakes in the operator  *)
(* that follows them; no specification uses them.                          *)
(***************************************************************************)
EXTENDS Integers, SequencesExt

CONSTANTS
    Junk,   \* an item that is no number
    Digits  \* what the digits in a packed string are, taken for numbers

NoValue == [form |-> "none", items |-> <<>>]
Value(form, items) == [form |-> form, items |-> items]
Polar(origin, items) == [form |-> "polar", origin |-> origin, items |-> items]

PayloadItem(vehicles) ==
    [vehicle : vehicles \cup {0}, words : SUBSET STRING,
     value : [form : STRING, items : Seq(Int \cup {Junk})]]

Numeric(item) == item # Junk
NumericOnly(items) == SelectSeq(items, Numeric)
AllNumeric(items) == \A i \in DOMAIN items : Numeric(items[i])

Of(found, vehicle) == IF vehicle \in DOMAIN found THEN found[vehicle] ELSE <<>>

(* dict.update.                                                            *)
Updated(known, found) ==
    [x \in DOMAIN known \cup DOMAIN found |-> IF x \in DOMAIN found THEN found[x] ELSE known[x]]

-----------------------------------------------------------------------------
(* extract_monitor_telemetry.                                              *)

(* _monitor_field_from_key: the words that make a field, in the order they *)
(* are tried.                                                              *)
FieldRules == <<
    [words |-> {"best", "lap", "time"}, field |-> "best_lap_time"],
    [words |-> {"collision"}, field |-> "collision_count"],
    [words |-> {"last", "lap", "count"}, field |-> "last_lap_time"],
    [words |-> {"last", "lap", "time"}, field |-> "last_lap_time"],
    [words |-> {"lap", "time"}, field |-> "lap_time"],
    [words |-> {"lap", "count"}, field |-> "lap_count"],
    [words |-> {"speed"}, field |-> "speed"],
    [words |-> {"linear", "velocity"}, field |-> "linear_velocity"],
    [words |-> {"orientation", "quaternion"}, field |-> "orientation_quaternion"],
    [words |-> {"ips"}, field |-> "ips"],
    [words |-> {"position"}, field |-> "ips"] >>

MonitorField(words) ==
    LET rule == SelectInSeq(FieldRules, LAMBDA r : r.words \subseteq words) IN
    IF rule = 0 THEN "none" ELSE FieldRules[rule].field

(* The first n items, if the value has them and all are numbers.           *)
First(items, n) ==
    IF Len(items) >= n /\ AllNumeric(SubSeq(items, 1, n))
    THEN Value("numbers", SubSeq(items, 1, n)) ELSE NoValue

Positional(v) == v.form \in {"list", "dict"}

(* _ips_value.                                                             *)
Ips(v) == IF Positional(v) \/ v.form = "text" THEN First(v.items, 2) ELSE NoValue

(* _numeric_count and _numeric_float.                                      *)
Scalar(v) ==
    IF v.form \in {"text", "number"} /\ Len(v.items) = 1 THEN First(v.items, 1) ELSE NoValue

(* _vector3_value (n = 2) and _quaternion_value (n = 4): text is searched  *)
(* for numbers.                                                            *)
Vector(v, n) ==
    IF v.form = "text" THEN First(NumericOnly(v.items), n)
    ELSE IF Positional(v) THEN First(v.items, n) ELSE NoValue

(* A value as a field of the telemetry; speeds that are no number, and lap *)
(* times, are kept as they are.                                            *)
Reading(field, v) ==
    CASE field = "ips" -> Ips(v)
      [] field \in {"collision_count", "lap_count"} -> Scalar(v)
      [] field = "speed" /\ Scalar(v) # NoValue -> Scalar(v)
      [] field = "linear_velocity" -> Vector(v, 2)
      [] field = "orientation_quaternion" -> Vector(v, 4)
      [] OTHER -> v

(* In a topic message vectors are not read either.                         *)
TopicReading(field, v) ==
    IF field \in {"linear_velocity", "orientation_quaternion"} THEN v ELSE Reading(field, v)

(* An orientation, and a velocity that is not (almost) zero, also set the  *)
(* heading.                                                                *)
SetsHeading(field, reading) ==
    \/ field = "orientation_quaternion"
    \/ field = "linear_velocity" /\ reading.items # <<0, 0>>

(* What one item of the dict sets of its vehicle.                          *)
Setting(entry) ==
    LET field == MonitorField(entry.words)
        reading == Reading(field, entry.value)
        heading == IF SetsHeading(field, reading) THEN {"heading_yaw"} ELSE {}
    IN  [f \in IF reading = NoValue THEN {} ELSE {field} \cup heading |->
           IF f = field THEN reading ELSE Value("yaw", reading.items)]

(* The items in their order; a field whose value is rejected still makes   *)
(* an entry for its vehicle.                                               *)
Telling(items, v) ==
    {i \in DOMAIN items : items[i].vehicle = v /\ v # 0 /\ MonitorField(items[i].words) # "none"}
Told(items) == {v \in {items[i].vehicle : i \in DOMAIN items} : Telling(items, v) # {}}

FaultyExtracted(items) ==
    [v \in Told(items) |-> Setting(items[Max(Telling(items, v))])]
Extracted(items) ==
    LET setting(v, f) == {i \in Telling(items, v) : f \in DOMAIN Setting(items[i])} IN
    [v \in Told(items) |->
       [f \in UNION {DOMAIN Setting(items[i]) : i \in Telling(items, v)} |->
          Setting(items[Max(setting(v, f))])[f]]]

(* A topic message that yields a reading yields nothing else.              *)
TopicTells(t) ==
    /\ t.vehicle # 0 /\ MonitorField(t.words) # "none"
    /\ TopicReading(MonitorField(t.words), t.value) # NoValue

MonitorTelemetry(payload) ==
    IF \E t \in ToSet(payload.topic) : TopicTells(t)
    THEN LET t == payload.topic[1]
             field == MonitorField(t.words)
         IN  [v \in {t.vehicle} |-> [f \in {field} |-> TopicReading(field, t.value)]]
    ELSE Extracted(payload.items)

-----------------------------------------------------------------------------
(* LiDAR.                                                                  *)

IsScanKey(words) == "lidar" \in words
IsRangeKey(words) == {"lidar", "range"} \subseteq words
IsRangeArrayKey(words) == {"lidar", "range", "array"} \subseteq words

(* _lidar_range_values.                                                    *)
RangeValues(v) ==
    Value("ranges", CASE v.form \in {"text", "packed"} -> NumericOnly(v.items)
                      [] v.form = "list" /\ AllNumeric(v.items) -> v.items
                      [] OTHER -> <<>>)

(* extract_lidar_range_arrays.                                             *)
RangeArrays(payload, traced) ==
    LET items == payload.items
        arrays(v) == {i \in DOMAIN items : items[i].vehicle = v /\ IsRangeArrayKey(items[i].words)}
    IN  [v \in {w \in traced : arrays(w) # {}} |-> RangeValues(items[Max(arrays(v))].value)]

(* _lidar_points: points as they are; an even number of numbers is pairs   *)
(* of coordinates, unless they are known to be distances, which need an    *)
(* origin.                                                                 *)
Numbers(v) ==
    CASE v.form = "text" -> NumericOnly(v.items)
      [] v.form = "packed" -> Digits
      [] OTHER -> v.items

Readable(v) == v.form # "number" /\ Numbers(v) # <<>> /\ AllNumeric(Numbers(v))

Points(v, origin, ranges) ==
    LET distances == ranges \/ v.form = "ranges" IN
    CASE v.form = "points" -> Value("points", v.items)
      [] v.form = "dict" -> Value("points", First(v.items, 2).items)
      [] ~Readable(v) -> NoValue
      [] v.form \in {"text", "packed", "list", "ranges"} /\ Len(Numbers(v)) % 2 = 0
             /\ ~distances -> Value("points", Numbers(v))
      [] distances /\ origin # <<>> -> Polar(origin, Numbers(v))
      [] OTHER -> NoValue

(* _vehicle_origin: where the vehicle was last seen.                       *)
Origin(positions, vehicle) ==
    IF vehicle \in DOMAIN positions THEN positions[vehicle].items ELSE <<>>

(* A key that mentions the LiDAR in any way may have a scan.               *)
Scan(entry, positions) ==
    IF IsScanKey(entry.words)
    THEN Points(entry.value, Origin(positions, entry.vehicle), IsRangeKey(entry.words))
    ELSE NoValue

(* extract_lidar_scans: the last key that yields points wins, and a topic  *)
(* message that does yields nothing else.                                  *)
LidarScans(payload, traced, positions) ==
    LET scans(entries, v) == {i \in DOMAIN entries : /\ entries[i].vehicle = v
                                                     /\ Scan(entries[i], positions).items # <<>>}
        last(entries) == [v \in {w \in traced : scans(entries, w) # {}} |->
                            Scan(entries[Max(scans(entries, v))], positions)]
    IN  IF \E v \in traced : scans(payload.topic, v) # {}
        THEN last(payload.topic) ELSE last(payload.items)
=============================================================================
