---------------------------- MODULE MCTelemetry ----------------------------
(* An instance of Telemetry for TLC: the frame of tests/bridge_sample.json *)
(* and the messages of tests/test_bridge.py, each cut down to the items    *)
(* that telemetry reads; the values are small numbers.                     *)
EXTENDS Telemetry

CONSTANTS junk, digit

Entry(v, words, form, items) == [vehicle |-> v, words |-> words, value |-> Value(form, items)]
Message(items) == [topic |-> <<>>, items |-> items]
Topic(entry) == [topic |-> <<entry>>, items |-> <<>>]

\* The sample's items of one vehicle, in its order.
Sample(v, place, ranges) ==
    << Entry(v, {"position"}, "text", place),
       Entry(v, {"orientation", "quaternion"}, "text", <<0, 0, 1, 1>>),
       Entry(v, {"linear", "velocity"}, "text", <<v, 0, 0>>),
       Entry(v, {"lidar", "scan", "rate"}, "text", <<40>>),
       Entry(v, {"lidar", "range", "array"}, "packed", ranges),
       Entry(v, {"lidar", "intensity", "array"}, "packed", <<0, 0>>),
       Entry(v, {"lap", "count"}, "text", <<0>>),
       Entry(v, {"last", "lap", "time"}, "text", <<junk>>) >>

MCDigits == <<digit, digit>>
MCPayload == {
    \* a frame of both vehicles, and one in which vehicle 1 lost its place and its LiDAR
    Message(Sample(1, <<1, 2, 0>>, <<7, 8, 9>>) \o Sample(2, <<3, 4, 0>>, <<5>>)),
    Message(Sample(1, <<junk, junk>>, <<junk>>)),
    \* topic messages: a position, points, distances, a velocity
    Topic(Entry(1, {"ips"}, "list", <<5, 6, 0>>)),
    Topic(Entry(1, {"lidar"}, "points", <<1, 2, 3, 4>>)),
    Topic(Entry(1, {"lidar"}, "ranges", <<2, 2>>)),
    Topic(Entry(1, {"linear", "velocity"}, "list", <<0, 1>>)),
    \* a topic whose value is rejected, beside items
    [topic |-> <<Entry(1, {"collision"}, "text", <<junk>>)>>,
     items |-> <<Entry(1, {"speed"}, "number", <<3>>), Entry(2, {"ips"}, "dict", <<7, 8>>)>>],
    \* distances before the position they are measured from; an item of no vehicle
    Message(<<Entry(1, {"lidar", "range"}, "list", <<4, 4>>),
              Entry(1, {"position"}, "dict", <<8, 9>>),
              Entry(1, {"linear", "velocity"}, "list", <<0, 0>>),
              Entry(0, {"lap", "time"}, "text", <<1>>)>>) }
=============================================================================
