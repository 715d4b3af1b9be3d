-------------------------- MODULE MCDevKitPayload --------------------------
(* Two DevKits, and frames of the shapes of tests/bridge_sample.json and   *)
(* tests/test_protocol.py: of both vehicles, of one without a camera, with *)
(* nested parts of both vehicles, and one that points to vehicle 2.        *)
EXTENDS DevKitPayload

Strings == STRING

Reading(n) == Text("reading", n, {})
Named(words, vehicle) == Text(words, 0, {vehicle})
Plain(words) == Text(words, 0, {})
FrameId(vehicle, n) == Item(Plain("frame_id"), Text("roboracer", n, {vehicle}))

Camera(v, n) == Item(Field(v, "front_camera"), Text(IF v = 1 THEN "view1" ELSE "view2", n, {}))
Own(v, n) ==
    {Camera(v, n),
     Item(Field(v, "lidar"), Text(IF v = 1 THEN "scan1" ELSE "scan2", n, {})),
     Item(Field(v, "ips"), Text(IF v = 1 THEN "place1" ELSE "place2", n, {})),
     Item(Named("Encoder Ticks", v), Reading(n))}

Both(n) == Dict(Own(1, n) \cup Own(2, n) \cup {Item(Plain("Reset"), Reading(n))})
NoCamera(n) == Dict(Own(2, n) \ {Camera(2, n)})
Nested(n) ==
    Dict(Own(1, n) \cup {Item(Plain("poses"),
           List(<<Dict({FrameId(1, n), Item(Plain("pose"), Reading(n))}),
                  Dict({FrameId(2, n), Item(Plain("pose"), Reading(n))})>>))})
PointsTo2(n) ==
    Dict({Item(Plain("topic"), Text("/autodrive", n, {2})),
          Item(Plain("payload"), Dict({FrameId(2, n)}))})

Samples == [n \in 1..(MaxFrame + 1) |-> {Both(n), NoCamera(n), Nested(n), PointsTo2(n)}]

=============================================================================
