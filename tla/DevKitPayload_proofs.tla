------------------------ MODULE DevKitPayload_proofs ------------------------
(***************************************************************************)
(* Theorems about what the DevKits are sent of the frames, for every value *)
(* of the constants: what the filter and the rewriting do to the items of  *)
(* a payload, then the inductive invariant (PInv), then the theorems.      *)
(***************************************************************************)
EXTENDS DevKitPayload, VehicleRewriting_proofs

-----------------------------------------------------------------------------
(* The items of a payload.                                                 *)

Entries == [key : Keys, value : Tree[Depth - 1]]

LEMMA PayloadIs ==
    ASSUME NEW p \in Value, p.kind = "dict"
    PROVE  Depth # 0 /\ p.items \in SUBSET Entries /\ UniqueKeys(p.items) /\ p = Dict(p.items)
<1>1. Depth \in 0..Depth /\ p \in Tree[Depth]
  BY DepthAssumption DEF Value
<1>2. Depth # 0 /\ p \in Nest(Tree[Depth - 1])
  BY <1>1, TreeParts
<1>3. p \in Dicts(Tree[Depth - 1])
  BY <1>2, NestIs
<1>4. p.items \in SUBSET Entries /\ UniqueKeys(p.items)
  BY <1>3 DEF Dicts, Entries
<1>5. p = Dict(p.items)
  BY <1>3 DEF Dicts, Dict
<1> QED
  BY <1>2, <1>4, <1>5

LEMMA DictTyped ==
    ASSUME NEW items \in SUBSET Entries, UniqueKeys(items), Depth # 0
    PROVE  Dict(items) \in Value /\ Dict(items).kind = "dict" /\ Dict(items).items = items
<1>1. Dict(items) \in Dicts(Tree[Depth - 1])
  BY DEF Dict, Dicts, Entries
<1>2. Value = Nest(Tree[Depth - 1])
  <2>1. Depth \in 0..Depth
    BY DepthAssumption
  <2> QED
    BY <2>1, TreeIs DEF Value
<1> QED
  BY <1>1, <1>2 DEF Nest, Dict

LEMMA EntryTyped ==
    ASSUME NEW key \in Keys, NEW text \in Texts, Depth # 0
    PROVE  Item(key, text) \in Entries
<1>1. Depth - 1 \in 0..Depth
  BY DepthAssumption
<1>2. text \in Tree[Depth - 1]
  BY <1>1, TreeIs DEF Nest
<1> QED
  BY <1>2 DEF Entries, Item

LEMMA FieldIs ==
    ASSUME NEW v \in Nat, NEW t \in Topic
    PROVE  /\ Field(v, t) \in Keys /\ Field(v, t).ids = {v} /\ Field(v, t).words = Suffix[t]
           /\ \A w \in Nat, u \in Topic : Field(v, t) = Field(w, u) => v = w /\ t = u
<1>1. Suffix[t] \in Words /\ \A u \in Topic : Suffix[t] = Suffix[u] => t = u
  <2>1. Suffix["front_camera"] = "Front Camera Image" /\ Suffix["lidar"] = "LIDAR Range Array"
        /\ Suffix["ips"] = "Position"
    BY DEF Suffix
  <2>2. \A u \in Topic : u = "front_camera" \/ u = "lidar" \/ u = "ips"
    BY DEF Topic
  <2>3. \A u \in Topic : Suffix[t] = Suffix[u] => t = u
    BY <2>1, <2>2
  <2> QED
    BY <2>3, WordsAssumption
<1>2. Field(v, t) \in Keys
  BY <1>1 DEF Field, Text, Keys, Texts
<1>3. Field(v, t).ids = {v} /\ Field(v, t).words = Suffix[t]
  BY DEF Field, Text
<1>4. ASSUME NEW w \in Nat, NEW u \in Topic, Field(v, t) = Field(w, u) PROVE v = w /\ t = u
  BY <1>1, <1>4 DEF Field, Text
<1> QED
  BY <1>2, <1>3, <1>4

LEMMA DefaultsTyped ==
    /\ White \in Texts /\ White.ids = {} /\ White.at = 0
    /\ Empty \in Texts /\ Empty.ids = {} /\ Empty.at = 0
    /\ Default \in Texts /\ Default.ids = {} /\ Default.at = 0
  BY WordsAssumption DEF White, Empty, Default, Text, Texts

LEMMA PutIs ==
    ASSUME NEW items, NEW new
    PROVE  \A i : i \in Put(items, new) <=>
                    i \in new \/ (i \in items /\ \A j \in new : i.key # j.key)
  BY DEF Put

LEMMA PutTyped ==
    ASSUME NEW items \in SUBSET Entries, UniqueKeys(items),
           NEW new \in SUBSET Entries, UniqueKeys(new)
    PROVE  Put(items, new) \in SUBSET Entries /\ UniqueKeys(Put(items, new))
<1>1. Put(items, new) \in SUBSET Entries
  BY PutIs
<1>2. ASSUME NEW i \in Put(items, new), NEW j \in Put(items, new), i.key = j.key PROVE i = j
  BY <1>2, PutIs DEF UniqueKeys
<1> QED
  BY <1>1, <1>2 DEF UniqueKeys

-----------------------------------------------------------------------------
(* The topic filter.                                                       *)

Merged(items, d, cameras) == Put(items, {c \in cameras : c.key.ids = {d}})
Changed(merged, d, on) ==
    (IF "front_camera" \notin on /\ \E i \in merged : i.key = OwnField(d, "front_camera")
     THEN {Item(OwnField(d, "front_camera"), White)} ELSE {})
    \cup {Item(OwnField(d, t), Default) : t \in (Topic \ on) \ {"front_camera"}}

LEMMA FilterIs ==
    ASSUME NEW payload, NEW d, NEW cameras, NEW on
    PROVE  Filter(payload, d, cameras, on) =
             Dict(Put(Merged(payload.items, d, cameras),
                      Changed(Merged(payload.items, d, cameras), d, on)))
  BY DEF Filter, Merged, Changed

LEMMA ChangedIs ==
    ASSUME NEW merged, NEW d \in Nat, NEW on, Depth # 0
    PROVE  /\ Changed(merged, d, on) \in SUBSET Entries /\ UniqueKeys(Changed(merged, d, on))
           /\ \A c \in Changed(merged, d, on) :
                /\ c.value \in {White, Default}
                /\ \E t \in Topic \ on : c.key = Field(d, t)
           /\ \A t \in Topic \ on :
                t # "front_camera" \/ (\E i \in merged : i.key = Field(d, t)) =>
                  \E c \in Changed(merged, d, on) : c.key = Field(d, t)
<1> DEFINE camera == OwnField(d, "front_camera")
           new == Changed(merged, d, on)
<1>1. "front_camera" \in Topic /\ \A t \in Topic : OwnField(d, t) = Field(d, t)
  BY DEF Topic, OwnField
<1>2. \A c : c \in new <=>
        \/ /\ "front_camera" \notin on /\ (\E i \in merged : i.key = Field(d, "front_camera"))
           /\ c = Item(Field(d, "front_camera"), White)
        \/ \E t \in (Topic \ on) \ {"front_camera"} : c = Item(Field(d, t), Default)
  BY <1>1 DEF Changed
<1> HIDE DEF new
<1>3. ASSUME NEW c \in new
      PROVE  \E t \in Topic \ on : /\ c.key = Field(d, t)
                                   /\ c = Item(Field(d, t), IF t = "front_camera" THEN White ELSE Default)
  BY <1>1, <1>2 DEF Item
<1>4. \A c \in new : c.value \in {White, Default} /\ \E t \in Topic \ on : c.key = Field(d, t)
  BY <1>3 DEF Item
<1>5. new \in SUBSET Entries
  <2> SUFFICES ASSUME NEW c \in new PROVE c \in Entries
    OBVIOUS
  <2>1. PICK t \in Topic : c = Item(Field(d, t), IF t = "front_camera" THEN White ELSE Default)
    BY <1>3
  <2>2. Field(d, t) \in Keys
    BY FieldIs
  <2> QED
    BY <2>1, <2>2, DefaultsTyped, EntryTyped
<1>6. UniqueKeys(new)
  <2> SUFFICES ASSUME NEW a \in new, NEW b \in new, a.key = b.key PROVE a = b
    BY DEF UniqueKeys
  <2>1. PICK t \in Topic : /\ a.key = Field(d, t)
                           /\ a = Item(Field(d, t), IF t = "front_camera" THEN White ELSE Default)
    BY <1>3
  <2>2. PICK u \in Topic : /\ b.key = Field(d, u)
                           /\ b = Item(Field(d, u), IF u = "front_camera" THEN White ELSE Default)
    BY <1>3
  <2>3. Field(d, t) = Field(d, u)
    BY <2>1, <2>2
  <2>4. t = u
    BY <2>3, FieldIs
  <2> QED
    BY <2>1, <2>2, <2>4
<1>7. ASSUME NEW t \in Topic \ on,
             t # "front_camera" \/ (\E i \in merged : i.key = Field(d, t))
      PROVE  \E c \in new : c.key = Field(d, t)
  <2>1. CASE t = "front_camera"
    <3>1. Item(Field(d, t), White) \in new
      BY <1>2, <1>7, <2>1
    <3> QED
      BY <3>1 DEF Item
  <2>2. CASE t # "front_camera"
    <3>1. Item(Field(d, t), Default) \in new
      BY <1>2, <2>2
    <3> QED
      BY <3>1 DEF Item
  <2> QED
    BY <2>1, <2>2
<1> QED
  BY <1>4, <1>5, <1>6, <1>7 DEF new

(* What the filter makes of the items of a payload.                        *)
LEMMA Filtered ==
    ASSUME NEW payload \in Value, payload.kind = "dict", NEW d \in Nat, NEW on,
           NEW cameras \in SUBSET Entries, UniqueKeys(cameras),
           \A c \in cameras : \E v \in Nat : c.key = Field(v, "front_camera")
    PROVE  LET items == Filter(payload, d, cameras, on).items IN
           /\ Filter(payload, d, cameras, on) = Dict(items) /\ Dict(items) \in Value
           /\ items \in SUBSET Entries /\ UniqueKeys(items)
           /\ \A i : ~ IsField(i, d) => (i \in items <=> i \in payload.items)
           /\ \A i \in items, t \in Topic : i.key = Field(d, t) =>
                \/ i.value \in {White, Default}
                \/ t \in on /\ (i \in payload.items \/ (t = "front_camera" /\ i \in cameras))
<1> DEFINE new == {c \in cameras : c.key.ids = {d}}
<1>1. "front_camera" \in Topic
  BY DEF Topic
<1>2. Depth # 0 /\ payload.items \in SUBSET Entries /\ UniqueKeys(payload.items)
  BY PayloadIs
<1>3. new \in SUBSET Entries /\ UniqueKeys(new) /\ \A c \in new : c.key = Field(d, "front_camera")
  <2>1. UniqueKeys(new)
    BY DEF UniqueKeys
  <2>2. ASSUME NEW c \in new PROVE c.key = Field(d, "front_camera")
    <3>1. PICK v \in Nat : c.key = Field(v, "front_camera")
      OBVIOUS
    <3>2. c.key.ids = {v}
      BY <1>1, <3>1, FieldIs
    <3> QED
      BY <3>1, <3>2
  <2> QED
    BY <2>1, <2>2
<1>4. PICK merged : merged = Merged(payload.items, d, cameras) /\ merged = Put(payload.items, new)
  BY DEF Merged
<1> HIDE DEF new
<1>5. merged \in SUBSET Entries /\ UniqueKeys(merged)
  BY <1>2, <1>3, <1>4, PutTyped
<1>6. PICK changed :
      /\ changed = Changed(merged, d, on)
      /\ changed \in SUBSET Entries /\ UniqueKeys(changed)
      /\ \A c \in changed : c.value \in {White, Default} /\ \E t \in Topic \ on : c.key = Field(d, t)
      /\ \A t \in Topic \ on : t # "front_camera" \/ (\E i \in merged : i.key = Field(d, t)) =>
           \E c \in changed : c.key = Field(d, t)
  BY <1>2, ChangedIs
<1>7. PICK items : items = Put(merged, changed)
  OBVIOUS
<1>8. items \in SUBSET Entries /\ UniqueKeys(items)
  BY <1>5, <1>6, <1>7, PutTyped
<1>9. \A i : /\ i \in merged <=> i \in new \/ (i \in payload.items /\ \A j \in new : i.key # j.key)
             /\ i \in items <=> i \in changed \/ (i \in merged /\ \A j \in changed : i.key # j.key)
  BY <1>4, <1>7, PutIs
<1>10. ASSUME NEW i, ~ IsField(i, d) PROVE i \in items <=> i \in payload.items
  <2>1. \A t \in Topic : i.key # Field(d, t)
    BY <1>10 DEF IsField
  <2>2. i \notin new /\ i \notin changed
    BY <1>1, <1>3, <1>6, <2>1
  <2>3. (\A j \in new : i.key # j.key) /\ (\A j \in changed : i.key # j.key)
    BY <1>1, <1>3, <1>6, <2>1
  <2> QED
    BY <1>9, <2>2, <2>3
<1>11. ASSUME NEW i \in items, NEW t \in Topic, i.key = Field(d, t)
       PROVE  \/ i.value \in {White, Default}
              \/ t \in on /\ (i \in payload.items \/ (t = "front_camera" /\ i \in cameras))
  <2>1. CASE i \in changed
    BY <1>6, <2>1
  <2>2. CASE i \in merged /\ \A j \in changed : i.key # j.key
    <3>1. t \in on
      BY <1>6, <1>11, <2>2
    <3>2. i \in new => t = "front_camera" /\ i \in cameras
      BY <1>1, <1>3, <1>11, FieldIs DEF new
    <3> QED
      BY <1>9, <2>2, <3>1, <3>2
  <2> QED
    BY <1>9, <2>1, <2>2
<1>12. Filter(payload, d, cameras, on) = Dict(items)
  BY <1>4, <1>6, <1>7, FilterIs
<1>13. Dict(items) \in Value /\ Dict(items).items = items
  BY <1>2, <1>8, DictTyped
<1> QED
  BY <1>8, <1>10, <1>11, <1>12, <1>13


-----------------------------------------------------------------------------
(* The payloads that the history keeps.                                    *)

Payload(p) == p \in Value /\ p.kind = "dict"

(* shown is raw, but for the values of cameras.                            *)
Shows(shown, raw) ==
    /\ Payload(shown)
    /\ \A i : ~ IsCamera(i) => (i \in shown.items <=> i \in raw.items)
    /\ \A i \in shown.items : i \in raw.items \/ (IsCamera(i) /\ i.value \in {White, Empty})
    /\ \A i \in shown.items : \E j \in raw.items : i.key = j.key
    /\ \A i \in raw.items : \E j \in shown.items : i.key = j.key

LEMMA ReplaceIs ==
    ASSUME NEW shown, NEW raw, Shows(shown, raw), NEW value \in {White, Empty}
    PROVE  Shows(ReplaceCamera(shown, value), raw)
<1> DEFINE new(i) == IF IsCamera(i) THEN Item(i.key, value) ELSE i
<1>1. PICK items : items = {new(i) : i \in shown.items}
  OBVIOUS
<1>2. ReplaceCamera(shown, value) = Dict(items)
  BY <1>1 DEF ReplaceCamera
<1>3. Depth # 0 /\ shown.items \in SUBSET Entries /\ UniqueKeys(shown.items)
  BY PayloadIs DEF Shows, Payload
<1>4. value \in Texts
  BY DefaultsTyped
<1>5. ASSUME NEW i \in shown.items
      PROVE  /\ new(i) \in Entries /\ new(i).key = i.key
             /\ IsCamera(new(i)) <=> IsCamera(i)
             /\ IsCamera(i) => new(i).value = value
             /\ ~ IsCamera(i) => new(i) = i
  <2>1. i.key \in Keys /\ i \in Entries
    BY <1>3 DEF Entries
  <2>2. Item(i.key, value) \in Entries
    BY <1>3, <1>4, <2>1, EntryTyped
  <2> QED
    BY <2>1, <2>2 DEF Item, IsCamera
<1> HIDE DEF new
<1>6. items \in SUBSET Entries /\ UniqueKeys(items)
  <2>1. ASSUME NEW a \in items, NEW b \in items, a.key = b.key PROVE a = b
    <3>1. PICK i \in shown.items : a = new(i)
      BY <1>1
    <3>2. PICK j \in shown.items : b = new(j)
      BY <1>1
    <3>3. i.key = j.key
      BY <1>5, <2>1, <3>1, <3>2
    <3> QED
      BY <1>3, <3>1, <3>2, <3>3 DEF UniqueKeys
  <2> QED
    BY <1>1, <1>5, <2>1 DEF UniqueKeys
<1>7. Payload(Dict(items)) /\ Dict(items).items = items
  BY <1>3, <1>6, DictTyped DEF Payload
<1>8. ASSUME NEW i, ~ IsCamera(i) PROVE i \in items <=> i \in raw.items
  <2>1. i \in items => i \in shown.items
    BY <1>1, <1>5, <1>8
  <2>2. i \in shown.items => i \in items
    BY <1>1, <1>5, <1>8
  <2> QED
    BY <1>8, <2>1, <2>2 DEF Shows
<1>9. ASSUME NEW i \in items
      PROVE  /\ i \in raw.items \/ (IsCamera(i) /\ i.value \in {White, Empty})
             /\ \E j \in raw.items : i.key = j.key
  <2>1. PICK j \in shown.items : i = new(j)
    BY <1>1
  <2>2. IsCamera(i) => i.value = value
    BY <1>5, <2>1
  <2>3. \E k \in raw.items : j.key = k.key
    BY DEF Shows
  <2> QED
    BY <1>5, <1>8, <2>1, <2>2, <2>3
<1>10. ASSUME NEW i \in raw.items PROVE \E j \in items : i.key = j.key
  <2>1. PICK j \in shown.items : i.key = j.key
    BY DEF Shows
  <2>2. new(j) \in items /\ new(j).key = i.key
    BY <1>1, <1>5, <2>1
  <2> QED
    BY <2>2
<1> QED
  BY <1>2, <1>7, <1>8, <1>9, <1>10 DEF Shows

LEMMA CamerasAre ==
    ASSUME NEW raw, Payload(raw)
    PROVE  /\ Cameras(raw) \in SUBSET Entries /\ UniqueKeys(Cameras(raw))
           /\ \A c : c \in Cameras(raw) <=> c \in raw.items /\ IsCamera(c)
           /\ \A c \in Cameras(raw) : \E v \in Nat : c.key = Field(v, "front_camera")
<1>1. \A c : c \in Cameras(raw) <=> c \in raw.items /\ IsCamera(c)
  BY DEF Cameras, CameraItems
<1>2. raw.items \in SUBSET Entries /\ UniqueKeys(raw.items)
  BY PayloadIs DEF Payload
<1>3. \A c : IsCamera(c) => \E v \in Nat : c.key = Field(v, "front_camera")
  BY DEF IsCamera
<1> HIDE DEF Cameras
<1> QED
  BY <1>1, <1>2, <1>3 DEF UniqueKeys

-----------------------------------------------------------------------------
(* The fields of a payload for a DevKit.                                   *)

(* The fields of topics hold what the simulator reports.                   *)
Plain(items) ==
    \A i \in items : (\E v \in Nat, t \in Topic : i.key = Field(v, t)) =>
        i.value \in Texts /\ i.value.ids = {}

LEMMA FilterTyped ==
    ASSUME NEW p, Payload(p), NEW raw, Payload(raw), NEW d \in Nat, NEW on
    PROVE  Payload(Filter(p, d, Cameras(raw), on))
<1>1. /\ Cameras(raw) \in SUBSET Entries /\ UniqueKeys(Cameras(raw))
      /\ \A c \in Cameras(raw) : \E v \in Nat : c.key = Field(v, "front_camera")
  BY CamerasAre
<1>2. LET items == Filter(p, d, Cameras(raw), on).items IN
      Filter(p, d, Cameras(raw), on) = Dict(items) /\ Dict(items) \in Value
  BY <1>1, Filtered DEF Payload
<1> QED
  BY <1>2 DEF Payload, Dict

LEMMA ShownPlain ==
    ASSUME NEW shown, NEW raw, Shows(shown, raw), Plain(raw.items)
    PROVE  Plain(shown.items)
  BY DefaultsTyped DEF Shows, Plain

LEMMA FieldBack ==
    ASSUME NEW key \in Keys, NEW d \in Nat, NEW t \in Topic, ~ Foreign(key, d)
    PROVE  RewriteText(key, d, 1) = Field(1, t) <=> key = Field(d, t)
<1> DEFINE renamed == RewriteText(key, d, 1)
<1>1. key \in Texts /\ Field(d, t) \in Texts /\ Field(1, t) \in Texts
  BY FieldIs DEF Keys
<1>2. /\ renamed \in Texts /\ renamed.words = key.words /\ renamed.at = key.at
      /\ renamed.ids = {IF id = d THEN 1 ELSE id : id \in key.ids}
  BY <1>1, RewriteTextIs
<1> HIDE DEF renamed
<1>3. /\ Field(d, t).words = Suffix[t] /\ Field(d, t).at = 0 /\ Field(d, t).ids = {d}
      /\ Field(1, t).words = Suffix[t] /\ Field(1, t).at = 0 /\ Field(1, t).ids = {1}
  BY DEF Field, Text
<1>4. key.ids = {} \/ key.ids = {d}
  BY DEF Foreign, Keys
<1>5. ASSUME renamed = Field(1, t) PROVE key = Field(d, t)
  <2>1. key.ids # {}
    BY <1>2, <1>3, <1>5
  <2> QED
    BY <1>1, <1>2, <1>3, <1>4, <1>5, <2>1, TextsEqual
<1>6. ASSUME key = Field(d, t) PROVE renamed = Field(1, t)
  <2>1. renamed.ids = {1}
    BY <1>2, <1>3, <1>6
  <2> QED
    BY <1>1, <1>2, <1>3, <1>6, <2>1, TextsEqual
<1> QED
  BY <1>5, <1>6 DEF renamed

LEMMA FieldOut ==
    ASSUME NEW shown, NEW raw, Shows(shown, raw), Plain(raw.items),
           NEW later, Payload(later), Plain(later.items),
           NEW d \in Nat, NEW on,
           Prebuilt(shown, d, Cameras(later), on) # DropValue,
           NEW a \in Prebuilt(shown, d, Cameras(later), on).items,
           NEW t \in Topic, a.key = Field(1, t)
    PROVE  /\ a.value \in Texts
           /\ \/ a.value.at = 0
              \/ /\ t \in on
                 /\ \/ Item(Field(d, t), a.value) \in raw.items
                    \/ t = "front_camera" /\ Item(Field(d, t), a.value) \in later.items
<1>1. PICK payload : payload = Filter(shown, d, Cameras(later), on)
  OBVIOUS
<1>2. /\ payload \in Value /\ payload.kind = "dict"
      /\ payload.items \in SUBSET Entries
      /\ \A i \in payload.items, u \in Topic : i.key = Field(d, u) =>
           \/ i.value \in {White, Default}
           \/ u \in on /\ (i \in shown.items \/ (u = "front_camera" /\ i \in Cameras(later)))
  <2>1. shown \in Value /\ shown.kind = "dict"
    BY DEF Shows, Payload
  <2>2. /\ Cameras(later) \in SUBSET Entries /\ UniqueKeys(Cameras(later))
        /\ \A c \in Cameras(later) : \E v \in Nat : c.key = Field(v, "front_camera")
    BY CamerasAre
  <2>3. LET items == payload.items IN
        /\ payload = Dict(items) /\ Dict(items) \in Value
        /\ items \in SUBSET Entries
        /\ \A i \in items, u \in Topic : i.key = Field(d, u) =>
             \/ i.value \in {White, Default}
             \/ u \in on /\ (i \in shown.items \/ (u = "front_camera" /\ i \in Cameras(later)))
    BY <1>1, <2>1, <2>2, Filtered
  <2> QED
    BY <2>3 DEF Dict
<1>3. PICK R : R = Rewrite(d, 1, TRUE) /\ Inward(d, 1, R)
  BY InwardIs
<1>4. Prebuilt(shown, d, Cameras(later), on) = R[payload]
  BY <1>1, <1>3 DEF Prebuilt, ToDevKit
<1>5. PICK got \in SUBSET [key : Keys, value : Value] : DictBecomes(payload, R, d, 1, got)
  BY <1>2, <1>3, InwardDict
<1>6. R[payload] = Dict(got)
  BY <1>4, <1>5 DEF DictBecomes
<1>7. a \in got
  BY <1>4, <1>6 DEF Dict
<1>8. PICK i \in payload.items : /\ ~ Foreign(i.key, d) /\ R[i.value] # DropValue
                                 /\ a = Item(RewriteText(i.key, d, 1), R[i.value])
  BY <1>5, <1>7 DEF DictBecomes
<1>9. RewriteText(i.key, d, 1) = Field(1, t) /\ R[i.value] = a.value
  BY <1>8 DEF Item
<1>10. i.key = Field(d, t)
  <2>1. i.key \in Keys
    BY <1>2 DEF Entries
  <2> QED
    BY <1>8, <1>9, <2>1, FieldBack
<1>11. \/ i.value \in {White, Default}
       \/ t \in on /\ (i \in shown.items \/ (t = "front_camera" /\ i \in Cameras(later)))
  BY <1>2, <1>10
<1>12. i \in Cameras(later) => i \in later.items
  BY CamerasAre
<1>13. i.value \in Texts /\ i.value.ids = {}
  <2>1. Plain(shown.items)
    BY ShownPlain
  <2> QED
    BY <1>10, <1>11, <1>12, <2>1, DefaultsTyped DEF Plain
<1>14. a.value = i.value
  <2>1. i.value \in Value /\ i.value.kind = "text"
    <3>1. 0 \in 0..Depth
      BY DepthAssumption
    <3> QED
      BY <1>13, <3>1, TreeAt, TreeValue DEF Texts
  <2>2. ~ Foreign(i.value, d)
    BY <1>13 DEF Foreign
  <2>3. R[i.value] = RewriteText(i.value, d, 1)
    <3>1. 1 \in Nat /\ Inward(d, 1, R)
      BY <1>3
    <3>2. \A e \in Nat, x \in Value : Inward(d, e, R) /\ x.kind = "text" =>
            R[x] = IF Foreign(x, d) THEN DropValue ELSE RewriteText(x, d, e)
      BY InwardAt
    <3> QED
      BY <2>1, <2>2, <3>1, <3>2
  <2>4. /\ RewriteText(i.value, d, 1) \in Texts
        /\ RewriteText(i.value, d, 1).words = i.value.words
        /\ RewriteText(i.value, d, 1).at = i.value.at
        /\ RewriteText(i.value, d, 1).ids = {IF id = d THEN 1 ELSE id : id \in i.value.ids}
    BY <1>13, RewriteTextIs
  <2>5. RewriteText(i.value, d, 1).ids = i.value.ids
    BY <1>13, <2>4
  <2> QED
    BY <1>9, <1>13, <2>3, <2>4, <2>5, TextsEqual
<1>15. i = Item(Field(d, t), a.value)
  BY <1>2, <1>10, <1>14 DEF Entries, Item
<1>16. i.value.at = 0 \/ (t \in on /\ (i \in raw.items \/ (t = "front_camera" /\ i \in later.items)))
  <2>1. i \in shown.items => i \in raw.items \/ i.value \in {White, Empty}
    BY DEF Shows
  <2> QED
    BY <1>11, <1>12, <2>1, DefaultsTyped
<1> QED
  BY <1>13, <1>14, <1>15, <1>16

-----------------------------------------------------------------------------
(* The two ways to make a payload.                                         *)

(* What belongs to other vehicles does not matter, except that it is there.*)
LEMMA SameForDevKit ==
    ASSUME NEW a, NEW b, Payload(a), Payload(b), NEW d \in Nat,
           \A i : ~ Foreign(i.key, d) => (i \in a.items <=> i \in b.items),
           \A i \in a.items : \E j \in b.items : i.key = j.key,
           \A i \in b.items : \E j \in a.items : i.key = j.key
    PROVE  ToDevKit(a, d) = ToDevKit(b, d)
<1>1. PICK R : R = Rewrite(d, 1, TRUE) /\ Inward(d, 1, R) /\ 1 \in Nat
  BY InwardIs
<1>2. a \in Value /\ a.kind = "dict" /\ b \in Value /\ b.kind = "dict"
  BY DEF Payload
<1>3. PICK x : DictBecomes(a, R, d, 1, x)
  BY <1>1, <1>2, InwardDict
<1>4. PICK y : DictBecomes(b, R, d, 1, y)
  BY <1>1, <1>2, InwardDict
<1>5. x = y
  <2>1. \A i \in a.items : ~ Foreign(i.key, d) => i \in b.items
    OBVIOUS
  <2>2. \A i \in b.items : ~ Foreign(i.key, d) => i \in a.items
    OBVIOUS
  <2>3. \A z \in x : z \in y
    BY <1>3, <1>4, <2>1 DEF DictBecomes
  <2>4. \A z \in y : z \in x
    BY <1>3, <1>4, <2>2 DEF DictBecomes
  <2> QED
    BY <2>3, <2>4
<1>6. PointsToOther(a.items, d) <=> PointsToOther(b.items, d)
  <2>1. \A i : i.key.ids = {} => (i \in a.items <=> i \in b.items)
    BY DEF Foreign
  <2> QED
    BY <2>1 DEF PointsToOther, Pointed
<1>7. x = {} => (ContainsVehicleId[a] <=> ContainsVehicleId[b])
  <2>1. ContainsVehicleId[a] = \E i \in a.items : i.key.ids # {} \/ ContainsVehicleId[i.value]
    BY <1>2, ContainsAt
  <2>2. ContainsVehicleId[b] = \E i \in b.items : i.key.ids # {} \/ ContainsVehicleId[i.value]
    BY <1>2, ContainsAt
  <2>3. CASE \E i \in a.items : i.key.ids # {}
    <3>1. \E i \in b.items : i.key.ids # {}
      BY <2>3
    <3> QED
      BY <2>1, <2>2, <2>3, <3>1
  <2>4. CASE \A i \in a.items : i.key.ids = {}
    <3>1. \A i \in b.items : i.key.ids = {}
      BY <2>4
    <3>2. a.items = b.items
      BY <2>4, <3>1 DEF Foreign
    <3> QED
      BY <2>1, <2>2, <3>2
  <2> QED
    BY <2>3, <2>4
<1>8. R[a] = R[b]
  BY <1>3, <1>4, <1>5, <1>6, <1>7 DEF DictBecomes
<1> QED
  BY <1>1, <1>8 DEF ToDevKit

(* A frame and what the history keeps of it make the same payload, with    *)
(* the frame's own cameras: these come back.                               *)
LEMMA SamePayload ==
    ASSUME NEW shown, NEW raw, Payload(raw), Shows(shown, raw), NEW d \in Nat, NEW on
    PROVE  Prebuilt(shown, d, Cameras(raw), on) = Prebuilt(raw, d, Cameras(raw), on)
<1> DEFINE mine == {c \in Cameras(raw) : c.key.ids = {d}}
<1>1. "front_camera" \in Topic /\ \A v, t : OwnField(v, t) = Field(v, t)
  BY DEF Topic, OwnField
<1>2. raw.items \in SUBSET Entries /\ UniqueKeys(raw.items) /\ Depth # 0
  BY PayloadIs DEF Payload
<1>3. \A c : c \in mine <=> c \in raw.items /\ IsCamera(c) /\ c.key.ids = {d}
  BY CamerasAre
<1>4. PICK a : a = Merged(raw.items, d, Cameras(raw)) /\ a = Put(raw.items, mine)
  BY DEF Merged
<1>5. PICK b : b = Merged(shown.items, d, Cameras(raw)) /\ b = Put(shown.items, mine)
  BY DEF Merged
<1>6. \A i : i \in a <=> i \in mine \/ (i \in raw.items /\ \A j \in mine : i.key # j.key)
  BY <1>4, PutIs
<1>7. \A i : i \in b <=> i \in mine \/ (i \in shown.items /\ \A j \in mine : i.key # j.key)
  BY <1>5, PutIs
<1> HIDE DEF mine
<1>8. ASSUME NEW i, ~ Foreign(i.key, d) PROVE i \in a <=> i \in b
  <2>1. CASE ~ IsCamera(i)
    BY <1>6, <1>7, <2>1 DEF Shows
  <2>2. CASE IsCamera(i)
    <3>1. i.key.ids = {d}
      <4>1. \E v \in Nat : i.key = Field(v, "front_camera")
        BY <2>2 DEF IsCamera
      <4>2. \E v \in Nat : i.key.ids = {v}
        BY <1>1, <4>1, FieldIs
      <4> QED
        BY <1>8, <4>2 DEF Foreign
    <3>2. ASSUME NEW j \in raw.items, j.key = i.key PROVE j \in mine
      BY <1>3, <2>2, <3>1, <3>2 DEF IsCamera
    <3>3. i \in a => i \in mine
      BY <1>6, <3>2
    <3>4. i \in b => i \in mine
      <4>1. i \in shown.items => \E j \in raw.items : i.key = j.key
        BY DEF Shows
      <4> QED
        BY <1>7, <3>2, <4>1
    <3> QED
      BY <1>6, <1>7, <3>3, <3>4
  <2> QED
    BY <2>1, <2>2
<1>9. /\ \A i \in a : \E j \in b : i.key = j.key
      /\ \A i \in b : \E j \in a : i.key = j.key
  BY <1>6, <1>7 DEF Shows
<1>10. PICK new : new = Changed(a, d, on) /\ new = Changed(b, d, on)
  <2>1. (\E i \in a : i.key = OwnField(d, "front_camera"))
          <=> (\E i \in b : i.key = OwnField(d, "front_camera"))
    BY <1>9
  <2>2. Changed(a, d, on) = Changed(b, d, on)
    BY <2>1 DEF Changed
  <2> QED
    BY <2>2
<1>11. PICK x : x = Dict(Put(a, new)) /\ x = Filter(raw, d, Cameras(raw), on)
  BY <1>4, <1>10, FilterIs
<1>12. PICK y : y = Dict(Put(b, new)) /\ y = Filter(shown, d, Cameras(raw), on)
  BY <1>5, <1>10, FilterIs
<1>13. Payload(x) /\ Payload(y)
  <2>1. ASSUME NEW p, Payload(p)
        PROVE  Payload(Filter(p, d, Cameras(raw), on))
    BY <2>1, FilterTyped
  <2>2. Payload(shown)
    BY DEF Shows
  <2> QED
    BY <1>11, <1>12, <2>1, <2>2
<1>14. /\ \A i : i \in x.items <=> i \in new \/ (i \in a /\ \A j \in new : i.key # j.key)
       /\ \A i : i \in y.items <=> i \in new \/ (i \in b /\ \A j \in new : i.key # j.key)
  BY <1>11, <1>12, PutIs DEF Dict
<1>15. ToDevKit(x, d) = ToDevKit(y, d)
  <2>1. \A i : ~ Foreign(i.key, d) => (i \in x.items <=> i \in y.items)
    BY <1>8, <1>14
  <2>2. \A i \in x.items : \E j \in y.items : i.key = j.key
    BY <1>9, <1>14
  <2>3. \A i \in y.items : \E j \in x.items : i.key = j.key
    BY <1>9, <1>14
  <2> QED
    BY <1>13, <2>1, <2>2, <2>3, SameForDevKit
<1> QED
  BY <1>11, <1>12, <1>15 DEF Prebuilt

-----------------------------------------------------------------------------
(* What no topic governs.                                                  *)

(* The filter leaves alone what is the DevKit's own or nobody's.           *)
LEMMA LeftAlone ==
    ASSUME NEW shown, NEW raw, Payload(raw), Shows(shown, raw), NEW later, Payload(later),
           NEW d \in Nat, NEW on, NEW payload, payload = Filter(shown, d, Cameras(later), on)
    PROVE  /\ Payload(payload)
           /\ \A i : ~ Foreign(i.key, d) /\ ~ IsField(i, d) =>
                (i \in payload.items <=> i \in raw.items)
           /\ \A t : t \in Pointed(payload.items) <=> t \in Pointed(raw.items)
<1>1. Payload(shown) /\ Payload(payload)
  BY FilterTyped DEF Shows
<1>2. \A i : ~ IsField(i, d) => (i \in payload.items <=> i \in shown.items)
  <2>1. /\ Cameras(later) \in SUBSET Entries /\ UniqueKeys(Cameras(later))
        /\ \A c \in Cameras(later) : \E v \in Nat : c.key = Field(v, "front_camera")
    BY CamerasAre
  <2>2. LET items == payload.items IN
        \A i : ~ IsField(i, d) => (i \in items <=> i \in shown.items)
    BY <1>1, <2>1, Filtered DEF Payload
  <2> QED
    BY <2>2
<1>3. \A i : ~ Foreign(i.key, d) /\ ~ IsField(i, d) => ~ IsCamera(i)
  <2> SUFFICES ASSUME NEW i, ~ Foreign(i.key, d), IsCamera(i) PROVE IsField(i, d)
    OBVIOUS
  <2>1. "front_camera" \in Topic
    BY DEF Topic
  <2>2. PICK v \in Nat : i.key = Field(v, "front_camera")
    BY DEF IsCamera
  <2>3. i.key.ids = {v}
    BY <2>1, <2>2, FieldIs
  <2> QED
    BY <2>1, <2>2, <2>3 DEF Foreign, IsField
<1>4. ASSUME NEW i, ~ Foreign(i.key, d), ~ IsField(i, d)
      PROVE  i \in payload.items <=> i \in raw.items
  BY <1>2, <1>3, <1>4 DEF Shows
<1>5. \A i : i.key.ids = {} => (i \in payload.items <=> i \in raw.items)
  <2> SUFFICES ASSUME NEW i, i.key.ids = {} PROVE i \in payload.items <=> i \in raw.items
    OBVIOUS
  <2>1. ~ Foreign(i.key, d)
    BY DEF Foreign
  <2>2. ~ IsField(i, d)
    BY FieldIs DEF IsField
  <2> QED
    BY <1>4, <2>1, <2>2
<1>6. \A t : t \in Pointed(payload.items) <=> t \in Pointed(raw.items)
  BY <1>5 DEF Pointed
<1> QED
  BY <1>1, <1>4, <1>6

LEMMA PartOfDict ==
    ASSUME NEW p, Payload(p), NEW some \in SUBSET p.items
    PROVE  Dict(some) \in Value /\ Dict(some).kind = "dict" /\ Dict(some).items = some
<1>1. Depth # 0 /\ p.items \in SUBSET Entries /\ UniqueKeys(p.items)
  BY PayloadIs DEF Payload
<1>2. some \in SUBSET Entries /\ UniqueKeys(some)
  BY <1>1 DEF UniqueKeys
<1> QED
  BY <1>1, <1>2, DictTyped

(* A leaf of a frame that no topic governs and that is the DevKit's own or *)
(* nobody's.                                                               *)
OwnLeaf(l, raw, d) ==
    /\ l \in Leaves[raw]
    /\ ~ IsField([key |-> l.path[1]], d)
    /\ \A t \in l.texts : ~ Foreign(t, d)

LEMMA OwnLeafIs ==
    ASSUME NEW raw, Payload(raw), NEW d, NEW l
    PROVE  OwnLeaf(l, raw, d) <=>
             \E i \in raw.items : /\ ~ Foreign(i.key, d) /\ ~ IsField(i, d)
                                  /\ ~ PointsToOther(raw.items, d)
                                  /\ \E k \in Own(i.value, d) : l = Below(i, k, raw.items)
<1>1. raw \in Value /\ raw.kind = "dict" /\ raw.items \in SUBSET [key : Keys, value : Value]
  <2>1. raw \in Value /\ raw.kind = "dict"
    BY DEF Payload
  <2> QED
    BY <2>1, ValueIs
<1>2. l \in Leaves[raw] <=> \E i \in raw.items : \E k \in Leaves[i.value] : l = Below(i, k, raw.items)
  BY <1>1, LeavesAt
<1>3. ASSUME NEW i \in raw.items, NEW k \in Leaves[i.value], l = Below(i, k, raw.items)
      PROVE  /\ IsField([key |-> l.path[1]], d) <=> IsField(i, d)
             /\ (\A t \in l.texts : ~ Foreign(t, d)) <=>
                  /\ ~ Foreign(i.key, d) /\ ~ PointsToOther(raw.items, d)
                  /\ \A t \in k.texts : ~ Foreign(t, d)
  <2>1. k.path \in Seq(Keys) /\ i.key \in Keys
    BY <1>1, PathsTyped
  <2>2. l.path = <<i.key>> \o k.path /\ l.texts = k.texts \cup {i.key} \cup Pointed(raw.items)
    BY <1>3 DEF Below
  <2>3. l.path[1] = i.key
    BY <2>1, <2>2
  <2>4. IsField([key |-> l.path[1]], d) <=> IsField(i, d)
    BY <2>3 DEF IsField
  <2>5. (\A t \in l.texts : ~ Foreign(t, d)) <=>
           /\ ~ Foreign(i.key, d) /\ ~ PointsToOther(raw.items, d)
           /\ \A t \in k.texts : ~ Foreign(t, d)
    BY <2>2 DEF PointsToOther
  <2> QED
    BY <2>4, <2>5
<1>4. \A v, k : k \in Own(v, d) <=> k \in Leaves[v] /\ \A t \in k.texts : ~ Foreign(t, d)
  BY DEF Own
<1>5. ASSUME OwnLeaf(l, raw, d)
      PROVE  \E i \in raw.items : /\ ~ Foreign(i.key, d) /\ ~ IsField(i, d)
                                  /\ ~ PointsToOther(raw.items, d)
                                  /\ \E k \in Own(i.value, d) : l = Below(i, k, raw.items)
  <2>1. l \in Leaves[raw] /\ ~ IsField([key |-> l.path[1]], d) /\ \A t \in l.texts : ~ Foreign(t, d)
    BY <1>5 DEF OwnLeaf
  <2>2. PICK i \in raw.items : \E k \in Leaves[i.value] : l = Below(i, k, raw.items)
    BY <1>2, <2>1
  <2>3. PICK k \in Leaves[i.value] : l = Below(i, k, raw.items)
    BY <2>2
  <2>4. /\ ~ Foreign(i.key, d) /\ ~ IsField(i, d) /\ ~ PointsToOther(raw.items, d)
        /\ \A t \in k.texts : ~ Foreign(t, d)
    BY <1>3, <2>1, <2>3
  <2>5. k \in Own(i.value, d)
    BY <1>4, <2>4
  <2> QED
    BY <2>3, <2>4, <2>5
<1>6. ASSUME NEW i \in raw.items, ~ Foreign(i.key, d), ~ IsField(i, d),
             ~ PointsToOther(raw.items, d), NEW k \in Own(i.value, d), l = Below(i, k, raw.items)
      PROVE  OwnLeaf(l, raw, d)
  <2>1. k \in Leaves[i.value] /\ \A t \in k.texts : ~ Foreign(t, d)
    BY <1>4
  <2> QED
    BY <1>2, <1>3, <1>6, <2>1 DEF OwnLeaf
<1> QED
  BY <1>5, <1>6

(* All that is its own arrives at the DevKit, renamed, and nothing else.   *)
LEMMA OwnOut ==
    ASSUME NEW raw, Payload(raw), NEW shown, Shows(shown, raw), NEW later, Payload(later),
           NEW d \in Nat, NEW on, NEW e \in Nat, e = 1,
           NEW sent, sent = Prebuilt(shown, d, Cameras(later), on),
           NEW rest, rest = Rest(IF sent = DropValue THEN {} ELSE sent.items, e)
    PROVE  /\ \A l : OwnLeaf(l, raw, d) => \E m \in Leaves[Dict(rest)] : Becomes(l, m, d, e)
           /\ \A m \in Leaves[Dict(rest)] : \E l : OwnLeaf(l, raw, d) /\ Becomes(l, m, d, e)
<1>1. PICK payload :
        /\ payload = Filter(shown, d, Cameras(later), on) /\ Payload(payload)
        /\ \A i : ~ Foreign(i.key, d) /\ ~ IsField(i, d) => (i \in payload.items <=> i \in raw.items)
        /\ \A t : t \in Pointed(payload.items) <=> t \in Pointed(raw.items)
  BY LeftAlone
<1>2. PointsToOther(payload.items, d) <=> PointsToOther(raw.items, d)
  BY <1>1 DEF PointsToOther
<1>3. PICK R : R = Rewrite(d, e, TRUE) /\ Inward(d, e, R)
  BY InwardIs
<1>4. sent = R[payload]
  BY <1>1, <1>3 DEF Prebuilt, ToDevKit
<1>5. payload \in Value /\ payload.kind = "dict"
  BY <1>1 DEF Payload
<1>6. PICK got \in SUBSET [key : Keys, value : Value] : DictBecomes(payload, R, d, e, got)
  BY <1>3, <1>5, InwardDict
<1>7. /\ R[payload] = IF PointsToOther(payload.items, d) \/ (got = {} /\ ContainsVehicleId[payload])
                      THEN DropValue ELSE Dict(got)
      /\ \A a \in got : \E i \in payload.items :
           /\ ~ Foreign(i.key, d) /\ R[i.value] # DropValue
           /\ a = Item(RewriteText(i.key, d, e), R[i.value])
      /\ \A i \in payload.items : ~ Foreign(i.key, d) /\ R[i.value] # DropValue =>
           Item(RewriteText(i.key, d, e), R[i.value]) \in got
  BY <1>6 DEF DictBecomes
<1>8. Dict(got) # DropValue /\ Dict(got).items = got
  BY DEF Dict, DropValue
<1>9. Dict(rest) \in Value /\ Dict(rest).kind = "dict" /\ Dict(rest).items = rest
  <2>1. CASE sent = DropValue
    <3>1. rest \in SUBSET raw.items
      BY <2>1 DEF Rest
    <3> QED
      BY <3>1, PartOfDict
  <2>2. CASE sent # DropValue
    <3>1. R[payload] = DropValue \/ (R[payload] \in Value /\ R[payload].kind = payload.kind)
      <4>1. Inward(d, e, R)
        BY <1>3
      <4> QED
        BY <4>1, <1>5, InwardAt
    <3>2. Payload(sent)
      BY <1>4, <1>5, <2>2, <3>1 DEF Payload
    <3>3. rest \in SUBSET sent.items
      BY <2>2 DEF Rest
    <3> QED
      BY <3>2, <3>3, PartOfDict
  <2> QED
    BY <2>1, <2>2
<1>10. \A m : m \in Leaves[Dict(rest)] <=>
         \E a \in rest : \E k \in Leaves[a.value] : m = Below(a, k, rest)
  BY <1>9, LeavesAt
<1>11. \A i \in payload.items : i.key \in Keys /\ i.value \in Value
  BY <1>5, ValueIs
<1>12. ASSUME NEW i \in payload.items, ~ Foreign(i.key, d)
       PROVE  IsField(Item(RewriteText(i.key, d, e), R[i.value]), e) <=> IsField(i, d)
  <2>1. \A t \in Topic : RewriteText(i.key, d, 1) = Field(1, t) <=> i.key = Field(d, t)
    BY <1>11, <1>12, FieldBack
  <2> QED
    BY <2>1 DEF IsField, Item
<1>13. ASSUME NEW l, OwnLeaf(l, raw, d)
       PROVE  \E m \in Leaves[Dict(rest)] : Becomes(l, m, d, e)
  <2>1. PICK i \in raw.items : /\ ~ Foreign(i.key, d) /\ ~ IsField(i, d)
                               /\ ~ PointsToOther(raw.items, d)
                               /\ \E k \in Own(i.value, d) : l = Below(i, k, raw.items)
    BY <1>13, OwnLeafIs
  <2>2. PICK k \in Own(i.value, d) : l = Below(i, k, raw.items)
    BY <2>1
  <2>3. i \in payload.items /\ i.key \in Keys /\ i.value \in Value
    BY <1>1, <1>11, <2>1
  <2>4. IsOwnPart(i.value, R, d, e)
    BY <1>3, <2>3, OwnPart
  <2>5. R[i.value] # DropValue /\ \E m \in Leaves[R[i.value]] : Becomes(k, m, d, e)
    BY <2>4 DEF IsOwnPart
  <2>6. PICK m \in Leaves[R[i.value]] : Becomes(k, m, d, e)
    BY <2>5
  <2>7. PICK a : a = Item(RewriteText(i.key, d, e), R[i.value])
    OBVIOUS
  <2>8. a \in got
    BY <1>7, <2>1, <2>3, <2>5, <2>7
  <2>9. sent # DropValue /\ sent.items = got
    BY <1>2, <1>4, <1>7, <1>8, <2>1, <2>8
  <2>10. a \in rest /\ a.value = R[i.value]
    BY <1>12, <2>1, <2>3, <2>7, <2>8, <2>9 DEF Rest, Item
  <2>11. k.path \in Seq(Keys)
    BY <2>3, PathsTyped DEF Own
  <2>12. Becomes(l, Below(a, m, rest), d, e)
    BY <2>2, <2>3, <2>6, <2>7, <2>11, BelowBecomes
  <2> QED
    BY <1>10, <2>6, <2>10, <2>12
<1>14. ASSUME NEW m \in Leaves[Dict(rest)]
       PROVE  \E l : OwnLeaf(l, raw, d) /\ Becomes(l, m, d, e)
  <2>1. PICK a \in rest : \E k \in Leaves[a.value] : m = Below(a, k, rest)
    BY <1>10
  <2>2. PICK k \in Leaves[a.value] : m = Below(a, k, rest)
    BY <2>1
  <2>3. sent # DropValue /\ a \in sent.items /\ ~ IsField(a, e)
    BY <2>1 DEF Rest
  <2>4. a \in got /\ ~ PointsToOther(raw.items, d)
    BY <1>2, <1>4, <1>7, <1>8, <2>3
  <2>5. PICK i \in payload.items : /\ ~ Foreign(i.key, d) /\ R[i.value] # DropValue
                                   /\ a = Item(RewriteText(i.key, d, e), R[i.value])
    BY <1>7, <2>4
  <2>6. ~ IsField(i, d) /\ a.value = R[i.value]
    BY <1>12, <2>3, <2>5 DEF Item
  <2>7. i \in raw.items /\ i.key \in Keys /\ i.value \in Value
    BY <1>1, <1>11, <2>5, <2>6
  <2>8. IsOwnPart(i.value, R, d, e)
    BY <1>3, <2>7, OwnPart
  <2>9. PICK j \in Own(i.value, d) : Becomes(j, k, d, e)
    BY <2>2, <2>5, <2>6, <2>8 DEF IsOwnPart
  <2>10. PICK l : l = Below(i, j, raw.items)
    OBVIOUS
  <2>11. OwnLeaf(l, raw, d)
    BY <2>4, <2>5, <2>6, <2>7, <2>9, <2>10, OwnLeafIs
  <2>12. j.path \in Seq(Keys)
    BY <2>7, PathsTyped DEF Own
  <2>13. Becomes(l, m, d, e)
    BY <2>2, <2>5, <2>7, <2>9, <2>10, <2>12, BelowBecomes
  <2> QED
    BY <2>11, <2>13
<1> QED
  BY <1>13, <1>14

-----------------------------------------------------------------------------
(* The inductive invariant: what the parts of the state say of the frames  *)
(* that were received.                                                     *)

Result == Value \cup {DropValue}
Records ==
    [frame : Nat, payload : Value, presplit : [DevKit -> Result] \cup [{} -> Result],
     allowed : SUBSET Topic, selected : SUBSET Topic]
Messages == [frame : Nat, payload : Result, allowed : SUBSET Topic]

Frames(got) ==
    got \in Seq(Value) /\ Len(got) <= MaxFrame /\ \A n \in 1..Len(got) : got[n] \in Contents[n]

LastCameras(got) == IF got = <<>> THEN {} ELSE Cameras(got[Len(got)])

(* Kept under the settings s.                                              *)
KeptUnder(raw, s) ==
    LET shown == IF s.white THEN ReplaceCamera(raw, White) ELSE raw IN
    IF s.empty THEN ReplaceCamera(shown, Empty) ELSE shown

(* A record has what became of its frame, and on may still be sent of it.  *)
GoodRecord(r, got, on, s) ==
    /\ r.frame \in 1..Len(got)
    /\ r.payload = KeptUnder(got[r.frame], s)
    /\ r.presplit \in [IF s.presplit THEN DevKit ELSE {} -> Result]
    /\ \A d \in DOMAIN r.presplit :
         r.presplit[d] = Prebuilt(got[r.frame], d, Cameras(got[r.frame]), r.selected)
    /\ r.selected \subseteq r.allowed /\ on \subseteq r.allowed

(* What was sent was made of its frame and the cameras of that frame or of *)
(* a later one, with topics that were on meanwhile.                        *)
GoodDelivery(d, m, got, s) ==
    \/ m = Nothing
    \/ /\ m.frame \in 1..Len(got)
       /\ m.payload = DropValue => s.presplit
       /\ \E n \in m.frame..Len(got), on \in SUBSET m.allowed :
            \E shown \in {got[m.frame], KeptUnder(got[m.frame], s)} :
              m.payload = Prebuilt(shown, d, Cameras(got[n]), on)

PInv ==
    /\ topics \in SUBSET Topic
    /\ Frames(received)
    /\ latest = LastCameras(received)
    /\ history \in Seq(Records) /\ Len(history) <= Len(received)
    /\ \A i \in DOMAIN history : GoodRecord(history[i], received, topics, settings)
    /\ delivered \in [DevKit -> Messages]
    /\ \A d \in DevKit : GoodDelivery(d, delivered[d], received, settings)

LEMMA FramesAre ==
    ASSUME NEW got, Frames(got), NEW n \in 1..Len(got)
    PROVE  Payload(got[n]) /\ got[n] \in Contents[n] /\ n \in 1..MaxFrame
<1>1. n \in 1..MaxFrame /\ got[n] \in Contents[n]
  BY PayloadAssumption DEF Frames
<1> QED
  BY <1>1, PayloadAssumption DEF Payload

(* What the fields of a frame hold (FieldAssumption).                      *)
LEMMA FieldsAre ==
    ASSUME NEW got, Frames(got), NEW n \in 1..Len(got)
    PROVE  /\ Plain(got[n].items)
           /\ \A i \in got[n].items : (\E v \in Nat, t \in Topic : i.key = Field(v, t)) =>
                i.value.at = n
<1>1. got[n] \in Contents[n] /\ n \in 1..MaxFrame
  BY FramesAre
<1>2. \A i : (\E v \in Nat, t \in Topic : i.key = Field(v, t)) =>
        \E t \in Topic : i.key.words = Suffix[t]
  BY FieldIs
<1>3. \A i \in got[n].items : (\E v \in Nat, t \in Topic : i.key = Field(v, t)) =>
        i.value \in Texts /\ i.value.ids = {} /\ i.value.at = n
  BY <1>1, <1>2, FieldAssumption
<1> QED
  BY <1>3 DEF Plain

LEMMA PrebuiltTyped ==
    ASSUME NEW p, Payload(p), NEW raw, Payload(raw), NEW d \in Nat, NEW on
    PROVE  LET sent == Prebuilt(p, d, Cameras(raw), on) IN
           sent = DropValue \/ Payload(sent)
<1>1. PICK payload : payload = Filter(p, d, Cameras(raw), on) /\ Payload(payload)
  BY FilterTyped
<1>2. PICK e \in Nat : e = 1
  OBVIOUS
<1>3. PICK R : R = Rewrite(d, e, TRUE) /\ Inward(d, e, R)
  BY InwardIs
<1>4. Inward(d, e, R)
  BY <1>3
<1>5. R[payload] = DropValue \/ (R[payload] \in Value /\ R[payload].kind = payload.kind)
  BY <1>1, <1>4, InwardAt DEF Payload
<1> QED
  BY <1>1, <1>2, <1>3, <1>5 DEF Prebuilt, ToDevKit, Payload

LEMMA KeptIs == \A raw : Kept(raw) = KeptUnder(raw, settings)
  BY DEF Kept, KeptUnder

LEMMA KeptUnderShows ==
    ASSUME NEW raw, Payload(raw), NEW s
    PROVE  Shows(raw, raw) /\ Shows(KeptUnder(raw, s), raw)
<1>1. Shows(raw, raw)
  BY DEF Shows
<1> DEFINE shown == IF s.white THEN ReplaceCamera(raw, White) ELSE raw
<1>2. Shows(shown, raw)
  BY <1>1, ReplaceIs
<1> HIDE DEF shown
<1>3. Shows(IF s.empty THEN ReplaceCamera(shown, Empty) ELSE shown, raw)
  BY <1>2, ReplaceIs
<1> QED
  BY <1>1, <1>3 DEF KeptUnder, shown

(* A frame more changes nothing of what is known of the ones before.       *)
Grown(got, more) ==
    Len(got) <= Len(more) /\ \A n \in 1..Len(got) : more[n] = got[n]

LEMMA RecordStays ==
    ASSUME NEW got, Frames(got), NEW more, Frames(more), Grown(got, more),
           NEW r, NEW on, NEW s, GoodRecord(r, got, on, s)
    PROVE  GoodRecord(r, more, on, s)
<1>1. Len(got) \in Nat /\ Len(more) \in Nat
  BY DEF Frames
<1>2. r.frame \in 1..Len(more) /\ more[r.frame] = got[r.frame]
  BY <1>1 DEF GoodRecord, Grown
<1> QED
  BY <1>2 DEF GoodRecord

LEMMA DeliveryStays ==
    ASSUME NEW got, Frames(got), NEW more, Frames(more), Grown(got, more),
           NEW d, NEW m, NEW s, GoodDelivery(d, m, got, s)
    PROVE  GoodDelivery(d, m, more, s)
<1>1. Len(got) \in Nat /\ Len(more) \in Nat
  BY DEF Frames
<1>2. CASE m = Nothing
  BY <1>2 DEF GoodDelivery
<1>3. CASE m # Nothing
  <2>1. /\ m.frame \in 1..Len(got) /\ (m.payload = DropValue => s.presplit)
        /\ \E n \in m.frame..Len(got), on \in SUBSET m.allowed :
             \E shown \in {got[m.frame], KeptUnder(got[m.frame], s)} :
               m.payload = Prebuilt(shown, d, Cameras(got[n]), on)
    BY <1>3 DEF GoodDelivery
  <2>2. PICK n \in m.frame..Len(got), on \in SUBSET m.allowed :
          \E shown \in {got[m.frame], KeptUnder(got[m.frame], s)} :
            m.payload = Prebuilt(shown, d, Cameras(got[n]), on)
    BY <2>1
  <2>3. m.frame \in 1..Len(more) /\ more[m.frame] = got[m.frame]
    BY <1>1, <2>1 DEF Grown
  <2>4. n \in m.frame..Len(more) /\ more[n] = got[n]
    BY <1>1, <2>1 DEF Grown
  <2> QED
    BY <2>1, <2>2, <2>3, <2>4 DEF GoodDelivery
<1> QED
  BY <1>2, <1>3

LEMMA SentGood ==
    ASSUME NEW d, NEW got, NEW s, NEW frame \in 1..Len(got), NEW payload, NEW allowed,
           payload = DropValue => s.presplit, NEW n \in frame..Len(got), NEW on \in SUBSET allowed,
           NEW shown \in {got[frame], KeptUnder(got[frame], s)},
           payload = Prebuilt(shown, d, Cameras(got[n]), on)
    PROVE  GoodDelivery(d, [frame |-> frame, payload |-> payload, allowed |-> allowed], got, s)
<1>1. PICK m : m = [frame |-> frame, payload |-> payload, allowed |-> allowed]
  OBVIOUS
<1>2. m.frame = frame /\ m.payload = payload /\ m.allowed = allowed
  BY <1>1
<1>3. GoodDelivery(d, m, got, s)
  BY <1>2 DEF GoodDelivery
<1> QED
  BY <1>1, <1>3

(* Sending a good record makes a good delivery, presplit or not.           *)
LEMMA DeliveryGood ==
    ASSUME NEW got, Frames(got), NEW d \in DevKit, topics \in SUBSET Topic,
           NEW r \in Records, GoodRecord(r, got, topics, settings),
           NEW cameras, cameras = LastCameras(got),
           delivered[d] \in Messages, GoodDelivery(d, delivered[d], got, settings)
    PROVE  /\ Delivery(d, r, cameras) \in Messages
           /\ GoodDelivery(d, Delivery(d, r, cameras), got, settings)
<1> DEFINE sent == Delivery(d, r, cameras)
<1>1. /\ r.frame \in 1..Len(got) /\ r.frame \in Nat /\ r.payload = KeptUnder(got[r.frame], settings)
      /\ r.presplit \in [IF settings.presplit THEN DevKit ELSE {} -> Result]
      /\ \A e \in DOMAIN r.presplit :
           r.presplit[e] = Prebuilt(got[r.frame], e, Cameras(got[r.frame]), r.selected)
      /\ r.selected \in SUBSET r.allowed /\ topics \in SUBSET r.allowed /\ r.allowed \in SUBSET Topic
  BY DEF GoodRecord, Records
<1>2. Len(got) \in Nat /\ got # <<>> /\ Len(got) \in 1..Len(got)
  BY <1>1 DEF Frames
<1>3. cameras = Cameras(got[Len(got)])
  BY <1>2 DEF LastCameras
<1>4. CASE d \in DOMAIN r.presplit
  <2>1. settings.presplit /\ r.presplit[d] \in Result
    BY <1>1, <1>4
  <2>2. sent = [frame |-> r.frame, payload |-> r.presplit[d], allowed |-> r.allowed]
    BY <1>4 DEF Delivery, Outgoing
  <2>3. sent \in Messages
    BY <1>1, <2>1, <2>2 DEF Messages
  <2>4. r.frame \in r.frame..Len(got)
    BY <1>1, <1>2
  <2>5. r.presplit[d] = Prebuilt(got[r.frame], d, Cameras(got[r.frame]), r.selected)
    BY <1>1, <1>4
  <2> QED
    BY <1>1, <2>1, <2>2, <2>3, <2>4, <2>5, SentGood
<1>5. CASE d \notin DOMAIN r.presplit
  <2>1. PICK payload : payload = Prebuilt(r.payload, d, cameras, topics)
    OBVIOUS
  <2>2. sent = IF payload = DropValue THEN delivered[d]
               ELSE [frame |-> r.frame, payload |-> payload, allowed |-> r.allowed]
    BY <1>5, <2>1 DEF Delivery, Outgoing
  <2>3. payload \in Result
    <3>1. Payload(got[r.frame]) /\ Payload(got[Len(got)]) /\ d \in Nat
      BY <1>1, <1>2, FramesAre, PayloadAssumption
    <3>2. Payload(r.payload)
      BY <1>1, <3>1, KeptUnderShows DEF Shows
    <3>3. payload = DropValue \/ Payload(payload)
      BY <1>3, <2>1, <3>1, <3>2, PrebuiltTyped
    <3> QED
      BY <3>3 DEF Payload, Result
  <2>4. CASE payload = DropValue
    BY <2>2, <2>4
  <2>5. CASE payload # DropValue
    <3>1. sent = [frame |-> r.frame, payload |-> payload, allowed |-> r.allowed]
      BY <2>2, <2>5
    <3>2. sent \in Messages
      BY <1>1, <2>3, <3>1 DEF Messages
    <3>3. Len(got) \in r.frame..Len(got)
      BY <1>1, <1>2
    <3>4. payload = Prebuilt(KeptUnder(got[r.frame], settings), d, Cameras(got[Len(got)]), topics)
      BY <1>1, <1>3, <2>1
    <3>5. GoodDelivery(d, [frame |-> r.frame, payload |-> payload, allowed |-> r.allowed],
                       got, settings)
      BY <1>1, <2>5, <3>3, <3>4, SentGood
    <3> QED
      BY <3>1, <3>2, <3>5
  <2> QED
    BY <2>4, <2>5
<1> QED
  BY <1>4, <1>5

LEMMA InitPInv == Init => PInv
<1> SUFFICES ASSUME Init PROVE PInv
  OBVIOUS
<1>1. /\ topics = {"lidar"} /\ latest = {} /\ history = <<>> /\ received = <<>>
      /\ delivered = [d \in DevKit |-> Nothing]
  BY DEF Init, DefaultTopics
<1>2. topics \in SUBSET Topic
  BY <1>1 DEF Topic
<1>3. Frames(received) /\ latest = LastCameras(received)
  BY <1>1, PayloadAssumption DEF Frames, LastCameras
<1>4. /\ history \in Seq(Records) /\ Len(history) <= Len(received)
      /\ \A i \in DOMAIN history : GoodRecord(history[i], received, topics, settings)
  BY <1>1
<1>5. Nothing \in Messages
  BY DEF Nothing, Messages, Result
<1>6. delivered \in [DevKit -> Messages] /\ \A d \in DevKit : delivered[d] = Nothing
  BY <1>1, <1>5
<1>7. \A d \in DevKit : GoodDelivery(d, delivered[d], received, settings)
  BY <1>6 DEF GoodDelivery
<1> QED
  BY <1>2, <1>3, <1>4, <1>6, <1>7 DEF PInv

LEMMA BridgeKeeps ==
    ASSUME PInv, NEW owed \in SUBSET DevKit, NEW raw \in Contents[Len(received) + 1],
           Bridge(raw, owed)
    PROVE  PInv'
<1>1. PICK more, r :
        /\ more = Append(received, raw)
        /\ r = [frame |-> Len(received) + 1, payload |-> Kept(raw),
                presplit |-> Presplit(raw, Cameras(raw)), allowed |-> topics, selected |-> topics]
  OBVIOUS
<1>2. /\ Len(received) < MaxFrame /\ received' = more /\ latest' = Cameras(raw)
      /\ history' = Append(history, r)
      /\ delivered' = [d \in DevKit |-> IF d \in owed THEN Delivery(d, r, Cameras(raw))
                                        ELSE delivered[d]]
      /\ settings' = settings /\ topics' = topics
  BY <1>1 DEF Bridge
<1>3. /\ topics \in SUBSET Topic /\ Frames(received)
      /\ history \in Seq(Records) /\ Len(history) <= Len(received)
      /\ \A i \in DOMAIN history : GoodRecord(history[i], received, topics, settings)
      /\ delivered \in [DevKit -> Messages]
      /\ \A d \in DevKit : GoodDelivery(d, delivered[d], received, settings)
  BY DEF PInv
<1>4. received \in Seq(Value) /\ Len(received) \in Nat
  BY <1>3 DEF Frames
<1>5. Len(received) + 1 \in 1..MaxFrame
  BY <1>2, <1>4, PayloadAssumption
<1>6. Payload(raw)
  BY <1>5, PayloadAssumption DEF Payload
<1>7. /\ more \in Seq(Value) /\ Len(more) = Len(received) + 1 /\ more[Len(more)] = raw
      /\ \A n \in 1..Len(received) : more[n] = received[n]
  BY <1>1, <1>4, <1>6 DEF Payload
<1>8. Frames(more) /\ Grown(received, more)
  <2>1. \A n \in 1..Len(received) : more[n] \in Contents[n]
    BY <1>3, <1>7 DEF Frames
  <2>2. \A n \in 1..Len(more) : n \in 1..Len(received) \/ n = Len(received) + 1
    BY <1>4, <1>7
  <2>3. \A n \in 1..Len(more) : more[n] \in Contents[n]
    BY <1>7, <2>1, <2>2
  <2>4. Len(more) <= MaxFrame /\ Len(received) <= Len(more)
    BY <1>4, <1>5, <1>7
  <2> QED
    BY <1>7, <2>3, <2>4 DEF Frames, Grown
<1>9. LastCameras(more) = Cameras(raw)
  BY <1>4, <1>7 DEF LastCameras
<1>10. r \in Records /\ GoodRecord(r, more, topics, settings)
  <2>1. Kept(raw) = KeptUnder(raw, settings) /\ Kept(raw) \in Value
    BY <1>6, KeptIs, KeptUnderShows DEF Shows, Payload
  <2>2. PICK split : split = Presplit(raw, Cameras(raw))
    OBVIOUS
  <2>3. split = [d \in IF settings.presplit THEN DevKit ELSE {} |-> Prebuilt(raw, d, Cameras(raw), topics)]
    BY <2>2 DEF Presplit
  <2>4. \A d \in DevKit : Prebuilt(raw, d, Cameras(raw), topics) \in Result
    BY <1>6, PrebuiltTyped, PayloadAssumption DEF Payload, Result
  <2>5. split \in [IF settings.presplit THEN DevKit ELSE {} -> Result]
    BY <2>3, <2>4
  <2>6. split \in [DevKit -> Result] \cup [{} -> Result]
    BY <2>5
  <2>7. r \in Records
    BY <1>1, <1>3, <1>4, <2>1, <2>2, <2>6 DEF Records
  <2>8. r.frame = Len(more) /\ r.payload = Kept(raw) /\ r.presplit = split
        /\ r.allowed = topics /\ r.selected = topics
    BY <1>1, <1>7, <2>2
  <2>9. r.frame \in 1..Len(more) /\ more[r.frame] = raw
    BY <1>4, <1>7, <2>8
  <2>10. \A d \in DOMAIN split : split[d] = Prebuilt(raw, d, Cameras(raw), topics)
    BY <2>3
  <2> QED
    BY <2>1, <2>5, <2>7, <2>8, <2>9, <2>10 DEF GoodRecord
<1>11. /\ history' \in Seq(Records) /\ Len(history') <= Len(more)
       /\ \A i \in DOMAIN history' : GoodRecord(history'[i], more, topics, settings)
  <2>1. history' \in Seq(Records) /\ Len(history') = Len(history) + 1
        /\ \A i \in DOMAIN history' : history'[i] = r \/ (i \in DOMAIN history /\ history'[i] = history[i])
    BY <1>2, <1>3, <1>10
  <2>2. \A i \in DOMAIN history : GoodRecord(history[i], more, topics, settings)
    BY <1>3, <1>8, RecordStays
  <2>3. Len(history') <= Len(more)
    BY <1>3, <1>4, <1>7, <2>1
  <2> QED
    BY <1>10, <2>1, <2>2, <2>3
<1>12. \A d \in DevKit : delivered[d] \in Messages /\ GoodDelivery(d, delivered[d], more, settings)
  BY <1>3, <1>8, DeliveryStays
<1>13. \A d \in DevKit : /\ Delivery(d, r, Cameras(raw)) \in Messages
                         /\ GoodDelivery(d, Delivery(d, r, Cameras(raw)), more, settings)
  BY <1>3, <1>8, <1>9, <1>10, <1>12, DeliveryGood
<1>14. /\ delivered' \in [DevKit -> Messages]
       /\ \A d \in DevKit : GoodDelivery(d, delivered'[d], more, settings)
  BY <1>2, <1>12, <1>13
<1> QED
  BY <1>2, <1>3, <1>8, <1>9, <1>11, <1>14 DEF PInv

LEMMA SendKeeps ==
    ASSUME PInv, NEW d \in DevKit, NEW i \in DOMAIN history, Send(d, i)
    PROVE  PInv'
<1>1. PICK m : m = Delivery(d, history[i], latest)
  OBVIOUS
<1>2. /\ delivered' = [delivered EXCEPT ![d] = m]
      /\ settings' = settings /\ topics' = topics /\ latest' = latest
      /\ history' = history /\ received' = received
  BY <1>1 DEF Send
<1>3. m \in Messages /\ GoodDelivery(d, m, received, settings)
  <2>1. history[i] \in Records
    BY DEF PInv
  <2>2. /\ Frames(received) /\ topics \in SUBSET Topic /\ latest = LastCameras(received)
        /\ GoodRecord(history[i], received, topics, settings)
        /\ delivered[d] \in Messages /\ GoodDelivery(d, delivered[d], received, settings)
    BY DEF PInv
  <2> QED
    BY <1>1, <2>1, <2>2, DeliveryGood
<1> QED
  BY <1>2, <1>3 DEF PInv

LEMMA ExpireKeeps ==
    ASSUME PInv, Expire
    PROVE  PInv'
<1>1. /\ history # <<>> /\ history' = Tail(history) /\ settings' = settings /\ topics' = topics
      /\ latest' = latest /\ received' = received /\ delivered' = delivered
  BY DEF Expire
<1>2. history \in Seq(Records) /\ Len(history) <= Len(received) /\ Len(received) \in Nat
      /\ \A i \in DOMAIN history : GoodRecord(history[i], received, topics, settings)
  BY DEF PInv, Frames
<1>3. /\ history' \in Seq(Records) /\ Len(history') <= Len(received)
      /\ \A i \in DOMAIN history' : i + 1 \in DOMAIN history /\ history'[i] = history[i + 1]
  BY <1>1, <1>2
<1>4. \A i \in DOMAIN history' : GoodRecord(history'[i], received, topics, settings)
  BY <1>2, <1>3
<1> QED
  BY <1>1, <1>3, <1>4 DEF PInv

LEMMA SwitchKeeps ==
    ASSUME PInv, NEW topic \in Topic, NEW on \in BOOLEAN, Switch(topic, on)
    PROVE  PInv'
<1> DEFINE new(r) == [r EXCEPT !.allowed = @ \cup topics']
<1>1. /\ topics' = IF on THEN topics \cup {topic} ELSE topics \ {topic}
      /\ history' = [i \in DOMAIN history |-> new(history[i])]
      /\ settings' = settings /\ latest' = latest /\ received' = received /\ delivered' = delivered
  BY DEF Switch
<1>2. /\ topics \in SUBSET Topic /\ history \in Seq(Records) /\ Len(history) <= Len(received)
      /\ \A i \in DOMAIN history : GoodRecord(history[i], received, topics, settings)
  BY DEF PInv
<1>3. topics' \in SUBSET Topic
  BY <1>1, <1>2
<1>4. ASSUME NEW r \in Records, GoodRecord(r, received, topics, settings)
      PROVE  new(r) \in Records /\ GoodRecord(new(r), received, topics', settings)
  <2>1. /\ new(r).frame = r.frame /\ new(r).payload = r.payload /\ new(r).presplit = r.presplit
        /\ new(r).selected = r.selected /\ new(r).allowed = r.allowed \cup topics'
    BY DEF Records
  <2>2. new(r) \in Records
    BY <1>3 DEF Records
  <2> QED
    BY <1>4, <2>1, <2>2 DEF GoodRecord
<1> HIDE DEF new
<1>5. /\ history' \in Seq(Records) /\ Len(history') = Len(history)
      /\ \A i \in DOMAIN history' : i \in DOMAIN history /\ history'[i] = new(history[i])
  <2>1. \A i \in DOMAIN history : history[i] \in Records
    BY <1>2
  <2>2. \A i \in DOMAIN history : new(history[i]) \in Records
    BY <1>2, <1>4, <2>1
  <2> QED
    BY <1>1, <1>2, <2>2
<1>6. \A i \in DOMAIN history' : GoodRecord(history'[i], received, topics', settings)
  <2>1. \A i \in DOMAIN history : history[i] \in Records
    BY <1>2
  <2> QED
    BY <1>2, <1>4, <1>5, <2>1
<1> QED
  BY <1>1, <1>2, <1>3, <1>5, <1>6 DEF PInv

LEMMA StepPInv == PInv /\ [Next]_vars => PInv'
<1> SUFFICES ASSUME PInv, [Next]_vars PROVE PInv'
  OBVIOUS
<1>1. ASSUME NEW owed \in SUBSET DevKit, NEW raw \in Contents[Len(received) + 1], Bridge(raw, owed)
      PROVE  PInv'
  BY <1>1, BridgeKeeps
<1>2. ASSUME NEW d \in DevKit, NEW i \in DOMAIN history, Send(d, i)
      PROVE  PInv'
  BY <1>2, SendKeeps
<1>3. CASE Expire
  BY <1>3, ExpireKeeps
<1>4. ASSUME NEW topic \in Topic, NEW on \in BOOLEAN, Switch(topic, on)
      PROVE  PInv'
  BY <1>4, SwitchKeeps
<1>5. CASE UNCHANGED vars
  BY <1>5 DEF vars, PInv
<1> QED
  BY <1>1, <1>2, <1>3, <1>4, <1>5 DEF Next

LEMMA AlwaysPInv == Spec => []PInv
  BY InitPInv, StepPInv, PTL DEF Spec

-----------------------------------------------------------------------------
(* What the invariant says.                                                *)

LEMMA Delivered ==
    ASSUME PInv, NEW d \in DevKit, delivered[d] # Nothing
    PROVE  /\ d \in Nat /\ delivered[d].frame \in 1..Len(received)
           /\ Payload(received[delivered[d].frame])
           /\ delivered[d].payload = DropValue => settings.presplit
           /\ \E n \in delivered[d].frame..Len(received), on \in SUBSET delivered[d].allowed : \E shown :
                /\ Shows(shown, received[delivered[d].frame])
                /\ n \in 1..Len(received) /\ Payload(received[n])
                /\ delivered[d].payload = Prebuilt(shown, d, Cameras(received[n]), on)
<1>1. GoodDelivery(d, delivered[d], received, settings) /\ Frames(received) /\ d \in Nat
  BY PayloadAssumption DEF PInv
<1>2. PICK m : m = delivered[d]
  OBVIOUS
<1>3. /\ m.frame \in 1..Len(received) /\ (m.payload = DropValue => settings.presplit)
      /\ \E n \in m.frame..Len(received), on \in SUBSET m.allowed :
           \E shown \in {received[m.frame], KeptUnder(received[m.frame], settings)} :
             m.payload = Prebuilt(shown, d, Cameras(received[n]), on)
  BY <1>1, <1>2 DEF GoodDelivery
<1>4. PICK n \in m.frame..Len(received), on \in SUBSET m.allowed :
        \E shown \in {received[m.frame], KeptUnder(received[m.frame], settings)} :
          m.payload = Prebuilt(shown, d, Cameras(received[n]), on)
  BY <1>3
<1>5. Len(received) \in Nat
  BY <1>1 DEF Frames
<1>6. n \in 1..Len(received)
  BY <1>3, <1>5
<1>7. Payload(received[m.frame]) /\ Payload(received[n])
  BY <1>1, <1>3, <1>6, FramesAre
<1>8. \A shown \in {received[m.frame], KeptUnder(received[m.frame], settings)} :
        Shows(shown, received[m.frame])
  BY <1>7, KeptUnderShows
<1> QED
  BY <1>1, <1>2, <1>3, <1>4, <1>6, <1>7, <1>8

LEMMA DeliveredSent ==
    ASSUME PInv, NEW d \in DevKit
    PROVE  delivered[d].payload = DropValue \/ Payload(delivered[d].payload)
<1>1. CASE delivered[d] = Nothing
  BY <1>1 DEF Nothing
<1>2. CASE delivered[d] # Nothing
  <2>1. PICK n, on, shown :
          /\ Shows(shown, received[delivered[d].frame]) /\ Payload(received[n])
          /\ delivered[d].payload = Prebuilt(shown, d, Cameras(received[n]), on)
    BY <1>2, Delivered
  <2>2. Payload(shown) /\ d \in Nat
    BY <1>2, <2>1, Delivered DEF Shows
  <2> QED
    BY <2>1, <2>2, PrebuiltTyped
<1> QED
  BY <1>1, <1>2

(* Where the fields that were sent come from.                              *)
LEMMA DeliveredFields ==
    ASSUME PInv, NEW d \in DevKit, NEW item \in DeliveredItems(d), NEW t \in Topic,
           item.key = Field(1, t), item.value.at # 0
    PROVE  LET n == item.value.at IN
           /\ t \in delivered[d].allowed
           /\ Item(Field(d, t), item.value) \in received[n].items
           /\ IF t = "front_camera" THEN n >= delivered[d].frame ELSE n = delivered[d].frame
<1>1. delivered[d].payload # DropValue /\ item \in delivered[d].payload.items
  BY DEF DeliveredItems
<1>2. delivered[d] # Nothing
  BY <1>1 DEF Nothing
<1>3. d \in Nat /\ delivered[d].frame \in 1..Len(received)
      /\ Payload(received[delivered[d].frame])
  BY <1>2, Delivered
<1>4. PICK n, on, shown :
        /\ n \in delivered[d].frame..Len(received) /\ on \in SUBSET delivered[d].allowed
        /\ Shows(shown, received[delivered[d].frame])
        /\ n \in 1..Len(received) /\ Payload(received[n])
        /\ delivered[d].payload = Prebuilt(shown, d, Cameras(received[n]), on)
  BY <1>2, Delivered
<1>5. Frames(received)
  BY DEF PInv
<1>6. \A k \in 1..Len(received) :
        /\ Plain(received[k].items)
        /\ \A i \in received[k].items : (\E v \in Nat, u \in Topic : i.key = Field(v, u)) =>
             i.value.at = k
  BY <1>5, FieldsAre
<1>7. /\ t \in on
      /\ \/ Item(Field(d, t), item.value) \in received[delivered[d].frame].items
         \/ t = "front_camera" /\ Item(Field(d, t), item.value) \in received[n].items
  <2>1. PICK sent : sent = Prebuilt(shown, d, Cameras(received[n]), on)
    OBVIOUS
  <2>2. sent # DropValue /\ item \in sent.items
    BY <1>1, <1>4, <2>1
  <2>3. Plain(received[delivered[d].frame].items) /\ Plain(received[n].items)
    BY <1>3, <1>4, <1>6
  <2>4. \/ item.value.at = 0
        \/ /\ t \in on
           /\ \/ Item(Field(d, t), item.value) \in received[delivered[d].frame].items
              \/ t = "front_camera" /\ Item(Field(d, t), item.value) \in received[n].items
    BY <1>3, <1>4, <2>1, <2>2, <2>3, FieldOut
  <2> QED
    BY <2>4
<1>8. \A k \in 1..Len(received) :
        Item(Field(d, t), item.value) \in received[k].items => item.value.at = k
  BY <1>3, <1>6 DEF Item
<1>9. CASE Item(Field(d, t), item.value) \in received[delivered[d].frame].items
  <2>1. item.value.at = delivered[d].frame
    BY <1>3, <1>8, <1>9
  <2>2. delivered[d].frame >= delivered[d].frame
    BY <1>3
  <2> QED
    BY <1>4, <1>7, <1>9, <2>1, <2>2
<1>10. CASE t = "front_camera" /\ Item(Field(d, t), item.value) \in received[n].items
  <2>1. item.value.at = n
    BY <1>4, <1>8, <1>10
  <2>2. n >= delivered[d].frame
    BY <1>3, <1>4
  <2> QED
    BY <1>4, <1>7, <1>10, <2>1, <2>2
<1> QED
  BY <1>7, <1>9, <1>10

-----------------------------------------------------------------------------
(* Theorems.                                                               *)

(* The types, and that only a presplit payload may be queued dropped       *)
(* (server.py, send_cached_incoming_bridge).                               *)
THEOREM TypeCorrect == Spec => []TypeOK
<1>1. PInv => TypeOK
  <2> SUFFICES ASSUME PInv PROVE TypeOK
    OBVIOUS
  <2>1. topics \subseteq Topic /\ Len(received) <= MaxFrame /\ Len(history) <= Len(received)
        /\ Len(received) \in Nat
    BY DEF PInv, Frames
  <2>2. ASSUME NEW d \in DevKit
        PROVE  /\ delivered[d].frame \in 0..Len(received)
               /\ delivered[d].payload = DropValue => delivered[d].frame = 0 \/ settings.presplit
               /\ delivered[d].payload \in Value \cup {DropValue}
               /\ delivered[d].payload.kind \in {"dict", "drop"}
    <3>1. delivered[d].payload = DropValue \/ Payload(delivered[d].payload)
      BY DeliveredSent
    <3>2. /\ delivered[d].payload \in Value \cup {DropValue}
          /\ delivered[d].payload.kind \in {"dict", "drop"}
      BY <3>1 DEF Payload, DropValue
    <3>3. CASE delivered[d] = Nothing
      BY <2>1, <3>2, <3>3 DEF Nothing
    <3>4. CASE delivered[d] # Nothing
      <4>1. /\ delivered[d].frame \in 1..Len(received)
            /\ delivered[d].payload = DropValue => settings.presplit
        BY <3>4, Delivered
      <4> QED
        BY <2>1, <3>2, <4>1
    <3> QED
      BY <3>3, <3>4
  <2> QED
    BY <2>1, <2>2 DEF TypeOK
<1> QED
  BY <1>1, AlwaysPInv, PTL

(* A topic that was off from the arrival of a frame to its sending is not  *)
(* shown (server.py, filter_simulator_bridge_payload_for_devkit).          *)
THEOREM OffTopic == Spec => []OffTopicWithheld
<1>1. PInv => OffTopicWithheld
  BY DeliveredFields DEF OffTopicWithheld
<1> QED
  BY <1>1, AlwaysPInv, PTL

(* A field that is shown is the DevKit's own, of the frame that is sent;   *)
(* its camera may be newer (server.py, latest_front_camera_fields).        *)
THEOREM Fields == Spec => []FieldsGenuine
<1>1. PInv => FieldsGenuine
  BY DeliveredFields DEF FieldsGenuine
<1> QED
  BY <1>1, AlwaysPInv, PTL

(* What no topic governs arrives if it is the DevKit's own or nobody's,    *)
(* all of it and nothing else (protocol.py, _rewrite_json_value).          *)
THEOREM OwnExact == Spec => []OwnPartExact
<1>1. PInv => OwnPartExact
  <2> SUFFICES ASSUME PInv, NEW d \in DevKit, delivered[d].frame # 0
               PROVE  LET raw == received[delivered[d].frame]
                          own == {l \in Leaves[raw] :
                                    /\ ~ IsField([key |-> l.path[1]], d)
                                    /\ \A t \in l.texts : ~ Foreign(t, d)}
                          As(l) == <<[i \in DOMAIN l.path |-> RewriteText(l.path[i], d, 1)],
                                     RewriteText(l.leaf, d, 1)>>
                      IN  {As(l) : l \in own} =
                            {<<l.path, l.leaf>> : l \in Leaves[Dict(Rest(DeliveredItems(d), 1))]}
    BY DEF OwnPartExact
  <2>1. delivered[d] # Nothing
    BY DEF Nothing
  <2>2. PICK raw, sent, rest :
          /\ raw = received[delivered[d].frame] /\ sent = delivered[d].payload
          /\ rest = Rest(DeliveredItems(d), 1)
    OBVIOUS
  <2>3. rest = Rest(IF sent = DropValue THEN {} ELSE sent.items, 1)
    BY <2>2 DEF DeliveredItems
  <2>4. d \in Nat /\ Payload(raw)
    BY <2>1, <2>2, Delivered
  <2>5. PICK later, on, shown : Shows(shown, raw) /\ Payload(later)
                                /\ sent = Prebuilt(shown, d, Cameras(later), on)
    BY <2>1, <2>2, Delivered
  <2>6. PICK e \in Nat : e = 1
    OBVIOUS
  <2>7. rest = Rest(IF sent = DropValue THEN {} ELSE sent.items, e)
    BY <2>3, <2>6
  <2>8. /\ \A l : OwnLeaf(l, raw, d) => \E m \in Leaves[Dict(rest)] : Becomes(l, m, d, e)
        /\ \A m \in Leaves[Dict(rest)] : \E l : OwnLeaf(l, raw, d) /\ Becomes(l, m, d, e)
    BY <2>4, <2>5, <2>6, <2>7, OwnOut
  <2> DEFINE As(l) == <<[i \in DOMAIN l.path |-> RewriteText(l.path[i], d, 1)],
                        RewriteText(l.leaf, d, 1)>>
             own == {l \in Leaves[raw] : /\ ~ IsField([key |-> l.path[1]], d)
                                         /\ \A t \in l.texts : ~ Foreign(t, d)}
  <2>9. \A l, m : Becomes(l, m, d, e) => As(l) = <<m.path, m.leaf>>
    BY <2>6 DEF Becomes
  <2>10. \A l : l \in own <=> OwnLeaf(l, raw, d)
    BY DEF OwnLeaf
  <2> HIDE DEF As, own
  <2>11. {As(l) : l \in own} = {<<m.path, m.leaf>> : m \in Leaves[Dict(rest)]}
    <3>1. \A x : x \in {As(l) : l \in own} <=> \E l : OwnLeaf(l, raw, d) /\ x = As(l)
      BY <2>10
    <3>2. \A x : x \in {<<m.path, m.leaf>> : m \in Leaves[Dict(rest)]}
                   <=> \E m \in Leaves[Dict(rest)] : x = <<m.path, m.leaf>>
      OBVIOUS
    <3>3. ASSUME NEW l, OwnLeaf(l, raw, d)
          PROVE  \E m \in Leaves[Dict(rest)] : As(l) = <<m.path, m.leaf>>
      BY <2>8, <2>9, <3>3
    <3>4. ASSUME NEW m \in Leaves[Dict(rest)]
          PROVE  \E l : OwnLeaf(l, raw, d) /\ <<m.path, m.leaf>> = As(l)
      BY <2>8, <2>9
    <3>5. \A x : x \in {As(l) : l \in own} <=> x \in {<<m.path, m.leaf>> : m \in Leaves[Dict(rest)]}
      BY <3>1, <3>2, <3>3, <3>4
    <3> QED
      BY <3>5
  <2> QED
    BY <2>2, <2>11 DEF As, own
<1> QED
  BY <1>1, AlwaysPInv, PTL

(* The two ways to make the payload of a frame agree while nothing changes *)
(* (server.py, enable_presplit_bridge_cache).                              *)
THEOREM Paths == Spec => []PathsAgree
<1>1. PInv => PathsAgree
  <2> SUFFICES ASSUME PInv, NEW i \in DOMAIN history, NEW d \in DOMAIN history[i].presplit,
                      history[i].frame = Len(received), history[i].selected = topics
               PROVE  history[i].presplit[d] = Prebuilt(history[i].payload, d, latest, topics)
    BY DEF PathsAgree
  <2>1. /\ Frames(received) /\ latest = LastCameras(received)
        /\ GoodRecord(history[i], received, topics, settings)
    BY DEF PInv
  <2>2. PICK raw : raw = received[Len(received)]
    OBVIOUS
  <2>3. /\ Len(received) \in 1..Len(received) /\ received # <<>>
        /\ history[i].payload = KeptUnder(raw, settings)
        /\ history[i].presplit[d] = Prebuilt(raw, d, Cameras(raw), topics)
        /\ d \in DevKit
    BY <2>1, <2>2 DEF GoodRecord, Frames
  <2>4. latest = Cameras(raw) /\ Payload(raw) /\ d \in Nat
    BY <2>1, <2>2, <2>3, FramesAre, PayloadAssumption DEF LastCameras
  <2>5. Shows(history[i].payload, raw)
    BY <2>3, <2>4, KeptUnderShows
  <2> QED
    BY <2>3, <2>4, <2>5, SamePayload
<1> QED
  BY <1>1, AlwaysPInv, PTL

(* What a DevKit sends back of what it got comes back to it                *)
(* (protocol.py, rewrite_devkit_payload_to_simulator).                     *)
THEOREM Echo == Spec => []EchoComesBack
<1>1. PInv => EchoComesBack
  <2> SUFFICES ASSUME PInv, NEW d \in DevKit, delivered[d].payload # DropValue
               PROVE  ToDevKit(ToSimulator(delivered[d].payload, d), d) = delivered[d].payload
    BY DEF EchoComesBack
  <2>1. delivered[d] # Nothing
    BY DEF Nothing
  <2>2. PICK shown, later, on :
          /\ Payload(shown) /\ Payload(later) /\ d \in Nat
          /\ delivered[d].payload = Prebuilt(shown, d, Cameras(later), on)
    BY <2>1, Delivered DEF Shows
  <2>3. PICK payload : payload = Filter(shown, d, Cameras(later), on) /\ payload \in Value
    BY <2>2, FilterTyped DEF Payload
  <2>4. delivered[d].payload = ToDevKit(payload, d)
    BY <2>2, <2>3 DEF Prebuilt
  <2> QED
    BY <2>2, <2>3, <2>4, RoundTrip
<1> QED
  BY <1>1, AlwaysPInv, PTL

=============================================================================
