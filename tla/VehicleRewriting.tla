-------------------------- MODULE VehicleRewriting --------------------------
(***************************************************************************)
(* How a payload is rewritten between the simulator, where a DevKit's      *)
(* vehicle has its own id, and the DevKit, which believes to be vehicle 1. *)
(*                                                                         *)
(* A payload is a tree.  A text is a record of what the text patterns find *)
(* in it, the vehicle ids it names, and of the rest of it (words), which   *)
(* rewriting leaves alone; at says which frame a value belongs to.  Values *)
(* that are not texts are texts that name no vehicle.  A dict is the set   *)
(* of its items: their order only matters where two keys are renamed to    *)
(* the same one, of which the last stays; here it may be either.  A key    *)
(* names at most one vehicle.  An id with more word characters after it    *)
(* would be found and not renamed.  (No message of the repository has such *)
(* a key or id.)  A payload that is a JSON document in a string is parsed  *)
(* and then treated as a tree.                                             *)
(*                                                                         *)
(* The definitions named Faulty... are plausible mistakes in the operator  *)
(* that follows them; no specification uses them.                          *)
(***************************************************************************)
EXTENDS Naturals, Sequences

CONSTANTS
    Words,  \* what a text may be, the ids apart
    Depth   \* how deep the containers of a payload may be nested

ASSUME DepthAssumption == Depth \in Nat

Text(words, at, ids) == [kind |-> "text", words |-> words, at |-> at, ids |-> ids]
Dict(items) == [kind |-> "dict", items |-> items]
List(items) == [kind |-> "list", items |-> items]
Item(key, value) == [key |-> key, value |-> value]

DropValue == [kind |-> "drop"]

Texts == [kind : {"text"}, words : Words, at : Nat, ids : SUBSET Nat]
Keys == {text \in Texts : \A a, b \in text.ids : a = b}

UniqueKeys(items) == \A i, j \in items : i.key = j.key => i = j
Lists(values) == [kind : {"list"}, items : Seq(values)]
Dicts(values) ==
    [kind : {"dict"}, items : {items \in SUBSET [key : Keys, value : values] : UniqueKeys(items)}]

(* Trees whose containers are nested at most n deep.                       *)
Nest(values) == Texts \cup Lists(values) \cup Dicts(values)
Tree[n \in 0..Depth] == IF n = 0 THEN Texts ELSE Nest(Tree[n - 1])

Value == Tree[Depth]

-----------------------------------------------------------------------------
(* The keys by which a dict points to a vehicle.                           *)
Pointers == {"topic", "path", "frame_id", "child_frame_id", "name"}

(* rewrite_text_vehicle_id.                                                *)
RewriteText(text, source, target) ==
    [text EXCEPT !.ids = {IF id = source THEN target ELSE id : id \in @}]

Foreign(text, source) == text.ids # {} /\ source \notin text.ids

(* What the items of a dict point to.                                      *)
Pointed(items) ==
    {i.value : i \in {j \in items : /\ j.key.words \in Pointers /\ j.key.ids = {}
                                    /\ j.value.kind = "text"}}
PointsToOther(items, source) == \E text \in Pointed(items) : Foreign(text, source)

(* _json_contains_vehicle_id: a text somewhere in the value names one.     *)
ContainsVehicleId[value \in Value] ==
    CASE value.kind = "text" -> value.ids # {}
      [] value.kind = "list" -> \E i \in DOMAIN value.items : ContainsVehicleId[value.items[i]]
      [] value.kind = "dict" ->
           \E i \in value.items : i.key.ids # {} \/ ContainsVehicleId[i.value]

-----------------------------------------------------------------------------
(* _rewrite_json_value.  With drop, what belongs to other vehicles only is *)
(* left out, and a container that loses all it had is itself left out.     *)
(* inner has what the values in a container are rewritten to.              *)
ValueFaultyOmitted(item, inner, source, drop) == inner[item.value] = DropValue
Omitted(item, inner, source, drop) ==
    \/ drop /\ Foreign(item.key, source)
    \/ inner[item.value] = DropValue

Emptied(value, items, drop) == drop /\ items = {} /\ ContainsVehicleId[value]

(* Of the items with the same key one stays.                               *)
Assigned(items) == {CHOOSE i \in items : i.key = key : key \in {i.key : i \in items}}

RewrittenItems(items, inner, source, target, drop) ==
    Assigned({Item(RewriteText(i.key, source, target), inner[i.value]) :
                i \in {j \in items : ~ Omitted(j, inner, source, drop)}})

(* The items of a list that are not dropped.                               *)
Remaining(items) ==
    LET left[n \in 0..Len(items)] ==
          IF n = 0 THEN <<>>
          ELSE IF items[n] # DropValue THEN Append(left[n - 1], items[n])
          ELSE left[n - 1]
    IN  left[Len(items)]

RewrittenText(value, source, target, drop) ==
    IF drop /\ Foreign(value, source) THEN DropValue ELSE RewriteText(value, source, target)
RewrittenList(value, inner, drop) ==
    LET items == Remaining([i \in DOMAIN value.items |-> inner[value.items[i]]]) IN
    IF Emptied(value, {items[i] : i \in DOMAIN items}, drop) THEN DropValue ELSE List(items)
RewrittenDict(value, inner, source, target, drop) ==
    LET items == RewrittenItems(value.items, inner, source, target, drop) IN
    IF (drop /\ PointsToOther(value.items, source)) \/ Emptied(value, items, drop)
    THEN DropValue ELSE Dict(items)

Rewritten(value, inner, source, target, drop) ==
    CASE value.kind = "text" -> RewrittenText(value, source, target, drop)
      [] value.kind = "list" -> RewrittenList(value, inner, drop)
      [] value.kind = "dict" -> RewrittenDict(value, inner, source, target, drop)

Rewrite(source, target, drop) ==
    LET R[value \in Value] == Rewritten(value, R, source, target, drop) IN R

ToDevKit(payload, vehicle) == Rewrite(vehicle, 1, TRUE)[payload]
FaultyToSimulator(payload, vehicle) == Rewrite(vehicle, 1, FALSE)[payload]
ToSimulator(payload, vehicle) == Rewrite(1, vehicle, FALSE)[payload]

-----------------------------------------------------------------------------
(* What properties speak of.                                               *)

(* The leaves of a tree, with the keys above them and all the texts that   *)
(* say whom they belong to: the keys, what their dicts point to, the leaf. *)
Leaves[value \in Value] ==
    CASE value.kind = "text" -> {[path |-> <<>>, leaf |-> value, texts |-> {value}]}
      [] value.kind = "list" -> UNION {Leaves[value.items[i]] : i \in DOMAIN value.items}
      [] value.kind = "dict" ->
           UNION {{[path |-> <<item.key>> \o l.path, leaf |-> l.leaf,
                    texts |-> l.texts \cup {item.key} \cup Pointed(value.items)] :
                     l \in Leaves[item.value]} : item \in value.items}

=============================================================================
