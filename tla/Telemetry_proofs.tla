-------------------------- MODULE Telemetry_proofs --------------------------
(***************************************************************************)
(* Theorems about the trace buttons of Telemetry, for every value of the   *)
(* constants: tracing follows a button's finger, and the page shows what   *)
(* the tower traces.                                                       *)
(***************************************************************************)
EXTENDS Telemetry, SequenceTheorems, TLAPS

(* The types of what the buttons and their requests are.                   *)
ButtonType ==
    /\ traced \subseteq DevKit
    /\ active \in [DevKit -> BOOLEAN] /\ held \in [DevKit -> BOOLEAN]
    /\ requests \in [DevKit -> Seq(BOOLEAN)]
    /\ upset \subseteq DevKit /\ misled \subseteq DevKit

buttonVars == <<traced, active, held, requests, upset, misled>>

(* What a put and a get leave in a sequence.                               *)
LEMMA AppendLast ==
    ASSUME NEW q \in Seq(BOOLEAN), NEW x \in BOOLEAN
    PROVE  /\ Append(q, x) \in Seq(BOOLEAN) /\ Append(q, x) # <<>>
           /\ Append(q, x)[Len(Append(q, x))] = x
<1>1. Append(q, x) \in Seq(BOOLEAN) /\ Append(q, x) # <<>>
  BY AppendProperties
<1>2. Append(q, x)[Len(q) + 1] = x /\ Len(Append(q, x)) = Len(q) + 1
  BY AppendProperties
<1> QED
  BY <1>1, <1>2

LEMMA TailLast ==
    ASSUME NEW S, NEW q \in Seq(S), q # <<>>
    PROVE  /\ Tail(q) \in Seq(S)
           /\ Tail(q) = <<>> => Len(q) = 1 /\ Head(q) = q[Len(q)]
           /\ Tail(q) # <<>> => Tail(q)[Len(Tail(q))] = q[Len(q)]
<1> DEFINE t == Tail(q)
<1>1. /\ t \in Seq(S) /\ Len(t) = Len(q) - 1 /\ Head(q) = q[1]
      /\ \A i \in 1..Len(t) : t[i] = q[i + 1]
  BY HeadTailProperties
<1>2. Len(q) \in Nat /\ Len(<<>>) = 0 /\ Len(t) \in Nat
  BY <1>1, EmptySeq
<1>3. t # <<>> => Len(t) # 0
  BY <1>1, EmptySeq
<1> HIDE DEF t
<1>4. t = <<>> => Len(q) = 1 /\ Head(q) = q[Len(q)]
  BY <1>1, <1>2
<1>5. t # <<>> => t[Len(t)] = q[Len(q)]
  BY <1>1, <1>2, <1>3
<1> QED
  BY <1>1, <1>4, <1>5 DEF t

LEMMA ButtonTypeInit == Init => ButtonType
  BY DEF Init, ButtonType

(* The events and whatever else is sent leave the buttons alone.           *)
LEMMA OthersKeepButtons ==
    ASSUME \/ \E payload \in Payload : Event(payload)
           \/ PublishStatus \/ StreamStatus \/ StreamTelemetry \/ UNCHANGED vars
    PROVE  UNCHANGED buttonVars
<1>1. ASSUME NEW payload \in Payload, Event(payload) PROVE UNCHANGED buttonVars
  BY <1>1 DEF Event, pageVars, buttonVars
<1>2. CASE PublishStatus \/ StreamStatus \/ StreamTelemetry \/ UNCHANGED vars
  BY <1>2 DEF PublishStatus, StreamStatus, StreamTelemetry, vars, towerVars, pageVars,
              buttonVars
<1> QED
  BY <1>1, <1>2

LEMMA ButtonTypeStep == ButtonType /\ [Next]_vars => ButtonType'
<1> SUFFICES ASSUME ButtonType, [Next]_vars PROVE ButtonType'
  OBVIOUS
<1> USE DEF ButtonType
<1>1. CASE UNCHANGED buttonVars
  BY <1>1 DEF buttonVars
<1>2. ASSUME NEW v \in DevKit, NEW down \in BOOLEAN, Set(v, down) PROVE ButtonType'
  <2>1. /\ held' = [held EXCEPT ![v] = down]
        /\ active' = active \/ active' = [active EXCEPT ![v] = down]
    BY <1>2 DEF Set
  <2>2. held' \in [DevKit -> BOOLEAN] /\ active' \in [DevKit -> BOOLEAN]
    BY <2>1
  <2>3. requests' = requests \/ requests' = [requests EXCEPT ![v] = Append(@, down)]
    BY <1>2 DEF Set
  <2>4. requests' \in [DevKit -> Seq(BOOLEAN)]
    <3>1. Append(requests[v], down) \in Seq(BOOLEAN)
      BY AppendLast
    <3> QED
      BY <2>3, <3>1
  <2>5. traced' = traced /\ misled' = misled /\ upset' \subseteq upset
    BY <1>2 DEF Set, towerVars
  <2> QED
    BY <2>2, <2>4, <2>5
<1>3. ASSUME NEW v \in DevKit, Serve(v) \/ Fail(v) PROVE ButtonType'
  <2>1. requests[v] # <<>> /\ requests' = [requests EXCEPT ![v] = Tail(@)]
    BY <1>3 DEF Serve, Fail
  <2>2. requests' \in [DevKit -> Seq(BOOLEAN)]
    BY <2>1
  <2>3. traced' \in {traced, traced \cup {v}, traced \ {v}}
    BY <1>3 DEF Serve, Fail, towerVars
  <2>4. active' = active /\ held' = held /\ upset' \subseteq DevKit /\ misled' \subseteq DevKit
    BY <1>3 DEF Serve, Fail
  <2>5. traced' \subseteq DevKit
    BY <2>3
  <2> QED
    BY <2>2, <2>4, <2>5, Zenon
<1>4. CASE Receive
  <2>1. active' = active \/ active' = [v \in DevKit |-> v \in Head(wire).traced]
    BY <1>4 DEF Receive
  <2>2. active' \in [DevKit -> BOOLEAN]
    <3>1. CASE active' = [v \in DevKit |-> v \in Head(wire).traced]
      BY <3>1
    <3> QED
      BY <2>1, <3>1
  <2>3. traced' = traced /\ held' = held /\ requests' = requests
    BY <1>4 DEF Receive, towerVars
  <2>4. upset' \subseteq DevKit /\ misled' \subseteq DevKit
    BY <1>4 DEF Receive
  <2> QED
    BY <2>2, <2>3, <2>4, Zenon
<1>5. CASE Load
  <2>1. active' \in [DevKit -> BOOLEAN] /\ held' \in [DevKit -> BOOLEAN]
    BY <1>5, Zenon DEF Load
  <2>2. requests' \in [DevKit -> Seq(BOOLEAN)]
    BY <1>5 DEF Load
  <2>3. traced' \subseteq DevKit /\ upset' \subseteq DevKit /\ misled' \subseteq DevKit
    BY <1>5 DEF Load, towerVars
  <2> QED
    BY <2>1, <2>2, <2>3
<1> QED
  BY <1>1, <1>2, <1>3, <1>4, <1>5, OthersKeepButtons DEF Next, Press, Release

-----------------------------------------------------------------------------
(* Tracing follows the button.                                             *)

(* What the tower will trace once it has answered the requests of v.       *)
Asked(v) == IF requests[v] = <<>> THEN v \in traced ELSE requests[v][Len(requests[v])]

(* A button nobody upset shows the finger, and asked for what it shows.    *)
Follows(v) == (active[v] <=> held[v]) /\ (Asked(v) <=> held[v])

FollowInv == ButtonType /\ \A v \in DevKit \ upset : Follows(v)

LEMMA FollowStep == FollowInv /\ [Next]_vars => FollowInv'
<1> SUFFICES ASSUME FollowInv, [Next]_vars, NEW v \in DevKit, v \notin upset'
             PROVE  Follows(v)'
  BY ButtonTypeStep DEF FollowInv
<1> USE DEF FollowInv, ButtonType
<1> DEFINE same == /\ v \notin upset
                   /\ UNCHANGED <<active[v], held[v], requests[v]>>
                   /\ (v \in traced') <=> (v \in traced)
<1>1. CASE same
  BY <1>1, Zenon DEF Follows, Asked
<1> HIDE DEF same
<1>2. CASE UNCHANGED buttonVars
  BY <1>1, <1>2 DEF buttonVars, same
<1>3. ASSUME NEW w \in DevKit, NEW down \in BOOLEAN, Set(w, down) PROVE Follows(v)'
  <2>1. CASE w # v
    <3>1. same
      BY <1>3, <2>1 DEF Set, towerVars, same
    <3> QED
      BY <1>1, <3>1
  <2>2. CASE w = v /\ active[v] = down
    <3>1. v \notin upset /\ held[v] # down
      BY <1>3, <2>2 DEF Set
    <3>2. active[v] <=> held[v]
      BY <3>1 DEF Follows
    <3> QED
      BY <2>2, <3>1, <3>2
  <2>3. CASE w = v /\ active[v] # down
    <3>1. /\ active' = [active EXCEPT ![v] = down] /\ held' = [held EXCEPT ![v] = down]
          /\ requests' = [requests EXCEPT ![v] = Append(@, down)]
      BY <1>3, <2>3 DEF Set
    <3>2. active'[v] = down /\ held'[v] = down
      BY <3>1
    <3>3. requests'[v] = Append(requests[v], down)
      BY <3>1
    <3>4. requests'[v] # <<>> /\ requests'[v][Len(requests'[v])] = down
      <4>1. requests[v] \in Seq(BOOLEAN)
        OBVIOUS
      <4>2. /\ Append(requests[v], down) # <<>>
            /\ Append(requests[v], down)[Len(Append(requests[v], down))] = down
        BY <4>1, AppendLast
      <4> QED
        BY <3>3, <4>2
    <3> QED
      BY <3>2, <3>4, Zenon DEF Follows, Asked
  <2> QED
    BY <2>1, <2>2, <2>3
<1>4. ASSUME NEW w \in DevKit, Serve(w) \/ Fail(w), w # v PROVE Follows(v)'
  <2>1. requests'[v] = requests[v] /\ active' = active /\ held' = held
    BY <1>4 DEF Serve, Fail
  <2>2. v \notin upset
    BY <1>4 DEF Serve, Fail
  <2>3. (v \in traced') <=> (v \in traced)
    BY <1>4 DEF Serve, Fail, towerVars
  <2> QED
    BY <1>1, <2>1, <2>2, <2>3 DEF same
<1>5. CASE Serve(v) \/ Fail(v)
  <2>1. /\ requests[v] \in Seq(BOOLEAN) /\ requests[v] # <<>>
        /\ requests'[v] = Tail(requests[v])
    BY <1>5 DEF Serve, Fail
  <2>2. v \notin upset /\ active' = active /\ held' = held
    BY <1>5 DEF Serve, Fail
  <2>3. (requests[v][Len(requests[v])] <=> held[v]) /\ (active[v] <=> held[v])
    BY <2>1, <2>2, Zenon DEF Follows, Asked
  <2>4. CASE Tail(requests[v]) = <<>>
    <3>1. Len(requests[v]) = 1 /\ Head(requests[v]) = requests[v][Len(requests[v])]
      BY <2>1, <2>4, TailLast
    <3>2. Serve(v)
      BY <1>5, <2>2, <3>1 DEF Fail
    <3>3. (v \in traced') <=> Head(requests[v])
      BY <3>2 DEF Serve
    <3> QED
      BY <2>1, <2>2, <2>3, <2>4, <3>1, <3>3, Zenon DEF Follows, Asked
  <2>5. CASE Tail(requests[v]) # <<>>
    <3>1. Tail(requests[v])[Len(Tail(requests[v]))] = requests[v][Len(requests[v])]
      BY <2>1, <2>5, TailLast
    <3> QED
      BY <2>1, <2>2, <2>3, <2>5, <3>1, Zenon DEF Follows, Asked
  <2> QED
    BY <2>4, <2>5
<1>6. CASE Receive
  <2>1. v \notin upset /\ UNCHANGED <<held, requests, traced>>
    BY <1>6 DEF Receive, towerVars
  <2>2. active'[v] = active[v] \/ (active'[v] <=> held[v])
    BY <1>6, <2>1 DEF Receive
  <2> QED
    BY <2>1, <2>2, Zenon DEF Follows, Asked
<1>7. CASE Load
  <2>1. v \notin upset /\ ~held[v] /\ requests[v] = <<>> /\ traced' = traced
    BY <1>7 DEF Load, towerVars
  <2>2. requests'[v] = <<>> /\ active'[v] = FALSE /\ held'[v] = FALSE
    BY <1>7 DEF Load
  <2>3. v \notin traced
    BY <2>1, Zenon DEF Follows, Asked
  <2> QED
    BY <2>1, <2>2, <2>3, Zenon DEF Follows, Asked
<1> QED
  BY <1>2, <1>3, <1>4, <1>5, <1>6, <1>7, OthersKeepButtons DEF Next, Press, Release

(* A vehicle is traced exactly while its button is held, once the tower    *)
(* answered the button's requests, whatever the interleaving of presses,   *)
(* posts, answers and statuses, unless a status contradicted the finger or *)
(* a request was lost (index.html, setTraceLidar and postTraceLidar).      *)
THEOREM TracingFollowsButton == Spec => []TraceFollowsButton
<1>1. Init => FollowInv
  <2>1. ASSUME Init, NEW v \in DevKit PROVE Follows(v)
    <3>1. active[v] = FALSE /\ held[v] = FALSE /\ requests[v] = <<>> /\ v \notin traced
      BY <2>1 DEF Init
    <3> QED
      BY <3>1, Zenon DEF Follows, Asked
  <2> QED
    BY <2>1, ButtonTypeInit DEF FollowInv
<1>2. FollowInv /\ [Next]_vars => FollowInv'
  BY FollowStep
<1>3. ASSUME FollowInv, NEW v \in DevKit \ upset, requests[v] = <<>>
      PROVE  (v \in traced) = held[v]
  <2>1. (v \in traced) <=> held[v]
    BY <1>3, Zenon DEF FollowInv, Follows, Asked
  <2> QED
    BY <1>3, <2>1 DEF FollowInv, ButtonType
<1>4. FollowInv => TraceFollowsButton
  BY <1>3 DEF TraceFollowsButton
<1> QED
  BY <1>1, <1>2, <1>4, PTL DEF Spec

-----------------------------------------------------------------------------
(* The page shows what is traced.                                          *)

IsWire(w) ==
    /\ \E S : w \in Seq(S)
    /\ \A i \in 1..Len(w) : w[i].kind \in {"status", "telemetry"}

HasStatus(w) == \E i \in 1..Len(w) : w[i].kind = "status"

(* The last status on its way tells that ids are traced.                   *)
LastTells(w, ids) ==
    \A i \in 1..Len(w) :
        /\ w[i].kind = "status"
        /\ \A j \in 1..Len(w) : i < j => w[j].kind # "status"
        => w[i].traced = ids

(* What a message appended to the wire, and one taken from it, change.     *)
LEMMA WireAppend ==
    ASSUME NEW w, IsWire(w), NEW x, x.kind \in {"status", "telemetry"}
    PROVE  /\ IsWire(Append(w, x))
           /\ Len(w) \in Nat /\ Len(Append(w, x)) = Len(w) + 1
           /\ Append(w, x)[Len(w) + 1] = x
           /\ \A i \in 1..Len(w) : Append(w, x)[i] = w[i]
<1>1. PICK S : w \in Seq(S)
  BY DEF IsWire
<1>2. w \in Seq(S \cup {x})
  BY <1>1, SeqMonotonic
<1>3. /\ Append(w, x) \in Seq(S \cup {x})
      /\ Len(w) \in Nat /\ Len(Append(w, x)) = Len(w) + 1
      /\ Append(w, x)[Len(w) + 1] = x
      /\ \A i \in 1..Len(w) : Append(w, x)[i] = w[i]
  BY <1>2, AppendProperties, LenProperties
<1>4. \A i \in 1..(Len(w) + 1) : Append(w, x)[i].kind \in {"status", "telemetry"}
  <2>1. ASSUME NEW i \in 1..(Len(w) + 1) PROVE i = Len(w) + 1 \/ i \in 1..Len(w)
    BY <1>3
  <2> QED
    BY <1>3, <2>1 DEF IsWire
<1> QED
  BY <1>3, <1>4 DEF IsWire

LEMMA StatusAppended ==
    ASSUME NEW w, IsWire(w), NEW ids
    PROVE  LET sent == Append(w, StatusMessage(ids)) IN
           IsWire(sent) /\ HasStatus(sent) /\ LastTells(sent, ids)
<1> DEFINE x == StatusMessage(ids)
           sent == Append(w, x)
<1>1. x.kind = "status" /\ x.traced = ids
  BY DEF StatusMessage
<1>2. /\ IsWire(sent)
      /\ Len(w) \in Nat /\ Len(sent) = Len(w) + 1
      /\ sent[Len(w) + 1] = x
  BY <1>1, WireAppend
<1> HIDE DEF x, sent
<1>3. HasStatus(sent)
  BY <1>1, <1>2 DEF HasStatus
<1>4. LastTells(sent, ids)
  <2> SUFFICES ASSUME NEW i \in 1..Len(sent),
                      \A j \in 1..Len(sent) : i < j => sent[j].kind # "status"
               PROVE  sent[i].traced = ids
    BY DEF LastTells
  <2>1. i = Len(w) + 1
    BY <1>1, <1>2
  <2> QED
    BY <1>1, <1>2, <2>1
<1> QED
  BY <1>2, <1>3, <1>4 DEF x, sent

LEMMA TelemetryAppended ==
    ASSUME NEW w, IsWire(w), NEW known, NEW ids, LastTells(w, ids)
    PROVE  LET sent == Append(w, TelemetryMessage(known)) IN
           IsWire(sent) /\ LastTells(sent, ids) /\ (HasStatus(w) => HasStatus(sent))
<1> DEFINE x == TelemetryMessage(known)
           sent == Append(w, x)
<1>1. x.kind = "telemetry"
  BY DEF TelemetryMessage
<1>2. /\ IsWire(sent)
      /\ Len(w) \in Nat /\ Len(sent) = Len(w) + 1
      /\ sent[Len(w) + 1] = x
      /\ \A i \in 1..Len(w) : sent[i] = w[i]
  BY <1>1, WireAppend
<1> HIDE DEF x, sent
<1>3. HasStatus(w) => HasStatus(sent)
  BY <1>2 DEF HasStatus
<1>4. LastTells(sent, ids)
  <2> SUFFICES ASSUME NEW i \in 1..Len(sent), sent[i].kind = "status",
                      \A j \in 1..Len(sent) : i < j => sent[j].kind # "status"
               PROVE  sent[i].traced = ids
    BY DEF LastTells
  <2>1. i # Len(w) + 1
    BY <1>1, <1>2
  <2>2. i \in 1..Len(w)
    BY <1>2, <2>1
  <2>3. \A j \in 1..Len(w) : i < j => w[j].kind # "status"
    BY <1>2
  <2> QED
    BY <1>2, <2>2, <2>3 DEF LastTells
<1> QED
  BY <1>2, <1>3, <1>4 DEF x, sent

LEMMA WireTail ==
    ASSUME NEW w, IsWire(w), NEW ids, LastTells(w, ids), w # <<>>
    PROVE  /\ IsWire(Tail(w)) /\ LastTells(Tail(w), ids)
           /\ Head(w).kind \in {"status", "telemetry"}
           /\ ~HasStatus(Tail(w)) =>
                 IF Head(w).kind = "status" THEN Head(w).traced = ids ELSE ~HasStatus(w)
<1> DEFINE t == Tail(w)
<1>1. PICK S : w \in Seq(S)
  BY DEF IsWire
<1>2. /\ t \in Seq(S) /\ Len(w) \in Nat \ {0} /\ Len(t) = Len(w) - 1 /\ Head(w) = w[1]
      /\ \A i \in 1..Len(t) : t[i] = w[i + 1]
  BY <1>1, HeadTailProperties, EmptySeq
<1> HIDE DEF t
<1>3. \A i \in 1..Len(w) : i = 1 \/ (i - 1 \in 1..Len(t) /\ t[i - 1] = w[i])
  BY <1>2
<1>4. IsWire(t) /\ Head(w).kind \in {"status", "telemetry"}
  BY <1>2 DEF IsWire
<1>5. LastTells(t, ids)
  <2> SUFFICES ASSUME NEW i \in 1..Len(t), t[i].kind = "status",
                      \A j \in 1..Len(t) : i < j => t[j].kind # "status"
               PROVE  t[i].traced = ids
    BY DEF LastTells
  <2>1. i + 1 \in 1..Len(w) /\ t[i] = w[i + 1]
    BY <1>2
  <2>2. \A j \in 1..Len(w) : i + 1 < j => w[j].kind # "status"
    BY <1>2, <1>3
  <2> QED
    BY <2>1, <2>2 DEF LastTells
<1>6. ASSUME ~HasStatus(t)
      PROVE  IF Head(w).kind = "status" THEN Head(w).traced = ids ELSE ~HasStatus(w)
  <2>1. \A j \in 1..Len(w) : 1 < j => w[j].kind # "status"
    BY <1>3, <1>6 DEF HasStatus
  <2>2. 1 \in 1..Len(w)
    BY <1>2
  <2>3. CASE Head(w).kind = "status"
    BY <1>2, <2>1, <2>2, <2>3 DEF LastTells
  <2>4. CASE Head(w).kind # "status"
    <3>1. \A j \in 1..Len(w) : j = 1 \/ 1 < j
      BY <1>2
    <3> QED
      BY <1>2, <2>1, <2>4, <3>1 DEF HasStatus
  <2> QED
    BY <2>3, <2>4
<1> QED
  BY <1>4, <1>5, <1>6 DEF t

(* Unless it was misled, a button without a request and without a status   *)
(* to come shows whether its vehicle is traced.                            *)
Shows(v) ==
    v \notin misled /\ requests[v] = <<>> /\ ~HasStatus(wire) => (active[v] <=> v \in traced)

ShowInv ==
    /\ ButtonType
    /\ IsWire(wire) /\ LastTells(wire, traced)
    /\ \A v \in DevKit : Shows(v)

LEMMA ShowWire == ShowInv /\ [Next]_vars => IsWire(wire') /\ LastTells(wire', traced')
<1> SUFFICES ASSUME ShowInv, [Next]_vars PROVE IsWire(wire') /\ LastTells(wire', traced')
  OBVIOUS
<1> USE DEF ShowInv
<1>1. CASE wire' = wire /\ traced' = traced
  BY <1>1
<1>2. CASE wire' = Append(wire, StatusMessage(traced'))
  BY <1>2, StatusAppended
<1>3. ASSUME NEW known, wire' = Append(wire, TelemetryMessage(known)), traced' = traced
      PROVE  IsWire(wire') /\ LastTells(wire', traced')
  BY <1>3, TelemetryAppended
<1>4. ASSUME NEW payload \in Payload, Event(payload)
      PROVE  IsWire(wire') /\ LastTells(wire', traced')
  <2>1. traced' = traced
    BY <1>4 DEF Event
  <2>2. wire' = wire \/ \E known : wire' = Append(wire, TelemetryMessage(known))
    BY <1>4 DEF Event, Published
  <2> QED
    BY <1>1, <1>3, <2>1, <2>2
<1>5. ASSUME NEW v \in DevKit, Press(v) \/ Release(v) \/ Serve(v) \/ Fail(v)
      PROVE  IsWire(wire') /\ LastTells(wire', traced')
  BY <1>1, <1>2, <1>5 DEF Press, Release, Set, Serve, Fail, towerVars
<1>6. CASE PublishStatus \/ StreamStatus
  BY <1>2, <1>6 DEF PublishStatus, StreamStatus, towerVars
<1>7. CASE StreamTelemetry
  BY <1>1, <1>3, <1>7 DEF StreamTelemetry
<1>8. CASE Receive
  BY <1>8, WireTail DEF Receive, towerVars
<1>9. CASE Load
  <2>1. wire' = Append(<<>>, StatusMessage(traced')) /\ IsWire(<<>>)
    BY <1>9 DEF Load, towerVars, IsWire
  <2> QED
    BY <2>1, StatusAppended
<1>10. CASE UNCHANGED vars
  BY <1>1, <1>10 DEF vars, towerVars
<1> QED
  BY <1>4, <1>5, <1>6, <1>7, <1>8, <1>9, <1>10 DEF Next

LEMMA ShowStep == ShowInv /\ [Next]_vars => ShowInv'
<1> SUFFICES ASSUME ShowInv, [Next]_vars, NEW v \in DevKit PROVE Shows(v)'
  BY ButtonTypeStep, ShowWire DEF ShowInv
<1> USE DEF ShowInv
<1> DEFINE same == /\ UNCHANGED <<active[v], requests[v]>>
                   /\ (v \in traced') <=> (v \in traced)
                   /\ v \in misled => v \in misled'
                   /\ HasStatus(wire) => HasStatus(wire')
<1>1. CASE same
  BY <1>1, Zenon DEF Shows
<1> HIDE DEF same
<1>2. CASE HasStatus(wire')
  BY <1>2 DEF Shows
<1>3. CASE \/ \E payload \in Payload : Event(payload)
           \/ StreamTelemetry \/ UNCHANGED vars
  <2>1. UNCHANGED buttonVars
    BY <1>3, OthersKeepButtons
  <2>2. wire' = wire \/ \E known : wire' = Append(wire, TelemetryMessage(known))
    BY <1>3 DEF Event, Published, StreamTelemetry, vars
  <2>3. HasStatus(wire) => HasStatus(wire')
    BY <2>2, TelemetryAppended
  <2> QED
    BY <1>1, <2>1, <2>3 DEF buttonVars, same
<1>4. CASE PublishStatus \/ StreamStatus \/ \E w \in DevKit : Serve(w)
  <2>1. \E ids : wire' = Append(wire, StatusMessage(ids))
    BY <1>4 DEF PublishStatus, StreamStatus, Serve
  <2> QED
    BY <1>2, <2>1, StatusAppended
<1>5. ASSUME NEW w \in DevKit, NEW down \in BOOLEAN, Set(w, down) PROVE Shows(v)'
  <2>1. traced' = traced /\ wire' = wire /\ misled' = misled
    BY <1>5 DEF Set, towerVars
  <2>2. CASE v # w \/ active[w] = down
    <3>1. active'[v] = active[v] /\ requests'[v] = requests[v]
      BY <1>5, <2>2 DEF Set, ButtonType
    <3> QED
      BY <1>1, <2>1, <3>1 DEF same
  <2>3. CASE v = w /\ active[w] # down
    <3>1. requests'[v] = Append(requests[v], down)
      BY <1>5, <2>3 DEF Set, ButtonType
    <3>2. requests'[v] # <<>>
      BY <3>1, AppendLast DEF ButtonType
    <3> QED
      BY <3>2 DEF Shows
  <2> QED
    BY <2>2, <2>3
<1>6. ASSUME NEW w \in DevKit, Fail(w) PROVE Shows(v)'
  <2>1. traced' = traced /\ wire' = wire /\ active' = active /\ misled' = misled \cup {w}
    BY <1>6 DEF Fail, towerVars
  <2>2. CASE v = w
    BY <2>1, <2>2 DEF Shows
  <2>3. CASE v # w
    <3>1. requests'[v] = requests[v]
      BY <1>6, <2>3 DEF Fail, ButtonType
    <3> QED
      BY <1>1, <2>1, <3>1 DEF same
  <2> QED
    BY <2>2, <2>3
<1>7. CASE Receive
  <2>1. wire # <<>> /\ wire' = Tail(wire) /\ traced' = traced /\ requests' = requests
    BY <1>7 DEF Receive, towerVars
  <2>2. CASE Head(wire).kind = "telemetry"
    <3>1. active' = active /\ misled' = misled
      BY <1>7, <2>2 DEF Receive
    <3>2. HasStatus(wire) => HasStatus(wire')
      BY <2>1, <2>2, WireTail
    <3> QED
      BY <1>1, <2>1, <3>1, <3>2 DEF same
  <2>3. CASE Head(wire).kind # "telemetry"
    <3>1. active'[v] <=> v \in Head(wire).traced
      BY <1>7, <2>3 DEF Receive
    <3>2. Head(wire).kind = "status"
      BY <2>1, <2>3, WireTail
    <3>3. ~HasStatus(wire') => Head(wire).traced = traced
      BY <2>1, <3>2, WireTail
    <3> QED
      BY <2>1, <3>1, <3>3, Zenon DEF Shows
  <2> QED
    BY <2>2, <2>3
<1>8. CASE Load
  <2>1. wire' = Append(<<>>, StatusMessage(traced)) /\ IsWire(<<>>)
    BY <1>8 DEF Load, IsWire
  <2> QED
    BY <1>2, <2>1, StatusAppended
<1> QED
  BY <1>3, <1>4, <1>5, <1>6, <1>7, <1>8 DEF Next, Press, Release

(* With no request unanswered and no status to receive, a button is drawn  *)
(* as pressed exactly when its vehicle is traced, whoever changed that,    *)
(* unless a request was lost since the last status (index.html,            *)
(* handleMonitorMessage; server.py, status_payload).                       *)
THEOREM ButtonsShowTracing == Spec => []ButtonShowsTracing
<1>1. Init => ShowInv
  <2> SUFFICES ASSUME Init PROVE ShowInv
    OBVIOUS
  <2>1. wire = Append(<<>>, StatusMessage(traced)) /\ IsWire(<<>>)
    BY DEF Init, IsWire
  <2>2. IsWire(wire) /\ HasStatus(wire) /\ LastTells(wire, traced)
    BY <2>1, StatusAppended
  <2> QED
    BY <2>2, ButtonTypeInit DEF ShowInv, Shows
<1>2. ShowInv /\ [Next]_vars => ShowInv'
  BY ShowStep
<1>3. ASSUME ShowInv, NEW v \in DevKit \ misled, requests[v] = <<>>, ~Sent("status")
      PROVE  active[v] = (v \in traced)
  <2>1. PICK S : wire \in Seq(S)
    BY <1>3 DEF ShowInv, IsWire
  <2>2. ~HasStatus(wire)
    BY <1>3, <2>1, LenProperties DEF Sent, HasStatus
  <2>3. active[v] <=> v \in traced
    BY <1>3, <2>2, Zenon DEF ShowInv, Shows
  <2> QED
    BY <1>3, <2>3 DEF ShowInv, ButtonType
<1>4. ShowInv => ButtonShowsTracing
  BY <1>3 DEF ButtonShowsTracing
<1> QED
  BY <1>1, <1>2, <1>4, PTL DEF Spec
=============================================================================
