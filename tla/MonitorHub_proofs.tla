------------------------- MODULE MonitorHub_proofs -------------------------
(***************************************************************************)
(* Theorems about MonitorHub, for every number of sockets and every bound: *)
(* its types, the count of monitors, and that a browser with nothing left  *)
(* to receive shows the current state, and never an older one after it.    *)
(***************************************************************************)
EXTENDS MonitorHub, SequenceTheorems, FiniteSetTheorems, TLAPS

-----------------------------------------------------------------------------
(* The messages and the broadcasts under way.                              *)

LEMMA PrunedType ==
    ASSUME NEW times \in Seq(Nat)
    PROVE  Pruned(times) \in Seq(Nat) /\ Len(Pruned(times)) \in Nat
<1> DEFINE old == {i \in 1..Len(times) : \A j \in 1..i : times[j] + Window < clock}
<1>1. Cardinality(old) \in Nat
  <2>1. Len(times) \in Nat /\ IsFiniteSet(1..Len(times))
    BY LenProperties, FS_Interval
  <2> QED
    BY <2>1, FS_Subset, FS_CardinalityType
<1> HIDE DEF old
<1>2. \A i \in (Cardinality(old) + 1)..Len(times) : times[i] \in Nat
  BY <1>1
<1>3. SubSeq(times, Cardinality(old) + 1, Len(times)) \in Seq(Nat)
  BY <1>1, <1>2, SubSeqProperties
<1> QED
  BY <1>3, LenProperties DEF Pruned, old

LEMMA StatusType ==
    ASSUME NEW f \in Nat, NEW times \in Seq(Nat)
    PROVE  /\ Status(f, times) \in Message
           /\ Status(f, times).kind = "status" /\ Status(f, times).facts = f
  BY PrunedType DEF Status, Message

By == Caller \cup {"control", "loop", "other"}

Phase == {"none", "greeting", "reading", "stopping", "notifying", "publishing", "confirming",
          "leaving", "gone"}

LEMMA ByCallers ==
    /\ "tower" \in Caller /\ "tower" \notin Monitor
    /\ \A a \in Caller : a \in By /\ (a \in Monitor \/ a = "tower")
    /\ \A m \in Monitor : m \in Caller
    /\ "control" \in By /\ "loop" \in By /\ "other" \in By
  BY HubAssumption DEF By, Caller

(* No broadcast has both to write to a socket and waits for it, and only   *)
(* broken sockets are lost to it.                                          *)
Sound(flights, sockets) ==
    /\ flights \in Seq(Flight)
    /\ \A i \in 1..Len(flights) :
         /\ flights[i].todo \cap flights[i].waiting = {}
         /\ \A m \in flights[i].lost : sockets[m] = "broken"

(* A broadcast that is launched goes last, to those it is for.             *)
Launch(message, by, to) ==
    [message |-> message, by |-> by, to |-> to, todo |-> to, waiting |-> {}, lost |-> {}]

LEMMA LaunchedIs ==
    ASSUME NEW flights, NEW to, NEW message, NEW by
    PROVE  Launched(flights, to, message, by) =
             IF to = {} THEN flights ELSE Append(flights, Launch(message, by, to))
  BY DEF Launched, Launch

LEMMA AppendEntries ==
    ASSUME NEW flights \in Seq(Flight), NEW x \in Flight
    PROVE  /\ Append(flights, x) \in Seq(Flight)
           /\ Len(flights) \in Nat
           /\ Len(Append(flights, x)) = Len(flights) + 1
           /\ Append(flights, x)[Len(flights) + 1] = x
           /\ \A i \in 1..Len(flights) : Append(flights, x)[i] = flights[i]
           /\ \A i \in 1..(Len(flights) + 1) : i \in 1..Len(flights) \/ i = Len(flights) + 1
  BY AppendProperties, LenProperties

LEMMA LaunchedSound ==
    ASSUME NEW flights, NEW sockets, Sound(flights, sockets),
           NEW to \in SUBSET Monitor, NEW message \in Message, NEW by \in By
    PROVE  Sound(Launched(flights, to, message, by), sockets)
<1> DEFINE x == Launch(message, by, to)
<1>1. x \in Flight /\ x.todo \cap x.waiting = {} /\ x.lost = {}
  BY DEF Launch, Flight, By
<1> HIDE DEF x
<1>2. CASE to # {}
  <2>1. Launched(flights, to, message, by) = Append(flights, x)
    BY <1>2, LaunchedIs DEF x
  <2> QED
    BY <1>1, <2>1, AppendEntries DEF Sound
<1>3. CASE to = {}
  BY <1>3, LaunchedIs
<1> QED
  BY <1>2, <1>3

LEMMA RemoveAtEntries ==
    ASSUME NEW S, NEW q \in Seq(S), NEW i \in 1..Len(q)
    PROVE  /\ RemoveAt(q, i) \in Seq(S)
           /\ Len(q) \in Nat /\ Len(RemoveAt(q, i)) = Len(q) - 1
           /\ \A j \in 1..(Len(q) - 1) : RemoveAt(q, i)[j] = IF j < i THEN q[j] ELSE q[j + 1]
<1> DEFINE a == SubSeq(q, 1, i - 1)
           b == SubSeq(q, i + 1, Len(q))
<1>1. Len(q) \in Nat /\ \A j \in 1..Len(q) : q[j] \in S
  BY LenProperties, ElementOfSeq
<1>2. /\ a \in Seq(S) /\ Len(a) = i - 1
      /\ \A j \in 1..(i - 1) : a[j] = q[j]
  <2>1. /\ a \in Seq(S) /\ Len(a) = (IF 1 <= i - 1 THEN i - 1 - 1 + 1 ELSE 0)
        /\ \A j \in 1..(i - 1 - 1 + 1) : a[j] = q[1 + j - 1]
    BY <1>1, SubSeqProperties
  <2> QED
    BY <1>1, <2>1
<1>3. /\ b \in Seq(S) /\ Len(b) = Len(q) - i
      /\ \A j \in 1..(Len(q) - i) : b[j] = q[i + j]
  <2>1. /\ b \in Seq(S) /\ Len(b) = (IF i + 1 <= Len(q) THEN Len(q) - (i + 1) + 1 ELSE 0)
        /\ \A j \in 1..(Len(q) - (i + 1) + 1) : b[j] = q[i + 1 + j - 1]
    BY <1>1, SubSeqProperties
  <2> QED
    BY <1>1, <2>1
<1> HIDE DEF a, b
<1>4. /\ a \o b \in Seq(S) /\ Len(a \o b) = Len(a) + Len(b)
      /\ \A j \in 1..(Len(a) + Len(b)) :
            (a \o b)[j] = IF j <= Len(a) THEN a[j] ELSE b[j - Len(a)]
  BY <1>2, <1>3, ConcatProperties
<1>5. ASSUME NEW j \in 1..(Len(q) - 1)
      PROVE  (a \o b)[j] = IF j < i THEN q[j] ELSE q[j + 1]
  <2>1. CASE j < i
    BY <1>1, <1>2, <1>3, <1>4, <2>1
  <2>2. CASE ~(j < i)
    <3>1. j - (i - 1) \in 1..(Len(q) - i) /\ i + (j - (i - 1)) = j + 1
      BY <1>1, <2>2
    <3>2. b[j - (i - 1)] = q[j + 1]
      BY <1>3, <3>1
    <3>3. j \in 1..(Len(a) + Len(b)) /\ ~(j <= Len(a)) /\ Len(a) = i - 1
      BY <1>1, <1>2, <1>3, <2>2
    <3>4. (a \o b)[j] = b[j - (i - 1)]
      BY <1>4, <3>3
    <3> QED
      BY <2>2, <3>2, <3>4
  <2> QED
    BY <2>1, <2>2
<1>6. RemoveAt(q, i) = a \o b
  BY DEF RemoveAt, a, b
<1>7. Len(a \o b) = Len(q) - 1
  BY <1>1, <1>2, <1>3, <1>4
<1> QED
  BY <1>1, <1>4, <1>5, <1>6, <1>7

LEMMA RemoveSound ==
    ASSUME NEW flights, NEW sockets, Sound(flights, sockets), NEW i \in 1..Len(flights)
    PROVE  Sound(RemoveAt(flights, i), sockets)
<1>1. flights \in Seq(Flight)
  BY DEF Sound
<1>2. /\ RemoveAt(flights, i) \in Seq(Flight)
      /\ Len(flights) \in Nat /\ Len(RemoveAt(flights, i)) = Len(flights) - 1
      /\ \A j \in 1..(Len(flights) - 1) :
            RemoveAt(flights, i)[j] = IF j < i THEN flights[j] ELSE flights[j + 1]
  BY <1>1, RemoveAtEntries
<1>3. \A j \in 1..(Len(flights) - 1) : j \in 1..Len(flights) /\ j + 1 \in 1..Len(flights)
  BY <1>2
<1> QED
  BY <1>2, <1>3 DEF Sound

-----------------------------------------------------------------------------
(* Types, and which sockets the hub and its broadcasts know.               *)

(* A socket that has not joined is not known; one that is open is.         *)
Known(m) ==
    /\ phase[m] = "none" =>
         /\ socket[m] = "broken" /\ m \notin clients /\ shown[m].facts = 0
         /\ \A i \in 1..Len(flight) :
              m \notin flight[i].todo /\ m \notin flight[i].waiting /\ m \notin flight[i].lost
    /\ socket[m] = "open" => m \in clients

HubType == TypeOK /\ Sound(flight, socket) /\ MirrorExact /\ \A m \in Monitor : Known(m)

LEMMA SoundType ==
    Sound(flight, socket) =>
        /\ flight \in Seq(Flight)
        /\ \A i \in 1..Len(flight) : flight[i].todo \cap flight[i].waiting = {}
  BY DEF Sound

LEMMA RefreshType ==
    ASSUME NEW times \in Seq(Nat), Refresh(times)
    PROVE  stamps' \in Seq(Nat) /\ rate' \in Nat
  BY PrunedType DEF Refresh

LEMMA CountType ==
    ASSUME NEW kept, kept \subseteq Monitor PROVE Cardinality(kept) \in Nat
  BY HubAssumption, FS_Subset, FS_CardinalityType

(* A message launched to sockets in the hub.                               *)
LEMMA LaunchKeeps ==
    ASSUME HubType, NEW to \in SUBSET clients, NEW message \in Message, NEW by \in By,
           flight' = Launched(flight, to, message, by),
           UNCHANGED <<socket, wire, shown>>,
           clients' \subseteq clients,
           \A m \in clients : socket[m] = "open" => m \in clients',
           \A m \in Monitor : phase'[m] = "none" => phase[m] = "none"
    PROVE  Sound(flight', socket') /\ \A m \in Monitor : Known(m)'
<1> USE DEF HubType, TypeOK
<1> DEFINE x == Launch(message, by, to)
<1>1. Sound(flight', socket')
  BY LaunchedSound
<1>2. x.todo = to /\ x.waiting = {} /\ x.lost = {} /\ x \in Flight
  BY DEF Launch, Flight, By
<1> HIDE DEF x
<1>3. flight' = flight \/ flight' = Append(flight, x)
  BY LaunchedIs DEF x
<1>4. ASSUME NEW m \in Monitor PROVE Known(m)'
  <2>1. CASE flight' = flight
    BY <2>1 DEF Known
  <2>2. CASE flight' = Append(flight, x)
    BY <1>2, <2>2, AppendEntries DEF Known
  <2> QED
    BY <1>3, <2>1, <2>2
<1> QED
  BY <1>1, <1>4

(* What the actions that publish the status have in common.                *)
PublishStep(times, by) ==
    /\ Refresh(times)
    /\ flight' = Launched(flight, clients', Status(facts', times), by)
    /\ facts' \in Nat /\ facts' >= facts /\ unpublished' = FALSE
    /\ UNCHANGED <<clock, socket, wire, shown>> /\ refreshing' \in BOOLEAN
    /\ clients' \subseteq clients /\ mirror' = Cardinality(clients')
    /\ \A m \in clients : socket[m] = "open" => m \in clients'
    /\ phase' \in [Caller -> Phase]
    /\ \A m \in Monitor : phase'[m] = "none" => phase[m] = "none"

Publishing ==
    \/ Change \/ Record \/ RefreshLoop
    \/ \E n \in Monitor : Command(n) \/ Leave(n)
    \/ \E a \in Caller : StopNotifies(a) \/ StopReturns(a)

LEMMA PublishingIs ==
    ASSUME HubType, Publishing
    PROVE  \E times \in Seq(Nat), by \in By : PublishStep(times, by)
<1> USE DEF HubType, TypeOK
<1>1. phase \in [Caller -> Phase] /\ mirror = Cardinality(clients) /\ stamps \in Seq(Nat)
      /\ facts \in Nat
  BY DEF MirrorExact, Phase
<1>2. CASE Change
  <2>1. PublishStep(stamps, "other")
    BY <1>1, <1>2 DEF Change, PublishStep, socketVars
  <2> QED
    BY <1>1, <2>1, ByCallers
<1>3. CASE Record
  <2>1. Append(stamps, clock) \in Seq(Nat)
    OBVIOUS
  <2>2. PublishStep(Append(stamps, clock), "control")
    BY <1>1, <1>3 DEF Record, PublishStep, socketVars
  <2> QED
    BY <2>1, <2>2, ByCallers
<1>4. CASE RefreshLoop
  <2>1. PublishStep(stamps, "loop")
    BY <1>1, <1>4 DEF RefreshLoop, PublishStep, socketVars
  <2> QED
    BY <1>1, <2>1, ByCallers
<1>5. ASSUME NEW n \in Monitor, Command(n)
      PROVE  \E times \in Seq(Nat), by \in By : PublishStep(times, by)
  <2>1. phase' = [phase EXCEPT ![n] = IF clients = {} THEN "reading" ELSE "publishing"]
        /\ n \in Caller
    BY <1>5, ByCallers DEF Command
  <2>2. phase' \in [Caller -> Phase] /\ \A m \in Monitor : phase'[m] = "none" => phase[m] = "none"
    BY <1>1, <2>1, ByCallers DEF Phase
  <2>3. PublishStep(stamps, n)
    BY <1>1, <1>5, <2>2 DEF Command, PublishStep
  <2> QED
    BY <1>1, <2>3, ByCallers
<1>6. ASSUME NEW n \in Monitor, Leave(n)
      PROVE  \E times \in Seq(Nat), by \in By : PublishStep(times, by)
  <2>1. phase' = [phase EXCEPT ![n] = IF clients \ {n} = {} THEN "gone" ELSE "leaving"]
        /\ n \in Caller
    BY <1>6, ByCallers DEF Leave
  <2>2. phase' \in [Caller -> Phase] /\ \A m \in Monitor : phase'[m] = "none" => phase[m] = "none"
    BY <1>1, <2>1, ByCallers DEF Phase
  <2>3. /\ clients' = clients \ {n} /\ socket[n] = "broken"
        /\ flight' = Launched(flight, clients', Status(facts', stamps), n)
    BY <1>6 DEF Leave
  <2>4. PublishStep(stamps, n)
    BY <1>1, <1>6, <2>2, <2>3 DEF Leave, PublishStep
  <2> QED
    BY <1>1, <2>4, ByCallers
<1>7. ASSUME NEW a \in Caller, StopNotifies(a)
      PROVE  \E times \in Seq(Nat), by \in By : PublishStep(times, by)
  <2>1. phase' = [phase EXCEPT ![a] = IF clients = {} THEN "stopping" ELSE "notifying"]
    BY <1>7 DEF StopNotifies
  <2>2. phase' \in [Caller -> Phase] /\ \A m \in Monitor : phase'[m] = "none" => phase[m] = "none"
    BY <1>1, <2>1, ByCallers DEF Phase
  <2>3. PublishStep(stamps, a)
    BY <1>1, <1>7, <2>2 DEF StopNotifies, PublishStep
  <2> QED
    BY <1>1, <2>3, ByCallers
<1>8. ASSUME NEW a \in Caller, StopReturns(a)
      PROVE  \E times \in Seq(Nat), by \in By : PublishStep(times, by)
  <2>1. PICK p : p = CASE a = "tower" -> "none"
                       [] clients = {} -> "reading"
                       [] OTHER -> "publishing"
    OBVIOUS
  <2>2. phase' = [phase EXCEPT ![a] = p] /\ (a # "tower" => p \in {"reading", "publishing"})
        /\ p \in {"none", "reading", "publishing"}
    BY <1>8, <2>1 DEF StopReturns
  <2>3. phase' \in [Caller -> Phase] /\ \A m \in Monitor : phase'[m] = "none" => phase[m] = "none"
    BY <1>1, <2>2, ByCallers DEF Phase
  <2>4. PICK by \in By : by = IF a = "tower" THEN "other" ELSE a
    BY ByCallers
  <2>5. PublishStep(stamps, by)
    BY <1>1, <1>8, <2>3, <2>4 DEF StopReturns, PublishStep
  <2> QED
    BY <1>1, <2>5
<1> QED
  BY <1>2, <1>3, <1>4, <1>5, <1>6, <1>7, <1>8 DEF Publishing

LEMMA PublishKeeps == HubType /\ Publishing => HubType'
<1> SUFFICES ASSUME HubType, Publishing PROVE HubType'
  OBVIOUS
<1>1. PICK times \in Seq(Nat), by \in By : PublishStep(times, by)
  BY PublishingIs
<1>2. Status(facts', times) \in Message
  BY <1>1, StatusType DEF PublishStep
<1>3. Sound(flight', socket') /\ \A m \in Monitor : Known(m)'
  BY <1>1, <1>2, LaunchKeeps DEF PublishStep
<1>4. stamps' \in Seq(Nat) /\ rate' \in Nat
  BY <1>1, RefreshType DEF PublishStep
<1>5. mirror' \in Nat /\ clients' \subseteq Monitor
  BY <1>1, CountType DEF PublishStep, HubType, TypeOK
<1> QED
  BY <1>1, <1>3, <1>4, <1>5 DEF PublishStep, HubType, TypeOK, Sound, MirrorExact, Phase

LEMMA JoinKeeps == ASSUME HubType, NEW n \in Monitor, Join(n) PROVE HubType'
<1> USE DEF HubType, TypeOK
<1>1. /\ phase[n] = "none" /\ flight' = flight /\ clients' = clients \cup {n}
      /\ socket' = [socket EXCEPT ![n] = "open"] /\ phase' = [phase EXCEPT ![n] = "greeting"]
      /\ wire' = [wire EXCEPT ![n] = <<Status(facts, stamps)>>]
      /\ Refresh(stamps) /\ mirror' = Cardinality(clients')
      /\ UNCHANGED <<clock, facts, unpublished, shown, refreshing>>
  BY DEF Join
<1>2. stamps' \in Seq(Nat) /\ rate' \in Nat /\ mirror' \in Nat
  BY <1>1, RefreshType, CountType
<1>3. wire' \in [Monitor -> Seq(Message)]
  <2>1. <<Status(facts, stamps)>> \in Seq(Message)
    BY StatusType
  <2> QED
    BY <1>1, <2>1
<1>4. Sound(flight', socket')
  <2>1. \A i \in 1..Len(flight) : n \notin flight[i].lost
    BY <1>1, ByCallers DEF Known
  <2>2. \A m \in Monitor : m # n => socket'[m] = socket[m]
    BY <1>1
  <2> QED
    BY <1>1, <2>1, <2>2 DEF Sound, Flight
<1>5. ASSUME NEW m \in Monitor PROVE Known(m)'
  BY <1>1, ByCallers DEF Known
<1> QED
  BY <1>1, <1>2, <1>3, <1>4, <1>5 DEF Sound, MirrorExact

(* What Start and Sent do to the broadcast.                                *)
Moved(x, todo, waiting, lost) ==
    [x EXCEPT !.todo = todo, !.waiting = waiting, !.lost = lost]

(* A task of broadcast i moves the socket n on, within the broadcast.      *)
LEMMA MoveSound ==
    ASSUME HubType, NEW i \in 1..Len(flight), NEW n \in Monitor,
           n \in flight[i].todo \/ n \in flight[i].waiting,
           NEW todo \in SUBSET flight[i].todo,
           NEW waiting \in SUBSET (flight[i].waiting \cup {n}),
           NEW lost \in SUBSET (flight[i].lost \cup {n}),
           todo \cap waiting = {}, n \in lost => socket[n] = "broken",
           flight' = [flight EXCEPT ![i] = Moved(flight[i], todo, waiting, lost)],
           UNCHANGED <<socket, phase, clients, shown>>
    PROVE  Sound(flight', socket') /\ \A m \in Monitor : Known(m)'
<1> USE DEF HubType, TypeOK
<1> DEFINE x == Moved(flight[i], todo, waiting, lost)
<1>1. flight[i] \in Flight
  OBVIOUS
<1>2. x \in Flight /\ x.todo = todo /\ x.waiting = waiting /\ x.lost = lost
  BY <1>1 DEF Flight, Moved
<1> HIDE DEF x
<1>3. /\ flight' \in Seq(Flight) /\ Len(flight') = Len(flight)
      /\ \A j \in 1..Len(flight) : flight'[j] = IF j = i THEN x ELSE flight[j]
  BY <1>2, ExceptSeq DEF x
<1>4. Sound(flight', socket')
  <2>1. /\ x.todo \cap x.waiting = {}
        /\ \A m \in x.lost : m \in flight[i].lost \/ socket[m] = "broken"
    BY <1>2
  <2>2. Sound(flight, socket) /\ flight \in Seq(Flight) /\ socket' = socket
    OBVIOUS
  <2> HIDE DEF HubType, TypeOK
  <2> QED
    BY <1>3, <2>1, <2>2 DEF Sound
<1>5. ASSUME NEW m \in Monitor PROVE Known(m)'
  <2>1. CASE m = n
    <3>1. phase[n] # "none"
      BY DEF Known
    <3> QED
      BY <2>1, <3>1 DEF Known
  <2>2. CASE m # n
    <3>1. ASSUME NEW j \in 1..Len(flight)
          PROVE  /\ m \in flight'[j].todo => m \in flight[j].todo
                 /\ m \in flight'[j].waiting => m \in flight[j].waiting
                 /\ m \in flight'[j].lost => m \in flight[j].lost
      <4>1. CASE j = i
        BY <1>2, <1>3, <2>2, <4>1
      <4>2. CASE j # i
        BY <1>3, <4>2
      <4> QED
        BY <4>1, <4>2
    <3> HIDE DEF TypeOK
    <3> QED
      BY <1>3, <3>1 DEF Known
  <2> QED
    BY <2>1, <2>2
<1> QED
  BY <1>4, <1>5

LEMMA StartIs ==
    ASSUME HubType, NEW i \in 1..Len(flight), NEW n \in Monitor, Start(i, n)
    PROVE  LET x == flight[i]
               open == socket[n] = "open" IN
           /\ flight' = [flight EXCEPT ![i] =
                 Moved(x, x.todo \ {n}, IF open THEN x.waiting \cup {n} ELSE x.waiting,
                       IF open THEN x.lost ELSE x.lost \cup {n})]
           /\ wire' = IF open THEN [wire EXCEPT ![n] = Append(@, x.message)] ELSE wire
<1>1. flight \in Seq(Flight) /\ flight[i] \in Flight
  BY DEF HubType, TypeOK
<1>2. CASE socket[n] = "open"
  <2>1. /\ flight' = [flight EXCEPT ![i].todo = @ \ {n}, ![i].waiting = @ \cup {n}]
        /\ wire' = [wire EXCEPT ![n] = Append(@, flight[i].message)]
    BY <1>2 DEF Start
  <2>2. flight' = [flight EXCEPT ![i] =
                     Moved(flight[i], flight[i].todo \ {n}, flight[i].waiting \cup {n},
                           flight[i].lost)]
    BY <1>1, <2>1 DEF Moved, Flight
  <2> QED
    BY <1>2, <2>1, <2>2
<1>3. CASE socket[n] # "open"
  <2>1. /\ flight' = [flight EXCEPT ![i].todo = @ \ {n}, ![i].lost = @ \cup {n}]
        /\ wire' = wire
    BY <1>3 DEF Start
  <2>2. flight' = [flight EXCEPT ![i] =
                     Moved(flight[i], flight[i].todo \ {n}, flight[i].waiting,
                           flight[i].lost \cup {n})]
    BY <1>1, <2>1 DEF Moved, Flight
  <2> QED
    BY <1>3, <2>1, <2>2
<1> QED
  BY <1>2, <1>3

LEMMA StartKeeps ==
    ASSUME HubType, NEW i \in 1..Len(flight), NEW n \in Monitor, Start(i, n) PROVE HubType'
<1> USE DEF HubType, TypeOK
<1>1. n \in flight[i].todo /\ flight[i] \in Flight
      /\ UNCHANGED <<trackerVars, stateVars, clients, phase, socket, shown, refreshing>>
  BY DEF Start
<1>2. Sound(flight', socket') /\ \A m \in Monitor : Known(m)'
  <2> DEFINE open == socket[n] = "open"
             todo == flight[i].todo \ {n}
             waiting == IF open THEN flight[i].waiting \cup {n} ELSE flight[i].waiting
             lost == IF open THEN flight[i].lost ELSE flight[i].lost \cup {n}
  <2>1. flight' = [flight EXCEPT ![i] = Moved(flight[i], todo, waiting, lost)]
    BY StartIs
  <2>2. /\ todo \in SUBSET flight[i].todo /\ waiting \in SUBSET (flight[i].waiting \cup {n})
        /\ lost \in SUBSET (flight[i].lost \cup {n}) /\ todo \cap waiting = {}
        /\ n \in lost => socket[n] = "broken"
    BY DEF Sound
  <2> HIDE DEF open, todo, waiting, lost
  <2> QED
    BY <1>1, <2>1, <2>2, MoveSound
<1>3. wire' \in [Monitor -> Seq(Message)]
  <2>1. flight[i].message \in Message
    BY <1>1 DEF Flight
  <2>2. Append(wire[n], flight[i].message) \in Seq(Message)
    BY <2>1
  <2>3. wire' = wire \/ wire' = [wire EXCEPT ![n] = Append(wire[n], flight[i].message)]
    BY StartIs
  <2> QED
    BY <2>2, <2>3
<1> QED
  BY <1>1, <1>2, <1>3 DEF trackerVars, stateVars, Sound, MirrorExact

LEMMA SentIs ==
    ASSUME HubType, NEW i \in 1..Len(flight), NEW n \in Monitor, Sent(i, n)
    PROVE  LET x == flight[i] IN
           flight' = [flight EXCEPT ![i] =
              Moved(x, x.todo, x.waiting \ {n},
                    IF socket[n] = "open" THEN x.lost ELSE x.lost \cup {n})]
<1> USE DEF HubType, TypeOK
<1>1. flight[i] \in Flight
  OBVIOUS
<1> QED
  BY <1>1 DEF Sent, Moved, Flight

LEMMA SentKeeps ==
    ASSUME HubType, NEW i \in 1..Len(flight), NEW n \in Monitor, Sent(i, n) PROVE HubType'
<1> USE DEF HubType, TypeOK
<1>1. n \in flight[i].waiting /\ UNCHANGED <<trackerVars, stateVars, clients, socketVars, refreshing>>
  BY DEF Sent
<1>2. Sound(flight', socket') /\ \A m \in Monitor : Known(m)'
  <2> DEFINE todo == flight[i].todo
             waiting == flight[i].waiting \ {n}
             lost == IF socket[n] = "open" THEN flight[i].lost ELSE flight[i].lost \cup {n}
  <2>1. flight' = [flight EXCEPT ![i] = Moved(flight[i], todo, waiting, lost)]
    BY SentIs
  <2>2. /\ todo \in SUBSET flight[i].todo /\ waiting \in SUBSET (flight[i].waiting \cup {n})
        /\ lost \in SUBSET (flight[i].lost \cup {n}) /\ todo \cap waiting = {}
        /\ n \in lost => socket[n] = "broken"
    BY DEF Sound
  <2> HIDE DEF todo, waiting, lost
  <2> QED
    BY <1>1, <2>1, <2>2, MoveSound DEF socketVars
<1> QED
  BY <1>1, <1>2 DEF trackerVars, stateVars, socketVars, Sound, MirrorExact

LEMMA RemoveKeeps ==
    ASSUME HubType, NEW i \in 1..Len(flight), NEW m \in Monitor, phase[m] = "none",
           NEW j \in 1..Len(RemoveAt(flight, i))
    PROVE  /\ m \notin RemoveAt(flight, i)[j].todo
           /\ m \notin RemoveAt(flight, i)[j].waiting
           /\ m \notin RemoveAt(flight, i)[j].lost
<1> USE DEF HubType, TypeOK
<1>1. /\ Len(flight) \in Nat /\ j \in 1..(Len(flight) - 1)
      /\ RemoveAt(flight, i)[j] = IF j < i THEN flight[j] ELSE flight[j + 1]
  BY RemoveAtEntries
<1>2. j \in 1..Len(flight) /\ j + 1 \in 1..Len(flight)
  BY <1>1
<1>3. Known(m)
  OBVIOUS
<1> HIDE DEF HubType, TypeOK
<1>4. PICK k \in 1..Len(flight) : RemoveAt(flight, i)[j] = flight[k]
  BY <1>1, <1>2
<1> QED
  BY <1>3, <1>4 DEF Known

LEMMA FinishKeeps ==
    ASSUME HubType, NEW i \in 1..Len(flight), Finish(i) PROVE HubType'
<1> USE DEF HubType, TypeOK
<1> DEFINE by == flight[i].by
           kept == Kept(flight[i].to, flight[i].lost)
           rest == RemoveAt(flight, i)
<1>1. /\ clients' = kept /\ kept \subseteq clients /\ mirror' = Cardinality(kept)
      /\ flight[i] \in Flight
      /\ \A m \in clients : m \notin kept => socket[m] = "broken"
  <2>1. kept = clients \ flight[i].lost
    BY DEF Kept
  <2>2. clients' = kept /\ mirror' = Cardinality(kept)
    BY DEF Finish, Counted
  <2>3. flight[i] \in Flight
    OBVIOUS
  <2>4. \A m \in flight[i].lost : socket[m] = "broken"
    BY DEF Sound
  <2> HIDE DEF kept, TypeOK
  <2> QED
    BY <2>1, <2>2, <2>3, <2>4
<1>2. /\ UNCHANGED <<trackerVars, facts, unpublished, rate, socket, wire, shown>>
      /\ refreshing' \in BOOLEAN
      /\ by \in By
  BY <1>1 DEF Finish, Flight, By
<1>3. Sound(rest, socket)
  BY RemoveSound
<1>4. Event \in Message
  BY DEF Event, Message
<1>5. flight' \in {rest, Launched(rest, kept, Event, by)}
  BY DEF Finish
<1>6. Sound(flight', socket')
  BY <1>1, <1>2, <1>3, <1>4, <1>5, LaunchedSound
<1>7. \A m \in Monitor : phase[m] = "none" => \A j \in 1..Len(rest) :
         m \notin rest[j].todo /\ m \notin rest[j].waiting /\ m \notin rest[j].lost
  BY RemoveKeeps
<1>8. /\ phase' \in [Caller -> Phase]
      /\ \A m \in Monitor : phase'[m] = "none" => phase[m] = "none"
  <2>1. phase \in [Caller -> Phase]
    BY DEF Phase
  <2>2. CASE by \in Caller
    <3>1. phase' = [phase EXCEPT ![by] = Resumes(phase[by], kept)]
      BY <2>2 DEF Finish
    <3>2. Resumes(phase[by], kept) \in {"stopping", "reading", "confirming", "gone", phase[by]}
      BY DEF Resumes
    <3>3. phase[by] \in Phase
      BY <2>1, <2>2
    <3> QED
      BY <2>1, <2>2, <3>1, <3>2, <3>3, ByCallers DEF Phase
  <2>3. CASE by \notin Caller
    BY <2>1, <2>3 DEF Finish
  <2> QED
    BY <2>2, <2>3
<1> HIDE DEF by, kept, rest
<1>9. ASSUME NEW m \in Monitor PROVE Known(m)'
  <2>1. socket'[m] = "open" => m \in clients'
    BY <1>1, <1>2 DEF Known
  <2>2. ASSUME phase'[m] = "none"
        PROVE  \A j \in 1..Len(flight') :
          m \notin flight'[j].todo /\ m \notin flight'[j].waiting /\ m \notin flight'[j].lost
    <3>1. phase[m] = "none" /\ m \notin kept
      BY <1>1, <1>8, <2>2 DEF Known
    <3>2. CASE flight' = rest
      BY <1>7, <3>1, <3>2
    <3>3. CASE flight' # rest
      <4> DEFINE x == Launch(Event, by, kept)
      <4>1. flight' = Append(rest, x)
        BY <1>5, <3>3, LaunchedIs
      <4>2. x \in Flight /\ x.todo = kept /\ x.waiting = {} /\ x.lost = {}
        BY <1>1, <1>2, <1>4 DEF Launch, Flight, By
      <4> HIDE DEF x
      <4> QED
        BY <1>3, <1>7, <3>1, <4>1, <4>2, AppendEntries DEF Sound
    <3> QED
      BY <3>2, <3>3
  <2> QED
    BY <1>1, <1>2, <1>8, <2>1, <2>2 DEF Known
<1>10. mirror' \in Nat
  BY <1>1, CountType
<1> QED
  BY <1>1, <1>2, <1>6, <1>8, <1>9, <1>10 DEF trackerVars, Sound, MirrorExact, Phase

(* A change that nobody publishes yet; stop() may cancel a broadcast.      *)
LEMMA QuietKeeps ==
    ASSUME HubType, ConnectFails \/ \E a \in Caller : StopBegins(a) PROVE HubType'
<1> USE DEF HubType, TypeOK
<1> DEFINE Quiet ==
         /\ facts' \in Nat /\ unpublished' \in BOOLEAN
         /\ UNCHANGED <<trackerVars, rate, mirror, clients, socket, wire, shown, refreshing>>
         /\ flight' = flight \/ \E i \in 1..Len(flight) : flight' = RemoveAt(flight, i)
         /\ phase' = phase \/ \E a \in Caller : phase' = [phase EXCEPT ![a] = "stopping"]
<1>1. Quiet
  <2>1. CASE ConnectFails
    BY <2>1 DEF ConnectFails, socketVars
  <2>2. ASSUME NEW a \in Caller, StopBegins(a) PROVE Quiet
    <3>1. facts' \in Nat /\ unpublished' \in BOOLEAN
      <4>1. facts' \in {facts, facts + 1} /\ unpublished' = unpublished
        BY <2>2 DEF StopBegins
      <4> QED
        BY <4>1
    <3> HIDE DEF HubType, TypeOK
    <3>2. flight' = flight \/ \E i \in 1..Len(flight) : flight' = RemoveAt(flight, i)
      BY <2>2 DEF StopBegins
    <3>3. /\ phase' = [phase EXCEPT ![a] = "stopping"]
          /\ UNCHANGED <<trackerVars, rate, mirror, clients, socket, wire, shown, refreshing>>
      BY <2>2 DEF StopBegins
    <3> QED
      BY <3>1, <3>2, <3>3
  <2> QED
    BY <2>1, <2>2
<1>2. phase' \in [Caller -> Phase] /\ \A m \in Monitor : phase'[m] = "none" => phase[m] = "none"
  BY <1>1, ByCallers DEF Phase
<1>3. Sound(flight', socket')
  BY <1>1, RemoveSound
<1>4. ASSUME NEW m \in Monitor PROVE Known(m)'
  BY <1>1, <1>2, RemoveKeeps DEF Known
<1> QED
  BY <1>1, <1>2, <1>3, <1>4 DEF trackerVars, Sound, MirrorExact, Phase

LEMMA RejectedKeeps == ASSUME HubType, NEW n \in Monitor, Rejected(n) PROVE HubType'
<1> USE DEF HubType, TypeOK
<1>1. /\ facts' \in {facts, facts + 1} /\ flight' = Launched(flight, clients, Event, n)
      /\ UNCHANGED <<trackerVars, rate, mirror, clients, socket, wire, shown, refreshing>>
      /\ phase' = [phase EXCEPT ![n] = IF clients = {} THEN "reading" ELSE "confirming"]
      /\ unpublished' = (unpublished \/ phase[n] = "stopping" \/ facts' # facts)
      /\ phase[n] \in {"stopping", "reading"}
  BY DEF Rejected
<1>2. phase' \in [Caller -> Phase] /\ \A m \in Monitor : phase'[m] = "none" => phase[m] = "none"
  BY <1>1, ByCallers DEF Phase
<1>3. Event \in Message /\ n \in By /\ clients \in SUBSET clients
  BY ByCallers DEF Event, Message
<1>4. Sound(flight', socket') /\ \A m \in Monitor : Known(m)'
  BY <1>1, <1>2, <1>3, LaunchKeeps
<1>5. facts' \in Nat /\ unpublished' \in BOOLEAN
  BY <1>1
<1> QED
  BY <1>1, <1>2, <1>4, <1>5 DEF trackerVars, Sound, MirrorExact, Phase

LEMMA ReceiveKeeps == ASSUME HubType, NEW n \in Monitor, Receive(n) PROVE HubType'
<1> USE DEF HubType, TypeOK
<1>1. /\ socket[n] = "open" /\ wire[n] # <<>> /\ wire' = [wire EXCEPT ![n] = Tail(wire[n])]
      /\ UNCHANGED <<trackerVars, stateVars, clients, phase, socket, flight, refreshing>>
      /\ \/ shown' = shown \/ shown' = [shown EXCEPT ![n] = Head(wire[n])]
  BY DEF Receive
<1>2. Head(wire[n]) \in Message /\ Tail(wire[n]) \in Seq(Message)
  BY <1>1, HeadTailProperties
<1>3. wire' \in [Monitor -> Seq(Message)] /\ shown' \in [Monitor -> Message]
  BY <1>1, <1>2
<1>4. ASSUME NEW m \in Monitor PROVE Known(m)'
  BY <1>1 DEF Known
<1> QED
  BY <1>1, <1>3, <1>4 DEF trackerVars, stateVars, Sound, MirrorExact

LEMMA BreakKeeps == ASSUME HubType, NEW n \in Monitor, Break(n) PROVE HubType'
<1> USE DEF HubType, TypeOK
<1>1. /\ wire' = [wire EXCEPT ![n] = <<>>] /\ socket' = [socket EXCEPT ![n] = "broken"]
      /\ UNCHANGED <<trackerVars, stateVars, clients, phase, shown, flight, refreshing>>
  BY DEF Break
<1>2. \A m \in Monitor : socket'[m] \in {socket[m], "broken"}
  BY <1>1
<1>3. Sound(flight', socket')
  BY <1>1, <1>2 DEF Sound, Flight
<1>4. ASSUME NEW m \in Monitor PROVE Known(m)'
  BY <1>1, <1>2 DEF Known
<1>5. wire' \in [Monitor -> Seq(Message)] /\ socket' \in [Monitor -> {"open", "broken"}]
  BY <1>1
<1> QED
  BY <1>1, <1>3, <1>4, <1>5 DEF trackerVars, stateVars, Sound, MirrorExact

LEMMA HubStep == HubType /\ [Next]_vars => HubType'
<1> SUFFICES ASSUME HubType, [Next]_vars PROVE HubType'
  OBVIOUS
<1>1. CASE Poll \/ Tick \/ UNCHANGED vars
  <2> USE DEF HubType, TypeOK
  <2>1. stamps' \in Seq(Nat) /\ rate' \in Nat /\ clock' \in Nat
    BY <1>1, RefreshType DEF Poll, Tick, vars, stateVars, trackerVars
  <2>2. UNCHANGED <<facts, unpublished, mirror, clients, socketVars, flight, refreshing>>
    BY <1>1 DEF Poll, Tick, vars, stateVars, trackerVars
  <2>3. \A m \in Monitor : Known(m)'
    BY <2>2 DEF Known, socketVars
  <2> QED
    BY <2>1, <2>2, <2>3 DEF socketVars, Sound, MirrorExact
<1>2. ASSUME NEW n \in Monitor, Greeted(n) PROVE HubType'
  <2> USE DEF HubType, TypeOK
  <2>1. /\ phase[n] = "greeting" /\ phase' = [phase EXCEPT ![n] = "reading"]
        /\ UNCHANGED <<trackerVars, stateVars, clients, socket, wire, shown, flight,
                       refreshing>>
    BY <1>2 DEF Greeted
  <2>2. ASSUME NEW m \in Monitor PROVE Known(m)'
    BY <2>1 DEF Known
  <2> QED
    BY <2>1, <2>2 DEF trackerVars, stateVars, Sound, MirrorExact
<1> QED
  BY <1>1, <1>2, PublishKeeps, QuietKeeps, RejectedKeeps, JoinKeeps, StartKeeps, SentKeeps, FinishKeeps,
     ReceiveKeeps, BreakKeeps DEF Next, Handler, Stop, Start, Sent, Publishing

LEMMA HubInit == Init => HubType
<1> SUFFICES ASSUME Init PROVE HubType
  OBVIOUS
<1>1. TypeOK
  <2>1. Blank \in Message
    BY DEF Blank, Message
  <2>2. wire \in [Monitor -> Seq(Message)] /\ shown \in [Monitor -> Message]
    BY <2>1 DEF Init
  <2>3. flight \in Seq(Flight) /\ Len(flight) = 0 /\ stamps \in Seq(Nat)
    BY DEF Init
  <2>4. /\ phase \in [Caller -> Phase]
        /\ socket \in [Monitor -> {"open", "broken"}]
    BY DEF Init, Phase
  <2>5. clock \in Nat /\ facts \in Nat /\ rate \in Nat /\ mirror \in Nat
        /\ clients \subseteq Monitor /\ refreshing \in BOOLEAN /\ unpublished \in BOOLEAN
    BY DEF Init
  <2>6. \A i \in 1..Len(flight) : flight[i].todo \cap flight[i].waiting = {}
    BY <2>3
  <2> QED
    BY <2>2, <2>3, <2>4, <2>5, <2>6 DEF TypeOK, Phase
<1>2. Sound(flight, socket)
  BY DEF Init, Sound
<1>3. MirrorExact
  BY FS_EmptySet DEF Init, MirrorExact
<1>4. \A m \in Monitor : Known(m)
  BY DEF Init, Known, Blank
<1> QED
  BY <1>1, <1>2, <1>3, <1>4 DEF HubType

(* Every variable keeps its type, and no broadcast addresses a socket      *)
(* twice, however handlers, broadcasts and broken sockets interleave.      *)
THEOREM TypeCorrect == Spec => []TypeOK
<1>1. HubType => TypeOK
  BY DEF HubType
<1> QED
  BY <1>1, HubInit, HubStep, PTL DEF Spec

(* monitor_clients always counts the sockets in the hub (server.py,        *)
(* handle_monitor_ws and send_monitor_now; monitor.py, broadcast).         *)
THEOREM MirrorCountsClients == Spec => []MirrorExact
<1>1. HubType => MirrorExact
  BY DEF HubType
<1> QED
  BY <1>1, HubInit, HubStep, PTL DEF Spec

-----------------------------------------------------------------------------
(* What a browser shows, then what is on its wire, then what broadcasts    *)
(* are about to write, is in the order of the changes; and, unless it has  *)
(* yet to be published, the last change is somewhere in it.                *)

Statuses(w) == {k \in 1..Len(w) : w[k].kind = "status"}
Pending(fl, m) == {i \in 1..Len(fl) : m \in fl[i].todo /\ fl[i].message.kind = "status"}

Ordered(m, f, s, w, fl) ==
    /\ s <= f
    /\ \A k \in Statuses(w) : s <= w[k].facts /\ w[k].facts <= f
    /\ \A k, l \in Statuses(w) : k < l => w[k].facts <= w[l].facts
    /\ \A i \in Pending(fl, m) :
         /\ s <= fl[i].message.facts /\ fl[i].message.facts <= f
         /\ \A k \in Statuses(w) : w[k].facts <= fl[i].message.facts
    /\ \A i, j \in Pending(fl, m) : i < j => fl[i].message.facts <= fl[j].message.facts

Carried(m, f, s, w, fl) ==
    \/ s = f
    \/ \E k \in Statuses(w) : w[k].facts = f
    \/ \E i \in Pending(fl, m) : fl[i].message.facts = f

LEMMA CountsTyped ==
    ASSUME NEW w \in Seq(Message), NEW fl \in Seq(Flight)
    PROVE  /\ Len(w) \in Nat /\ Len(fl) \in Nat
           /\ \A k \in 1..Len(w) : w[k] \in Message /\ w[k].facts \in Nat
           /\ \A i \in 1..Len(fl) : fl[i] \in Flight /\ fl[i].message \in Message
                                    /\ fl[i].message.facts \in Nat
<1>1. \A x \in Message : x.facts \in Nat
  BY DEF Message
<1>2. \A x \in Flight : x.message \in Message
  BY DEF Flight
<1>3. /\ Len(w) \in Nat /\ Len(fl) \in Nat
      /\ \A k \in 1..Len(w) : w[k] \in Message
      /\ \A i \in 1..Len(fl) : fl[i] \in Flight
  BY LenProperties, ElementOfSeq
<1> QED
  BY <1>1, <1>2, <1>3

(* A broadcast that is launched goes last: it is no status, not for m, or  *)
(* built from the current state, which may just have changed.              *)
LEMMA AppendOrdered ==
    ASSUME NEW m, NEW f \in Nat, NEW g \in Nat, g >= f, NEW s \in Nat, NEW w \in Seq(Message),
           NEW fl \in Seq(Flight), NEW x \in Flight, Ordered(m, f, s, w, fl),
           m \notin x.todo \/ x.message.kind # "status" \/ x.message.facts = g
    PROVE  /\ Ordered(m, g, s, w, Append(fl, x))
           /\ m \in x.todo /\ x.message.kind = "status" => Carried(m, g, s, w, Append(fl, x))
           /\ g = f /\ Carried(m, f, s, w, fl) => Carried(m, g, s, w, Append(fl, x))
<1> DEFINE new == Append(fl, x)
<1>1. /\ \A i \in Pending(fl, m) : i \in Pending(new, m) /\ new[i] = fl[i]
      /\ \A i \in Pending(new, m) :
            \/ i \in Pending(fl, m) /\ new[i] = fl[i]
            \/ i = Len(fl) + 1 /\ new[i].message.facts = g
  BY AppendEntries DEF Pending
<1>2. \A i \in Pending(fl, m) : i \in Nat /\ i <= Len(fl) /\ fl[i].message.facts \in Nat
  BY CountsTyped DEF Pending
<1>3. \A k \in Statuses(w) : w[k].facts \in Nat
  BY CountsTyped DEF Statuses
<1>4. Len(fl) \in Nat
  BY CountsTyped
<1>5. m \in x.todo /\ x.message.kind = "status" =>
         Len(fl) + 1 \in Pending(new, m) /\ new[Len(fl) + 1].message.facts = g
  BY <1>4, AppendEntries DEF Pending
<1> HIDE DEF new
<1>6. Ordered(m, g, s, w, new)
  <2>1. s <= g /\ \A k \in Statuses(w) : s <= w[k].facts /\ w[k].facts <= g
    BY <1>3 DEF Ordered
  <2>2. ASSUME NEW i \in Pending(new, m)
        PROVE  /\ s <= new[i].message.facts /\ new[i].message.facts <= g
               /\ \A k \in Statuses(w) : w[k].facts <= new[i].message.facts
    <3>1. CASE i \in Pending(fl, m) /\ new[i] = fl[i]
      BY <1>2, <3>1 DEF Ordered
    <3>2. CASE i = Len(fl) + 1 /\ new[i].message.facts = g
      BY <2>1, <3>2
    <3> QED
      BY <1>1, <3>1, <3>2
  <2>3. ASSUME NEW i \in Pending(new, m), NEW j \in Pending(new, m), i < j
        PROVE  new[i].message.facts <= new[j].message.facts
    <3>1. CASE j = Len(fl) + 1 /\ new[j].message.facts = g
      BY <2>2, <3>1
    <3>2. CASE j \in Pending(fl, m) /\ new[j] = fl[j]
      <4>1. i # Len(fl) + 1
        BY <1>2, <1>4, <2>3, <3>2
      <4> QED
        BY <1>1, <2>3, <3>2, <4>1 DEF Ordered
    <3> QED
      BY <1>1, <3>1, <3>2
  <2>4. \A k, l \in Statuses(w) : k < l => w[k].facts <= w[l].facts
    BY DEF Ordered
  <2> QED
    BY <2>1, <2>2, <2>3, <2>4 DEF Ordered
<1>7. m \in x.todo /\ x.message.kind = "status" => Carried(m, g, s, w, new)
  BY <1>5 DEF Carried
<1>8. g = f /\ Carried(m, f, s, w, fl) => Carried(m, g, s, w, new)
  BY <1>1 DEF Carried
<1> QED
  BY <1>6, <1>7, <1>8 DEF new

(* A change that nobody publishes yet.                                     *)
LEMMA RaiseOrdered ==
    ASSUME NEW m, NEW f \in Nat, NEW g \in Nat, g >= f, NEW s \in Nat, NEW w \in Seq(Message),
           NEW fl \in Seq(Flight), Ordered(m, f, s, w, fl)
    PROVE  Ordered(m, g, s, w, fl)
<1>1. \A i \in Pending(fl, m) : fl[i].message.facts \in Nat
  BY CountsTyped DEF Pending
<1>2. \A k \in Statuses(w) : w[k].facts \in Nat
  BY CountsTyped DEF Statuses
<1>3. s <= g /\ \A k \in Statuses(w) : w[k].facts <= g
  BY <1>2 DEF Ordered
<1>4. \A i \in Pending(fl, m) : fl[i].message.facts <= g
  BY <1>1 DEF Ordered
<1> QED
  BY <1>3, <1>4 DEF Ordered

(* A broadcast that goes has written to m, or is cancelled.                *)
LEMMA RemoveOrdered ==
    ASSUME NEW m, NEW f \in Nat, NEW s \in Nat, NEW w \in Seq(Message), NEW fl \in Seq(Flight),
           NEW i \in 1..Len(fl), Ordered(m, f, s, w, fl)
    PROVE  /\ Ordered(m, f, s, w, RemoveAt(fl, i))
           /\ m \notin fl[i].todo /\ Carried(m, f, s, w, fl) => Carried(m, f, s, w, RemoveAt(fl, i))
<1> DEFINE new == RemoveAt(fl, i)
           Was(j) == IF j < i THEN j ELSE j + 1
           Now(j) == IF j < i THEN j ELSE j - 1
<1>1. /\ Len(fl) \in Nat /\ Len(new) = Len(fl) - 1
      /\ \A j \in 1..Len(new) : new[j] = fl[Was(j)]
  BY RemoveAtEntries
<1> HIDE DEF new
<1>2. /\ \A j \in 1..Len(new) : Was(j) \in 1..Len(fl) /\ new[j] = fl[Was(j)]
      /\ \A j, k \in 1..Len(new) : j < k => Was(j) < Was(k)
      /\ \A j \in 1..Len(fl) : j # i => Now(j) \in 1..Len(new) /\ Was(Now(j)) = j
  BY <1>1
<1> HIDE DEF Was, Now
<1>3. /\ \A j \in Pending(new, m) : j \in 1..Len(new) /\ Was(j) \in Pending(fl, m)
      /\ \A j \in Pending(fl, m) : j # i => Now(j) \in Pending(new, m) /\ new[Now(j)] = fl[j]
  BY <1>2 DEF Pending
<1>4. Ordered(m, f, s, w, new)
  <2>1. \A j \in Pending(new, m) :
           /\ s <= new[j].message.facts /\ new[j].message.facts <= f
           /\ \A k \in Statuses(w) : w[k].facts <= new[j].message.facts
    BY <1>2, <1>3 DEF Ordered
  <2>2. \A j, k \in Pending(new, m) : j < k => new[j].message.facts <= new[k].message.facts
    BY <1>2, <1>3 DEF Ordered
  <2> QED
    BY <2>1, <2>2 DEF Ordered
<1>5. ASSUME m \notin fl[i].todo, Carried(m, f, s, w, fl) PROVE Carried(m, f, s, w, new)
  <2>1. ASSUME NEW j \in Pending(fl, m), fl[j].message.facts = f
        PROVE  Carried(m, f, s, w, new)
    <3>1. j # i
      BY <1>5, <2>1 DEF Pending
    <3> QED
      BY <1>3, <2>1, <3>1 DEF Carried
  <2>2. CASE s = f \/ \E k \in Statuses(w) : w[k].facts = f
    BY <2>2 DEF Carried
  <2> QED
    BY <1>5, <2>1, <2>2 DEF Carried
<1> QED
  BY <1>4, <1>5 DEF new

(* The first task of m writes its frame.                                   *)
LEMMA StartOrdered ==
    ASSUME NEW m, NEW f \in Nat, NEW s \in Nat, NEW w \in Seq(Message), NEW fl \in Seq(Flight),
           NEW i \in 1..Len(fl), NEW new \in Seq(Flight), Ordered(m, f, s, w, fl),
           m \in fl[i].todo, \A j \in 1..(i - 1) : m \notin fl[j].todo,
           Len(new) = Len(fl), m \notin new[i].todo,
           \A j \in 1..Len(fl) : j # i => new[j] = fl[j]
    PROVE  /\ Ordered(m, f, s, Append(w, fl[i].message), new)
           /\ Carried(m, f, s, w, fl) => Carried(m, f, s, Append(w, fl[i].message), new)
<1> DEFINE msg == fl[i].message
           longer == Append(w, msg)
<1>1. msg \in Message /\ msg.facts \in Nat
  BY CountsTyped
<1>2. /\ Len(w) \in Nat /\ longer \in Seq(Message) /\ Len(longer) = Len(w) + 1
      /\ longer[Len(w) + 1] = msg /\ \A k \in 1..Len(w) : longer[k] = w[k]
  BY <1>1, AppendProperties, LenProperties
<1>3. /\ \A k \in Statuses(longer) : \/ k \in Statuses(w) /\ longer[k] = w[k]
                                     \/ k = Len(w) + 1 /\ i \in Pending(fl, m) /\ longer[k] = msg
      /\ \A k \in Statuses(w) : k \in Statuses(longer) /\ longer[k] = w[k]
      /\ i \in Pending(fl, m) => Len(w) + 1 \in Statuses(longer) /\ longer[Len(w) + 1] = msg
  <2>1. i \in Pending(fl, m) <=> msg.kind = "status"
    BY DEF Pending
  <2>2. \A k \in 1..(Len(w) + 1) : k \in 1..Len(w) \/ k = Len(w) + 1
    BY <1>2
  <2>3. \A k \in 1..Len(w) : k \in 1..(Len(w) + 1)
    BY <1>2
  <2>4. Len(w) + 1 \in 1..(Len(w) + 1)
    BY <1>2
  <2> HIDE DEF msg, longer
  <2> QED
    BY <1>2, <2>1, <2>2, <2>3, <2>4 DEF Statuses
<1>4. /\ \A j \in Pending(new, m) : j \in Pending(fl, m) /\ new[j] = fl[j] /\ i < j
      /\ \A j \in Pending(fl, m) : j # i => j \in Pending(new, m) /\ new[j] = fl[j]
  <2>1. Len(fl) \in Nat
    BY CountsTyped
  <2>2. \A j \in 1..Len(fl) : m \in fl[j].todo /\ j # i => i < j
    <3>1. \A j \in 1..Len(fl) : j \in 1..(i - 1) \/ j = i \/ i < j
      BY <2>1
    <3> QED
      BY <3>1
  <2> QED
    BY <2>2 DEF Pending
<1>5. \A k \in Statuses(w) : k \in Nat /\ k <= Len(w) /\ w[k].facts \in Nat
  BY CountsTyped DEF Statuses
<1> HIDE DEF msg, longer
<1>6. i \in Pending(fl, m) =>
        /\ s <= msg.facts /\ msg.facts <= f
        /\ \A k \in Statuses(w) : w[k].facts <= msg.facts
        /\ \A j \in Pending(fl, m) : i < j => msg.facts <= fl[j].message.facts
  BY DEF Ordered, msg
<1>7. Ordered(m, f, s, longer, new)
  <2>1. \A k \in Statuses(longer) : s <= longer[k].facts /\ longer[k].facts <= f
    BY <1>3, <1>6 DEF Ordered
  <2>2. ASSUME NEW k \in Statuses(longer), NEW l \in Statuses(longer), k < l
        PROVE  longer[k].facts <= longer[l].facts
    <3>1. k \in Statuses(w) /\ longer[k] = w[k]
      <4>1. k # Len(w) + 1
        BY <1>2, <1>3, <1>5, <2>2
      <4> QED
        BY <1>3, <4>1
    <3>2. CASE l \in Statuses(w) /\ longer[l] = w[l]
      BY <2>2, <3>1, <3>2 DEF Ordered
    <3>3. CASE i \in Pending(fl, m) /\ longer[l] = msg
      BY <1>6, <3>1, <3>3
    <3> QED
      BY <1>3, <3>2, <3>3
  <2>3. \A j \in Pending(new, m) : s <= new[j].message.facts /\ new[j].message.facts <= f
    BY <1>4 DEF Ordered
  <2>4. ASSUME NEW j \in Pending(new, m), NEW k \in Statuses(longer)
        PROVE  longer[k].facts <= new[j].message.facts
    <3>1. CASE k \in Statuses(w) /\ longer[k] = w[k]
      BY <1>4, <3>1 DEF Ordered
    <3>2. CASE i \in Pending(fl, m) /\ longer[k] = msg
      BY <1>4, <1>6, <3>2
    <3> QED
      BY <1>3, <3>1, <3>2
  <2>5. \A j, l \in Pending(new, m) : j < l => new[j].message.facts <= new[l].message.facts
    BY <1>4 DEF Ordered
  <2> QED
    BY <2>1, <2>2, <2>3, <2>4, <2>5 DEF Ordered
<1>8. ASSUME Carried(m, f, s, w, fl) PROVE Carried(m, f, s, longer, new)
  <2>1. CASE s = f
    BY <2>1 DEF Carried
  <2>2. ASSUME NEW k \in Statuses(w), w[k].facts = f PROVE Carried(m, f, s, longer, new)
    BY <1>3, <2>2 DEF Carried
  <2>3. ASSUME NEW j \in Pending(fl, m), fl[j].message.facts = f
        PROVE  Carried(m, f, s, longer, new)
    <3>1. CASE j = i
      BY <1>3, <2>3, <3>1 DEF Carried, msg
    <3>2. CASE j # i
      BY <1>4, <2>3, <3>2 DEF Carried
    <3> QED
      BY <3>1, <3>2
  <2> QED
    BY <1>8, <2>1, <2>2, <2>3 DEF Carried
<1> QED
  BY <1>7, <1>8 DEF longer, msg

(* The browser receives the first message on its wire.                     *)
LEMMA ReceiveOrdered ==
    ASSUME NEW m, NEW f \in Nat, NEW s \in Nat, NEW w \in Seq(Message), NEW fl \in Seq(Flight),
           Ordered(m, f, s, w, fl), w # <<>>, NEW t,
           t = IF Head(w).kind = "status" THEN Head(w).facts ELSE s
    PROVE  /\ Ordered(m, f, t, Tail(w), fl)
           /\ Carried(m, f, s, w, fl) => Carried(m, f, t, Tail(w), fl)
<1>1. /\ Len(w) \in Nat \ {0} /\ Head(w) = w[1] /\ Tail(w) \in Seq(Message)
      /\ Len(Tail(w)) = Len(w) - 1 /\ \A k \in 1..Len(Tail(w)) : Tail(w)[k] = w[k + 1]
  BY HeadTailProperties, LenProperties, EmptySeq
<1> DEFINE short == Tail(w)
<1>2. /\ \A k \in Statuses(short) : k \in Nat /\ k >= 1 /\ k + 1 \in Statuses(w) /\ short[k] = w[k + 1]
      /\ \A k \in Statuses(w) : k = 1 \/ (k - 1 \in Statuses(short) /\ short[k - 1] = w[k])
      /\ Head(w).kind = "status" <=> 1 \in Statuses(w)
  <2>1. \A k \in 1..Len(short) : k + 1 \in 1..Len(w)
    BY <1>1
  <2>2. \A k \in 1..Len(w) : k = 1 \/ (k - 1 \in 1..Len(short) /\ (k - 1) + 1 = k)
    BY <1>1
  <2>3. 1 \in 1..Len(w)
    BY <1>1
  <2>4. \A k \in 1..Len(w) : k = 1 \/ (k - 1 \in 1..Len(short) /\ short[k - 1] = w[k])
    BY <1>1, <2>2
  <2> HIDE DEF short
  <2>5. \A k \in 1..Len(short) : k \in Nat /\ k >= 1 /\ short[k] = w[k + 1]
    BY <1>1 DEF short
  <2> QED
    BY <1>1, <2>1, <2>3, <2>4, <2>5 DEF Statuses
<1> HIDE DEF short
<1>3. 1 \in Statuses(w) => t = w[1].facts
  BY <1>1, <1>2
<1>4. 1 \notin Statuses(w) => t = s
  BY <1>2
<1>5. Ordered(m, f, t, short, fl)
  <2>1. /\ t <= f
        /\ \A k \in Statuses(short) : t <= short[k].facts /\ short[k].facts <= f
        /\ \A i \in Pending(fl, m) : t <= fl[i].message.facts
    <3>1. CASE 1 \in Statuses(w)
      <4>1. \A k \in Statuses(short) : 1 < k + 1
        BY <1>2
      <4> QED
        BY <1>2, <1>3, <3>1, <4>1 DEF Ordered
    <3>2. CASE 1 \notin Statuses(w)
      BY <1>2, <1>4, <3>2 DEF Ordered
    <3> QED
      BY <3>1, <3>2
  <2>2. \A k, l \in Statuses(short) : k < l => short[k].facts <= short[l].facts
    <3>1. \A k, l \in Statuses(short) : k < l => k + 1 < l + 1
      BY <1>2
    <3> QED
      BY <1>2, <3>1 DEF Ordered
  <2>3. \A i \in Pending(fl, m), k \in Statuses(short) : short[k].facts <= fl[i].message.facts
    BY <1>2 DEF Ordered
  <2> QED
    BY <2>1, <2>2, <2>3 DEF Ordered
<1>6. ASSUME Carried(m, f, s, w, fl) PROVE Carried(m, f, t, short, fl)
  <2>1. CASE s = f
    <3>1. CASE 1 \in Statuses(w)
      <4>1. s <= w[1].facts /\ w[1].facts <= f /\ w[1].facts \in Nat
        BY <3>1, CountsTyped DEF Ordered, Statuses
      <4> QED
        BY <1>3, <2>1, <3>1, <4>1 DEF Carried
    <3>2. CASE 1 \notin Statuses(w)
      BY <1>4, <2>1, <3>2 DEF Carried
    <3> QED
      BY <3>1, <3>2
  <2>2. ASSUME NEW k \in Statuses(w), w[k].facts = f PROVE Carried(m, f, t, short, fl)
    BY <1>2, <1>3, <2>2 DEF Carried
  <2>3. CASE \E j \in Pending(fl, m) : fl[j].message.facts = f
    BY <2>3 DEF Carried
  <2> QED
    BY <1>6, <2>1, <2>2, <2>3 DEF Carried
<1> QED
  BY <1>5, <1>6 DEF short

(* The greeting of a socket that joins.                                    *)
LEMMA JoinOrdered ==
    ASSUME NEW m, NEW f \in Nat, NEW message \in Message, NEW fl \in Seq(Flight),
           message.kind = "status", message.facts = f,
           \A i \in 1..Len(fl) : m \notin fl[i].todo
    PROVE  Ordered(m, f, 0, <<message>>, fl) /\ Carried(m, f, 0, <<message>>, fl)
<1> DEFINE w == <<message>>
<1>1. Len(w) = 1 /\ w[1] = message
  OBVIOUS
<1> HIDE DEF w
<1>2. Statuses(w) = {1}
  BY <1>1 DEF Statuses
<1>3. Pending(fl, m) = {}
  BY DEF Pending
<1>4. Ordered(m, f, 0, w, fl)
  BY <1>1, <1>2, <1>3 DEF Ordered
<1>5. Carried(m, f, 0, w, fl)
  BY <1>1, <1>2 DEF Carried
<1> QED
  BY <1>4, <1>5 DEF w

-----------------------------------------------------------------------------
(* Every open socket is fresh: each action.                                *)

OrderedAt(m) == Ordered(m, facts, shown[m].facts, wire[m], flight)
CarriedAt(m) == Carried(m, facts, shown[m].facts, wire[m], flight)
FreshAt(m) == OrderedAt(m) /\ (Owing \/ unpublished \/ CarriedAt(m))

HubFresh == HubType /\ \A m \in Monitor : socket[m] = "open" => FreshAt(m)

LEMMA TypesAt ==
    ASSUME HubType, NEW m \in Monitor
    PROVE  /\ facts \in Nat /\ shown[m].facts \in Nat /\ wire[m] \in Seq(Message)
           /\ flight \in Seq(Flight)
<1>1. shown[m] \in Message /\ wire[m] \in Seq(Message)
  BY DEF HubType, TypeOK
<1>2. shown[m].facts \in Nat
  BY <1>1 DEF Message
<1> QED
  BY <1>1, <1>2 DEF HubType, TypeOK

LEMMA LaunchType ==
    ASSUME NEW message \in Message, NEW by \in By, NEW to \in SUBSET Monitor
    PROVE  /\ Launch(message, by, to) \in Flight
           /\ Launch(message, by, to).message = message /\ Launch(message, by, to).by = by
           /\ Launch(message, by, to).todo = to
  BY DEF Launch, Flight, By

(* Only a handler that is through with stop() owes nothing any more.       *)
LEMMA OwingStays ==
    ASSUME HubType, NEW a \in Caller, NEW p, phase' = [phase EXCEPT ![a] = p],
           phase[a] \in {"stopping", "notifying"} => p \in {"stopping", "notifying"},
           Owing
    PROVE  Owing'
<1>1. phase \in [Caller -> Phase]
  BY DEF HubType, TypeOK, Phase
<1>2. PICK b \in Caller : phase[b] \in {"stopping", "notifying"}
  BY DEF Owing
<1>3. phase'[b] \in {"stopping", "notifying"}
  BY <1>1, <1>2
<1> QED
  BY <1>2, <1>3 DEF Owing

(* The current status is launched for all sockets that stay.               *)
LEMMA PublishFresh ==
    ASSUME HubFresh, Publishing, NEW m \in Monitor, socket[m] = "open"
    PROVE  FreshAt(m)'
<1>1. OrderedAt(m) /\ HubType /\ m \in clients
  BY DEF HubFresh, HubType, Known, FreshAt
<1>2. /\ facts \in Nat /\ shown[m].facts \in Nat /\ wire[m] \in Seq(Message)
      /\ flight \in Seq(Flight) /\ clients \subseteq Monitor
  BY <1>1, TypesAt DEF HubType, TypeOK
<1>3. PICK times \in Seq(Nat), by \in By : PublishStep(times, by)
  BY <1>1, PublishingIs
<1>4. PICK g : g = facts'
  OBVIOUS
<1>5. PICK message : message = Status(g, times)
  OBVIOUS
<1>6. PICK to : to = clients'
  OBVIOUS
<1>7. /\ g \in Nat /\ g >= facts /\ UNCHANGED <<wire, shown>>
      /\ flight' = Launched(flight, to, message, by)
      /\ m \in to /\ to \subseteq Monitor
  BY <1>1, <1>2, <1>3, <1>4, <1>5, <1>6 DEF PublishStep
<1>8. message \in Message /\ message.kind = "status" /\ message.facts = g
  BY <1>5, <1>7, StatusType
<1>9. PICK x : x = Launch(message, by, to)
  OBVIOUS
<1>10. x \in Flight /\ x.message = message /\ x.todo = to
  BY <1>7, <1>8, <1>9, LaunchType
<1>11. flight' = Append(flight, x)
  BY <1>7, <1>9, LaunchedIs
<1>12. Ordered(m, facts, shown[m].facts, wire[m], flight)
  BY <1>1 DEF OrderedAt
<1>13. /\ Ordered(m, g, shown[m].facts, wire[m], Append(flight, x))
       /\ Carried(m, g, shown[m].facts, wire[m], Append(flight, x))
  BY <1>2, <1>7, <1>8, <1>10, <1>12, AppendOrdered
<1> QED
  BY <1>4, <1>7, <1>11, <1>13 DEF FreshAt, OrderedAt, CarriedAt

(* A change that nobody publishes yet: who makes it owes it, or no one.    *)
LEMMA QuietFresh ==
    ASSUME HubFresh, ConnectFails \/ \E a \in Caller : StopBegins(a),
           NEW m \in Monitor, socket[m] = "open"
    PROVE  FreshAt(m)'
<1>1. OrderedAt(m) /\ HubType
  BY DEF HubFresh, FreshAt
<1>2. /\ facts \in Nat /\ shown[m].facts \in Nat /\ wire[m] \in Seq(Message)
      /\ flight \in Seq(Flight)
  BY <1>1, TypesAt
<1>3. UNCHANGED <<wire, shown>> /\ facts' \in Nat /\ facts' >= facts
  <2>1. UNCHANGED <<wire, shown>> /\ facts' \in {facts, facts + 1}
    BY DEF ConnectFails, StopBegins, socketVars
  <2> QED
    BY <1>2, <2>1
<1>4. flight' = flight \/ \E i \in 1..Len(flight) : flight' = RemoveAt(flight, i)
  BY DEF ConnectFails, StopBegins
<1>5. PICK fl \in Seq(Flight) : fl = flight' /\ Ordered(m, facts, shown[m].facts, wire[m], fl)
  <2>1. CASE flight' = flight
    BY <1>1, <1>2, <2>1 DEF OrderedAt
  <2>2. ASSUME NEW i \in 1..Len(flight), flight' = RemoveAt(flight, i)
        PROVE  \E fl \in Seq(Flight) :
                  fl = flight' /\ Ordered(m, facts, shown[m].facts, wire[m], fl)
    BY <1>1, <1>2, <2>2, RemoveAtEntries, RemoveOrdered DEF OrderedAt
  <2> QED
    BY <1>4, <2>1, <2>2
<1>6. PICK g \in Nat : g = facts' /\ g >= facts
  BY <1>3
<1>7. Ordered(m, g, shown[m].facts, wire[m], fl)
  BY <1>2, <1>5, <1>6, RaiseOrdered
<1>8. OrderedAt(m)'
  BY <1>3, <1>5, <1>6, <1>7 DEF OrderedAt
<1>9. CASE ConnectFails
  BY <1>8, <1>9 DEF ConnectFails, FreshAt
<1>10. ASSUME NEW a \in Caller, StopBegins(a) PROVE FreshAt(m)'
  <2>1. phase' = [phase EXCEPT ![a] = "stopping"] /\ phase \in [Caller -> Phase]
    BY <1>1, <1>10 DEF StopBegins, HubType, TypeOK, Phase
  <2>2. phase'[a] = "stopping"
    BY <2>1
  <2> QED
    BY <1>8, <2>2 DEF FreshAt, Owing
<1> QED
  BY <1>9, <1>10

LEMMA RejectedFresh ==
    ASSUME HubFresh, NEW n \in Monitor, Rejected(n), NEW m \in Monitor, socket[m] = "open"
    PROVE  FreshAt(m)'
<1>1. FreshAt(m) /\ HubType /\ clients \in SUBSET Monitor
  BY DEF HubFresh, HubType, TypeOK
<1>2. /\ facts \in Nat /\ shown[m].facts \in Nat /\ wire[m] \in Seq(Message)
      /\ flight \in Seq(Flight)
  BY <1>1, TypesAt
<1>3. /\ facts' \in {facts, facts + 1} /\ flight' = Launched(flight, clients, Event, n)
      /\ UNCHANGED <<wire, shown>>
      /\ phase' = [phase EXCEPT ![n] = IF clients = {} THEN "reading" ELSE "confirming"]
      /\ unpublished' = (unpublished \/ phase[n] = "stopping" \/ facts' # facts)
  BY DEF Rejected
<1>4. PICK x : x = Launch(Event, n, clients)
  OBVIOUS
<1>5. x \in Flight /\ x.message.kind # "status"
  BY <1>1, <1>4, LaunchType, ByCallers DEF Event, Message
<1>6. PICK g \in Nat : g = facts' /\ g >= facts
  BY <1>2, <1>3
<1>7. PICK fl : fl = flight'
  OBVIOUS
<1>8. /\ Ordered(m, g, shown[m].facts, wire[m], fl)
      /\ g = facts /\ CarriedAt(m) => Carried(m, g, shown[m].facts, wire[m], fl)
  <2>1. Ordered(m, facts, shown[m].facts, wire[m], flight)
    BY <1>1 DEF FreshAt, OrderedAt
  <2>2. CASE clients = {}
    <3>1. fl = flight
      BY <1>3, <1>7, <2>2, LaunchedIs
    <3> QED
      BY <1>2, <1>6, <2>1, <3>1, RaiseOrdered DEF CarriedAt
  <2>3. CASE clients # {}
    <3>1. fl = Append(flight, x)
      BY <1>3, <1>4, <1>7, <2>3, LaunchedIs
    <3> QED
      BY <1>2, <1>5, <1>6, <2>1, <3>1, AppendOrdered DEF CarriedAt
  <2> QED
    BY <2>2, <2>3
<1>9. CASE unpublished'
  BY <1>3, <1>6, <1>7, <1>8, <1>9 DEF FreshAt, OrderedAt
<1>10. CASE ~unpublished'
  <2>1. g = facts /\ ~unpublished /\ phase[n] = "reading"
    BY <1>3, <1>6, <1>10 DEF Rejected
  <2>2. Owing => Owing'
    <3>1. PICK p : p = IF clients = {} THEN "reading" ELSE "confirming"
      OBVIOUS
    <3> QED
      BY <1>1, <1>3, <2>1, <3>1, ByCallers, OwingStays
  <2> QED
    BY <1>1, <1>3, <1>6, <1>7, <1>8, <2>1, <2>2 DEF FreshAt, OrderedAt, CarriedAt
<1> QED
  BY <1>9, <1>10

LEMMA JoinKeepsFresh ==
    ASSUME HubFresh, NEW n \in Monitor, Join(n), NEW m \in Monitor, socket'[m] = "open"
    PROVE  FreshAt(m)'
<1>1. HubType /\ UNCHANGED <<facts, unpublished, shown, flight>> /\ phase[n] = "none"
      /\ phase' = [phase EXCEPT ![n] = "greeting"]
      /\ wire' = [wire EXCEPT ![n] = <<Status(facts, stamps)>>]
      /\ socket' = [socket EXCEPT ![n] = "open"]
  BY DEF HubFresh, Join
<1>2. CASE m = n
  <2>1. shown[m].facts = 0 /\ \A i \in 1..Len(flight) : m \notin flight[i].todo
    BY <1>1, <1>2 DEF HubType, Known
  <2>2. facts \in Nat /\ flight \in Seq(Flight) /\ stamps \in Seq(Nat)
    BY <1>1 DEF HubType, TypeOK
  <2>3. /\ Ordered(m, facts, 0, <<Status(facts, stamps)>>, flight)
        /\ Carried(m, facts, 0, <<Status(facts, stamps)>>, flight)
    BY <2>1, <2>2, StatusType, JoinOrdered
  <2>4. wire'[m] = <<Status(facts, stamps)>>
    BY <1>1, <1>2 DEF HubType, TypeOK
  <2> QED
    BY <1>1, <2>1, <2>3, <2>4 DEF FreshAt, OrderedAt, CarriedAt
<1>3. CASE m # n
  <2>1. socket[m] = "open" /\ wire'[m] = wire[m]
    BY <1>1, <1>3 DEF HubType, TypeOK
  <2>2. Owing => Owing'
    BY <1>1, ByCallers, OwingStays
  <2> QED
    BY <1>1, <2>1, <2>2 DEF HubFresh, FreshAt, OrderedAt, CarriedAt
<1> QED
  BY <1>2, <1>3

LEMMA MoveKeepsFresh ==
    ASSUME HubFresh, NEW i \in 1..Len(flight), NEW todo, NEW waiting, NEW lost,
           NEW m \in Monitor, socket[m] = "open",
           m \in todo <=> m \in flight[i].todo,
           todo \in SUBSET flight[i].todo, waiting \in SUBSET Monitor, lost \in SUBSET Monitor,
           flight' = [flight EXCEPT ![i] = Moved(flight[i], todo, waiting, lost)],
           UNCHANGED <<facts, unpublished, phase>>, shown'[m] = shown[m], wire'[m] = wire[m]
    PROVE  FreshAt(m)'
<1> DEFINE x == Moved(flight[i], todo, waiting, lost)
<1>1. flight \in Seq(Flight) /\ flight[i] \in Flight
  BY DEF HubFresh, HubType, TypeOK
<1>2. x \in Flight /\ x.todo = todo /\ x.message = flight[i].message
  BY <1>1 DEF Moved, Flight
<1> HIDE DEF x
<1>3. /\ flight' \in Seq(Flight) /\ Len(flight') = Len(flight)
      /\ \A j \in 1..Len(flight) : flight'[j] = IF j = i THEN x ELSE flight[j]
  BY <1>1, <1>2, ExceptSeq DEF x
<1>4. \A j \in 1..Len(flight) : /\ m \in flight'[j].todo <=> m \in flight[j].todo
                                /\ flight'[j].message = flight[j].message
  BY <1>2, <1>3
<1>5. FreshAt(m) /\ HubType
  BY DEF HubFresh
<1>6. /\ \A j : j \in Pending(flight', m) <=> j \in Pending(flight, m)
      /\ \A j \in Pending(flight, m) : flight'[j].message = flight[j].message
  BY <1>3, <1>4 DEF Pending
<1>7. OrderedAt(m)' /\ (CarriedAt(m) => CarriedAt(m)')
  <2>1. PICK f, s, w, fl, new : f = facts /\ s = shown[m].facts /\ w = wire[m] /\ fl = flight
                                /\ new = flight'
    OBVIOUS
  <2>2. /\ \A j : j \in Pending(new, m) <=> j \in Pending(fl, m)
        /\ \A j \in Pending(fl, m) : new[j].message = fl[j].message
    BY <1>6, <2>1
  <2>3. /\ Ordered(m, f, s, w, fl) => Ordered(m, f, s, w, new)
        /\ Carried(m, f, s, w, fl) => Carried(m, f, s, w, new)
    BY <2>2 DEF Ordered, Carried
  <2>4. OrderedAt(m) /\ f = facts' /\ s = shown'[m].facts /\ w = wire'[m]
    BY <1>5, <2>1 DEF FreshAt
  <2> QED
    BY <2>1, <2>3, <2>4 DEF OrderedAt, CarriedAt
<1>8. Owing' <=> Owing
  BY DEF Owing
<1> QED
  BY <1>5, <1>7, <1>8 DEF FreshAt

LEMMA StartKeepsFresh ==
    ASSUME HubFresh, NEW i \in 1..Len(flight), NEW n \in Monitor, Start(i, n),
           NEW m \in Monitor, socket[m] = "open"
    PROVE  FreshAt(m)'
<1> DEFINE open == socket[n] = "open"
           todo == flight[i].todo \ {n}
           waiting == IF open THEN flight[i].waiting \cup {n} ELSE flight[i].waiting
           lost == IF open THEN flight[i].lost ELSE flight[i].lost \cup {n}
           x == Moved(flight[i], todo, waiting, lost)
<1>1. HubType /\ flight \in Seq(Flight) /\ flight[i] \in Flight /\ FreshAt(m)
      /\ wire \in [Monitor -> Seq(Message)]
  BY DEF HubFresh, HubType, TypeOK
<1>2. /\ n \in flight[i].todo /\ UNCHANGED <<facts, unpublished, phase, shown, socket>>
      /\ \A j \in 1..(i - 1) : n \notin flight[j].todo
  BY DEF Start, stateVars
<1>3. /\ flight' = [flight EXCEPT ![i] = x]
      /\ wire' = IF open THEN [wire EXCEPT ![n] = Append(@, flight[i].message)] ELSE wire
  BY <1>1, StartIs
<1>4. /\ todo \in SUBSET flight[i].todo /\ waiting \in SUBSET Monitor
      /\ lost \in SUBSET Monitor
  BY <1>1 DEF Flight
<1>5. CASE m # n
  <2>1. wire'[m] = wire[m] /\ (m \in todo <=> m \in flight[i].todo)
    BY <1>1, <1>3, <1>5
  <2> HIDE DEF todo, waiting, lost
  <2> QED
    BY <1>2, <1>3, <1>4, <2>1, MoveKeepsFresh
<1>6. CASE m = n
  <2>1. wire'[m] = Append(wire[m], flight[i].message)
    BY <1>1, <1>3, <1>6
  <2>2. m \notin todo
    BY <1>6
  <2> HIDE DEF todo, waiting, lost
  <2>3. x \in Flight /\ x.todo = todo
    BY <1>1, <1>4 DEF Moved, Flight
  <2> HIDE DEF x
  <2>4. /\ flight' \in Seq(Flight) /\ Len(flight') = Len(flight) /\ flight'[i] = x
        /\ \A j \in 1..Len(flight) : j # i => flight'[j] = flight[j]
    BY <1>1, <1>3, <2>3, ExceptSeq
  <2> DEFINE new == flight'
  <2>5. /\ new \in Seq(Flight) /\ Len(new) = Len(flight) /\ m \notin new[i].todo
        /\ \A j \in 1..Len(flight) : j # i => new[j] = flight[j]
    BY <2>2, <2>3, <2>4
  <2> HIDE DEF new
  <2>6. /\ Ordered(m, facts, shown[m].facts, Append(wire[m], flight[i].message), new)
        /\ CarriedAt(m) =>
              Carried(m, facts, shown[m].facts, Append(wire[m], flight[i].message), new)
    BY <1>1, <1>2, <1>6, <2>5, TypesAt, StartOrdered DEF FreshAt, OrderedAt, CarriedAt
  <2>7. Owing' <=> Owing
    BY <1>2 DEF Owing
  <2> QED
    BY <1>1, <1>2, <2>1, <2>6, <2>7 DEF FreshAt, OrderedAt, CarriedAt, new
<1> QED
  BY <1>5, <1>6

LEMMA SentKeepsFresh ==
    ASSUME HubFresh, NEW i \in 1..Len(flight), NEW n \in Monitor, Sent(i, n),
           NEW m \in Monitor, socket[m] = "open"
    PROVE  FreshAt(m)'
<1> DEFINE todo == flight[i].todo
           waiting == flight[i].waiting \ {n}
           lost == IF socket[n] = "open" THEN flight[i].lost ELSE flight[i].lost \cup {n}
<1>1. HubType /\ flight[i] \in Flight /\ UNCHANGED <<stateVars, socketVars>>
  BY DEF HubFresh, HubType, TypeOK, Sent
<1>2. flight' = [flight EXCEPT ![i] = Moved(flight[i], todo, waiting, lost)]
  BY <1>1, SentIs
<1>3. todo \in SUBSET flight[i].todo /\ waiting \in SUBSET Monitor /\ lost \in SUBSET Monitor
  BY <1>1 DEF Flight
<1>4. m \in todo <=> m \in flight[i].todo
  OBVIOUS
<1> HIDE DEF todo, waiting, lost
<1> QED
  BY <1>1, <1>2, <1>3, <1>4, MoveKeepsFresh DEF stateVars, socketVars

LEMMA EndKeepsFresh ==
    ASSUME HubFresh, NEW i \in 1..Len(flight), Finish(i),
           NEW m \in Monitor, socket[m] = "open"
    PROVE  FreshAt(m)'
<1> DEFINE rest == RemoveAt(flight, i)
<1>1. HubType /\ flight \in Seq(Flight) /\ flight[i] \in Flight /\ FreshAt(m)
      /\ clients \subseteq Monitor
  BY DEF HubFresh, HubType, TypeOK
<1>2. UNCHANGED <<facts, unpublished, wire, shown>>
  BY DEF Finish
<1>3. m \notin flight[i].todo
  BY DEF Finish
<1>4. /\ Ordered(m, facts, shown[m].facts, wire[m], rest)
      /\ CarriedAt(m) => Carried(m, facts, shown[m].facts, wire[m], rest)
  BY <1>1, <1>3, TypesAt, RemoveOrdered DEF FreshAt, OrderedAt, CarriedAt
<1>5. rest \in Seq(Flight)
  BY <1>1, RemoveAtEntries
<1> HIDE DEF rest
<1>6. Owing => Owing'
  <2>1. CASE flight[i].by \in Caller
    <3>1. PICK p : p = Resumes(phase[flight[i].by], Kept(flight[i].to, flight[i].lost))
      OBVIOUS
    <3>2. phase' = [phase EXCEPT ![flight[i].by] = p]
      BY <2>1, <3>1 DEF Finish
    <3>3. phase[flight[i].by] \in {"stopping", "notifying"} => p = "stopping"
      BY <3>1 DEF Resumes
    <3> QED
      BY <1>1, <2>1, <3>2, <3>3, OwingStays
  <2>2. CASE flight[i].by \notin Caller
    BY <2>2 DEF Finish, Owing
  <2> QED
    BY <2>1, <2>2
<1>7. CASE flight' = rest
  BY <1>1, <1>2, <1>4, <1>7, <1>6 DEF FreshAt, OrderedAt, CarriedAt
<1>8. CASE flight' # rest
  <2> DEFINE kept == Kept(flight[i].to, flight[i].lost)
             by == flight[i].by
  <2>1. flight' = Launched(rest, kept, Event, by)
    BY <1>8 DEF Finish, rest
  <2>2. kept \in SUBSET Monitor /\ by \in By /\ Event \in Message /\ Event.kind = "event"
    BY <1>1 DEF Kept, Flight, By, Event, Message
  <2> HIDE DEF kept, by
  <2>3. PICK x : x = Launch(Event, by, kept)
    OBVIOUS
  <2>4. x \in Flight /\ x.message.kind = "event"
    BY <2>2, <2>3, LaunchType
  <2>5. flight' = Append(rest, x)
    BY <1>8, <2>1, <2>3, LaunchedIs
  <2>6. facts \in Nat /\ facts >= facts
    BY <1>1, TypesAt
  <2>7. x.message.kind # "status"
    BY <2>4
  <2>8. /\ Ordered(m, facts, shown[m].facts, wire[m], Append(rest, x))
        /\ CarriedAt(m) => Carried(m, facts, shown[m].facts, wire[m], Append(rest, x))
    BY <1>1, <1>4, <1>5, <2>4, <2>6, <2>7, TypesAt, AppendOrdered
  <2> QED
    BY <1>1, <1>2, <1>6, <2>5, <2>8 DEF FreshAt, OrderedAt, CarriedAt
<1> QED
  BY <1>7, <1>8

LEMMA ReceiveKeepsFresh ==
    ASSUME HubFresh, NEW n \in Monitor, Receive(n), NEW m \in Monitor, socket[m] = "open"
    PROVE  FreshAt(m)'
<1>1. /\ HubType /\ FreshAt(m) /\ wire[n] # <<>>
      /\ UNCHANGED <<facts, unpublished, phase, flight>>
      /\ wire' = [wire EXCEPT ![n] = Tail(wire[n])]
      /\ shown' = [shown EXCEPT ![n] =
                     IF Head(wire[n]).kind = "status" THEN Head(wire[n]) ELSE shown[n]]
      /\ wire \in [Monitor -> Seq(Message)] /\ shown \in [Monitor -> Message]
  BY DEF HubFresh, Receive, stateVars, HubType, TypeOK
<1>2. Owing' <=> Owing
  BY <1>1 DEF Owing
<1>3. CASE m # n
  BY <1>1, <1>3, <1>2 DEF FreshAt, OrderedAt, CarriedAt
<1>4. CASE m = n
  <2> DEFINE t == shown'[m].facts
  <2>1. wire'[m] = Tail(wire[m])
        /\ t = IF Head(wire[m]).kind = "status" THEN Head(wire[m]).facts ELSE shown[m].facts
    BY <1>1, <1>4
  <2> HIDE DEF t
  <2>2. /\ Ordered(m, facts, t, Tail(wire[m]), flight)
        /\ CarriedAt(m) => Carried(m, facts, t, Tail(wire[m]), flight)
    BY <1>1, <1>4, <2>1, TypesAt, ReceiveOrdered DEF FreshAt, OrderedAt, CarriedAt
  <2> QED
    BY <1>1, <1>2, <2>1, <2>2 DEF FreshAt, OrderedAt, CarriedAt, t
<1> QED
  BY <1>3, <1>4

LEMMA FreshStep == HubFresh /\ [Next]_vars => HubFresh'
<1> SUFFICES ASSUME HubFresh, [Next]_vars PROVE HubFresh'
  OBVIOUS
<1>1. HubType'
  BY HubStep DEF HubFresh
<1>2. ASSUME NEW m \in Monitor, socket'[m] = "open" PROVE FreshAt(m)'
  <2>1. CASE Poll \/ Tick \/ UNCHANGED vars
    <3>1. UNCHANGED <<facts, unpublished, phase, shown, wire, flight, socket>>
      BY <2>1 DEF Poll, Tick, vars, stateVars, socketVars
    <3>2. Owing' <=> Owing
      BY <3>1 DEF Owing
    <3> QED
      BY <1>2, <3>1, <3>2 DEF HubFresh, FreshAt, OrderedAt, CarriedAt
  <2>2. ASSUME NEW n \in Monitor, Greeted(n) PROVE FreshAt(m)'
    <3>1. /\ UNCHANGED <<facts, unpublished, shown, wire, flight, socket>>
          /\ phase[n] = "greeting" /\ phase' = [phase EXCEPT ![n] = "reading"]
      BY <2>2 DEF Greeted, stateVars
    <3>2. Owing => Owing'
      BY <3>1, ByCallers, OwingStays DEF HubFresh
    <3> QED
      BY <1>2, <3>1, <3>2 DEF HubFresh, FreshAt, OrderedAt, CarriedAt
  <2>3. CASE Publishing
    <3>1. socket' = socket
      <4>1. PICK times \in Seq(Nat), by \in By : PublishStep(times, by)
        BY <2>3, PublishingIs DEF HubFresh
      <4> QED
        BY <4>1 DEF PublishStep
    <3> QED
      BY <1>2, <2>3, <3>1, PublishFresh
  <2>4. CASE ConnectFails \/ \E a \in Caller : StopBegins(a)
    <3>1. socket' = socket
      BY <2>4 DEF ConnectFails, StopBegins, socketVars
    <3> QED
      BY <1>2, <2>4, <3>1, QuietFresh
  <2>5. ASSUME NEW n \in Monitor, Break(n) PROVE FreshAt(m)'
    <3>1. /\ socket' = [socket EXCEPT ![n] = "broken"] /\ wire' = [wire EXCEPT ![n] = <<>>]
          /\ UNCHANGED <<facts, unpublished, phase, shown, flight>>
          /\ socket \in [Monitor -> {"open", "broken"}] /\ wire \in [Monitor -> Seq(Message)]
      BY <2>5 DEF Break, stateVars, HubFresh, HubType, TypeOK
    <3>2. m # n
      BY <1>2, <3>1
    <3>3. Owing' <=> Owing
      BY <3>1 DEF Owing
    <3> QED
      BY <1>2, <3>1, <3>2, <3>3 DEF HubFresh, FreshAt, OrderedAt, CarriedAt
  <2>6. ASSUME NEW n \in Monitor, Join(n) PROVE FreshAt(m)'
    BY <1>2, <2>6, JoinKeepsFresh
  <2>7. ASSUME NEW n \in Monitor, Receive(n) PROVE FreshAt(m)'
    <3>1. socket' = socket
      BY <2>7 DEF Receive
    <3> QED
      BY <1>2, <2>7, <3>1, ReceiveKeepsFresh
  <2>8. ASSUME NEW i \in 1..Len(flight), NEW n \in Monitor, Start(i, n) PROVE FreshAt(m)'
    <3>1. socket' = socket
      BY <2>8 DEF Start
    <3> QED
      BY <1>2, <2>8, <3>1, StartKeepsFresh
  <2>9. ASSUME NEW i \in 1..Len(flight), NEW n \in Monitor, Sent(i, n) PROVE FreshAt(m)'
    <3>1. socket' = socket
      BY <2>9 DEF Sent, socketVars
    <3> QED
      BY <1>2, <2>9, <3>1, SentKeepsFresh
  <2>10. ASSUME NEW i \in 1..Len(flight), Finish(i) PROVE FreshAt(m)'
    <3>1. socket' = socket
      BY <2>10 DEF Finish
    <3> QED
      BY <1>2, <2>10, <3>1, EndKeepsFresh
  <2>11. ASSUME NEW n \in Monitor, Rejected(n) PROVE FreshAt(m)'
    <3>1. socket' = socket
      BY <2>11 DEF Rejected
    <3> QED
      BY <1>2, <2>11, <3>1, RejectedFresh
  <2> QED
    BY <2>1, <2>2, <2>3, <2>4, <2>5, <2>6, <2>7, <2>8, <2>9, <2>10, <2>11
       DEF Next, Handler, Stop, Publishing
<1> QED
  BY <1>1, <1>2 DEF HubFresh

LEMMA FreshInit == Init => HubFresh
<1>1. Init => \A m \in Monitor : socket[m] # "open"
  BY DEF Init
<1> QED
  BY <1>1, HubInit DEF HubFresh

(* A browser with nothing left to receive shows the current state, once    *)
(* the handlers that await stop() have published: no join that races a     *)
(* broadcast, no broadcast that discards others or is cancelled, makes it  *)
(* miss the last status (monitor.py, broadcast and safe_send; server.py,   *)
(* handle_monitor_ws, publish_status and the callers of stop()).           *)
THEOREM DrainedShowsCurrent == Spec => []DrainedMonitorCurrent
<1>1. ASSUME HubFresh PROVE DrainedMonitorCurrent
  <2> SUFFICES ASSUME NEW m \in Monitor, socket[m] = "open", wire[m] = <<>>,
                      \A i \in 1..Len(flight) : m \notin flight[i].todo,
                      ~Owing, ~unpublished
               PROVE  shown[m].facts = facts
    BY DEF DrainedMonitorCurrent
  <2>1. Carried(m, facts, shown[m].facts, <<>>, flight)
    BY <1>1 DEF HubFresh, FreshAt, CarriedAt
  <2>2. Statuses(<<>>) = {} /\ Pending(flight, m) = {}
    BY DEF Statuses, Pending
  <2> QED
    BY <2>1, <2>2 DEF Carried
<1>2. HubFresh => DrainedMonitorCurrent
  BY <1>1
<1> QED
  BY <1>2, FreshInit, FreshStep, PTL DEF Spec

(* What a browser shows never gets older: what it receives is not older    *)
(* than what it shows, whatever broadcasts were under way at a time        *)
(* (monitor.py, broadcast; server.py, publish_status, stop, its callers).  *)
THEOREM ShownOnlyAdvances == Spec => ShownNeverOlder
<1>1. ASSUME HubFresh, [Next]_vars, NEW m \in Monitor PROVE shown'[m].facts >= shown[m].facts
  <2>1. HubType /\ shown[m].facts \in Nat
    BY <1>1, TypesAt DEF HubFresh
  <2>2. ASSUME NEW n \in Monitor, Receive(n) PROVE shown'[m].facts >= shown[m].facts
    <3>1. /\ socket[n] = "open" /\ wire[n] # <<>> /\ wire[n] \in Seq(Message)
          /\ shown \in [Monitor -> Message]
          /\ shown' = [shown EXCEPT ![n] =
                         IF Head(wire[n]).kind = "status" THEN Head(wire[n]) ELSE shown[n]]
      BY <2>1, <2>2 DEF Receive, HubType, TypeOK
    <3>2. CASE m = n /\ Head(wire[m]).kind = "status"
      <4>1. wire[m] # <<>> /\ wire[m] \in Seq(Message) /\ Len(wire[m]) \in Nat
        BY <3>1, <3>2, LenProperties
      <4>2. Head(wire[m]) = wire[m][1] /\ 1 \in 1..Len(wire[m])
        BY <4>1, EmptySeq
      <4>3. 1 \in Statuses(wire[m])
        BY <3>2, <4>2 DEF Statuses
      <4>4. shown[m].facts <= wire[m][1].facts
        BY <1>1, <3>1, <3>2, <4>3 DEF HubFresh, FreshAt, OrderedAt, Ordered
      <4>5. wire[m][1].facts \in Nat
        <5>1. wire[m][1] \in Message
          BY <4>1, <4>2, ElementOfSeq
        <5> QED
          BY <5>1 DEF Message
      <4> QED
        BY <2>1, <3>1, <3>2, <4>2, <4>4, <4>5
    <3>3. CASE ~(m = n /\ Head(wire[m]).kind = "status")
      BY <2>1, <3>1, <3>3
    <3> QED
      BY <3>2, <3>3
  <2>3. CASE ~(\E n \in Monitor : Receive(n))
    <3>1. shown' = shown
      <4>1. CASE Publishing
        <5>1. PICK times \in Seq(Nat), by \in By : PublishStep(times, by)
          BY <2>1, <4>1, PublishingIs
        <5> QED
          BY <5>1 DEF PublishStep
      <4>2. CASE ~Publishing
        BY <1>1, <2>3, <4>2
           DEF Next, vars, socketVars, Publishing, Handler, Stop, ConnectFails, Poll, Tick,
               StopBegins, Rejected, Join, Greeted, Break, Start, Sent, Finish
      <4> QED
        BY <4>1, <4>2
    <3> QED
      BY <2>1, <3>1
  <2> QED
    BY <2>2, <2>3
<1>2. HubFresh /\ [Next]_vars => \A m \in Monitor : shown'[m].facts >= shown[m].facts
  BY <1>1
<1>3. HubFresh /\ [Next]_vars => [\A m \in Monitor : shown'[m].facts >= shown[m].facts]_vars
  BY <1>2
<1> QED
  BY <1>3, FreshInit, FreshStep, PTL DEF Spec, ShownNeverOlder
=============================================================================
