------------------------ MODULE BridgeRelay_proofs ------------------------
(***************************************************************************)
(* Theorems about BridgeRelay: its types, the order of the controls on     *)
(* their way to the simulator, and that the control path implements        *)
(* ControlRegister, for every value of the constants.                      *)
(***************************************************************************)
EXTENDS BridgeRelay, TLAPS

(* A put keeps the type and the bound of a queue.                          *)
LEMMA PutType ==
    ASSUME NEW S, NEW q \in Seq(S), NEW item \in S, Len(q) <= QueueSize
    PROVE  Put(q, item) \in Seq(S) /\ Len(Put(q, item)) <= QueueSize
<1> USE RelayAssumption
<1> DEFINE kept == IF Len(q) >= QueueSize THEN Tail(q) ELSE q
<1>1. kept \in Seq(S) /\ Len(kept) + 1 <= QueueSize
  <2>1. CASE Len(q) >= QueueSize
    <3>1. q # <<>> /\ Len(q) = QueueSize
      BY <2>1
    <3> QED
      BY <2>1, <3>1
  <2>2. CASE ~(Len(q) >= QueueSize)
    BY <2>2
  <2> QED
    BY <2>1, <2>2
<1>2. Append(kept, item) \in Seq(S) /\ Len(Append(kept, item)) = Len(kept) + 1
  BY <1>1
<1> QED
  BY <1>1, <1>2 DEF Put

(* Where the entries of a queue after a get come from.                     *)
LEMMA TailEntries ==
    ASSUME NEW S, NEW q \in Seq(S), q # <<>>
    PROVE  /\ Head(q) \in S /\ Head(q) = q[1] /\ 1 \in 1..Len(q)
           /\ Tail(q) \in Seq(S)
           /\ Len(Tail(q)) = Len(q) - 1
           /\ \A i \in 1..Len(Tail(q)) : i + 1 \in 1..Len(q) /\ Tail(q)[i] = q[i + 1]
  OBVIOUS

LEMMA OneEntry ==
    ASSUME NEW S, NEW q \in Seq(S), q # <<>>, Len(q) <= 1
    PROVE  Len(q) = 1 /\ Head(q) = q[1] /\ Head(q) \in S
<1>1. Len(q) \in Nat /\ Len(q) # 0
  OBVIOUS
<1>2. Head(q) = q[1] /\ Head(q) \in S
  BY TailEntries
<1>3. Len(q) = 1
  BY <1>1
<1> QED
  BY <1>2, <1>3, Zenon

LEMMA AppendEntries ==
    ASSUME NEW S, NEW q \in Seq(S), NEW item \in S
    PROVE  /\ Append(q, item) \in Seq(S)
           /\ Len(Append(q, item)) = Len(q) + 1
           /\ Append(q, item)[Len(q) + 1] = item
           /\ \A i \in 1..Len(q) : Append(q, item)[i] = q[i]
  OBVIOUS

(* Where the entries of a queue after a put come from: k is the number of  *)
(* entries that the put drops.                                             *)
LEMMA PutEntries ==
    ASSUME NEW S, NEW q \in Seq(S), NEW item \in S
    PROVE  \E k \in {0, 1} :
             /\ k <= Len(q)
             /\ Len(Put(q, item)) = Len(q) - k + 1
             /\ Put(q, item)[Len(q) - k + 1] = item
             /\ \A i \in 1..(Len(q) - k) :
                  i + k \in 1..Len(q) /\ Put(q, item)[i] = q[i + k]
<1>1. CASE Len(q) >= QueueSize
  <2> DEFINE t == Tail(q)
  <2>1. Len(q) # 0
    BY <1>1, RelayAssumption
  <2>2. q # <<>>
    BY <2>1
  <2>3. /\ t \in Seq(S) /\ Len(t) = Len(q) - 1 /\ Len(q) \in Nat
        /\ \A i \in 1..Len(t) : i + 1 \in 1..Len(q) /\ t[i] = q[i + 1]
    BY <2>2, TailEntries
  <2>4. Put(q, item) = Append(t, item)
    BY <1>1 DEF Put
  <2> HIDE DEF t
  <2>5. /\ Len(Append(t, item)) = Len(t) + 1
        /\ Append(t, item)[Len(t) + 1] = item
        /\ \A i \in 1..Len(t) : Append(t, item)[i] = t[i]
    BY <2>3, AppendEntries
  <2>6. /\ 1 <= Len(q)
        /\ Len(Put(q, item)) = Len(q) - 1 + 1
        /\ Put(q, item)[Len(q) - 1 + 1] = item
        /\ \A i \in 1..(Len(q) - 1) :
             i + 1 \in 1..Len(q) /\ Put(q, item)[i] = q[i + 1]
    BY <2>1, <2>3, <2>4, <2>5
  <2> QED
    BY <2>6
<1>2. CASE ~(Len(q) >= QueueSize)
  <2>1. Put(q, item) = Append(q, item)
    BY <1>2 DEF Put
  <2>2. /\ 0 <= Len(q)
        /\ Len(Put(q, item)) = Len(q) - 0 + 1
        /\ Put(q, item)[Len(q) - 0 + 1] = item
        /\ \A i \in 1..(Len(q) - 0) :
             i + 0 \in 1..Len(q) /\ Put(q, item)[i] = q[i + 0]
    BY <2>1, AppendEntries
  <2> QED
    BY <2>2
<1> QED
  BY <1>1, <1>2

-----------------------------------------------------------------------------
(* Types.                                                                  *)

(* Each group of variables keeps its type as long as it does not change.   *)
LEMMA TypeUnchanged ==
    /\ SimType /\ UNCHANGED simVars => SimType'
    /\ LinkType /\ UNCHANGED linkVars => LinkType'
    /\ SendType /\ UNCHANGED sendVars => SendType'
    /\ ControlType /\ UNCHANGED controlVars => ControlType'
<1>1. SimType /\ UNCHANGED simVars => SimType'
  BY DEF SimType, simVars
<1>2. LinkType /\ UNCHANGED linkVars => LinkType'
  BY DEF LinkType, linkVars
<1>3. SendType /\ UNCHANGED sendVars => SendType'
  BY DEF SendType, sendVars
<1>4. ControlType /\ UNCHANGED controlVars => ControlType'
  BY DEF ControlType, controlVars
<1> QED
  BY <1>1, <1>2, <1>3, <1>4

LEMMA TypeInit == Init => TypeOK
<1> SUFFICES ASSUME Init PROVE TypeOK
  OBVIOUS
<1> USE RelayAssumption DEF Init
<1>1. SimType
  BY DEF SimType, Record, Entry, DefaultCache
<1>2. LinkType
  BY DEF LinkType
<1>3. SendType
  BY DEF SendType
<1>4. ControlType
  BY DEF ControlType, Control, NoControl
<1> QED
  BY <1>1, <1>2, <1>3, <1>4 DEF TypeOK

LEMMA TypeSimulator == TypeOK /\ Simulator => TypeOK'
<1> SUFFICES ASSUME TypeOK, Simulator PROVE TypeOK'
  OBVIOUS
<1> USE RelayAssumption DEF TypeOK
<1>1. CASE SimulatorConnect
  BY <1>1 DEF SimulatorConnect, SimType, LinkType, SendType, ControlType, linkVars,
              controlVars, DefaultCache, Entry
<1>2. CASE SimulatorDisconnect
  <2> USE <1>2 DEF SimulatorDisconnect
  <2>1. SimType'
    BY DEF SimType
  <2>2. LinkType'
    BY DEF LinkType
  <2>3. SendType'
    BY DEF SendType
  <2>4. ControlType'
    BY DEF ControlType, Control, NoControl
  <2> QED
    BY <2>1, <2>2, <2>3, <2>4
<1>3. ASSUME NEW for \in Audiences, SimulatorBridge(for) PROVE TypeOK'
  <2> DEFINE r == [id |-> frames + 1, time |-> clock, for |-> for]
  <2> USE <1>3 DEF SimulatorBridge
  <2>1. r \in Record
    BY DEF Record, SimType
  <2>2. SimType'
    BY <2>1 DEF SimType, Prune
  <2>3. LinkType'
    BY DEF LinkType
  <2>4. ASSUME NEW d \in DevKit
        PROVE  /\ Put(queue[d], Item(d, r)) \in Seq(OutboundItem)
               /\ Len(Put(queue[d], Item(d, r))) <= QueueSize
    <3>1. Item(d, r) \in OutboundItem
      BY <2>1 DEF Item, OutboundItem, Record
    <3> QED
      BY <3>1, PutType DEF SendType
  <2>5. SendType'
    <3>1. /\ queue' = [d \in DevKit |-> IF d \in Owed(r) THEN Put(queue[d], Item(d, r))
                                                         ELSE queue[d]]
          /\ pushed' = [d \in DevKit |-> IF d \in Owed(r) THEN r.id ELSE pushed[d]]
          /\ UNCHANGED <<held, failed, served, displaced>>
      OBVIOUS
    <3>2. queue' \in [DevKit -> Seq(OutboundItem)]
      BY <2>4, <3>1 DEF SendType
    <3>3. pushed' \in [DevKit -> Nat]
      BY <2>1, <3>1 DEF SendType, SimType
    <3>4. \A d \in DevKit : Len(queue'[d]) <= QueueSize /\ Len(held'[d]) <= 1
      BY <2>4, <3>1 DEF SendType
    <3> QED
      BY <3>1, <3>2, <3>3, <3>4 DEF SendType
  <2>6. ControlType'
    BY DEF ControlType, controlVars
  <2> QED
    BY <2>2, <2>3, <2>5, <2>6
<1>4. ASSUME NEW for \in Audiences, SimulatorEvent(for) \/ MonitorEvent(for) PROVE TypeOK'
  <2>0. QueueEvent(for)
    BY <1>4 DEF SimulatorEvent, MonitorEvent
  <2> USE <2>0 DEF QueueEvent
  <2>1. SimType' /\ LinkType' /\ ControlType'
    BY DEF SimType, LinkType, linkVars, ControlType, controlVars
  <2>2. ASSUME NEW d \in DevKit
        PROVE  /\ Put(queue[d], OtherEvent) \in Seq(OutboundItem)
               /\ Len(Put(queue[d], OtherEvent)) <= QueueSize
    <3>1. OtherEvent \in OutboundItem
      BY DEF OtherEvent, OutboundItem
    <3>2. queue[d] \in Seq(OutboundItem) /\ Len(queue[d]) <= QueueSize
      BY DEF SendType
    <3> QED
      BY <3>1, <3>2, PutType
  <2>3. SendType'
    <3>1. displaced' \in [DevKit -> BOOLEAN]
      BY DEF SendType
    <3>2. queue' = [d \in DevKit |-> IF d \in for THEN Put(queue[d], OtherEvent)
                                                  ELSE queue[d]]
      OBVIOUS
    <3> QED
      BY <2>2, <3>1, <3>2 DEF SendType
  <2> QED
    BY <2>1, <2>3
<1> QED
  BY <1>1, <1>2, <1>3, <1>4 DEF Simulator

LEMMA TypeConnection == ASSUME TypeOK, NEW d \in DevKit, Connection(d) PROVE TypeOK'
<1> USE RelayAssumption DEF TypeOK
<1>1. CASE Connect(d)
  <2> USE <1>1 DEF Connect
  <2>1. SimType' /\ ControlType'
    BY TypeUnchanged
  <2>2. LinkType'
    BY DEF LinkType
  <2>3. SendType'
    BY DEF SendType
  <2> QED
    BY <2>1, <2>2, <2>3
<1>2. CASE ConnectFails(d)
  BY <1>2 DEF ConnectFails, simVars, sendVars, controlVars, SimType, LinkType, SendType,
              ControlType
<1>3. CASE OnConnect(d)
  <2> USE <1>3 DEF OnConnect
  <2>1. SimType' /\ LinkType' /\ ControlType'
    BY DEF SimType, Prune, LinkType, ControlType, controlVars, StillOwed
  <2>2. SendType'
    <3> DEFINE greets == {r \in Newest(Prune(history)) : Queued(d, r)}
    <3>1. CASE greets = {}
      BY <3>1 DEF SendType
    <3>2. CASE greets # {}
      <4>1. PICK r \in greets : /\ queue' = [queue EXCEPT ![d] = Put(@, Item(d, r))]
                                /\ pushed' = [pushed EXCEPT ![d] = r.id]
        BY <3>2
      <4>2. Item(d, r) \in OutboundItem /\ r.id \in Nat
        BY DEF Item, OutboundItem, Newest, Prune, SimType, Record
      <4>3. /\ Put(queue[d], Item(d, r)) \in Seq(OutboundItem)
            /\ Len(Put(queue[d], Item(d, r))) <= QueueSize
        BY <4>2, PutType DEF SendType
      <4> QED
        BY <4>1, <4>2, <4>3 DEF SendType
    <3> QED
      BY <3>1, <3>2
  <2> QED
    BY <2>1, <2>2
<1>4. CASE Drop(d)
  BY <1>4 DEF Drop, simVars, sendVars, controlVars, SimType, LinkType, SendType, ControlType
<1> QED
  BY <1>1, <1>2, <1>3, <1>4 DEF Connection

LEMMA TypeSendLoop == ASSUME TypeOK, NEW d \in DevKit, SendLoop(d) PROVE TypeOK'
<1> USE RelayAssumption DEF TypeOK
<1>1. CASE SendNext(d)
  <2> USE <1>1 DEF SendNext
  <2>1. SimType' /\ LinkType' /\ ControlType'
    BY DEF simVars, linkVars, controlVars, SimType, LinkType, ControlType
  <2>2. /\ Head(queue[d]) \in OutboundItem
        /\ Tail(queue[d]) \in Seq(OutboundItem)
        /\ Len(Tail(queue[d])) <= QueueSize
    BY TailEntries DEF SendType
  <2>6. queue \in [DevKit -> Seq(OutboundItem)] /\ \A e \in DevKit : Len(queue[e]) <= QueueSize
    BY DEF SendType
  <2> DEFINE rest == Tail(queue[d])
  <2>7. queue' = [queue EXCEPT ![d] = rest]
    OBVIOUS
  <2> HIDE DEF rest
  <2>3. /\ queue' \in [DevKit -> Seq(OutboundItem)]
        /\ \A e \in DevKit : Len(queue'[e]) <= QueueSize
    BY <2>2, <2>6, <2>7 DEF rest
  <2>4. CASE link[d]
    <3>0. PICK item \in OutboundItem : item = Head(queue[d])
      BY <2>2
    <3>1. item.drop \in BOOLEAN
      BY DEF OutboundItem
    <3>2. Emit(d, item) /\ UNCHANGED <<held, pushed, displaced, clock, monitor>>
      BY <2>4, <3>0
    <3> HIDE <1>1 DEF SendNext
    <3>3. failed' \in [DevKit -> BOOLEAN] /\ served' \in [DevKit -> BOOLEAN]
      BY <3>1, <3>2 DEF SendType, Emit
    <3>4. SendType'
      BY <2>3, <3>2, <3>3 DEF SendType
    <3> QED
      BY <2>1, <3>2, <3>4
  <2>5. CASE ~link[d]
    <3>1. <<Head(queue[d])>> \in Seq(OutboundItem) /\ Len(<<Head(queue[d])>>) = 1
      BY <2>2
    <3> DEFINE one == <<Head(queue[d])>>
    <3>2. /\ held' = [held EXCEPT ![d] = one]
          /\ UNCHANGED <<failed, pushed, served, displaced>>
      BY <2>5
    <3> HIDE DEF one
    <3>3. held' \in [DevKit -> Seq(OutboundItem)] /\ \A e \in DevKit : Len(held'[e]) <= 1
      BY <3>1, <3>2 DEF SendType, one
    <3> QED
      BY <2>1, <2>3, <3>2, <3>3 DEF SendType
  <2> QED
    BY <2>4, <2>5
<1>2. CASE SendHeld(d)
  <2> USE <1>2 DEF SendHeld
  <2>1. SimType' /\ LinkType' /\ ControlType'
    BY DEF simVars, linkVars, controlVars, SimType, LinkType, ControlType
  <2>2. Head(held[d]) \in OutboundItem
    BY TailEntries DEF SendType
  <2> QED
    BY <2>1, <2>2 DEF SendType, Emit, OutboundItem
<1> QED
  BY <1>1, <1>2 DEF SendLoop

LEMMA TypeControlLoop == ASSUME TypeOK, NEW d \in DevKit, ControlLoop(d) PROVE TypeOK'
<1> USE RelayAssumption DEF TypeOK
<1>1. CASE TakeControl(d)
  <2>1. /\ Head(controlQueue[d]) \in Control
        /\ Tail(controlQueue[d]) \in Seq(Control)
        /\ Len(Tail(controlQueue[d])) <= QueueSize
    BY <1>1, TailEntries DEF TakeControl, ControlType
  <2>2. SimType' /\ LinkType' /\ SendType'
    BY <1>1, TypeUnchanged DEF TakeControl
  <2>3. ControlType'
    BY <1>1, <2>1 DEF TakeControl, ControlType
  <2> QED
    BY <1>1, <2>2, <2>3 DEF TakeControl
<1>2. CASE Merge(d)
  <2>1. cache' \in [DevKit -> Entry]
    BY <1>2 DEF Merge, SimType, ControlType, Control, Entry
  <2> QED
    BY <1>2, <2>1 DEF Merge, linkVars, sendVars, SimType, LinkType, SendType, ControlType
<1>3. CASE AwaitFrame(d)
  BY <1>3 DEF AwaitFrame, simVars, linkVars, sendVars, SimType, LinkType, SendType, ControlType
<1>4. CASE Answer(d)
  <2> USE <1>4 DEF Answer
  <2>1. SimType' /\ LinkType' /\ ControlType'
    BY DEF linkVars, SimType, Prune, LinkType, ControlType, Control, NoControl
  <2>2. PICK r \in Oldest(After(Prune(history), current[d].time)) :
          IF Queued(d, r)
          THEN /\ queue' = [queue EXCEPT ![d] = Put(@, Item(d, r))]
               /\ pushed' = [pushed EXCEPT ![d] = r.id]
          ELSE UNCHANGED <<queue, pushed>>
    OBVIOUS
  <2>3. Item(d, r) \in OutboundItem /\ r.id \in Nat
    BY DEF Item, OutboundItem, Oldest, After, Prune, SimType, Record
  <2>4. /\ Put(queue[d], Item(d, r)) \in Seq(OutboundItem)
        /\ Len(Put(queue[d], Item(d, r))) <= QueueSize
    BY <2>3, PutType DEF SendType
  <2> DEFINE p == Put(queue[d], Item(d, r))
  <2>5. SendType /\ UNCHANGED <<held, failed, served, displaced>>
    OBVIOUS
  <2>6. \/ queue' = [queue EXCEPT ![d] = p] /\ pushed' = [pushed EXCEPT ![d] = r.id]
        \/ UNCHANGED <<queue, pushed>>
    BY <2>2
  <2> HIDE <1>4 DEF p, Answer, TypeOK
  <2>7. pushed' \in [DevKit -> Nat]
    BY <2>3, <2>5, <2>6 DEF SendType
  <2>8. /\ queue' \in [DevKit -> Seq(OutboundItem)]
        /\ \A e \in DevKit : Len(queue'[e]) <= QueueSize
    BY <2>4, <2>5, <2>6 DEF SendType, p
  <2>9. SendType'
    BY <2>5, <2>7, <2>8 DEF SendType
  <2> QED
    BY <1>4, <2>1, <2>9 DEF Answer, TypeOK
<1> QED
  BY <1>1, <1>2, <1>3, <1>4 DEF ControlLoop

LEMMA TypeDevKitBridge ==
    ASSUME TypeOK, NEW d \in DevKit, NEW names \in Names, DevKitBridge(d, names)
    PROVE  TypeOK'
<1> USE RelayAssumption DEF TypeOK
<1> DEFINE c == [id |-> sent[d] + 1, time |-> clock, names |-> names, session |-> session[d]]
<1>1. c \in Control
  BY DEF Control, ControlType, LinkType
<1>2. /\ Put(controlQueue[d], c) \in Seq(Control)
      /\ Len(Put(controlQueue[d], c)) <= QueueSize
  BY <1>1, PutType DEF ControlType
<1>3. SimType' /\ LinkType' /\ SendType'
  BY TypeUnchanged DEF DevKitBridge
<1> DEFINE p == Put(controlQueue[d], c)
<1>4. /\ controlQueue' = [controlQueue EXCEPT ![d] = p]
      /\ sent' = [sent EXCEPT ![d] = @ + 1]
      /\ UNCHANGED <<phase, current, cancelled>>
  BY DEF DevKitBridge
<1> HIDE DEF p
<1>5. ControlType'
  BY <1>2, <1>4 DEF ControlType, p
<1> QED
  BY <1>3, <1>5 DEF DevKitBridge

LEMMA TypeStep == TypeOK /\ [Next]_vars => TypeOK'
<1> SUFFICES ASSUME TypeOK, [Next]_vars PROVE TypeOK'
  OBVIOUS
<1>1. CASE Simulator
  BY <1>1, TypeSimulator
<1>2. ASSUME NEW f \in 1..frames, Echo(f) PROVE TypeOK'
  BY <1>2 DEF Echo, TypeOK, SimType, LinkType, SendType, ControlType, linkVars, sendVars,
              controlVars
<1>3. ASSUME NEW d \in DevKit, Connection(d) \/ SendLoop(d) \/ ControlLoop(d) PROVE TypeOK'
  BY <1>3, TypeConnection, TypeSendLoop, TypeControlLoop
<1>4. ASSUME NEW d \in DevKit, NEW names \in Names, DevKitBridge(d, names) PROVE TypeOK'
  BY <1>4, TypeDevKitBridge
<1>5. CASE Tick \/ MonitorStalls \/ MonitorReads \/ UNCHANGED vars
  <2>1. SimType' /\ LinkType' /\ SendType' /\ ControlType'
    BY <1>5, TypeUnchanged DEF Tick, MonitorStalls, MonitorReads, vars, TypeOK
  <2>2. clock' \in Nat /\ monitor' \in {"reading", "stalled"}
    BY <1>5 DEF Tick, MonitorStalls, MonitorReads, vars, TypeOK
  <2> QED
    BY <2>1, <2>2 DEF TypeOK
<1> QED
  BY <1>1, <1>2, <1>3, <1>4, <1>5 DEF Next

(* The types hold, and neither queue of a DevKit ever exceeds its size, so *)
(* that a put into one never suspends (bridge.py, server.py enqueue).      *)
THEOREM TypeCorrect == Spec => []TypeOK
<1>1. Init => TypeOK
  BY TypeInit
<1>2. TypeOK /\ [Next]_vars => TypeOK'
  BY TypeStep
<1> QED
  BY <1>1, <1>2, PTL DEF Spec

-----------------------------------------------------------------------------
(* The order of the controls.  ViewBehindCache and the action property     *)
(* ControlsReachSimulatorInOrder are not inductive: a merge could put the  *)
(* cache behind what the simulator has seen, had the control loop a        *)
(* control older than one it merged.  ControlOrder rules that out.         *)
OrderInv == TypeOK /\ ControlOrder /\ ViewBehindCache

orderVars == <<sent, controlQueue, phase, current, cache, view>>

LEMMA OrderInit == Init => ControlOrder /\ ViewBehindCache
<1> SUFFICES ASSUME Init PROVE ControlOrder /\ ViewBehindCache
  OBVIOUS
<1>0. 0 \notin DevKit
  BY RelayAssumption
<1>1. \A d \in DevKit : PendingInOrder(d)
  BY DEF Init, PendingInOrder, NoControl
<1>2. \A v \in DevKit : /\ cache[v].by = 0 /\ cache[v].id = 0
                        /\ view[v].by = 0 /\ view[v].id = 0
  BY DEF Init, DefaultCache
<1>3. \A v \in DevKit : cache[v].by \notin DevKit /\ view[v].by \notin DevKit
  BY <1>0, <1>2
<1>4. ControlOrder
  BY <1>1, <1>3 DEF ControlOrder, Behind
<1>5. ViewBehindCache
  BY <1>2 DEF ViewBehindCache
<1> QED
  BY <1>4, <1>5

LEMMA OrderUnchanged ==
    ControlOrder /\ ViewBehindCache /\ UNCHANGED orderVars
      => ControlOrder' /\ ViewBehindCache'
  BY DEF orderVars, ControlOrder, ViewBehindCache, PendingInOrder, Behind

(* Facts about one DevKit's pending controls that every step below uses.   *)
LEMMA PendingTypes ==
    ASSUME TypeOK, NEW d \in DevKit
    PROVE  /\ controlQueue[d] \in Seq(Control) /\ Len(controlQueue[d]) \in Nat
           /\ \A i \in 1..Len(controlQueue[d]) : controlQueue[d][i].id \in Nat
           /\ sent[d] \in Nat /\ current[d].id \in Nat
           /\ cache[d].id \in Nat /\ view[d].id \in Nat
<1>1. controlQueue[d] \in Seq(Control) /\ Len(controlQueue[d]) \in Nat
  BY DEF TypeOK, ControlType
<1>2. \A i \in 1..Len(controlQueue[d]) : controlQueue[d][i] \in Control
  BY <1>1
<1>3. current[d] \in Control /\ sent[d] \in Nat
  BY DEF TypeOK, ControlType
<1>4. cache[d] \in Entry /\ view[d] \in Entry
  BY DEF TypeOK, SimType
<1> QED
  BY <1>1, <1>2, <1>3, <1>4 DEF Control, Entry

LEMMA OrderConnect == OrderInv /\ SimulatorConnect => ControlOrder' /\ ViewBehindCache'
<1> SUFFICES ASSUME OrderInv, SimulatorConnect PROVE ControlOrder' /\ ViewBehindCache'
  OBVIOUS
<1> USE RelayAssumption DEF OrderInv
<1>1. UNCHANGED <<sent, controlQueue, phase, current, cache>>
  BY DEF SimulatorConnect, controlVars
<1>2. \A v \in DevKit : view'[v].by = 0 /\ view'[v].id = 0
  BY DEF SimulatorConnect, DefaultCache
<1>3. \A d \in DevKit : PendingInOrder(d)'
  BY <1>1 DEF ControlOrder, PendingInOrder
<1>4. \A d \in DevKit, v \in DevKit : Behind(cache[v], d)' /\ Behind(view[v], d)'
  BY <1>1, <1>2 DEF ControlOrder, Behind
<1>5. \A v \in DevKit : cache[v].id \in Nat
  BY PendingTypes
<1>6. \A v \in DevKit : view'[v].id <= cache'[v].id
  <2> TAKE v \in DevKit
  <2>1. view'[v].id = 0 /\ cache' = cache
    BY <1>1, <1>2
  <2>2. cache[v].id \in Nat
    BY <1>5
  <2> QED
    BY <2>1, <2>2
<1>7. ViewBehindCache'
  BY <1>6 DEF ViewBehindCache
<1> QED
  BY <1>3, <1>4, <1>7 DEF ControlOrder

LEMMA OrderDisconnect ==
    OrderInv /\ SimulatorDisconnect => ControlOrder' /\ ViewBehindCache'
<1> SUFFICES ASSUME OrderInv, SimulatorDisconnect PROVE ControlOrder' /\ ViewBehindCache'
  OBVIOUS
<1> USE DEF OrderInv
<1>1. UNCHANGED <<sent, controlQueue, cache, view>>
  BY DEF SimulatorDisconnect
<1>2. \A d \in DevKit : phase'[d] = "idle" /\ current'[d].id = 0
  BY DEF SimulatorDisconnect, NoControl
<1>3. ASSUME NEW d \in DevKit PROVE PendingInOrder(d)'
  BY <1>1, <1>2, PendingTypes DEF ControlOrder, PendingInOrder
<1>4. \A d \in DevKit, v \in DevKit : Behind(cache[v], d)' /\ Behind(view[v], d)'
  BY <1>1, <1>2 DEF ControlOrder, Behind
<1> QED
  BY <1>1, <1>3, <1>4 DEF ControlOrder, ViewBehindCache

LEMMA OrderEcho ==
    ASSUME OrderInv, NEW f, Echo(f)
    PROVE  ControlOrder' /\ ViewBehindCache'
<1> USE DEF OrderInv
<1>1. UNCHANGED <<sent, controlQueue, phase, current, cache>>
  BY DEF Echo, controlVars
<1>2. CASE view' = view
  BY <1>1, <1>2, OrderUnchanged DEF orderVars
<1>3. CASE view' = cache
  <2>1. \A d \in DevKit : PendingInOrder(d)'
    BY <1>1 DEF ControlOrder, PendingInOrder
  <2>2. \A d \in DevKit, v \in DevKit : Behind(cache[v], d)' /\ Behind(view[v], d)'
    BY <1>1, <1>3 DEF ControlOrder, Behind
  <2>3. \A v \in DevKit : cache[v].id \in Nat
    BY PendingTypes
  <2> QED
    BY <1>1, <1>3, <2>1, <2>2, <2>3 DEF ControlOrder, ViewBehindCache
<1> QED
  BY <1>2, <1>3 DEF Echo

LEMMA OrderTakeControl ==
    ASSUME OrderInv, NEW d \in DevKit, TakeControl(d)
    PROVE  ControlOrder' /\ ViewBehindCache'
<1> USE DEF OrderInv
<1> DEFINE q == controlQueue[d]
<1>1. /\ UNCHANGED <<sent, cache, view>>
      /\ \A e \in DevKit : e # d => UNCHANGED <<controlQueue[e], phase[e], current[e]>>
      /\ current'[d] = Head(q) /\ controlQueue'[d] = Tail(q)
  <2>1. UNCHANGED <<sent, cache, view>>
    BY DEF TakeControl, simVars
  <2>2. /\ current' = [current EXCEPT ![d] = Head(q)]
        /\ controlQueue' = [controlQueue EXCEPT ![d] = Tail(q)]
        /\ phase' = [phase EXCEPT ![d] = "status"]
    BY DEF TakeControl
  <2> HIDE DEF q
  <2> QED
    BY <2>1, <2>2 DEF TypeOK, ControlType
<1>2. /\ Head(q) = q[1] /\ 1 \in 1..Len(q)
      /\ Len(Tail(q)) = Len(q) - 1
      /\ \A i \in 1..Len(Tail(q)) : i + 1 \in 1..Len(q) /\ Tail(q)[i] = q[i + 1]
  BY TailEntries, PendingTypes DEF TakeControl
<1>3. PendingInOrder(d)
  BY DEF ControlOrder
<1>4. /\ Len(q) \in Nat /\ \A i \in 1..Len(q) : q[i].id \in Nat
      /\ sent[d] \in Nat
  BY PendingTypes
<1> HIDE DEF q
<1>5. PendingInOrder(d)'
  <2>1. current'[d].id <= sent'[d]
    BY <1>1, <1>2, <1>3 DEF PendingInOrder, q
  <2>2. ASSUME NEW i \in 1..Len(Tail(q))
        PROVE  /\ current'[d].id < Tail(q)[i].id
               /\ Tail(q)[i].id <= sent'[d]
               /\ \A j \in 1..Len(Tail(q)) : i < j => Tail(q)[i].id < Tail(q)[j].id
    <3>1. i + 1 \in 1..Len(q) /\ Tail(q)[i] = q[i + 1] /\ 1 < i + 1
      BY <1>2
    <3>2. ASSUME NEW j \in 1..Len(Tail(q)), i < j PROVE Tail(q)[i].id < Tail(q)[j].id
      <4>1. j + 1 \in 1..Len(q) /\ Tail(q)[j] = q[j + 1] /\ i + 1 < j + 1
        BY <1>2, <3>2
      <4> QED
        BY <1>3, <3>1, <4>1 DEF PendingInOrder, q
    <3> QED
      BY <1>1, <1>2, <1>3, <3>1, <3>2 DEF PendingInOrder, q
  <2> QED
    BY <1>1, <2>1, <2>2 DEF PendingInOrder
<1>6. \A e \in DevKit : e # d => PendingInOrder(e)'
  BY <1>1 DEF ControlOrder, PendingInOrder
<1>7. ASSUME NEW e, Behind(e, d) PROVE e.by = d =>
        /\ e.id <= sent'[d] /\ e.id < current'[d].id
        /\ \A i \in 1..Len(controlQueue'[d]) : e.id < controlQueue'[d][i].id
  BY <1>1, <1>2, <1>7 DEF Behind, q
<1>8. \A v \in DevKit : Behind(cache[v], d)' /\ Behind(view[v], d)'
  BY <1>1, <1>7 DEF ControlOrder, Behind
<1>9. \A e \in DevKit, v \in DevKit :
        e # d => Behind(cache[v], e)' /\ Behind(view[v], e)'
  BY <1>1 DEF ControlOrder, Behind
<1> QED
  BY <1>1, <1>5, <1>6, <1>8, <1>9 DEF ControlOrder, ViewBehindCache

(* A merge puts the cache ahead of all the simulator has seen of the       *)
(* DevKit's controls, and leaves what others have in the cache alone.      *)
LEMMA OrderMerge ==
    ASSUME OrderInv, NEW d \in DevKit, Merge(d)
    PROVE  ControlOrder' /\ ViewBehindCache'
<1> USE RelayAssumption DEF OrderInv
<1>1. /\ UNCHANGED <<sent, controlQueue, current, view>>
      /\ phase[d] = "status" /\ phase'[d] = "frame"
      /\ \A e \in DevKit : e # d => phase'[e] = phase[e]
  BY DEF Merge, TypeOK, ControlType
<1>2. \A v \in DevKit : \/ cache'[v] = cache[v]
                        \/ cache'[v].by = d /\ cache'[v].id = current[d].id
  <2> DEFINE e == [by |-> d, id |-> current[d].id]
  <2>1. e.by = d /\ e.id = current[d].id
    OBVIOUS
  <2> HIDE DEF e
  <2>2. cache' = [v \in DevKit |->
                    IF v \in Rewritten(d, current[d].names) THEN e ELSE cache[v]]
    BY DEF Merge, e
  <2>3. \A v \in DevKit : cache'[v] = cache[v] \/ cache'[v] = e
    BY <2>2
  <2> QED
    BY <2>1, <2>3
<1>3. PendingInOrder(d) /\ \A e \in DevKit : PendingInOrder(e)'
  BY <1>1 DEF ControlOrder, PendingInOrder
<1>4. ASSUME NEW v \in DevKit, NEW e \in DevKit PROVE Behind(view[v], e)'
  BY <1>1 DEF ControlOrder, Behind
<1>5. ASSUME NEW v \in DevKit, NEW e \in DevKit PROVE Behind(cache[v], e)'
  <2>1. CASE cache'[v] = cache[v]
    BY <1>1, <2>1 DEF ControlOrder, Behind
  <2>2. CASE cache'[v].by = d /\ cache'[v].id = current[d].id
    BY <1>1, <1>3, <2>2 DEF PendingInOrder, Behind
  <2> QED
    BY <1>2, <2>1, <2>2
<1>6. ASSUME NEW v \in DevKit, view[v].by = cache'[v].by
      PROVE  view[v].id <= cache'[v].id
  <2>1. CASE cache'[v] = cache[v]
    BY <1>6, <2>1 DEF ViewBehindCache
  <2>2. CASE cache'[v].by = d /\ cache'[v].id = current[d].id
    <3>1. view[v].id < current[d].id
      BY <1>1, <1>6, <2>2 DEF ControlOrder, Behind
    <3>2. view[v].id \in Nat /\ current[d].id \in Nat
      BY PendingTypes
    <3> QED
      BY <2>2, <3>1, <3>2
  <2> QED
    BY <1>2, <2>1, <2>2
<1> QED
  BY <1>1, <1>3, <1>4, <1>5, <1>6 DEF ControlOrder, ViewBehindCache

LEMMA OrderWait ==
    ASSUME OrderInv, NEW d \in DevKit, AwaitFrame(d) \/ Answer(d)
    PROVE  ControlOrder' /\ ViewBehindCache'
<1> USE DEF OrderInv
<1>1. /\ UNCHANGED <<sent, controlQueue, cache, view>>
      /\ \A e \in DevKit : e # d => UNCHANGED <<phase[e], current[e]>>
      /\ phase'[d] # "status"
      /\ current'[d].id = current[d].id \/ current'[d].id = 0
  BY DEF AwaitFrame, Answer, simVars, NoControl, TypeOK, ControlType
<1>2. \A e \in DevKit : e # d => PendingInOrder(e)'
  BY <1>1 DEF ControlOrder, PendingInOrder
<1>3. PendingInOrder(d)'
  BY <1>1, PendingTypes DEF ControlOrder, PendingInOrder
<1>4. \A e \in DevKit, v \in DevKit : Behind(cache[v], e)' /\ Behind(view[v], e)'
  BY <1>1 DEF ControlOrder, Behind
<1> QED
  BY <1>1, <1>2, <1>3, <1>4 DEF ControlOrder, ViewBehindCache

(* A control received is numbered after everything else of that DevKit,    *)
(* and a put keeps the order of what it does not drop.                     *)
LEMMA OrderDevKitBridge ==
    ASSUME OrderInv, NEW d \in DevKit, NEW names \in Names, DevKitBridge(d, names)
    PROVE  ControlOrder' /\ ViewBehindCache'
<1> USE DEF OrderInv
<1> DEFINE q == controlQueue[d]
           c == [id |-> sent[d] + 1, time |-> clock, names |-> names,
                 session |-> session[d]]
           p == Put(q, c)
<1>1. /\ UNCHANGED <<phase, current, cache, view>>
      /\ \A e \in DevKit : e # d => UNCHANGED <<controlQueue[e], sent[e]>>
      /\ sent'[d] = sent[d] + 1 /\ controlQueue'[d] = p
  BY DEF DevKitBridge, simVars, TypeOK, ControlType
<1>2. c \in Control /\ c.id = sent[d] + 1
  BY RelayAssumption DEF Control, TypeOK, ControlType, LinkType
<1>3. /\ q \in Seq(Control) /\ Len(q) \in Nat /\ \A i \in 1..Len(q) : q[i].id \in Nat
      /\ sent[d] \in Nat /\ current[d].id \in Nat
  BY PendingTypes
<1> HIDE DEF c
<1>4. PICK k \in {0, 1} :
        /\ k <= Len(q)
        /\ Len(p) = Len(q) - k + 1
        /\ p[Len(q) - k + 1] = c
        /\ \A i \in 1..(Len(q) - k) : i + k \in 1..Len(q) /\ p[i] = q[i + k]
  BY <1>2, <1>3, PutEntries
<1> HIDE DEF p
<1>5. PendingInOrder(d)
  BY DEF ControlOrder
<1> HIDE DEF q
<1>6. ASSUME NEW i \in 1..Len(p)
      PROVE  \/ p[i].id = sent[d] + 1 /\ i = Len(p)
             \/ \E m \in 1..Len(q) : m = i + k /\ p[i] = q[m]
  <2>1. CASE i = Len(p)
    BY <1>2, <1>3, <1>4, <2>1
  <2>2. CASE i # Len(p)
    <3>1. i \in 1..(Len(q) - k)
      BY <1>3, <1>4, <2>2
    <3>2. i + k \in 1..Len(q) /\ p[i] = q[i + k]
      BY <1>4, <3>1
    <3> QED
      BY <3>2
  <2> QED
    BY <2>1, <2>2
<1>7. PendingInOrder(d)'
  <2>1. ASSUME NEW i \in 1..Len(p)
        PROVE  current[d].id < p[i].id /\ p[i].id <= sent[d] + 1
    <3>1. CASE p[i].id = sent[d] + 1
      BY <1>3, <1>5, <3>1 DEF PendingInOrder
    <3>2. CASE \E m \in 1..Len(q) : m = i + k /\ p[i] = q[m]
      <4>1. PICK m \in 1..Len(q) : p[i] = q[m]
        BY <3>2
      <4>2. current[d].id < q[m].id /\ q[m].id <= sent[d]
        BY <1>5 DEF PendingInOrder, q
      <4> QED
        BY <1>3, <4>1, <4>2
    <3> QED
      BY <1>6, <3>1, <3>2
  <2>2. ASSUME NEW i \in 1..Len(p), NEW j \in 1..Len(p), i < j
        PROVE  p[i].id < p[j].id
    <3>1. PICK m \in 1..Len(q) : m = i + k /\ p[i] = q[m]
      BY <1>3, <1>4, <1>6, <2>2
    <3>2. q[m].id <= sent[d] /\ q[m].id \in Nat
      BY <1>3, <1>5 DEF PendingInOrder, q
    <3>3. CASE p[j].id = sent[d] + 1
      BY <1>3, <3>1, <3>2, <3>3
    <3>4. CASE \E n \in 1..Len(q) : n = j + k /\ p[j] = q[n]
      BY <1>4, <1>5, <2>2, <3>1, <3>4 DEF PendingInOrder, q
    <3> QED
      BY <1>6, <3>3, <3>4
  <2>3. current[d].id <= sent[d] + 1
    BY <1>3, <1>5 DEF PendingInOrder
  <2> QED
    BY <1>1, <2>1, <2>2, <2>3 DEF PendingInOrder
<1>8. ASSUME NEW v \in DevKit, NEW e \in {cache[v], view[v]}, e.by = d
      PROVE  /\ e.id <= sent[d] + 1
             /\ phase[d] = "status" => e.id < current[d].id
             /\ \A i \in 1..Len(p) : e.id < p[i].id
  <2>1. e.id \in Nat /\ Behind(e, d)
    BY PendingTypes DEF ControlOrder
  <2>2. e.id <= sent[d] /\ \A m \in 1..Len(q) : e.id < q[m].id
    BY <1>8, <2>1 DEF Behind, q
  <2>3. phase[d] = "status" => e.id < current[d].id
    BY <1>8, <2>1 DEF Behind
  <2>4. ASSUME NEW i \in 1..Len(p) PROVE e.id < p[i].id
    <3>1. CASE p[i].id = sent[d] + 1
      <4>1. sent[d] \in Nat
        BY <1>3
      <4> QED
        BY <2>1, <2>2, <3>1, <4>1
    <3>2. CASE \E m \in 1..Len(q) : m = i + k /\ p[i] = q[m]
      BY <2>2, <3>2
    <3> QED
      BY <1>6, <3>1, <3>2
  <2> QED
    BY <1>3, <2>1, <2>2, <2>3, <2>4
<1>9. \A v \in DevKit : Behind(cache[v], d)' /\ Behind(view[v], d)'
  BY <1>1, <1>8 DEF Behind
<1>10. \A e \in DevKit, v \in DevKit :
         e # d => PendingInOrder(e)' /\ Behind(cache[v], e)' /\ Behind(view[v], e)'
  BY <1>1 DEF ControlOrder, PendingInOrder, Behind
<1> QED
  BY <1>1, <1>7, <1>9, <1>10 DEF ControlOrder, ViewBehindCache

LEMMA OrderStep == OrderInv /\ [Next]_vars => OrderInv'
<1> SUFFICES ASSUME OrderInv, [Next]_vars PROVE ControlOrder' /\ ViewBehindCache'
  BY TypeStep DEF OrderInv
<1>1. CASE Simulator
  <2>1. ASSUME NEW for \in Audiences, SimulatorBridge(for) \/ SimulatorEvent(for) \/ MonitorEvent(for)
        PROVE  UNCHANGED orderVars
    BY <2>1 DEF SimulatorBridge, SimulatorEvent, MonitorEvent, QueueEvent, controlVars,
              orderVars
  <2> QED
    BY <1>1, <2>1, OrderConnect, OrderDisconnect, OrderUnchanged DEF Simulator, OrderInv
<1>2. ASSUME NEW f \in 1..frames, Echo(f) PROVE ControlOrder' /\ ViewBehindCache'
  BY <1>2, OrderEcho
<1>3. ASSUME NEW d \in DevKit, Connection(d) \/ SendLoop(d)
      PROVE  ControlOrder' /\ ViewBehindCache'
  <2>1. UNCHANGED orderVars
    BY <1>3 DEF Connection, Connect, ConnectFails, OnConnect, Drop, SendLoop, SendNext,
                SendHeld, simVars, controlVars, orderVars
  <2> QED
    BY <2>1, OrderUnchanged DEF OrderInv
<1>4. ASSUME NEW d \in DevKit, ControlLoop(d) PROVE ControlOrder' /\ ViewBehindCache'
  BY <1>4, OrderTakeControl, OrderMerge, OrderWait DEF ControlLoop
<1>5. ASSUME NEW d \in DevKit, NEW names \in Names, DevKitBridge(d, names)
      PROVE  ControlOrder' /\ ViewBehindCache'
  BY <1>5, OrderDevKitBridge
<1>6. CASE Tick \/ MonitorStalls \/ MonitorReads \/ UNCHANGED vars
  <2>1. UNCHANGED orderVars
    BY <1>6 DEF Tick, MonitorStalls, MonitorReads, vars, simVars, controlVars, orderVars
  <2> QED
    BY <2>1, OrderUnchanged DEF OrderInv
<1> QED
  BY <1>1, <1>2, <1>3, <1>4, <1>5, <1>6 DEF Next

LEMMA OrderInvariant == Spec => []OrderInv
<1>1. Init => OrderInv
  BY TypeInit, OrderInit DEF OrderInv
<1>2. OrderInv /\ [Next]_vars => OrderInv'
  BY OrderStep
<1> QED
  BY <1>1, <1>2, PTL DEF Spec

(* The controls of each DevKit stay in the order of sending in its queue,  *)
(* in its loop and in the cache, for any number of DevKits, queue size and *)
(* names in the controls (server.py, DevKitConnection).                    *)
THEOREM ControlOrderHolds == Spec => []ControlOrder
<1>1. OrderInv => ControlOrder
  BY DEF OrderInv
<1> QED
  BY <1>1, OrderInvariant, PTL

(* What the simulator has seen of a DevKit is never ahead of the cache.    *)
THEOREM ViewNeverAhead == Spec => []ViewBehindCache
<1>1. OrderInv => ViewBehindCache
  BY DEF OrderInv
<1> QED
  BY <1>1, OrderInvariant, PTL

(* Only the simulator's connection and an echo change what it has seen.    *)
LEMMA ViewChanges ==
    ASSUME [Next]_vars
    PROVE  \/ view' = view
           \/ SimulatorConnect
           \/ view' = cache /\ cache' = cache
<1>1. CASE Simulator
  BY <1>1 DEF Simulator, SimulatorDisconnect, SimulatorBridge, SimulatorEvent,
              MonitorEvent, QueueEvent
<1>2. ASSUME NEW f \in 1..frames, Echo(f)
      PROVE  view' = view \/ (view' = cache /\ cache' = cache)
  BY <1>2 DEF Echo
<1>3. ASSUME NEW d \in DevKit, Connection(d) \/ SendLoop(d) PROVE view' = view
  BY <1>3 DEF Connection, Connect, ConnectFails, OnConnect, Drop, SendLoop, SendNext,
              SendHeld, simVars
<1>4. ASSUME NEW d \in DevKit, ControlLoop(d) PROVE view' = view
  BY <1>4 DEF ControlLoop, TakeControl, Merge, AwaitFrame, Answer, simVars
<1>5. ASSUME NEW d \in DevKit, NEW names \in Names, DevKitBridge(d, names)
      PROVE  view' = view
  BY <1>5 DEF DevKitBridge, simVars
<1>6. CASE Tick \/ MonitorStalls \/ MonitorReads \/ UNCHANGED vars
  BY <1>6 DEF Tick, MonitorStalls, MonitorReads, vars, simVars
<1> QED
  BY <1>1, <1>2, <1>3, <1>4, <1>5, <1>6 DEF Next

(* As long as a simulator stays connected, the control it has for a        *)
(* vehicle is never replaced by an older one of the same DevKit.           *)
THEOREM ControlsInOrder == Spec => ControlsReachSimulatorInOrder
<1> DEFINE Ordered == simulator /\ simulator' =>
             \A v \in DevKit : view'[v].by = view[v].by => view'[v].id >= view[v].id
<1>1. ASSUME OrderInv, [Next]_vars PROVE Ordered
  <2>1. \A v \in DevKit : view[v].id \in Nat
    BY <1>1, PendingTypes DEF OrderInv
  <2>2. CASE view' = view
    BY <2>1, <2>2
  <2>3. CASE SimulatorConnect
    BY <2>3 DEF SimulatorConnect
  <2>4. CASE view' = cache /\ cache' = cache
    BY <1>1, <2>1, <2>4, PendingTypes DEF OrderInv, ViewBehindCache
  <2> QED
    BY <1>1, <2>2, <2>3, <2>4, ViewChanges
<1>2. OrderInv /\ [Next]_vars => [Ordered]_vars
  BY <1>1
<1> QED
  BY <1>2, OrderInvariant, PTL DEF Spec, ControlsReachSimulatorInOrder

-----------------------------------------------------------------------------
(* The control path implements ControlRegister.                            *)

LEMMA MergeIsWrite ==
    ASSUME OrderInv, OrderInv', NEW d \in DevKit, Merge(d)
    PROVE  Register!Write(d)
<1>1. view' = view
  BY DEF Merge
<1>2. cache' \in [DevKit -> Register!Entry]
  BY DEF OrderInv, TypeOK, SimType, Entry, Register!Entry
<1> DEFINE e == [by |-> d, id |-> current[d].id]
<1>3. \A v \in DevKit : cache'[v] # cache[v] => cache'[v] = e
  BY DEF Merge
<1>4. \A u \in DevKit : cache[u].by = d => cache[u].id < e.id
  BY DEF Merge, OrderInv, ControlOrder, Behind
<1>5. e.by = d
  OBVIOUS
<1> HIDE DEF e
<1> QED
  BY <1>1, <1>2, <1>3, <1>4, <1>5 DEF Register!Write

LEMMA CacheChanges ==
    ASSUME [Next]_vars
    PROVE  cache' = cache \/ (\E d \in DevKit : Merge(d))
<1>1. CASE Simulator
  BY <1>1 DEF Simulator, SimulatorConnect, SimulatorDisconnect, SimulatorBridge,
              SimulatorEvent, MonitorEvent, QueueEvent
<1>2. ASSUME NEW f \in 1..frames, Echo(f) PROVE cache' = cache
  BY <1>2 DEF Echo
<1>3. ASSUME NEW d \in DevKit, Connection(d) \/ SendLoop(d) PROVE cache' = cache
  BY <1>3 DEF Connection, Connect, ConnectFails, OnConnect, Drop, SendLoop, SendNext,
              SendHeld, simVars
<1>4. ASSUME NEW d \in DevKit, ControlLoop(d) PROVE Merge(d) \/ cache' = cache
  BY <1>4 DEF ControlLoop, TakeControl, AwaitFrame, Answer, simVars
<1>5. ASSUME NEW d \in DevKit, NEW names \in Names, DevKitBridge(d, names)
      PROVE  cache' = cache
  BY <1>5 DEF DevKitBridge, simVars
<1>6. CASE Tick \/ MonitorStalls \/ MonitorReads \/ UNCHANGED vars
  BY <1>6 DEF Tick, MonitorStalls, MonitorReads, vars, simVars
<1> QED
  BY <1>1, <1>2, <1>3, <1>4, <1>5, <1>6 DEF Next

(* Every step of the relay is a read, a write or a new reader of the       *)
(* register, or does not touch it: the caches, queues, loops and           *)
(* connections between a DevKit and the simulator show only as a register. *)
THEOREM RegisterImplemented == Spec => ImplementsRegister
<1>1. Init => Register!Init
  BY DEF Init, DefaultCache, Register!Init, Register!Empty
<1>2. ASSUME OrderInv, OrderInv', [Next]_vars
      PROVE  [Register!Next]_<<cache, view>>
  <2>1. CASE \E d \in DevKit : Merge(d)
    BY <1>2, <2>1, MergeIsWrite DEF Register!Next
  <2>2. CASE cache' = cache /\ SimulatorConnect
    <3>1. Register!NewReader
      BY <2>2 DEF SimulatorConnect, DefaultCache, Register!NewReader, Register!Empty
    <3> QED
      BY <3>1 DEF Register!Next
  <2>3. CASE cache' = cache /\ view' = cache
    BY <2>3 DEF Register!Next, Register!Read
  <2>4. CASE cache' = cache /\ view' = view
    BY <2>4
  <2> QED
    BY <1>2, <2>1, <2>2, <2>3, <2>4, CacheChanges, ViewChanges
<1> QED
  BY <1>1, <1>2, OrderInvariant, PTL DEF Spec, ImplementsRegister, Register!Spec

-----------------------------------------------------------------------------
(* The last control wins, when every control names id 1 only, as those of  *)
(* a stock DevKit do.  A control queue that is not empty ends with the     *)
(* last control sent, whatever overflows; if it is empty, the loop has it. *)
LastPending(d) ==
    /\ controlQueue[d] # <<>> => controlQueue[d][Len(controlQueue[d])].id = sent[d]
    /\ (controlQueue[d] = <<>> /\ phase[d] = "status") => current[d].id = sent[d]
    /\ \A i \in 1..Len(controlQueue[d]) : controlQueue[d][i].names = {1}
    /\ phase[d] = "status" => current[d].names = {1}

Landed(d) ==
    controlQueue[d] = <<>> /\ phase[d] # "status" /\ sent[d] # 0 /\ cancelled[d] # sent[d]
      => cache[d].by = d /\ cache[d].id = sent[d]

LastInv == TypeOK /\ \A d \in DevKit : LastPending(d) /\ Landed(d)

LEMMA LastUnchanged ==
    (\A d \in DevKit : LastPending(d) /\ Landed(d)) /\ UNCHANGED <<controlVars, cache>>
      => \A d \in DevKit : LastPending(d)' /\ Landed(d)'
  BY DEF controlVars, LastPending, Landed

(* What one DevKit's control loop does leaves the others' state alone.     *)
LEMMA LastOthers ==
    ASSUME LastInv, NEW d \in DevKit, NEW e \in DevKit,
           UNCHANGED <<controlQueue[e], sent[e], phase[e], current[e], cancelled[e],
                       cache[e]>>
    PROVE  LastPending(e)' /\ Landed(e)'
  BY DEF LastInv, LastPending, Landed

LEMMA LastDisconnect ==
    ASSUME LastInv, SimulatorDisconnect, NEW d \in DevKit
    PROVE  LastPending(d)' /\ Landed(d)'
<1>1. /\ UNCHANGED <<controlQueue[d], sent[d], cache[d]>>
      /\ phase'[d] = "idle"
      /\ phase[d] = "status" => cancelled'[d] = current[d].id
      /\ phase[d] # "status" => cancelled'[d] = cancelled[d]
  BY DEF SimulatorDisconnect
<1>2. LastPending(d) /\ Landed(d)
  BY DEF LastInv
<1> QED
  BY <1>1, <1>2 DEF LastPending, Landed

LEMMA LastTakeControl ==
    ASSUME LastInv, NEW d \in DevKit, TakeControl(d)
    PROVE  LastPending(d)' /\ Landed(d)'
<1> DEFINE q == controlQueue[d]
<1>1. /\ current' = [current EXCEPT ![d] = Head(q)]
      /\ controlQueue' = [controlQueue EXCEPT ![d] = Tail(q)]
      /\ phase' = [phase EXCEPT ![d] = "status"]
      /\ sent' = sent /\ q # <<>>
  BY DEF TakeControl
<1>2. /\ q \in Seq(Control) /\ Len(q) \in Nat
  BY PendingTypes DEF LastInv
<1>3. /\ Head(q) = q[1] /\ 1 \in 1..Len(q)
      /\ Tail(q) \in Seq(Control)
      /\ Len(Tail(q)) = Len(q) - 1
      /\ \A i \in 1..Len(Tail(q)) : i + 1 \in 1..Len(q) /\ Tail(q)[i] = q[i + 1]
  BY <1>1, <1>2, TailEntries
<1>4. /\ q[Len(q)].id = sent[d]
      /\ \A i \in 1..Len(q) : q[i].names = {1}
  BY <1>1 DEF LastInv, LastPending
<1> HIDE DEF q
<1>5. current'[d] = q[1] /\ controlQueue'[d] = Tail(q) /\ phase'[d] = "status"
  BY <1>1, <1>3 DEF LastInv, TypeOK, ControlType
<1>6. Tail(q) = <<>> => q[1].id = sent[d]
  <2> SUFFICES ASSUME Tail(q) = <<>> PROVE Len(q) = 1
    BY <1>4
  <2>1. Len(<<>>) = 0
    OBVIOUS
  <2>2. Len(Tail(q)) = Len(<<>>)
    BY Zenon
  <2> QED
    BY <1>2, <1>3, <2>1, <2>2
<1>7. Tail(q) # <<>> => Tail(q)[Len(Tail(q))].id = sent[d]
  <2> SUFFICES ASSUME Tail(q) # <<>> PROVE Tail(q)[Len(Tail(q))].id = sent[d]
    OBVIOUS
  <2>1. Len(Tail(q)) # 0
    BY <1>3
  <2>2. Len(Tail(q)) \in 1..Len(Tail(q)) /\ Len(Tail(q)) + 1 = Len(q)
    BY <1>2, <1>3, <2>1
  <2> QED
    BY <1>3, <1>4, <2>2
<1>8. \A i \in 1..Len(Tail(q)) : Tail(q)[i].names = {1}
  BY <1>3, <1>4
<1> QED
  BY <1>1, <1>3, <1>4, <1>5, <1>6, <1>7, <1>8 DEF LastPending, Landed

LEMMA LastMerge ==
    ASSUME LastInv, NEW d \in DevKit, Merge(d), NEW e \in DevKit
    PROVE  LastPending(e)' /\ Landed(e)'
<1> DEFINE c == [by |-> d, id |-> current[d].id]
<1>1. LastPending(d) /\ LastPending(e) /\ Landed(e)
  BY DEF LastInv
<1>2. /\ UNCHANGED <<controlQueue, sent, current, cancelled>>
      /\ phase' = [phase EXCEPT ![d] = "frame"] /\ phase[d] = "status"
      /\ cache' = [v \in DevKit |->
                     IF v \in Rewritten(d, current[d].names) THEN c ELSE cache[v]]
  BY DEF Merge
<1>3. Rewritten(d, current[d].names) = {d}
  BY <1>1, <1>2 DEF Rewritten, LastPending
<1>4. c.by = d /\ c.id = current[d].id
  OBVIOUS
<1> HIDE DEF c
<1>5. phase'[d] = "frame" /\ (e # d => phase'[e] = phase[e])
  BY <1>2 DEF LastInv, TypeOK, ControlType
<1>6. cache'[d] = c /\ (e # d => cache'[e] = cache[e])
  BY <1>2, <1>3
<1>7. CASE e = d
  BY <1>1, <1>2, <1>4, <1>5, <1>6, <1>7 DEF LastPending, Landed
<1>8. CASE e # d
  BY <1>1, <1>2, <1>5, <1>6, <1>8 DEF LastPending, Landed
<1> QED
  BY <1>7, <1>8

LEMMA LastWait ==
    ASSUME LastInv, NEW d \in DevKit, AwaitFrame(d) \/ Answer(d)
    PROVE  LastPending(d)' /\ Landed(d)'
<1>1. /\ UNCHANGED <<controlQueue, sent, cancelled, cache>>
      /\ phase[d] # "status" /\ phase'[d] # "status"
  BY DEF AwaitFrame, Answer, simVars, LastInv, TypeOK, ControlType
<1> QED
  BY <1>1 DEF LastInv, LastPending, Landed

LEMMA LastDevKitBridge ==
    ASSUME LastInv, NEW d \in DevKit, NEW names \in Names, names = {1},
           DevKitBridge(d, names)
    PROVE  LastPending(d)' /\ Landed(d)'
<1> DEFINE q == controlQueue[d]
           c == [id |-> sent[d] + 1, time |-> clock, names |-> names,
                 session |-> session[d]]
           p == Put(q, c)
<1>1. /\ sent' = [sent EXCEPT ![d] = @ + 1]
      /\ controlQueue' = [controlQueue EXCEPT ![d] = p]
      /\ UNCHANGED <<phase, current>>
  BY DEF DevKitBridge
<1>2. c \in Control /\ c.id = sent[d] + 1 /\ c.names = {1}
  BY RelayAssumption DEF Control, LastInv, TypeOK, ControlType, LinkType
<1> HIDE DEF c
<1>3. q \in Seq(Control) /\ Len(q) \in Nat
  BY PendingTypes DEF LastInv
<1>4. PICK k \in {0, 1} :
        /\ k <= Len(q)
        /\ Len(p) = Len(q) - k + 1
        /\ p[Len(q) - k + 1] = c
        /\ \A i \in 1..(Len(q) - k) : i + k \in 1..Len(q) /\ p[i] = q[i + k]
  BY <1>2, <1>3, PutEntries
<1> HIDE DEF p
<1>5. /\ \A i \in 1..Len(q) : q[i].names = {1}
      /\ phase[d] = "status" => current[d].names = {1}
  BY DEF LastInv, LastPending
<1> HIDE DEF q
<1>6. sent'[d] = sent[d] + 1 /\ controlQueue'[d] = p
  BY <1>1 DEF LastInv, TypeOK, ControlType
<1>7. p[Len(p)].id = sent[d] + 1 /\ Len(p) # 0
  BY <1>2, <1>3, <1>4
<1>8. p # <<>>
  BY <1>7
<1>9. ASSUME NEW i \in 1..Len(p) PROVE p[i].names = {1}
  <2>1. CASE i = Len(p)
    BY <1>2, <1>4, <2>1
  <2>2. CASE i # Len(p)
    <3>1. i \in 1..(Len(q) - k)
      BY <1>3, <1>4, <2>2
    <3> QED
      BY <1>4, <1>5, <3>1
  <2> QED
    BY <2>1, <2>2
<1> QED
  BY <1>1, <1>5, <1>6, <1>7, <1>8, <1>9 DEF LastPending, Landed

LEMMA LastStep == ASSUME Names = {{1}}, LastInv, [Next]_vars PROVE LastInv'
<1> SUFFICES ASSUME NEW e \in DevKit PROVE LastPending(e)' /\ Landed(e)'
  BY TypeStep DEF LastInv
<1> DEFINE same == UNCHANGED <<controlVars, cache>>
<1>1. CASE same
  BY <1>1, LastUnchanged DEF LastInv
<1> HIDE DEF same
<1>2. CASE Simulator
  <2>1. SimulatorDisconnect \/ same
    BY <1>2 DEF Simulator, SimulatorConnect, SimulatorBridge, SimulatorEvent,
                 MonitorEvent, QueueEvent, same
  <2> QED
    BY <1>1, <2>1, LastDisconnect
<1>3. ASSUME NEW f \in 1..frames, Echo(f) PROVE same
  BY <1>3 DEF Echo, same
<1>4. ASSUME NEW d \in DevKit, Connection(d) \/ SendLoop(d) PROVE same
  BY <1>4 DEF Connection, Connect, ConnectFails, OnConnect, Drop, SendLoop, SendNext,
              SendHeld, simVars, same
<1>5. ASSUME NEW d \in DevKit, Merge(d) PROVE LastPending(e)' /\ Landed(e)'
  BY <1>5, LastMerge
<1>6. ASSUME NEW d \in DevKit, TakeControl(d) \/ AwaitFrame(d) \/ Answer(d)
      PROVE  LastPending(e)' /\ Landed(e)'
  <2>1. e # d => UNCHANGED <<controlQueue[e], sent[e], phase[e], current[e],
                              cancelled[e], cache[e]>>
    BY <1>6 DEF TakeControl, AwaitFrame, Answer, simVars, LastInv, TypeOK, ControlType
  <2> QED
    BY <1>6, <2>1, LastOthers, LastTakeControl, LastWait
<1>7. ASSUME NEW d \in DevKit, NEW names \in Names, DevKitBridge(d, names)
      PROVE  LastPending(e)' /\ Landed(e)'
  <2>1. e # d => UNCHANGED <<controlQueue[e], sent[e], phase[e], current[e],
                              cancelled[e], cache[e]>>
    BY <1>7 DEF DevKitBridge, simVars, LastInv, TypeOK, ControlType
  <2>2. names = {1}
    OBVIOUS
  <2> QED
    BY <1>7, <2>1, <2>2, LastOthers, LastDevKitBridge
<1>8. CASE Tick \/ MonitorStalls \/ MonitorReads \/ UNCHANGED vars
  <2>1. same
    BY <1>8 DEF Tick, MonitorStalls, MonitorReads, vars, simVars, same
  <2> QED
    BY <1>1, <2>1
<1> QED
  BY <1>1, <1>2, <1>3, <1>4, <1>5, <1>6, <1>7, <1>8 DEF Next, ControlLoop

(* Overflow of the control queue never loses the last control of a DevKit: *)
(* unless stop() cancelled it, that control is in force for its vehicle    *)
(* once the loop has nothing left to merge.                                *)
THEOREM LastControlInForce == ASSUME Names = {{1}} PROVE Spec => []LastControlWins
<1>1. Init => LastInv
  <2> SUFFICES ASSUME Init, NEW d \in DevKit PROVE LastPending(d) /\ Landed(d)
    BY TypeInit DEF LastInv
  <2> QED
    BY DEF Init, LastPending, Landed
<1>2. LastInv /\ [Next]_vars => LastInv'
  BY LastStep
<1>3. LastInv => LastControlWins
  <2> SUFFICES ASSUME LastInv, NEW d \in DevKit,
                      controlQueue[d] = <<>> /\ phase[d] # "status",
                      sent[d] # 0 /\ cancelled[d] # sent[d]
               PROVE  cache[d] = [by |-> d, id |-> sent[d]]
    BY DEF LastControlWins
  <2>1. cache[d].by = d /\ cache[d].id = sent[d]
    BY DEF LastInv, Landed
  <2>2. cache[d] \in Entry
    BY DEF LastInv, TypeOK, SimType
  <2> QED
    BY <2>1, <2>2 DEF Entry
<1> QED
  BY <1>1, <1>2, <1>3, PTL DEF Spec

-----------------------------------------------------------------------------
(* The initial frame.                                                      *)
FrameInv ==
    /\ TypeOK
    /\ \A r \in history : r.id # 0
    /\ simulator \/ \A d \in DevKit : ~link[d]
    /\ InitialFrameNotLost

Supplied(d) ==
    awaiting[d] \/ HasFrame(queue[d]) \/ HasFrame(held[d]) \/ served[d] \/ displaced[d]

FrameKept(d) == link[d] /\ connected[d] /\ ~greeting[d] /\ ~failed[d] => Supplied(d)

(* A frame that is put is in the queue, and stays there until it is at the *)
(* head of a full queue, or is taken.                                      *)
LEMMA PutFrame ==
    ASSUME NEW q \in Seq(OutboundItem), NEW item \in OutboundItem, item.frame # 0
    PROVE  HasFrame(Put(q, item))
<1>1. PICK k \in {0, 1} : /\ k <= Len(q)
                          /\ Len(Put(q, item)) = Len(q) - k + 1
                          /\ Put(q, item)[Len(q) - k + 1] = item
  BY PutEntries
<1> QED
  BY <1>1 DEF HasFrame

LEMMA TakeFrame ==
    ASSUME NEW q \in Seq(OutboundItem), q # <<>>, HasFrame(q)
    PROVE  HasFrame(Tail(q)) \/ Head(q).frame # 0
<1>1. PICK i \in 1..Len(q) : q[i].frame # 0
  BY DEF HasFrame
<1>2. CASE i = 1
  BY <1>1, <1>2, TailEntries
<1>3. CASE i # 1
  <2>1. i - 1 \in 1..Len(Tail(q)) /\ Tail(q)[i - 1] = q[i - 1 + 1] /\ i - 1 + 1 = i
    BY <1>3, TailEntries
  <2> QED
    BY <1>1, <2>1 DEF HasFrame
<1> QED
  BY <1>2, <1>3

LEMMA FrameIds == ASSUME FrameInv, [Next]_vars PROVE (\A r \in history : r.id # 0)'
<1> USE DEF FrameInv
<1>1. \/ history' = history
      \/ history' = Prune(history)
      \/ \E for \in Audiences :
           history' = Prune(history) \cup {[id |-> frames + 1, time |-> clock, for |-> for]}
  <2>1. CASE Simulator
    BY <2>1 DEF Simulator, SimulatorConnect, SimulatorDisconnect, SimulatorBridge,
                SimulatorEvent, MonitorEvent, QueueEvent
  <2>2. ASSUME NEW f \in 1..frames, Echo(f) PROVE history' = history
    BY <2>2 DEF Echo
  <2>3. ASSUME NEW d \in DevKit, Connection(d)
        PROVE  history' = history \/ history' = Prune(history)
    BY <2>3 DEF Connection, Connect, ConnectFails, OnConnect, Drop, simVars
  <2>4. ASSUME NEW d \in DevKit, SendLoop(d) PROVE history' = history
    BY <2>4 DEF SendLoop, SendNext, SendHeld, simVars
  <2>5. ASSUME NEW d \in DevKit, ControlLoop(d)
        PROVE  history' = history \/ history' = Prune(history)
    BY <2>5 DEF ControlLoop, TakeControl, Merge, AwaitFrame, Answer, simVars
  <2>6. ASSUME NEW d \in DevKit, NEW names \in Names, DevKitBridge(d, names)
        PROVE  history' = history
    BY <2>6 DEF DevKitBridge, simVars
  <2>7. CASE Tick \/ MonitorStalls \/ MonitorReads \/ UNCHANGED vars
    BY <2>7 DEF Tick, MonitorStalls, MonitorReads, vars, simVars
  <2> QED
    BY <2>1, <2>2, <2>3, <2>4, <2>5, <2>6, <2>7 DEF Next
<1>2. frames + 1 # 0
  BY DEF TypeOK, SimType
<1> QED
  BY <1>1, <1>2 DEF Prune

(* DevKits are only connected while there is a simulator.                  *)
LEMMA LinksNeedSimulator ==
    ASSUME FrameInv, [Next]_vars PROVE (simulator \/ \A d \in DevKit : ~link[d])'
<1> USE DEF FrameInv, TypeOK, LinkType
<1>1. CASE Simulator
  BY <1>1 DEF Simulator, SimulatorConnect, SimulatorDisconnect, SimulatorBridge,
              SimulatorEvent, MonitorEvent, QueueEvent, linkVars
<1>2. ASSUME NEW d \in DevKit, Connection(d)
      PROVE  (simulator \/ \A e \in DevKit : ~link[e])'
  BY <1>2 DEF Connection, Connect, ConnectFails, OnConnect, Drop, simVars
<1>3. CASE UNCHANGED <<simulator, link>>
  BY <1>3
<1>4. ASSUME NEW d \in DevKit,
             SendLoop(d) \/ ControlLoop(d) \/ \E names \in Names : DevKitBridge(d, names)
      PROVE  UNCHANGED <<simulator, link>>
  BY <1>4 DEF SendLoop, SendNext, SendHeld, ControlLoop, TakeControl, Merge, AwaitFrame,
              Answer, DevKitBridge, simVars, linkVars
<1>5. CASE (\E f \in 1..frames : Echo(f)) \/ Tick \/ MonitorStalls \/ MonitorReads
           \/ UNCHANGED vars
  BY <1>3, <1>5 DEF Echo, Tick, MonitorStalls, MonitorReads, vars, simVars, linkVars
<1> QED
  BY <1>1, <1>2, <1>3, <1>4, <1>5 DEF Next

(* The handler of a frame: a DevKit stops being owed one when it gets it.  *)
LEMMA FrameBridge ==
    ASSUME FrameInv, NEW for \in Audiences, SimulatorBridge(for), NEW d \in DevKit
    PROVE  FrameKept(d)'
<1> DEFINE r == [id |-> frames + 1, time |-> clock, for |-> for]
           owed == d \in Owed(r)
<1>1. /\ queue' = [e \in DevKit |-> IF e \in Owed(r) THEN Put(queue[e], Item(e, r))
                                                     ELSE queue[e]]
      /\ awaiting' = [e \in DevKit |-> awaiting[e] /\ e \notin Owed(r)]
      /\ UNCHANGED <<link, connected, greeting, held, failed, served, displaced>>
  BY DEF SimulatorBridge
<1>2. Item(d, r) \in OutboundItem /\ Item(d, r).frame # 0
  BY DEF FrameInv, TypeOK, SimType, Item, OutboundItem
<1> HIDE DEF r
<1>3. CASE owed
  <2>1. queue'[d] = Put(queue[d], Item(d, r))
    BY <1>1, <1>3
  <2>2. queue[d] \in Seq(OutboundItem)
    BY DEF FrameInv, TypeOK, SendType
  <2>3. HasFrame(Put(queue[d], Item(d, r)))
    BY <1>2, <2>2, PutFrame
  <2>4. HasFrame(queue[d])'
    BY <2>1, <2>3 DEF HasFrame
  <2> QED
    BY <2>4 DEF FrameKept, Supplied
<1>4. CASE ~owed
  <2>1. queue'[d] = queue[d]
    BY <1>1, <1>4
  <2>2. awaiting[d] => awaiting'[d]
    BY <1>1, <1>4
  <2>3. FrameKept(d)
    BY DEF FrameInv, InitialFrameNotLost, FrameKept, Supplied
  <2> QED
    BY <1>1, <2>1, <2>2, <2>3 DEF FrameKept, Supplied, HasFrame
<1> QED
  BY <1>3, <1>4

(* on_connect: the latest frame, or owed the next one.                     *)
LEMMA FrameOnConnect ==
    ASSUME FrameInv, NEW d \in DevKit, OnConnect(d)
    PROVE  FrameKept(d)'
<1> DEFINE greets == {r \in Newest(Prune(history)) : Queued(d, r)}
<1>1. CASE greets = {}
  <2>1. awaiting' = [awaiting EXCEPT ![d] = TRUE]
    BY <1>1 DEF OnConnect, StillOwed
  <2>2. awaiting'[d]
    BY <2>1 DEF FrameInv, TypeOK, LinkType
  <2> QED
    BY <2>2 DEF FrameKept, Supplied
<1>2. CASE greets # {}
  <2>1. PICK r \in greets : queue' = [queue EXCEPT ![d] = Put(@, Item(d, r))]
    BY <1>2 DEF OnConnect
  <2>2. r \in Record /\ r.id # 0
    BY <2>1 DEF FrameInv, Newest, Prune, TypeOK, SimType
  <2>3. Item(d, r) \in OutboundItem /\ Item(d, r).frame # 0
    BY <2>2 DEF Item, OutboundItem, Record
  <2>4. queue[d] \in Seq(OutboundItem) /\ queue'[d] = Put(queue[d], Item(d, r))
    BY <2>1 DEF FrameInv, TypeOK, SendType
  <2>5. HasFrame(Put(queue[d], Item(d, r)))
    BY <2>3, <2>4, PutFrame
  <2>6. HasFrame(queue[d])'
    BY <2>4, <2>5 DEF HasFrame
  <2> QED
    BY <2>6 DEF FrameKept, Supplied
<1> QED
  BY <1>1, <1>2

(* The control loop's frame.                                               *)
LEMMA FrameAnswer ==
    ASSUME FrameInv, NEW d \in DevKit, Answer(d)
    PROVE  FrameKept(d)'
<1>1. PICK r \in Oldest(After(Prune(history), current[d].time)) :
        queue' = [queue EXCEPT ![d] = Put(@, Item(d, r))] \/ queue' = queue
  BY DEF Answer
<1>2. r \in Record /\ r.id # 0
  BY <1>1 DEF FrameInv, Oldest, After, Prune, TypeOK, SimType
<1>3. Item(d, r) \in OutboundItem /\ Item(d, r).frame # 0
  BY <1>2 DEF Item, OutboundItem, Record
<1>4. /\ queue[d] \in Seq(OutboundItem)
      /\ queue'[d] = Put(queue[d], Item(d, r)) \/ queue'[d] = queue[d]
  BY <1>1 DEF FrameInv, TypeOK, SendType
<1>5. HasFrame(Put(queue[d], Item(d, r)))
  BY <1>3, <1>4, PutFrame
<1>6. HasFrame(queue[d]) => HasFrame(queue[d])'
  BY <1>4, <1>5 DEF HasFrame
<1>7. UNCHANGED <<link, connected, greeting, awaiting, held, failed, served, displaced>>
  BY DEF Answer, linkVars
<1>8. FrameKept(d)
  BY DEF FrameInv, InitialFrameNotLost, FrameKept, Supplied
<1> QED
  BY <1>6, <1>7, <1>8 DEF FrameKept, Supplied, HasFrame

(* Another event pushes the frame out of the queue only on record.         *)
LEMMA FrameEvent ==
    ASSUME FrameInv, NEW for \in Audiences, QueueEvent(for), NEW d \in DevKit
    PROVE  FrameKept(d)'
<1>1. /\ queue' = [e \in DevKit |-> IF e \in for THEN Put(queue[e], OtherEvent)
                                                ELSE queue[e]]
      /\ displaced' = [e \in DevKit |->
                         displaced[e] \/ (e \in for /\ HasFrame(queue[e])
                                          /\ ~HasFrame(Put(queue[e], OtherEvent)))]
      /\ UNCHANGED <<link, connected, greeting, awaiting, held, failed, served>>
  BY DEF QueueEvent, linkVars
<1>2. PICK q : q = IF d \in for THEN Put(queue[d], OtherEvent) ELSE queue[d]
  OBVIOUS
<1>3. /\ queue'[d] = q
      /\ displaced'[d] <=> displaced[d] \/ (HasFrame(queue[d]) /\ ~HasFrame(q))
  BY <1>1, <1>2
<1>4. FrameKept(d)
  BY DEF FrameInv, InitialFrameNotLost, FrameKept, Supplied
<1>5. HasFrame(queue[d])' <=> HasFrame(q)
  BY <1>3 DEF HasFrame
<1>6. HasFrame(held[d])' <=> HasFrame(held[d])
  BY <1>1 DEF HasFrame
<1> QED
  BY <1>1, <1>3, <1>4, <1>5, <1>6 DEF FrameKept, Supplied

(* The send loop: a frame it takes is held, sent, or ends the loop.        *)
LEMMA FrameSend ==
    ASSUME FrameInv, NEW d \in DevKit, SendLoop(d)
    PROVE  FrameKept(d)'
<1> USE DEF FrameInv, TypeOK, SendType
<1>0. UNCHANGED <<link, connected, greeting, awaiting, displaced>> /\ ~failed[d]
  BY DEF SendLoop, SendNext, SendHeld, linkVars
<1>1. FrameKept(d) /\ queue[d] \in Seq(OutboundItem) /\ held[d] \in Seq(OutboundItem)
  BY DEF InitialFrameNotLost, FrameKept, Supplied
<1>2. ASSUME NEW item \in OutboundItem, Emit(d, item), item.frame # 0
      PROVE  failed'[d] \/ served'[d]
  BY <1>2 DEF Emit, OutboundItem
<1>3. ASSUME NEW item \in OutboundItem, Emit(d, item), served[d] PROVE served'[d]
  BY <1>3 DEF Emit
<1>4. CASE SendNext(d)
  <2>1. queue[d] # <<>> /\ queue'[d] = Tail(queue[d]) /\ Head(queue[d]) \in OutboundItem
    BY <1>1, <1>4, TailEntries DEF SendNext
  <2>2. HasFrame(queue[d]) => HasFrame(queue[d])' \/ Head(queue[d]).frame # 0
    BY <1>1, <2>1, TakeFrame DEF HasFrame
  <2>3. CASE link[d]
    <3>1. Emit(d, Head(queue[d])) /\ HasFrame(held[d]) = HasFrame(held[d])'
      BY <1>4, <2>3 DEF SendNext, HasFrame
    <3> QED
      BY <1>0, <1>1, <1>2, <1>3, <2>1, <2>2, <3>1 DEF FrameKept, Supplied
  <2>4. CASE ~link[d]
    BY <1>0, <2>4 DEF FrameKept
  <2> QED
    BY <2>3, <2>4
<1>5. CASE SendHeld(d)
  <2>0. held[d] # <<>> /\ held'[d] = <<>> /\ Emit(d, Head(held[d])) /\ Len(held[d]) <= 1
    BY <1>5 DEF SendHeld
  <2>1. /\ Len(held[d]) = 1 /\ Head(held[d]) = held[d][1]
        /\ Head(held[d]) \in OutboundItem
    BY <1>1, <2>0, OneEntry
  <2>2. HasFrame(held[d]) => Head(held[d]).frame # 0
    BY <2>1 DEF HasFrame
  <2>3. HasFrame(queue[d]) = HasFrame(queue[d])'
    BY <1>5 DEF SendHeld, HasFrame
  <2> QED
    BY <1>0, <1>1, <1>2, <1>3, <2>0, <2>1, <2>2, <2>3 DEF FrameKept, Supplied
<1> QED
  BY <1>4, <1>5 DEF SendLoop

LEMMA FrameStep == ASSUME FrameInv, [Next]_vars PROVE FrameInv'
<1> SUFFICES ASSUME NEW e \in DevKit PROVE FrameKept(e)'
  BY TypeStep, FrameIds, LinksNeedSimulator DEF FrameInv, InitialFrameNotLost, FrameKept,
     Supplied
<1> DEFINE same(d) == UNCHANGED <<link[d], connected[d], greeting[d], failed[d], awaiting[d],
                                  queue[d], held[d], served[d], displaced[d]>>
<1>1. CASE same(e)
  BY <1>1 DEF FrameInv, InitialFrameNotLost, FrameKept, Supplied, HasFrame
<1> HIDE DEF same
<1>2. CASE Simulator
  <2>1. CASE SimulatorDisconnect
    BY <2>1 DEF SimulatorDisconnect, FrameKept
  <2>2. CASE SimulatorConnect
    BY <2>2 DEF SimulatorConnect, linkVars, FrameInv, FrameKept
  <2>3. ASSUME NEW for \in Audiences, SimulatorEvent(for) \/ MonitorEvent(for)
        PROVE  QueueEvent(for)
    BY <2>3 DEF SimulatorEvent, MonitorEvent
  <2> QED
    BY <1>2, <2>1, <2>2, <2>3, FrameBridge, FrameEvent DEF Simulator
<1>3. ASSUME NEW d \in DevKit, Connection(d) PROVE FrameKept(e)'
  <2>1. CASE d # e
    <3>1. same(e)
      BY <1>3, <2>1 DEF Connection, Connect, ConnectFails, OnConnect, Drop, linkVars,
                        sendVars, same, FrameInv, TypeOK, LinkType, SendType
    <3> QED
      BY <1>1, <3>1
  <2>2. CASE d = e
    <3>1. CASE Connect(d)
      BY <2>2, <3>1 DEF Connect, FrameKept, FrameInv, TypeOK, LinkType
    <3>2. CASE ConnectFails(d) \/ Drop(d)
      BY <2>2, <3>2 DEF ConnectFails, Drop, FrameKept, FrameInv, TypeOK, LinkType
    <3> QED
      BY <1>3, <2>2, <3>1, <3>2, FrameOnConnect DEF Connection
  <2> QED
    BY <2>1, <2>2
<1>4. ASSUME NEW d \in DevKit, Answer(d) \/ SendLoop(d) PROVE FrameKept(e)'
  <2>1. CASE d # e
    <3>1. same(e)
      BY <1>4, <2>1 DEF Answer, SendLoop, SendNext, SendHeld, Emit, linkVars, same, FrameInv,
                        TypeOK, SendType
    <3> QED
      BY <1>1, <3>1
  <2> QED
    BY <1>4, <2>1, FrameAnswer, FrameSend
<1>5. ASSUME NEW d \in DevKit, TakeControl(d) \/ Merge(d) \/ AwaitFrame(d)
      PROVE  same(e)
  BY <1>5 DEF TakeControl, Merge, AwaitFrame, linkVars, sendVars, same
<1>6. ASSUME NEW d \in DevKit, NEW names \in Names, DevKitBridge(d, names) PROVE same(e)
  BY <1>6 DEF DevKitBridge, linkVars, sendVars, same
<1>7. ASSUME NEW f \in 1..frames, Echo(f) PROVE same(e)
  BY <1>7 DEF Echo, linkVars, sendVars, same
<1>8. CASE Tick \/ MonitorStalls \/ MonitorReads \/ UNCHANGED vars
  <2>1. same(e)
    BY <1>8 DEF Tick, MonitorStalls, MonitorReads, vars, linkVars, sendVars, same
  <2> QED
    BY <1>1, <2>1
<1> QED
  BY <1>1, <1>2, <1>3, <1>4, <1>5, <1>6, <1>7, <1>8 DEF Next, ControlLoop

(* A connected DevKit is owed its initial frame, has one on its way, or    *)
(* was sent one, whatever the queue size, the retention and the presplit   *)
(* setting, but for a frame that another event pushed out of a full queue  *)
(* (server.py, on_connect, handle_simulator_bridge_event and enqueue).     *)
THEOREM InitialFrameKept == Spec => []InitialFrameNotLost
<1>1. Init => FrameInv
  BY TypeInit DEF Init, FrameInv, InitialFrameNotLost
<1>2. FrameInv /\ [Next]_vars => FrameInv'
  BY FrameStep
<1>3. FrameInv => InitialFrameNotLost
  BY DEF FrameInv
<1> QED
  BY <1>1, <1>2, <1>3, PTL DEF Spec
=============================================================================
