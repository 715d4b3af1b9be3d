------------------------- MODULE FrameOrder_proofs -------------------------
(***************************************************************************)
(* The theorem that the frames queued for a DevKit of BridgeRelay never go *)
(* back in time, whichever of the two tasks queues them.                   *)
(***************************************************************************)
EXTENDS BridgeRelay_proofs

(* The controls of d whose answer is still to come, and those of the       *)
(* present session among them.                                             *)
Unanswered(d) ==
    {controlQueue[d][i] : i \in 1..Len(controlQueue[d])}
      \cup {c \in {current[d]} : phase[d] # "idle"}
Live(d) == {c \in Unanswered(d) : c.session = session[d]}

(* Frames are in the history in the order of their time stamps, and the    *)
(* last one is there as long as any is.                                    *)
HistoryInOrder ==
    /\ \A r \in history : r.id <= frames /\ r.time <= clock
    /\ \A r, s \in history : r.id <= s.id => r.time <= s.time
    /\ history # {} => \E r \in history : r.id = frames

(* Controls are answered in the order of their time stamps.                *)
AnswersInOrder(d) ==
    \A i \in 1..Len(controlQueue[d]) :
        /\ phase[d] # "idle" => current[d].time <= controlQueue[d][i].time
        /\ \A j \in 1..Len(controlQueue[d]) :
             i < j => controlQueue[d][i].time <= controlQueue[d][j].time

(* A frame that may answer a live control of d is no older than what d was *)
(* queued, and there is none while d is owed its initial frame.            *)
Ahead(d) ==
    \A r \in history, c \in Live(d) :
        r.time > c.time /\ Queued(d, r) =>
            r.id >= pushed[d] /\ ~(awaiting[d] /\ connected[d])

Timely(d) ==
    /\ pushed[d] <= frames
    /\ \A c \in Unanswered(d) : c.session <= session[d] /\ c.time <= clock
    /\ greeting[d] => Live(d) = {}
    /\ AnswersInOrder(d)
    /\ Ahead(d)

FrameOrderInv == TypeOK /\ HistoryInOrder /\ \A d \in DevKit : Timely(d)

LEMMA UnansweredTypes ==
    ASSUME TypeOK, NEW d \in DevKit
    PROVE  /\ Unanswered(d) \subseteq Control
           /\ current[d] \in Control
           /\ Len(controlQueue[d]) \in Nat
           /\ \A i \in 1..Len(controlQueue[d]) : controlQueue[d][i] \in Control
           /\ pushed[d] \in Nat /\ session[d] \in Nat
<1> USE DEF TypeOK, ControlType, SendType, LinkType
<1>1. controlQueue[d] \in Seq(Control) /\ current[d] \in Control
  OBVIOUS
<1>2. \A i \in 1..Len(controlQueue[d]) : controlQueue[d][i] \in Control
  BY <1>1
<1>3. Unanswered(d) \subseteq Control
  BY <1>1, <1>2 DEF Unanswered
<1> QED
  BY <1>1, <1>2, <1>3

LEMMA HistoryTypes ==
    ASSUME TypeOK
    PROVE  /\ \A r \in history : r.id \in Nat /\ r.time \in Nat
           /\ frames \in Nat /\ clock \in Nat
  BY DEF TypeOK, SimType, Record

-----------------------------------------------------------------------------
(* The history.                                                            *)

(* Pruning loses the last frame only with all others.                      *)
LEMMA PruneKeepsLast ==
    ASSUME TypeOK, HistoryInOrder, Prune(history) # {}
    PROVE  \E r \in Prune(history) : r.id = frames
<1>1. PICK s \in history : s.time + Retention >= clock
  BY DEF Prune
<1>2. PICK r \in history : r.id = frames
  BY <1>1 DEF HistoryInOrder
<1>3. s.time <= r.time
  BY <1>1, <1>2 DEF HistoryInOrder
<1>4. r.time + Retention >= clock
  BY <1>1, <1>3, HistoryTypes, RelayAssumption
<1> QED
  BY <1>2, <1>4 DEF Prune

LEMMA HistoryPruned ==
    ASSUME TypeOK, HistoryInOrder, history' = Prune(history),
           frames' = frames, clock' = clock
    PROVE  HistoryInOrder'
<1>1. Prune(history) \subseteq history
  BY DEF Prune
<1> QED
  BY <1>1, PruneKeepsLast DEF HistoryInOrder

LEMMA HistoryGrown ==
    ASSUME TypeOK, HistoryInOrder, NEW for \in Audiences, SimulatorBridge(for)
    PROVE  HistoryInOrder'
<1> DEFINE r == [id |-> frames + 1, time |-> clock, for |-> for]
<1>1. r.id = frames + 1 /\ r.time = clock
  OBVIOUS
<1>2. history' = Prune(history) \cup {r} /\ frames' = frames + 1 /\ clock' = clock
  BY DEF SimulatorBridge
<1>3. Prune(history) \subseteq history
  BY DEF Prune
<1> HIDE DEF r
<1>4. \A s \in history' : s.id <= frames' /\ s.time <= clock'
  BY <1>1, <1>2, <1>3, HistoryTypes DEF HistoryInOrder
<1>5. \A s, t \in history' : s.id <= t.id => s.time <= t.time
  BY <1>1, <1>2, <1>3, HistoryTypes DEF HistoryInOrder
<1>6. \E s \in history' : s.id = frames'
  BY <1>1, <1>2
<1> QED
  BY <1>4, <1>5, <1>6 DEF HistoryInOrder

(* Whatever else happens, the history stays as it is or is pruned.         *)
LEMMA HistoryElse ==
    ASSUME TypeOK, [Next]_vars
    PROVE  \/ \E for \in Audiences : SimulatorBridge(for)
           \/ /\ frames' = frames /\ clock' >= clock
              /\ history' = history \/ (history' = Prune(history) /\ clock' = clock)
<1> DEFINE still == frames' = frames /\ clock' = clock /\ history' = history
           pruned == frames' = frames /\ clock' = clock /\ history' = Prune(history)
<1>1. CASE Simulator
  BY <1>1, HistoryTypes DEF Simulator, SimulatorConnect, SimulatorDisconnect, SimulatorEvent,
              MonitorEvent, QueueEvent
<1>2. ASSUME NEW f \in 1..frames, Echo(f) PROVE still
  BY <1>2 DEF Echo
<1>3. ASSUME NEW d \in DevKit, Connection(d) PROVE still \/ pruned
  BY <1>3 DEF Connection, Connect, ConnectFails, OnConnect, Drop, simVars
<1>4. ASSUME NEW d \in DevKit, SendLoop(d) PROVE still
  BY <1>4 DEF SendLoop, SendNext, SendHeld, simVars
<1>5. ASSUME NEW d \in DevKit, ControlLoop(d) PROVE still \/ pruned
  BY <1>5 DEF ControlLoop, TakeControl, Merge, AwaitFrame, Answer, simVars
<1>6. ASSUME NEW d \in DevKit, NEW names \in Names, DevKitBridge(d, names) PROVE still
  BY <1>6 DEF DevKitBridge, simVars
<1>7. CASE MonitorStalls \/ MonitorReads \/ UNCHANGED vars
  BY <1>7, HistoryTypes DEF MonitorStalls, MonitorReads, vars, simVars
<1>8. CASE Tick
  BY <1>8, HistoryTypes DEF Tick, simVars
<1> QED
  BY <1>1, <1>2, <1>3, <1>4, <1>5, <1>6, <1>7, <1>8, HistoryTypes DEF Next

LEMMA HistoryStep ==
    ASSUME TypeOK, HistoryInOrder, [Next]_vars
    PROVE  HistoryInOrder'
<1>1. CASE frames' = frames /\ clock' >= clock /\ history' = history
  <2>1. clock' \in Nat
    BY TypeStep DEF TypeOK
  <2> QED
    BY <1>1, <2>1, HistoryTypes DEF HistoryInOrder
<1> QED
  BY <1>1, HistoryElse, HistoryPruned, HistoryGrown

-----------------------------------------------------------------------------
(* The steps that give d neither a frame nor a control of its own.         *)

LEMMA TimelyKept ==
    ASSUME FrameOrderInv, NEW d \in DevKit, TypeOK',
           frames' >= frames, clock' >= clock,
           history' \subseteq history,
           Unanswered(d)' \subseteq Unanswered(d), AnswersInOrder(d)',
           session'[d] = session[d], pushed'[d] = pushed[d],
           greeting'[d] => greeting[d],
           awaiting'[d] /\ connected'[d] => awaiting[d] /\ connected[d]
    PROVE  Timely(d)'
<1>1. Timely(d) /\ TypeOK
  BY DEF FrameOrderInv
<1>2. frames \in Nat /\ clock \in Nat /\ frames' \in Nat /\ clock' \in Nat
  BY <1>1, HistoryTypes DEF TypeOK, SimType
<1>3. pushed'[d] <= frames'
  BY <1>1, <1>2, UnansweredTypes DEF Timely
<1>4. \A c \in Unanswered(d)' : c.session <= session'[d] /\ c.time <= clock'
  <2>1. SUFFICES ASSUME NEW c \in Unanswered(d) PROVE c.time <= clock'
    BY <1>1 DEF Timely
  <2>2. c.time \in Nat /\ c.time <= clock
    BY <1>1, UnansweredTypes DEF Timely, Control
  <2> QED
    BY <1>2, <2>2
<1>5. Live(d)' \subseteq Live(d)
  BY DEF Live
<1>6. greeting'[d] => Live(d)' = {}
  BY <1>1, <1>5 DEF Timely
<1>7. Ahead(d)'
  BY <1>1, <1>5 DEF Timely, Ahead, Queued
<1> QED
  BY <1>3, <1>4, <1>6, <1>7 DEF Timely

(* A control loop takes the oldest control.                                *)
LEMMA TimelyTakeControl ==
    ASSUME FrameOrderInv, NEW d \in DevKit, TakeControl(d)
    PROVE  Unanswered(d)' \subseteq Unanswered(d) /\ AnswersInOrder(d)'
<1> DEFINE q == controlQueue[d]
<1>1. q \in Seq(Control) /\ q # <<>> /\ phase[d] = "idle"
  BY DEF FrameOrderInv, TypeOK, ControlType, TakeControl
<1>2. controlQueue'[d] = Tail(q) /\ current'[d] = Head(q) /\ phase'[d] = "status"
  BY DEF FrameOrderInv, TypeOK, ControlType, TakeControl
<1>3. AnswersInOrder(d)
  BY DEF FrameOrderInv, Timely
<1>4. /\ Head(q) = q[1] /\ 1 \in 1..Len(q) /\ Len(q) \in Nat
      /\ Len(Tail(q)) = Len(q) - 1
      /\ \A i \in 1..Len(Tail(q)) : i + 1 \in 1..Len(q) /\ Tail(q)[i] = q[i + 1]
  BY <1>1, TailEntries
<1> HIDE DEF q
<1>5. Unanswered(d)' \subseteq Unanswered(d)
  BY <1>2, <1>4 DEF Unanswered, q
<1>6. \A i, j \in 1..Len(q) : i < j => q[i].time <= q[j].time
  BY <1>3 DEF AnswersInOrder, q
<1>7. ASSUME NEW i \in 1..Len(Tail(q))
      PROVE  /\ current'[d].time <= Tail(q)[i].time
             /\ \A j \in 1..Len(Tail(q)) : i < j => Tail(q)[i].time <= Tail(q)[j].time
  BY <1>2, <1>4, <1>6
<1> QED
  BY <1>2, <1>5, <1>7 DEF AnswersInOrder

(* A new connection: the controls still unanswered are of earlier ones.    *)
LEMMA TimelyConnect ==
    ASSUME FrameOrderInv, NEW d \in DevKit, Connect(d), TypeOK'
    PROVE  Timely(d)'
<1>1. Timely(d) /\ TypeOK
  BY DEF FrameOrderInv
<1>2. session'[d] = session[d] + 1 /\ pushed'[d] = 0
  BY <1>1 DEF Connect, TypeOK, LinkType, SendType
<1>3. /\ frames' = frames /\ clock' = clock /\ frames \in Nat
      /\ controlQueue' = controlQueue /\ phase' = phase /\ current' = current
  BY <1>1, HistoryTypes DEF Connect, simVars, controlVars
<1>4. Unanswered(d)' = Unanswered(d) /\ (AnswersInOrder(d) => AnswersInOrder(d)')
  BY <1>3 DEF Unanswered, AnswersInOrder
<1>5. \A c \in Unanswered(d) : c.session \in Nat /\ c.session <= session[d] /\ session[d] \in Nat
  BY <1>1, UnansweredTypes DEF Timely, Control
<1>6. \A c \in Unanswered(d)' : c.session < session'[d]
  BY <1>2, <1>4, <1>5
<1>7. Live(d)' = {}
  BY <1>2, <1>4, <1>5, <1>6 DEF Live
<1>8. \A c \in Unanswered(d)' : c.session <= session'[d] /\ c.time <= clock'
  BY <1>1, <1>2, <1>3, <1>4, <1>5 DEF Timely
<1>9. pushed'[d] <= frames'
  BY <1>2, <1>3
<1> QED
  BY <1>1, <1>4, <1>7, <1>8, <1>9 DEF Timely, Ahead

(* A new control is as new as any frame.                                   *)
LEMMA TimelyDevKitBridge ==
    ASSUME FrameOrderInv, NEW d \in DevKit, NEW names \in Names, DevKitBridge(d, names),
           TypeOK'
    PROVE  Timely(d)'
<1> DEFINE c == [id |-> sent[d] + 1, time |-> clock, names |-> names, session |-> session[d]]
           q == controlQueue[d]
<1>1. Timely(d) /\ TypeOK /\ HistoryInOrder
  BY DEF FrameOrderInv
<1>2. c.time = clock /\ c.session = session[d]
  OBVIOUS
<1>3. c \in Control
  <2>1. sent[d] + 1 \in Nat
    BY <1>1 DEF TypeOK, ControlType
  <2>2. clock \in Nat /\ session[d] \in Nat
    BY <1>1, HistoryTypes, UnansweredTypes
  <2>3. names \in SUBSET Nat
    BY RelayAssumption
  <2> QED
    BY <2>1, <2>2, <2>3 DEF Control
<1>4. controlQueue'[d] = Put(q, c) /\ ~greeting[d]
  BY <1>1 DEF DevKitBridge, TypeOK, ControlType
<1>5. UNCHANGED <<frames, clock, history, session, pushed, greeting, awaiting, connected,
                  phase, current>>
  BY DEF DevKitBridge, simVars, linkVars, sendVars
<1> HIDE DEF c
<1>6. PICK k \in {0, 1} :
        /\ k <= Len(q)
        /\ Len(Put(q, c)) = Len(q) - k + 1
        /\ Put(q, c)[Len(q) - k + 1] = c
        /\ \A i \in 1..(Len(q) - k) : i + k \in 1..Len(q) /\ Put(q, c)[i] = q[i + k]
  BY <1>1, <1>3, PutEntries DEF TypeOK, ControlType
<1>7. /\ Len(q) \in Nat /\ clock \in Nat
      /\ \A i \in 1..Len(q) : q[i] \in Unanswered(d) /\ q[i].time \in Nat /\ q[i].time <= clock
      /\ phase[d] # "idle" => current[d].time \in Nat /\ current[d].time <= clock
  BY <1>1, HistoryTypes, UnansweredTypes DEF Timely, Unanswered, Control
<1>8. /\ \A i, j \in 1..Len(q) : i < j => q[i].time <= q[j].time
      /\ phase[d] # "idle" => \A i \in 1..Len(q) : current[d].time <= q[i].time
  BY <1>1 DEF Timely, AnswersInOrder
<1> HIDE DEF q
<1>9. \A i \in 1..Len(Put(q, c)) : i \in 1..(Len(q) - k) \/ i = Len(q) - k + 1
  BY <1>6, <1>7
<1>10. Unanswered(d)' \subseteq Unanswered(d) \cup {c}
  <2>1. \A i \in 1..Len(Put(q, c)) : Put(q, c)[i] \in Unanswered(d) \cup {c}
    BY <1>6, <1>7, <1>9
  <2>2. \A x : x = current[d] /\ phase[d] # "idle" => x \in Unanswered(d)
    BY DEF Unanswered
  <2> QED
    BY <1>4, <1>5, <2>1, <2>2 DEF Unanswered
<1>11. AnswersInOrder(d)'
  <2>1. ASSUME NEW i \in 1..Len(Put(q, c)), phase[d] # "idle"
        PROVE  current[d].time <= Put(q, c)[i].time
    BY <1>2, <1>6, <1>7, <1>8, <1>9, <2>1
  <2>2. ASSUME NEW i \in 1..Len(Put(q, c)), NEW j \in 1..Len(Put(q, c)), i < j
        PROVE  Put(q, c)[i].time <= Put(q, c)[j].time
    <3>1. i \in 1..(Len(q) - k)
      BY <1>6, <1>7, <1>9, <2>2
    <3>2. CASE j \in 1..(Len(q) - k)
      <4>1. i + k \in 1..Len(q) /\ j + k \in 1..Len(q) /\ i + k < j + k
        BY <1>6, <2>2, <3>1, <3>2
      <4>2. q[i + k].time <= q[j + k].time
        BY <1>8, <4>1
      <4> QED
        BY <1>6, <3>1, <3>2, <4>2
    <3>3. CASE j = Len(q) - k + 1
      BY <1>2, <1>6, <1>7, <3>1, <3>3
    <3> QED
      BY <1>9, <3>2, <3>3
  <2> QED
    BY <1>4, <1>5, <2>1, <2>2 DEF AnswersInOrder
<1>12. \A r \in history : ~(r.time > c.time)
  BY <1>1, <1>2, HistoryTypes DEF HistoryInOrder
<1>13. Ahead(d)'
  BY <1>1, <1>5, <1>10, <1>12 DEF Timely, Ahead, Live, Queued
<1>14. \A x \in Unanswered(d)' : x.session <= session[d] /\ x.time <= clock
  <2>1. c.session <= session[d] /\ c.time <= clock
    BY <1>1, <1>2, <1>7, UnansweredTypes
  <2> QED
    BY <1>1, <1>10, <2>1 DEF Timely
<1> QED
  BY <1>1, <1>4, <1>5, <1>11, <1>13, <1>14 DEF Timely

-----------------------------------------------------------------------------
(* The three steps that queue frames.                                      *)

(* The handler of a frame: a DevKit that is owed one has no live control   *)
(* that an older frame could answer.                                       *)
LEMMA TimelyBridge ==
    ASSUME FrameOrderInv, NEW d \in DevKit, NEW for \in Audiences, SimulatorBridge(for)
    PROVE  Timely(d)' /\ pushed'[d] >= pushed[d]
<1> DEFINE r == [id |-> frames + 1, time |-> clock, for |-> for]
           owed == connected[d] /\ awaiting[d] /\ Queued(d, r)
<1>1. Timely(d) /\ TypeOK /\ HistoryInOrder
  BY DEF FrameOrderInv
<1>2. r.id = frames + 1 /\ frames \in Nat /\ pushed[d] \in Nat /\ pushed[d] <= frames
  BY <1>1, HistoryTypes, UnansweredTypes DEF Timely
<1>3. /\ frames' = frames + 1 /\ clock' = clock
      /\ history' \subseteq history \cup {r}
      /\ pushed'[d] = IF owed THEN r.id ELSE pushed[d]
      /\ awaiting'[d] <=> awaiting[d] /\ ~owed
      /\ UNCHANGED <<connected, greeting, session, controlQueue, phase, current>>
  BY DEF SimulatorBridge, Prune, Owed, controlVars
<1> HIDE DEF r
<1>4. /\ Unanswered(d)' = Unanswered(d) /\ Live(d)' = Live(d)
      /\ AnswersInOrder(d) => AnswersInOrder(d)'
  BY <1>3 DEF Unanswered, Live, AnswersInOrder
<1>5. Ahead(d)'
  <2>1. SUFFICES ASSUME NEW s \in history', NEW c \in Live(d), s.time > c.time, Queued(d, s)
                 PROVE  s.id >= pushed'[d] /\ ~(awaiting'[d] /\ connected[d])
    BY <1>3, <1>4 DEF Ahead, Queued
  <2>2. CASE s = r
    BY <1>2, <1>3, <2>1, <2>2
  <2>3. CASE s \in history
    <3>1. s.id >= pushed[d] /\ ~(awaiting[d] /\ connected[d])
      BY <1>1, <2>1, <2>3 DEF Timely, Ahead
    <3> QED
      BY <1>3, <3>1
  <2> QED
    BY <1>3, <2>2, <2>3
<1>6. pushed'[d] <= frames' /\ pushed'[d] >= pushed[d]
  BY <1>2, <1>3
<1> QED
  BY <1>1, <1>3, <1>4, <1>5, <1>6 DEF Timely

(* on_connect: the latest frame, and no control of the session yet.        *)
LEMMA TimelyOnConnect ==
    ASSUME FrameOrderInv, NEW d \in DevKit, OnConnect(d)
    PROVE  Timely(d)' /\ pushed'[d] >= pushed[d]
<1> DEFINE greets == {r \in Newest(Prune(history)) : Queued(d, r)}
<1>1. Timely(d) /\ TypeOK /\ HistoryInOrder
  BY DEF FrameOrderInv
<1>2. greeting[d] /\ Live(d) = {}
  BY <1>1 DEF OnConnect, Timely
<1>3. UNCHANGED <<frames, clock, session, controlQueue, phase, current>>
  BY DEF OnConnect, controlVars
<1>4. /\ Unanswered(d)' = Unanswered(d) /\ Live(d)' = {}
      /\ AnswersInOrder(d) => AnswersInOrder(d)'
  BY <1>2, <1>3 DEF Unanswered, Live, AnswersInOrder
<1>5. frames \in Nat /\ pushed[d] \in Nat /\ pushed[d] <= frames
  BY <1>1, HistoryTypes, UnansweredTypes DEF Timely
<1>6. pushed'[d] = pushed[d] \/ pushed'[d] = frames
  <2>1. CASE greets = {}
    BY <2>1 DEF OnConnect
  <2>2. CASE greets # {}
    <3>1. PICK r \in greets : pushed' = [pushed EXCEPT ![d] = r.id]
      BY <2>2 DEF OnConnect
    <3>2. r \in Prune(history) /\ \A s \in Prune(history) : s.id <= r.id
      BY <3>1 DEF Newest
    <3>3. PICK last \in Prune(history) : last.id = frames
      BY <1>1, <3>2, PruneKeepsLast
    <3>4. frames <= r.id
      BY <3>2, <3>3
    <3>5. r.id \in Nat /\ r.id <= frames
      BY <1>1, <3>2, HistoryTypes DEF HistoryInOrder, Prune
    <3>6. r.id = frames
      BY <1>5, <3>4, <3>5
    <3> QED
      BY <1>1, <3>1, <3>6 DEF TypeOK, SendType
  <2> QED
    BY <2>1, <2>2
<1>7. pushed'[d] >= pushed[d] /\ pushed'[d] <= frames'
  BY <1>3, <1>5, <1>6
<1> QED
  BY <1>1, <1>3, <1>4, <1>7 DEF Timely, Ahead

(* The answer to a control is the oldest frame after it, so that no frame  *)
(* that may answer a later control is older.                               *)
LEMMA TimelyAnswer ==
    ASSUME FrameOrderInv, NEW d \in DevKit, Answer(d)
    PROVE  /\ Timely(d)'
           /\ current[d].session = session[d] => pushed'[d] >= pushed[d]
<1>1. Timely(d) /\ TypeOK /\ HistoryInOrder
  BY DEF FrameOrderInv
<1> DEFINE c == current[d]
<1>2. PICK r \in Oldest(After(Prune(history), c.time)) :
        pushed' = IF Queued(d, r) THEN [pushed EXCEPT ![d] = r.id] ELSE pushed
  BY DEF Answer
<1>3. /\ r \in history /\ r.time > c.time
      /\ \A s \in Prune(history) : s.time > c.time => r.id <= s.id
  BY <1>2 DEF Oldest, After, Prune
<1>4. /\ history' = Prune(history) /\ Prune(history) \subseteq history
      /\ UNCHANGED <<frames, clock, session, greeting, awaiting, connected, controlQueue>>
  BY DEF Answer, Prune, linkVars
<1>5. phase[d] = "wait" /\ phase'[d] = "idle" /\ c \in Unanswered(d)
  BY <1>1 DEF Answer, TypeOK, ControlType, Unanswered
<1>6. pushed'[d] = IF Queued(d, r) THEN r.id ELSE pushed[d]
  BY <1>1, <1>2 DEF TypeOK, SendType
<1>7. /\ r.id \in Nat /\ r.id <= frames /\ frames \in Nat
      /\ pushed[d] \in Nat /\ pushed[d] <= frames
  BY <1>1, <1>3, HistoryTypes, UnansweredTypes DEF Timely, HistoryInOrder
<1> HIDE DEF c
<1>8. Unanswered(d)' = {controlQueue[d][i] : i \in 1..Len(controlQueue[d])}
  BY <1>4, <1>5 DEF Unanswered
<1>9. Unanswered(d)' \subseteq Unanswered(d) /\ Live(d)' \subseteq Live(d)
  BY <1>4, <1>8 DEF Unanswered, Live
<1>10. AnswersInOrder(d)'
  BY <1>1, <1>4, <1>5 DEF Timely, AnswersInOrder
<1>11. \A x \in Unanswered(d)' : c.time <= x.time /\ x.time \in Nat /\ c.time \in Nat
  BY <1>1, <1>5, <1>8, UnansweredTypes DEF Timely, AnswersInOrder, c, Control
<1>12. Ahead(d)'
  <2>1. SUFFICES ASSUME NEW s \in Prune(history), NEW x \in Live(d)',
                        s.time > x.time, Queued(d, s)
                 PROVE  s.id >= pushed'[d] /\ ~(awaiting[d] /\ connected[d])
    BY <1>4 DEF Ahead, Queued
  <2>2. s.id >= pushed[d] /\ ~(awaiting[d] /\ connected[d])
    BY <1>1, <1>4, <1>9, <2>1 DEF Timely, Ahead
  <2>3. x \in Unanswered(d)' /\ s.time \in Nat /\ s.id \in Nat
    BY <1>1, <1>4, HistoryTypes DEF Live
  <2>4. s.time > c.time
    BY <1>11, <2>1, <2>3
  <2>5. r.id <= s.id
    BY <1>3, <2>4
  <2> QED
    BY <1>6, <1>7, <2>2, <2>3, <2>5
<1>13. pushed'[d] <= frames'
  BY <1>4, <1>6, <1>7
<1>14. Timely(d)'
  BY <1>1, <1>4, <1>9, <1>10, <1>12, <1>13 DEF Timely
<1>15. ASSUME c.session = session[d] PROVE pushed'[d] >= pushed[d]
  <2>1. c \in Live(d)
    BY <1>5, <1>15 DEF Live
  <2>2. Queued(d, r) => r.id >= pushed[d]
    BY <1>1, <1>3, <2>1 DEF Timely, Ahead
  <2> QED
    BY <1>6, <1>7, <2>2
<1> QED
  BY <1>14, <1>15 DEF c

-----------------------------------------------------------------------------
(* All steps.                                                              *)

(* A step that leaves a DevKit's controls, session and frames alone.       *)
Apart(d) ==
    /\ UNCHANGED <<controlQueue[d], current[d], session[d], pushed[d]>>
    /\ phase'[d] = phase[d] \/ (phase[d] # "idle" /\ phase'[d] # "idle")
    /\ greeting'[d] => greeting[d]
    /\ awaiting'[d] /\ connected'[d] => awaiting[d] /\ connected[d]

LEMMA ApartKeeps ==
    ASSUME FrameOrderInv, [Next]_vars, NEW d \in DevKit, Apart(d),
           ~\E for \in Audiences : SimulatorBridge(for)
    PROVE  Timely(d)'
<1>1. Timely(d) /\ TypeOK /\ TypeOK'
  BY TypeStep DEF FrameOrderInv
<1>2. frames' = frames /\ frames \in Nat /\ clock' >= clock /\ history' \subseteq history
  BY <1>1, HistoryElse, HistoryTypes DEF Prune
<1>3. Unanswered(d)' \subseteq Unanswered(d)
  BY DEF Apart, Unanswered
<1>4. AnswersInOrder(d)'
  BY <1>1 DEF Apart, Timely, AnswersInOrder
<1> QED
  BY <1>1, <1>2, <1>3, <1>4, TimelyKept DEF Apart

(* The actions of one DevKit leave the others alone.                       *)
LEMMA OthersApart ==
    ASSUME TypeOK, NEW d \in DevKit, NEW e \in DevKit, d # e,
           \/ Connection(e) \/ SendLoop(e) \/ ControlLoop(e)
           \/ \E names \in Names : DevKitBridge(e, names)
    PROVE  Apart(d)
<1> USE DEF TypeOK, LinkType, SendType, ControlType, Apart
<1>1. CASE Connection(e)
  BY <1>1 DEF Connection, Connect, ConnectFails, OnConnect, Drop, sendVars, controlVars
<1>2. CASE SendLoop(e)
  BY <1>2 DEF SendLoop, SendNext, SendHeld, linkVars, controlVars
<1>3. CASE ControlLoop(e)
  BY <1>3 DEF ControlLoop, TakeControl, Merge, AwaitFrame, Answer, linkVars, sendVars
<1>4. CASE \E names \in Names : DevKitBridge(e, names)
  BY <1>4 DEF DevKitBridge, linkVars, sendVars
<1> QED
  BY <1>1, <1>2, <1>3, <1>4

LEMMA OwnApart ==
    ASSUME TypeOK, NEW d \in DevKit,
           ConnectFails(d) \/ Drop(d) \/ SendLoop(d) \/ Merge(d) \/ AwaitFrame(d)
    PROVE  Apart(d)
<1> USE DEF TypeOK, LinkType, ControlType, Apart
<1>1. CASE ConnectFails(d) \/ Drop(d)
  BY <1>1 DEF ConnectFails, Drop, sendVars, controlVars
<1>2. CASE SendLoop(d)
  BY <1>2 DEF SendLoop, SendNext, SendHeld, linkVars, controlVars
<1>3. CASE Merge(d) \/ AwaitFrame(d)
  BY <1>3 DEF Merge, AwaitFrame, linkVars, sendVars
<1> QED
  BY <1>1, <1>2, <1>3

(* stop() forgets the control under way and disconnects.                   *)
LEMMA TimelyDisconnect ==
    ASSUME FrameOrderInv, NEW d \in DevKit, SimulatorDisconnect, TypeOK'
    PROVE  Timely(d)'
<1>1. Timely(d) /\ TypeOK
  BY DEF FrameOrderInv
<1>2. /\ UNCHANGED <<frames, clock, history, session, greeting, pushed, controlQueue>>
      /\ phase'[d] = "idle" /\ ~awaiting'[d]
  BY DEF SimulatorDisconnect
<1>3. Unanswered(d)' \subseteq Unanswered(d)
  BY <1>2 DEF Unanswered
<1>4. AnswersInOrder(d)'
  BY <1>1, <1>2 DEF Timely, AnswersInOrder
<1>5. frames' >= frames /\ clock' >= clock
  BY <1>1, <1>2, HistoryTypes
<1> QED
  BY <1>2, <1>3, <1>4, <1>5, TimelyKept

(* What a step does for one DevKit: both parts of the theorem.             *)
Forward(d) ==
    \/ pushed'[d] >= pushed[d]
    \/ session'[d] # session[d]
    \/ phase[d] = "wait" /\ current[d].session # session[d]

LEMMA FrameOrderOne ==
    ASSUME FrameOrderInv, [Next]_vars, NEW d \in DevKit
    PROVE  Timely(d)' /\ Forward(d)
<1>1. TypeOK /\ TypeOK' /\ Timely(d) /\ pushed[d] \in Nat /\ session[d] \in Nat
  BY TypeStep, UnansweredTypes DEF FrameOrderInv
<1>2. ASSUME NEW for \in Audiences, SimulatorBridge(for) PROVE Timely(d)' /\ Forward(d)
  BY <1>2, TimelyBridge DEF Forward
<1>3. ASSUME Apart(d) PROVE Timely(d)' /\ Forward(d)
  <2>1. Forward(d)
    BY <1>1, <1>3 DEF Apart, Forward
  <2> QED
    BY <1>2, <1>3, <2>1, ApartKeeps
<1>4. ASSUME pushed'[d] = pushed[d] PROVE Forward(d)
  BY <1>1, <1>4 DEF Forward
<1>5. CASE Simulator
  <2>1. CASE SimulatorDisconnect
    <3>1. pushed'[d] = pushed[d]
      BY <2>1 DEF SimulatorDisconnect
    <3> QED
      BY <1>1, <1>4, <2>1, <3>1, TimelyDisconnect
  <2>2. CASE SimulatorConnect \/ \E for \in Audiences : SimulatorEvent(for) \/ MonitorEvent(for)
    <3>1. Apart(d)
      BY <2>2 DEF SimulatorConnect, SimulatorEvent, MonitorEvent, QueueEvent, linkVars,
                  controlVars, Apart
    <3> QED
      BY <1>3, <3>1
  <2> QED
    BY <1>2, <1>5, <2>1, <2>2 DEF Simulator
<1>6. ASSUME NEW e \in DevKit, e # d,
             \/ Connection(e) \/ SendLoop(e) \/ ControlLoop(e)
             \/ \E names \in Names : DevKitBridge(e, names)
      PROVE  Timely(d)' /\ Forward(d)
  BY <1>1, <1>3, <1>6, OthersApart
<1>7. CASE ConnectFails(d) \/ Drop(d) \/ SendLoop(d) \/ Merge(d) \/ AwaitFrame(d)
  BY <1>1, <1>3, <1>7, OwnApart
<1>8. CASE Connect(d)
  <2>1. session'[d] = session[d] + 1
    BY <1>1, <1>8 DEF Connect, TypeOK, LinkType
  <2>2. Forward(d)
    BY <1>1, <2>1 DEF Forward
  <2> QED
    BY <1>1, <1>8, <2>2, TimelyConnect
<1>9. CASE OnConnect(d)
  BY <1>9, TimelyOnConnect DEF Forward
<1>10. CASE TakeControl(d)
  <2>1. /\ UNCHANGED <<frames, clock, history, session, greeting, awaiting, connected, pushed>>
    BY <1>10 DEF TakeControl, simVars, linkVars, sendVars
  <2>2. frames' >= frames /\ clock' >= clock
    BY <1>1, <2>1, HistoryTypes
  <2> QED
    BY <1>1, <1>4, <1>10, <2>1, <2>2, TimelyTakeControl, TimelyKept
<1>11. CASE Answer(d)
  <2>1. phase[d] = "wait"
    BY <1>11 DEF Answer
  <2> QED
    BY <1>11, <2>1, TimelyAnswer DEF Forward
<1>12. ASSUME NEW names \in Names, DevKitBridge(d, names) PROVE Timely(d)' /\ Forward(d)
  <2>1. pushed'[d] = pushed[d]
    BY <1>12 DEF DevKitBridge, sendVars
  <2> QED
    BY <1>1, <1>4, <1>12, <2>1, TimelyDevKitBridge
<1>13. CASE (\E f \in 1..frames : Echo(f)) \/ Tick \/ MonitorStalls \/ MonitorReads
            \/ UNCHANGED vars
  <2>1. Apart(d)
    BY <1>13 DEF Echo, Tick, MonitorStalls, MonitorReads, vars, linkVars, sendVars,
                 controlVars, Apart
  <2> QED
    BY <1>3, <2>1
<1> QED
  BY <1>5, <1>6, <1>7, <1>8, <1>9, <1>10, <1>11, <1>12, <1>13
  DEF Next, Connection, ControlLoop

(* Within a session, the frames queued for a DevKit never go back in time, *)
(* though the handlers of frames, on_connect and the control loop all      *)
(* queue them, whatever the delays between them; but for the answer to a   *)
(* control of an earlier session (server.py, send_next_bridge_after,       *)
(* send_cached_incoming_bridge).                                           *)
THEOREM FramesStayInOrder == Spec => FramesInOrder
<1>1. Init => FrameOrderInv
  <2> SUFFICES ASSUME Init PROVE FrameOrderInv
    OBVIOUS
  <2>1. HistoryInOrder
    BY DEF Init, HistoryInOrder
  <2>2. ASSUME NEW d \in DevKit PROVE Timely(d)
    <3>1. /\ controlQueue[d] = <<>> /\ phase[d] = "idle"
          /\ pushed[d] = 0 /\ frames = 0 /\ greeting[d] = FALSE
      BY DEF Init
    <3>2. Unanswered(d) = {} /\ AnswersInOrder(d)
      BY <3>1 DEF Unanswered, AnswersInOrder
    <3> QED
      BY <3>1, <3>2 DEF Timely, Live, Ahead
  <2> QED
    BY <2>1, <2>2, TypeInit DEF FrameOrderInv
<1>2. FrameOrderInv /\ [Next]_vars => FrameOrderInv'
  <2> SUFFICES ASSUME FrameOrderInv, [Next]_vars PROVE FrameOrderInv'
    OBVIOUS
  <2>1. TypeOK' /\ HistoryInOrder'
    BY TypeStep, HistoryStep DEF FrameOrderInv
  <2> QED
    BY <2>1, FrameOrderOne DEF FrameOrderInv
<1>3. FrameOrderInv /\ [Next]_vars =>
        [\A d \in DevKit : Forward(d)]_vars
  BY FrameOrderOne
<1>4. Spec => []FrameOrderInv
  BY <1>1, <1>2, PTL DEF Spec
<1>5. [\A d \in DevKit : Forward(d)]_vars =>
        [\A d \in DevKit :
           pushed'[d] >= pushed[d] \/ session'[d] # session[d]
           \/ (phase[d] = "wait" /\ current[d].session # session[d])]_vars
  BY DEF Forward
<1> QED
  BY <1>3, <1>4, <1>5, PTL DEF Spec, FramesInOrder
=============================================================================
