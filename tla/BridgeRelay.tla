---------------------------- MODULE BridgeRelay ----------------------------
(***************************************************************************)
(* The Bridge proxy of the Race Control Tower: how one frame of the        *)
(* simulator reaches the DevKits, how the control a DevKit sends back      *)
(* reaches the simulator, and what lies between: the timestamped history   *)
(* of frames (BridgeHistory), the cache of controls (ControlCache), and    *)
(* for each DevKit a bounded outbound queue with its send loop, a bounded  *)
(* control queue with its control loop, and the "initial frame owed" flag. *)
(*                                                                         *)
(* asyncio runs one task at a time and switches only where a coroutine     *)
(* really suspends.  The locks of the two caches are never contended and   *)
(* a put into a queue that is not full does not suspend, so the only       *)
(* suspension points are: a monitor broadcast (it awaits every monitor's   *)
(* socket), an empty queue, the wait for a newer frame, and the polling of *)
(* a DevKit that is down.  Each action below is the code between two of    *)
(* them.  The monitor is one browser that reads or has stalled; without    *)
(* any monitor a broadcast returns at once, which the schedules with a     *)
(* reading monitor include.  RCT_MONITOR_WS_HZ has its default, 0.         *)
(*                                                                         *)
(* The definitions named Faulty... are plausible mistakes in the operator  *)
(* that follows them; no specification uses them.                          *)
(***************************************************************************)
EXTENDS Naturals, Sequences, FiniteSets

CONSTANTS
    DevKit,           \* vehicle ids of the DevKits (devkit.vehicle_id)
    QueueSize,        \* settings.client_queue_size
    Retention,        \* settings.bridge_history_seconds, in clock ticks
    Presplit,         \* settings.enable_presplit_bridge_cache
    Names,            \* sets of ids whose control fields one DevKit event may name
    Audiences,        \* sets of DevKits that one simulator payload may leave something for
    MonitorMayStall,  \* whether the monitor's socket may stop draining
    MaxTime, MaxFrame, MaxControl, MaxSession, MaxEvent  \* bounds, used in guards only

ASSUME RelayAssumption ==
    /\ DevKit \subseteq Nat \ {0}
    /\ QueueSize \in Nat \ {0}
    /\ Retention \in Nat
    /\ Presplit \in BOOLEAN
    /\ Names \subseteq SUBSET Nat
    /\ Audiences \subseteq SUBSET DevKit
    /\ MonitorMayStall \in BOOLEAN
    /\ MaxTime \in Nat /\ MaxFrame \in Nat /\ MaxControl \in Nat
    /\ MaxSession \in Nat /\ MaxEvent \in Nat

VARIABLES
    clock,        \* monotonic()
    simulator,    \* is a simulator connected (bool(simulator_sids))
    frames,       \* number of Bridge frames received; the last one's id
    events,       \* number of other simulator events received
    history,      \* BridgeHistory._records
    echoing,      \* frames whose handler still awaits the telemetry broadcast
    cache,        \* ControlCache._payload: whose control each vehicle has
    view,         \* the last control cache the connected simulator received
    monitor,      \* "reading" or "stalled"
    link,         \* devkit.client has an Engine.IO connection
    session,      \* number of connections made to the DevKit so far
    greeting,     \* the on_connect task of this connection has not run yet
    connected,    \* devkit.connected
    awaiting,     \* devkit.awaiting_initial_bridge
    queue,        \* devkit.queue
    held,         \* what send_loop took while the DevKit was down: <<>> or <<item>>
    failed,       \* send_loop ended with an exception
    sent,         \* number of controls the DevKit sent; the last one's id
    controlQueue, \* devkit.control_queue
    phase,        \* where control_loop is
    current,      \* the control it processes
    cancelled,    \* id of the last control that stop() cancelled before its merge
    pushed,       \* id of the last frame queued for the DevKit in this session
    served,       \* a frame was emitted to the DevKit in this session
    displaced     \* in this session, an event other than a frame took the place of a
                  \* queued frame in a full queue

simVars == <<simulator, frames, events, history, echoing, cache, view>>
sendVars == <<queue, held, failed, pushed, served, displaced>>
controlVars == <<sent, controlQueue, phase, current, cancelled>>
linkVars == <<link, session, greeting, connected, awaiting>>
vars == <<clock, monitor, simVars, linkVars, sendVars, controlVars>>

NoControl == [id |-> 0, time |-> 0, names |-> {}, session |-> 0]
DefaultCache == [v \in DevKit |-> [by |-> 0, id |-> 0]]
OtherEvent == [frame |-> 0, drop |-> FALSE]

Entry == [by : DevKit \cup {0}, id : Nat]
Record == [id : Nat, time : Nat, for : SUBSET DevKit]
OutboundItem == [frame : Nat, drop : BOOLEAN]
Control == [id : Nat, time : Nat, names : SUBSET Nat, session : Nat]

SimType ==
    /\ simulator \in BOOLEAN
    /\ frames \in Nat /\ events \in Nat
    /\ history \subseteq Record
    /\ echoing \subseteq 1..frames
    /\ cache \in [DevKit -> Entry]
    /\ view \in [DevKit -> Entry]

LinkType ==
    /\ link \in [DevKit -> BOOLEAN]
    /\ session \in [DevKit -> Nat]
    /\ greeting \in [DevKit -> BOOLEAN]
    /\ connected \in [DevKit -> BOOLEAN]
    /\ awaiting \in [DevKit -> BOOLEAN]

SendType ==
    /\ queue \in [DevKit -> Seq(OutboundItem)]
    /\ held \in [DevKit -> Seq(OutboundItem)]
    /\ failed \in [DevKit -> BOOLEAN]
    /\ pushed \in [DevKit -> Nat]
    /\ served \in [DevKit -> BOOLEAN]
    /\ displaced \in [DevKit -> BOOLEAN]
    /\ \A d \in DevKit : Len(queue[d]) <= QueueSize /\ Len(held[d]) <= 1

ControlType ==
    /\ sent \in [DevKit -> Nat]
    /\ controlQueue \in [DevKit -> Seq(Control)]
    /\ phase \in [DevKit -> {"idle", "status", "frame", "wait"}]
    /\ current \in [DevKit -> Control]
    /\ cancelled \in [DevKit -> Nat]
    /\ \A d \in DevKit : Len(controlQueue[d]) <= QueueSize

(* Types, and the bounds of both queues: a put never has to wait.          *)
TypeOK ==
    /\ clock \in Nat
    /\ monitor \in {"reading", "stalled"}
    /\ SimType /\ LinkType /\ SendType /\ ControlType

Init ==
    /\ clock = 0 /\ frames = 0 /\ events = 0
    /\ simulator = FALSE
    /\ monitor = "reading"
    /\ history = {} /\ echoing = {}
    /\ cache = DefaultCache /\ view = DefaultCache
    /\ link = [d \in DevKit |-> FALSE]
    /\ session = [d \in DevKit |-> 0]
    /\ greeting = [d \in DevKit |-> FALSE]
    /\ connected = [d \in DevKit |-> FALSE]
    /\ awaiting = [d \in DevKit |-> FALSE]
    /\ queue = [d \in DevKit |-> <<>>]
    /\ held = [d \in DevKit |-> <<>>]
    /\ failed = [d \in DevKit |-> FALSE]
    /\ sent = [d \in DevKit |-> 0]
    /\ controlQueue = [d \in DevKit |-> <<>>]
    /\ phase = [d \in DevKit |-> "idle"]
    /\ current = [d \in DevKit |-> NoControl]
    /\ cancelled = [d \in DevKit |-> 0]
    /\ pushed = [d \in DevKit |-> 0]
    /\ served = [d \in DevKit |-> FALSE]
    /\ displaced = [d \in DevKit |-> FALSE]

-----------------------------------------------------------------------------
(* The data structures.                                                    *)

(* BridgeHistory keeps its records in the order of their timestamps, so    *)
(* dropping expired records from the left drops exactly the expired ones.  *)
Prune(records) == {r \in records : r.time + Retention >= clock}

(* latest: at most one record.                                             *)
Newest(records) == {r \in records : \A s \in records : s.id <= r.id}

(* wait_for_oldest_after: the first record strictly newer than the control.*)
FaultyAfter(records, t) == {r \in records : r.time >= t}
After(records, t) == {r \in records : r.time > t}

Oldest(records) == {r \in records : \A s \in records : r.id <= s.id}

(* enqueue and enqueue_control: a full queue loses its oldest entry.       *)
UnboundedFaultyPut(q, item) == Append(q, item)
LossyFaultyPut(q, item) == IF Len(q) >= QueueSize THEN q ELSE Append(q, item)
LifoFaultyPut(q, item) == <<item>> \o (IF Len(q) >= QueueSize THEN Tail(q) ELSE q)
Put(q, item) == Append(IF Len(q) >= QueueSize THEN Tail(q) ELSE q, item)

(* rewrite_devkit_payload_to_simulator renames id 1 to the vehicle id and  *)
(* leaves the other ids alone; ControlCache.merge takes the known keys.    *)
Rewritten(d, names) == {IF n = 1 THEN d ELSE n : n \in names} \cap DevKit

(* for is the set of DevKits for which the topic filter and the rewrite    *)
(* leave something.  The filter adds a default for each field whose topic  *)
(* is off, so a frame without a vehicle's data leaves something until all  *)
(* topics are on.  Without a presplit payload, a frame that leaves nothing *)
(* is not queued; a presplit payload is queued without that check.         *)
Queued(d, r) == Presplit \/ d \in r.for

Item(d, r) == [frame |-> r.id, drop |-> d \notin r.for]

HasFrame(q) == \E i \in 1..Len(q) : q[i].frame # 0

-----------------------------------------------------------------------------
(* The simulator's connection and events.                                  *)

(* connect: the sid is added and connect_all_devkits starts every DevKit;  *)
(* start() replaces a send loop that has ended.  All DevKits are           *)
(* configured and enabled here; DevKitLifecycle has the commands.          *)
SimulatorConnect ==
    /\ ~simulator
    /\ simulator' = TRUE
    /\ view' = DefaultCache
    /\ failed' = [d \in DevKit |-> FALSE]
    /\ UNCHANGED <<clock, monitor, frames, events, history, echoing, cache, linkVars,
                   queue, held, pushed, served, displaced, controlVars>>

(* disconnect of the last simulator: stop() of every DevKit cancels its    *)
(* loops with what they hold and disconnects it; queues keep their items.  *)
SimulatorDisconnect ==
    /\ simulator
    /\ simulator' = FALSE
    /\ link' = [d \in DevKit |-> FALSE]
    /\ connected' = [d \in DevKit |-> FALSE]
    /\ awaiting' = [d \in DevKit |-> FALSE]
    /\ held' = [d \in DevKit |-> <<>>]
    /\ phase' = [d \in DevKit |-> "idle"]
    /\ current' = [d \in DevKit |-> NoControl]
    /\ cancelled' = [d \in DevKit |->
                       IF phase[d] = "status" THEN current[d].id ELSE cancelled[d]]
    /\ UNCHANGED <<clock, monitor, frames, events, history, echoing, cache, view,
                   session, greeting, queue, failed, pushed, served, displaced, sent,
                   controlQueue>>

(* handle_simulator_bridge_event up to the telemetry broadcast: the frame  *)
(* is appended, and every connected DevKit still owed one gets it.         *)
Owed(r) == {d \in DevKit : connected[d] /\ awaiting[d] /\ Queued(d, r)}

SimulatorBridge(for) ==
    LET r == [id |-> frames + 1, time |-> clock, for |-> for] IN
    /\ simulator
    /\ frames < MaxFrame
    /\ frames' = frames + 1
    /\ history' = Prune(history) \cup {r}
    /\ queue' = [d \in DevKit |->
                   IF d \in Owed(r) THEN Put(queue[d], Item(d, r)) ELSE queue[d]]
    /\ pushed' = [d \in DevKit |-> IF d \in Owed(r) THEN r.id ELSE pushed[d]]
    /\ awaiting' = [d \in DevKit |-> awaiting[d] /\ d \notin Owed(r)]
    /\ echoing' = echoing \cup {r.id}
    /\ UNCHANGED <<clock, monitor, simulator, events, cache, view, link, session,
                   greeting, connected, held, failed, served, displaced, controlVars>>

(* emit_control_cache_to_simulator, once the telemetry broadcast returned: *)
(* snapshot and emit to every sid without a suspension between them.       *)
LazyFaultyEcho(f) ==
    /\ f \in echoing
    /\ monitor = "reading" /\ cache # view
    /\ echoing' = echoing \ {f}
    /\ view' = IF simulator THEN cache ELSE view
    /\ UNCHANGED <<clock, monitor, simulator, frames, events, history, cache,
                   linkVars, sendVars, controlVars>>
OwnFaultyEcho(f) ==
    /\ f \in echoing
    /\ monitor = "reading"
    /\ echoing' = echoing \ {f}
    /\ view' = IF simulator
               THEN [v \in DevKit |-> IF cache[v].by = v THEN cache[v] ELSE view[v]]
               ELSE view
    /\ UNCHANGED <<clock, monitor, simulator, frames, events, history, cache,
                   linkVars, sendVars, controlVars>>
Echo(f) ==
    /\ f \in echoing
    /\ monitor = "reading"
    /\ echoing' = echoing \ {f}
    /\ view' = IF simulator THEN cache ELSE view
    /\ UNCHANGED <<clock, monitor, simulator, frames, events, history, cache,
                   linkVars, sendVars, controlVars>>

(* An event other than Bridge is queued for the DevKits it is for, as far  *)
(* as the rewrite leaves them something, connected or not.                 *)
QueueEvent(for) ==
    /\ events < MaxEvent
    /\ events' = events + 1
    /\ queue' = [d \in DevKit |->
                   IF d \in for THEN Put(queue[d], OtherEvent) ELSE queue[d]]
    /\ displaced' = [d \in DevKit |->
                       displaced[d] \/ (d \in for /\ HasFrame(queue[d])
                                        /\ ~HasFrame(Put(queue[d], OtherEvent)))]
    /\ UNCHANGED <<clock, monitor, simulator, frames, history, echoing, cache, view,
                   linkVars, held, failed, pushed, served, controlVars>>

(* handle_simulator_event.                                                 *)
SimulatorEvent(for) == simulator /\ QueueEvent(for)

(* handle_monitor_message to a DevKit or to all of them: it asks for no    *)
(* simulator.  (One to the simulator emits and changes nothing here.)      *)
MonitorEvent(for) == QueueEvent(for)

-----------------------------------------------------------------------------
(* A DevKit's connection.                                                  *)

(* run(): client.connect succeeded; the on_connect handler becomes a task. *)
Connect(d) ==
    /\ simulator
    /\ ~link[d] /\ ~greeting[d]
    /\ session[d] < MaxSession
    /\ link' = [link EXCEPT ![d] = TRUE]
    /\ session' = [session EXCEPT ![d] = @ + 1]
    /\ greeting' = [greeting EXCEPT ![d] = TRUE]
    /\ pushed' = [pushed EXCEPT ![d] = 0]
    /\ served' = [served EXCEPT ![d] = FALSE]
    /\ displaced' = [displaced EXCEPT ![d] = FALSE]
    /\ UNCHANGED <<clock, monitor, simVars, connected, awaiting, queue, held, failed,
                   controlVars>>

(* run(): client.connect raised.                                           *)
ConnectFails(d) ==
    /\ simulator
    /\ ~link[d] /\ ~greeting[d]
    /\ connected' = [connected EXCEPT ![d] = FALSE]
    /\ UNCHANGED <<clock, monitor, simVars, link, session, greeting, awaiting,
                   sendVars, controlVars>>

(* on_connect: the DevKit gets the latest frame, or is owed the next one.  *)
FaultyStillOwed(greets) == FALSE
StillOwed(greets) == greets = {}

OnConnect(d) ==
    LET records == Prune(history)
        greets == {r \in Newest(records) : Queued(d, r)} IN
    /\ greeting[d]
    /\ greeting' = [greeting EXCEPT ![d] = FALSE]
    /\ connected' = [connected EXCEPT ![d] = TRUE]
    /\ awaiting' = [awaiting EXCEPT ![d] = StillOwed(greets)]
    /\ history' = records
    /\ IF greets = {}
       THEN UNCHANGED <<queue, pushed>>
       ELSE \E r \in greets :
              /\ queue' = [queue EXCEPT ![d] = Put(@, Item(d, r))]
              /\ pushed' = [pushed EXCEPT ![d] = r.id]
    /\ UNCHANGED <<clock, monitor, simulator, frames, events, echoing, cache, view,
                   link, session, held, failed, served, displaced, controlVars>>

(* The connection drops; on_disconnect runs in the reader.                 *)
Drop(d) ==
    /\ link[d]
    /\ link' = [link EXCEPT ![d] = FALSE]
    /\ connected' = [connected EXCEPT ![d] = FALSE]
    /\ UNCHANGED <<clock, monitor, simVars, session, greeting, awaiting, sendVars,
                   controlVars>>

-----------------------------------------------------------------------------
(* A DevKit's send loop.                                                   *)

(* emit() raises on a payload that is the DROP_VALUE marker, and no one    *)
(* catches the exception: the task ends.                                   *)
FaultyEmit(d, item) ==
    /\ failed' = [failed EXCEPT ![d] = item.drop \/ item.frame = 0]
    /\ served' = [served EXCEPT ![d] = @ \/ (item.frame # 0 /\ ~item.drop)]
Emit(d, item) ==
    /\ failed' = [failed EXCEPT ![d] = item.drop]
    /\ served' = [served EXCEPT ![d] = @ \/ (item.frame # 0 /\ ~item.drop)]

SendNext(d) ==
    /\ simulator /\ ~failed[d]
    /\ held[d] = <<>> /\ queue[d] # <<>>
    /\ queue' = [queue EXCEPT ![d] = Tail(@)]
    /\ IF link[d]
       THEN Emit(d, Head(queue[d])) /\ UNCHANGED held
       ELSE held' = [held EXCEPT ![d] = <<Head(queue[d])>>] /\ UNCHANGED <<failed, served>>
    /\ UNCHANGED <<clock, monitor, simVars, linkVars, pushed, displaced, controlVars>>

SendHeld(d) ==
    /\ simulator /\ ~failed[d]
    /\ held[d] # <<>> /\ link[d]
    /\ held' = [held EXCEPT ![d] = <<>>]
    /\ Emit(d, Head(held[d]))
    /\ UNCHANGED <<clock, monitor, simVars, linkVars, queue, pushed, displaced,
                   controlVars>>

-----------------------------------------------------------------------------
(* A DevKit's controls.                                                    *)

(* on_bridge: the control is stamped on receipt and queued.                *)
DevKitBridge(d, names) ==
    /\ link[d] /\ ~greeting[d]
    /\ sent[d] < MaxControl
    /\ sent' = [sent EXCEPT ![d] = @ + 1]
    /\ controlQueue' = [controlQueue EXCEPT ![d] =
         Put(@, [id |-> sent[d] + 1, time |-> clock, names |-> names,
                 session |-> session[d]])]
    /\ UNCHANGED <<clock, monitor, simVars, linkVars, sendVars, phase, current, cancelled>>

(* control_loop takes a control; process_devkit_bridge_control publishes   *)
(* the status first.                                                       *)
TakeControl(d) ==
    /\ simulator
    /\ phase[d] = "idle" /\ controlQueue[d] # <<>>
    /\ phase' = [phase EXCEPT ![d] = "status"]
    /\ current' = [current EXCEPT ![d] = Head(controlQueue[d])]
    /\ controlQueue' = [controlQueue EXCEPT ![d] = Tail(@)]
    /\ UNCHANGED <<clock, monitor, simVars, linkVars, sendVars, sent, cancelled>>

(* The status broadcast returned: rewrite, merge, and broadcast the frame. *)
Merge(d) ==
    /\ phase[d] = "status"
    /\ monitor = "reading"
    /\ cache' = [v \in DevKit |->
                   IF v \in Rewritten(d, current[d].names)
                   THEN [by |-> d, id |-> current[d].id] ELSE cache[v]]
    /\ phase' = [phase EXCEPT ![d] = "frame"]
    /\ UNCHANGED <<clock, monitor, simulator, frames, events, history, echoing, view,
                   linkVars, sendVars, sent, controlQueue, current, cancelled>>

(* The frame broadcast returned: send_next_bridge_after starts waiting.    *)
AwaitFrame(d) ==
    /\ phase[d] = "frame"
    /\ monitor = "reading"
    /\ phase' = [phase EXCEPT ![d] = "wait"]
    /\ UNCHANGED <<clock, monitor, simVars, linkVars, sendVars, sent, controlQueue,
                   current, cancelled>>

(* send_next_bridge_after: the oldest retained frame newer than the        *)
(* control goes to the DevKit that sent it.                                *)
Answer(d) ==
    /\ phase[d] = "wait"
    /\ history' = Prune(history)
    /\ \E r \in Oldest(After(Prune(history), current[d].time)) :
         IF Queued(d, r)
         THEN /\ queue' = [queue EXCEPT ![d] = Put(@, Item(d, r))]
              /\ pushed' = [pushed EXCEPT ![d] = r.id]
         ELSE UNCHANGED <<queue, pushed>>
    /\ phase' = [phase EXCEPT ![d] = "idle"]
    /\ current' = [current EXCEPT ![d] = NoControl]
    /\ UNCHANGED <<clock, monitor, simulator, frames, events, echoing, cache, view,
                   linkVars, held, failed, served, displaced, sent, controlQueue,
                   cancelled>>

-----------------------------------------------------------------------------
(* The environment: time, and the monitor's socket.                        *)

Tick ==
    /\ clock < MaxTime
    /\ clock' = clock + 1
    /\ UNCHANGED <<monitor, simVars, linkVars, sendVars, controlVars>>

MonitorStalls ==
    /\ MonitorMayStall
    /\ monitor = "reading"
    /\ monitor' = "stalled"
    /\ UNCHANGED <<clock, simVars, linkVars, sendVars, controlVars>>

MonitorReads ==
    /\ monitor = "stalled"
    /\ monitor' = "reading"
    /\ UNCHANGED <<clock, simVars, linkVars, sendVars, controlVars>>

-----------------------------------------------------------------------------
Simulator ==
    \/ SimulatorConnect
    \/ SimulatorDisconnect
    \/ \E for \in Audiences : SimulatorBridge(for)
    \/ \E for \in Audiences : SimulatorEvent(for) \/ MonitorEvent(for)

SendLoop(d) == SendNext(d) \/ SendHeld(d)

ControlLoop(d) == TakeControl(d) \/ Merge(d) \/ AwaitFrame(d) \/ Answer(d)

Connection(d) == Connect(d) \/ ConnectFails(d) \/ OnConnect(d) \/ Drop(d)

Next ==
    \/ Simulator
    \/ \E f \in 1..frames : Echo(f)
    \/ \E d \in DevKit : Connection(d) \/ SendLoop(d) \/ ControlLoop(d)
    \/ \E d \in DevKit, names \in Names : DevKitBridge(d, names)
    \/ Tick \/ MonitorStalls \/ MonitorReads

Spec == Init /\ [][Next]_vars

(* The event loop runs every ready task, and a monitor broadcast returns   *)
(* when the monitor reads again and again, hence the strong fairness.      *)
(* Nothing is promised of the simulator, the DevKits, the network, the     *)
(* clock, or of the monitor reading at all.                                *)
Fairness ==
    /\ \A f \in 1..MaxFrame : SF_vars(Echo(f))
    /\ \A d \in DevKit : /\ WF_vars(OnConnect(d))
                         /\ WF_vars(SendLoop(d))
                         /\ SF_vars(ControlLoop(d))

FairSpec == Spec /\ Fairness

-----------------------------------------------------------------------------
(* Properties.                                                             *)

(* The controls of one DevKit stay in the order of sending: what the cache *)
(* or the simulator has of d comes before what d's loop has not merged     *)
(* yet, and that before what is queued.  (The inductive core of the        *)
(* properties below.)                                                      *)
Behind(e, d) ==
    e.by = d =>
        /\ e.id <= sent[d]
        /\ phase[d] = "status" => e.id < current[d].id
        /\ \A i \in 1..Len(controlQueue[d]) : e.id < controlQueue[d][i].id

PendingInOrder(d) ==
    /\ current[d].id <= sent[d]
    /\ \A i \in 1..Len(controlQueue[d]) :
         /\ current[d].id < controlQueue[d][i].id
         /\ controlQueue[d][i].id <= sent[d]
         /\ \A j \in 1..Len(controlQueue[d]) :
              i < j => controlQueue[d][i].id < controlQueue[d][j].id

ControlOrder ==
    /\ \A d \in DevKit : PendingInOrder(d)
    /\ \A d \in DevKit, v \in DevKit : Behind(cache[v], d) /\ Behind(view[v], d)

(* A vehicle's control as the simulator sees it is never replaced by an    *)
(* older control of the same DevKit, across overflows of the control       *)
(* queue, reconnections, a stalled monitor and concurrent echo handlers    *)
(* (server.py, process_devkit_bridge_control and                           *)
(* emit_control_cache_to_simulator).                                       *)
ControlsReachSimulatorInOrder ==
    [][simulator /\ simulator' =>
         \A v \in DevKit : view'[v].by = view[v].by => view'[v].id >= view[v].id]_vars

(* What the simulator has seen of a DevKit's controls is never ahead of    *)
(* the cache: the cache may be newer, or belong to another DevKit.         *)
ViewBehindCache ==
    \A v \in DevKit : view[v].by = cache[v].by => view[v].id <= cache[v].id

(* The last control wins: when a DevKit's loop has nothing left to merge,  *)
(* its own vehicle runs on the last control it sent.  Overflow may lose    *)
(* controls, but never the last one; only stop() can, by cancelling the    *)
(* loop in its status broadcast (server.py, stop and enqueue_control).     *)
LastControlWins ==
    \A d \in DevKit :
        /\ controlQueue[d] = <<>> /\ phase[d] # "status"
        /\ sent[d] # 0 /\ cancelled[d] # sent[d]
        => cache[d] = [by |-> d, id |-> sent[d]]

(* Within a session the frames queued for a DevKit never go back in time,  *)
(* though two tasks queue them: the simulator's handler (initial frame)    *)
(* and the control loop.  The exception is a control of an earlier         *)
(* session, which the control loop still answers after a reconnection.     *)
FramesInOrder ==
    [][\A d \in DevKit :
         pushed'[d] >= pushed[d] \/ session'[d] # session[d]
         \/ (phase[d] = "wait" /\ current[d].session # session[d])]_vars

(* A connected DevKit whose send loop runs is owed its initial frame, has  *)
(* one queued or held, or was sent one in this session: no interleaving of *)
(* on_connect, the simulator's frames, the send loop and reconnections     *)
(* leaves it with none of these, which would stop its ping-pong for good.  *)
(* There is one exception in the code: a debugging or simulator event that *)
(* overflows the queue while the frame is at its head (server.py, enqueue, *)
(* on_connect and handle_simulator_bridge_event).                          *)
InitialFrameNotLost ==
    \A d \in DevKit :
        link[d] /\ connected[d] /\ ~greeting[d] /\ ~failed[d] =>
          awaiting[d] \/ HasFrame(queue[d]) \/ HasFrame(held[d]) \/ served[d] \/ displaced[d]

(* Every frame of the simulator is eventually answered with the controls.  *)
FrameEchoed == \A f \in 1..MaxFrame : (f \in echoing) ~> (f \notin echoing)

(* A control a DevKit sent is eventually in the cache, or a later one is,  *)
(* unless the simulator leaves (which may cancel it) or the loop waits for *)
(* a frame newer than the control before it.  (Every control names id 1.)  *)
ControlEventuallyMerged ==
    \A d \in DevKit, c \in 1..MaxControl :
        (simulator /\ sent[d] = c)
          ~> (~simulator \/ phase[d] = "wait" \/ cancelled[d] >= c \/ cache[d].id >= c)

(* A DevKit that stays connected gets what is queued for it.               *)
QueueDrains ==
    \A d \in DevKit :
        (simulator /\ link[d] /\ queue[d] # <<>>) ~> (~link[d] \/ queue[d] = <<>>)

(* The control path implements the register it promises.                   *)
Register == INSTANCE ControlRegister WITH Vehicle <- DevKit, register <- cache, seen <- view

ImplementsRegister == Register!Spec
=============================================================================
