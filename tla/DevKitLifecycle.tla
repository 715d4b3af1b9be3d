-------------------------- MODULE DevKitLifecycle --------------------------
(***************************************************************************)
(* How the Race Control Tower starts, stops and re-targets its DevKit      *)
(* connections: the tasks of each DevKitConnection and the handles that    *)
(* remember them, and the handlers (a simulator connecting or leaving, the *)
(* commands of monitor clients) that call start(), stop() and configure(). *)
(* There may be several simulators; the DevKits are served while there is  *)
(* one, and a simulator whose events come before its connect is connected  *)
(* by them (_handle_implicit_socketio_connect), in the same handler.       *)
(*                                                                         *)
(* start() does not suspend.  stop() does: in client.disconnect(), which   *)
(* awaits the status broadcast of on_disconnect and then the closing of    *)
(* the connection, in the gather over the tasks it cancelled, and in a     *)
(* status broadcast of its own if the DevKit still counts as connected.    *)
(* Everything may happen there.  A broadcast returns when the monitor has  *)
(* read it: the monitor is one browser that reads or has stalled.  What a  *)
(* handler publishes after its last change of state is MonitorHub's.       *)
(* The task of send_loop and the one of control_loop are started and       *)
(* cancelled by the same lines and never end by themselves, so one "loop"  *)
(* task stands for each of the two.  The Socket.IO client is external: the *)
(* field eio is what the code reads of it, connected or between the two.   *)
(*                                                                         *)
(* The definitions named Faulty... are plausible mistakes in the operator  *)
(* that follows them; no specification uses them.                          *)
(***************************************************************************)
EXTENDS Naturals, FiniteSets

CONSTANTS
    Simulator,  \* the sids of simulators
    DevKit,     \* the DevKit slots
    Client,     \* monitor clients that send commands, one at a time each
    Endpoint,   \* host and port pairs
    NoEndpoint, \* the endpoint of a DevKit that is not configured
    Initial,    \* the endpoints at startup, from RCT_DEVKIT_URLS
    MaxTask,    \* tasks of a kind that a DevKit may have at a time (a bound:
                \* nothing new begins when a start() could exceed it)
    Serial,     \* handlers run one at a time
    MonitorMayStall \* whether the monitor's socket may stop draining

ASSUME LifecycleAssumption ==
    /\ DevKit \cap Client = {}
    /\ NoEndpoint \notin Endpoint
    /\ Initial \in [DevKit -> Endpoint \cup {NoEndpoint}]
    /\ MaxTask \in Nat \ {0}
    /\ Serial \in BOOLEAN
    /\ MonitorMayStall \in BOOLEAN

VARIABLES
    simulators, \* simulator_sids
    devkit,     \* the DevKitConnection objects
    handler,    \* handlers suspended in a stop(); a DevKit's own slot is the
                \* branch for it of a simulator's disconnect handler
    monitor     \* "reading" or "stalled"

vars == <<simulators, devkit, handler, monitor>>

Task == 1..MaxTask
Target == Endpoint \cup {NoEndpoint}
Slot == DevKit \cup Client
Idle == [pc |-> "idle", on |-> {}, kind |-> "none", to |-> NoEndpoint,
         joins |-> FALSE, runs |-> {}, loops |-> {}]

DevKitConnection ==
    [enabled : BOOLEAN, endpoint : Target,
     eio : {"disconnected", "connected", "disconnecting"},
     peer : Target,                  \* where the client is connected to
     greeting : BOOLEAN,             \* the on_connect of a connection has not run yet
     connected : BOOLEAN,            \* what on_connect and on_disconnect set
     run : Task \cup {0},            \* _run_task; 0 is None
     loop : Task \cup {0},           \* _send_task and _control_task
     runs : [Task -> {"none", "ready", "notifying", "dialing", "cancelled"}],
     dials : [Task -> Target],       \* the url a dialing task has read
     loops : [Task -> {"none", "live", "cancelled"}]]

Handler ==
    [pc : {"idle", "notify", "closing", "joining", "publishing"},
     on : SUBSET DevKit,
     kind : {"none", "leave", "disconnect", "endpoint", "retire"},
     to : Target,
     joins : BOOLEAN,                \* has stop() tasks to gather
     runs : SUBSET Task, loops : SUBSET Task]  \* those that have not ended yet

(* Types, and that a stop() waits for no task it did not cancel.           *)
TypeOK ==
    /\ simulators \subseteq Simulator
    /\ devkit \in [DevKit -> DevKitConnection]
    /\ handler \in [Slot -> Handler]
    /\ monitor \in {"reading", "stalled"}
    /\ \A s \in Slot : \A d \in handler[s].on :
         /\ \A t \in handler[s].runs : devkit[d].runs[t] = "cancelled"
         /\ \A t \in handler[s].loops : devkit[d].loops[t] = "cancelled"

NewConnection(endpoint) ==
    [enabled |-> TRUE, endpoint |-> endpoint,
     eio |-> "disconnected", peer |-> NoEndpoint, greeting |-> FALSE,
     connected |-> FALSE, run |-> 0, loop |-> 0,
     runs |-> [t \in Task |-> "none"], dials |-> [t \in Task |-> NoEndpoint],
     loops |-> [t \in Task |-> "none"]]

Init ==
    /\ simulators = {}
    /\ devkit = [d \in DevKit |-> NewConnection(Initial[d])]
    /\ handler = [s \in Slot |-> Idle]
    /\ monitor = "reading"

Busy(d) == \E s \in Slot : d \in handler[s].on
Quiet == \A s \in Slot : handler[s] = Idle

-----------------------------------------------------------------------------
(* The methods of DevKitConnection, on the record c of one.                *)

Done(tasks, t) == t = 0 \/ tasks[t] = "none"

(* An id no task has; the handle of a task that ended still has its id.    *)
Free(tasks, t) == {u \in Task : tasks[u] = "none" /\ u # t}
Fresh(tasks, t) == CHOOSE u \in Free(tasks, t) : TRUE

Room ==
    \A d \in DevKit :
        LET pending == Cardinality({s \in Slot : d \in handler[s].on}) IN
        /\ Cardinality(Free(devkit[d].runs, devkit[d].run)) > pending
        /\ Cardinality(Free(devkit[d].loops, devkit[d].loop)) > pending

FaultyStartRun(c) ==
    LET t == Fresh(c.runs, c.run) IN [c EXCEPT !.run = t, !.runs[t] = "ready"]
StartRun(c) ==
    IF Done(c.runs, c.run)
    THEN LET t == Fresh(c.runs, c.run) IN [c EXCEPT !.run = t, !.runs[t] = "ready"]
    ELSE c

StartLoop(c) ==
    IF Done(c.loops, c.loop)
    THEN LET t == Fresh(c.loops, c.loop) IN [c EXCEPT !.loop = t, !.loops[t] = "live"]
    ELSE c

(* start(): a handle that is None or done gets a new task.                 *)
Start(c, sids) ==
    IF c.endpoint # NoEndpoint /\ c.enabled /\ sids # {} THEN StartLoop(StartRun(c)) ELSE c

(* stop(), its first part: cancel the tasks behind the handles.            *)
FaultyCancel(c) == c
Cancel(c) ==
    [c EXCEPT !.runs = [t \in Task |-> IF t = c.run /\ @[t] # "none"
                                       THEN "cancelled" ELSE @[t]],
              !.loops = [t \in Task |-> IF t = c.loop /\ @[t] # "none"
                                        THEN "cancelled" ELSE @[t]],
              !.dials = [t \in Task |-> IF t = c.run THEN NoEndpoint ELSE @[t]]]

(* stop(), its last part: forget the handles.                              *)
Forget(c) == [c EXCEPT !.run = 0, !.loop = 0]

(* Where stop() first suspends: on_disconnect has a status to publish, the *)
(* connection is being closed, there are tasks to gather, or stop() itself *)
(* has a status to publish.                                                *)
FaultyPlace(c) ==
    IF c.run # 0 \/ c.loop # 0 THEN "joining"
    ELSE IF c.connected THEN "publishing" ELSE "returned"
Place(c) ==
    IF c.eio = "connected" THEN (IF c.connected THEN "notify" ELSE "closing")
    ELSE IF c.run # 0 \/ c.loop # 0 THEN "joining"
    ELSE IF c.connected THEN "publishing" ELSE "returned"

Suspends(c) == Place(c) # "returned"

(* stop() up to there.  (Nothing is left to forget when it does not wait.) *)
Halt(c) ==
    LET b == Cancel(c) IN
    [b EXCEPT !.eio = IF Place(c) = "closing" THEN "disconnecting" ELSE @,
              !.connected = @ /\ Place(c) \notin {"notify", "publishing"}]

Stopping(c, d, kind, to) ==
    [pc |-> Place(c), on |-> {d}, kind |-> kind, to |-> to,
     joins |-> c.run # 0 \/ c.loop # 0,
     runs |-> {t \in Task : t = c.run /\ c.runs[t] # "none"},
     loops |-> {t \in Task : t = c.loop /\ c.loops[t] # "none"}]

(* set_devkit_endpoint, and what the commands assign.                      *)
Retarget(c, to) == [c EXCEPT !.endpoint = to]
Enable(c, flag) == [c EXCEPT !.enabled = flag]

(* ensure_unique_devkit_endpoint does not raise.                           *)
FaultyUnique(d, to) == TRUE
Unique(d, to) ==
    \A o \in DevKit \ {d} : devkit[o].enabled => devkit[o].endpoint # to

-----------------------------------------------------------------------------
(* The simulators.                                                         *)

(* connect: connect_all_devkits.                                           *)
SimulatorConnect(sid) ==
    /\ sid \notin simulators
    /\ Room
    /\ Serial => Quiet
    /\ simulators' = simulators \cup {sid}
    /\ devkit' = [d \in DevKit |-> Start(devkit[d], simulators')]
    /\ UNCHANGED <<handler, monitor>>

(* disconnect: once no simulator is left, disconnect_all_devkits gathers a *)
(* stop() of each DevKit.  One such handler at a time (a bound).           *)
FaultyAbandoned(sids) == TRUE
Abandoned(sids) == sids = {}

SimulatorDisconnect(sid) ==
    /\ sid \in simulators
    /\ Serial => Quiet
    /\ simulators' = simulators \ {sid}
    /\ IF Abandoned(simulators')
       THEN /\ \A d \in DevKit : handler[d] = Idle
            /\ devkit' = [d \in DevKit |-> Halt(devkit[d])]
            /\ handler' = [s \in Slot |->
                             IF s \in DevKit /\ Suspends(devkit[s])
                             THEN Stopping(devkit[s], s, "leave", NoEndpoint) ELSE handler[s]]
       ELSE UNCHANGED <<devkit, handler>>
    /\ UNCHANGED monitor

-----------------------------------------------------------------------------
(* Commands.  A command that is rejected changes nothing.                  *)

Accepts(s) == handler[s] = Idle /\ Room /\ (Serial => Quiet)

(* connect_devkit without an endpoint.                                     *)
ConnectCommand(s, d) ==
    /\ Accepts(s)
    /\ devkit[d].endpoint # NoEndpoint => Unique(d, devkit[d].endpoint)
    /\ devkit' = [devkit EXCEPT ![d] = Start(Enable(@, TRUE), simulators)]
    /\ UNCHANGED <<simulators, handler, monitor>>

(* disconnect_devkit.                                                      *)
DisconnectCommand(s, d) ==
    /\ Accepts(s)
    /\ devkit' = [devkit EXCEPT ![d] = Halt(Enable(@, FALSE))]
    /\ handler' = IF Suspends(devkit[d])
                  THEN [handler EXCEPT ![s] = Stopping(devkit[d], d, "disconnect", NoEndpoint)]
                  ELSE handler
    /\ UNCHANGED <<simulators, monitor>>

(* configure_devkit (and connect_devkit with an endpoint), enabled: check, *)
(* configure() with a stop() if the url changes, enable, start.            *)
FaultyEndpointCommand(s, d, to) ==
    /\ Accepts(s)
    /\ Unique(d, to)
    /\ devkit' = [devkit EXCEPT ![d] = Start(Enable(Retarget(@, to), TRUE), simulators)]
    /\ UNCHANGED <<simulators, handler, monitor>>
EndpointCommand(s, d, to) ==
    /\ Accepts(s)
    /\ Unique(d, to)
    /\ IF to # devkit[d].endpoint /\ Suspends(devkit[d])
       THEN /\ devkit' = [devkit EXCEPT ![d] = Halt(@)]
            /\ handler' = [handler EXCEPT ![s] = Stopping(devkit[d], d, "endpoint", to)]
       ELSE /\ devkit' = [devkit EXCEPT ![d] =
                            Start(Enable(Retarget(@, to), TRUE), simulators)]
            /\ UNCHANGED handler
    /\ UNCHANGED <<simulators, monitor>>

(* The endpoint command with enabled = false: configure(), disable, stop().*)
RetireCommand(s, d, to) ==
    /\ Accepts(s)
    /\ LET c == devkit[d] IN
       IF ~Suspends(c)
       THEN /\ devkit' = [devkit EXCEPT ![d] = Enable(Retarget(c, to), FALSE)]
            /\ UNCHANGED handler
       ELSE IF to # c.endpoint
       THEN /\ devkit' = [devkit EXCEPT ![d] = Halt(c)]
            /\ handler' = [handler EXCEPT ![s] = Stopping(c, d, "retire", to)]
       ELSE /\ devkit' = [devkit EXCEPT ![d] = Halt(Enable(c, FALSE))]
            /\ handler' = [handler EXCEPT ![s] = Stopping(c, d, "disconnect", NoEndpoint)]
    /\ UNCHANGED <<simulators, monitor>>

-----------------------------------------------------------------------------
(* A stop() in progress.                                                   *)

(* client.disconnect(): the broadcast of on_disconnect returned, and the   *)
(* Engine.IO client is told.                                               *)
Disconnecting(s, d) ==
    /\ handler[s].pc = "notify" /\ d \in handler[s].on
    /\ monitor = "reading"
    /\ handler' = [handler EXCEPT ![s].pc = "closing"]
    /\ devkit' = [devkit EXCEPT ![d].eio =
                    IF @ = "connected" THEN "disconnecting" ELSE @]
    /\ UNCHANGED <<simulators, monitor>>

(* stop() returned: the rest of the handler that called it, up to its end  *)
(* or to where a second stop() suspends.                                   *)
Return(s, d, c) ==
    LET h == handler[s]
        served == Start(Enable(Retarget(c, h.to), TRUE), simulators)
        retired == Enable(Retarget(c, h.to), FALSE) IN
    CASE h.kind = "endpoint" ->
           /\ devkit' = [devkit EXCEPT ![d] = served]
           /\ handler' = [handler EXCEPT ![s] = Idle]
      [] h.kind = "retire" ->
           /\ devkit' = [devkit EXCEPT ![d] = Halt(retired)]
           /\ handler' = [handler EXCEPT ![s] =
                IF Suspends(retired)
                THEN Stopping(retired, d, "disconnect", NoEndpoint) ELSE Idle]
      [] OTHER ->
           /\ devkit' = [devkit EXCEPT ![d] = c]
           /\ handler' = [handler EXCEPT ![s] = Idle]

(* The last part of stop(): with a DevKit that counts as connected it      *)
(* publishes the status, otherwise it returns.                             *)
Conclude(s, d, c) ==
    IF c.connected
    THEN /\ devkit' = [devkit EXCEPT ![d] = [Forget(c) EXCEPT !.connected = FALSE]]
         /\ handler' = [handler EXCEPT ![s].pc = "publishing"]
    ELSE Return(s, d, Forget(c))

(* The connection is closed; without tasks to join stop() goes on.         *)
Disconnected(s, d) ==
    LET c == [devkit[d] EXCEPT !.eio = "disconnected", !.peer = NoEndpoint] IN
    /\ handler[s].pc = "closing" /\ d \in handler[s].on
    /\ IF handler[s].joins
       THEN /\ devkit' = [devkit EXCEPT ![d] = c]
            /\ handler' = [handler EXCEPT ![s].pc = "joining"]
       ELSE Conclude(s, d, c)
    /\ UNCHANGED <<simulators, monitor>>

(* gather: every task that stop() cancelled has ended.                     *)
AllEnded(s) == handler[s].runs = {} /\ handler[s].loops = {}

Joined(s, d) ==
    /\ handler[s].pc = "joining" /\ d \in handler[s].on
    /\ AllEnded(s)
    /\ Conclude(s, d, devkit[d])
    /\ UNCHANGED <<simulators, monitor>>

(* The broadcast of stop() itself returned.                                *)
Published(s, d) ==
    /\ handler[s].pc = "publishing" /\ d \in handler[s].on
    /\ monitor = "reading"
    /\ Return(s, d, devkit[d])
    /\ UNCHANGED <<simulators, monitor>>

-----------------------------------------------------------------------------
(* The tasks.                                                              *)

(* run() wakes: it ends, sleeps again, or dials.  A client it finds in a   *)
(* state between the two is disconnected first, which publishes the status *)
(* of a DevKit that counts as connected.                                   *)
Dials(d, t) ==
    devkit' = [devkit EXCEPT ![d].runs[t] = "dialing",
                             ![d].dials[t] = devkit[d].endpoint,
                             ![d].eio = "disconnected",
                             ![d].peer = NoEndpoint]

RunWakes(d, t) ==
    LET c == devkit[d] IN
    /\ c.runs[t] = "ready"
    /\ IF ~(simulators # {} /\ c.endpoint # NoEndpoint /\ c.enabled)
       THEN devkit' = [devkit EXCEPT ![d].runs[t] = "none"]
       ELSE /\ c.eio # "connected"
            /\ IF c.eio = "disconnecting" /\ c.connected
               THEN devkit' = [devkit EXCEPT ![d].runs[t] = "notifying",
                                             ![d].connected = FALSE]
               ELSE Dials(d, t)
    /\ UNCHANGED <<simulators, handler, monitor>>

RunNotified(d, t) ==
    /\ devkit[d].runs[t] = "notifying"
    /\ monitor = "reading"
    /\ Dials(d, t)
    /\ UNCHANGED <<simulators, handler, monitor>>

(* The on_connect of the connection follows, as a task of its own.         *)
DialSucceeds(d, t) ==
    /\ devkit[d].runs[t] = "dialing"
    /\ ~devkit[d].greeting
    /\ devkit' = [devkit EXCEPT ![d] =
                    [@ EXCEPT !.runs[t] = "ready", !.dials[t] = NoEndpoint,
                              !.eio = "connected", !.peer = devkit[d].dials[t],
                              !.greeting = TRUE]]
    /\ UNCHANGED <<simulators, handler, monitor>>

FaultyDialFails(d, t) ==
    /\ devkit[d].runs[t] = "dialing"
    /\ devkit' = [devkit EXCEPT ![d].runs[t] = "none", ![d].dials[t] = NoEndpoint,
                                ![d].connected = FALSE]
    /\ UNCHANGED <<simulators, handler, monitor>>
DialFails(d, t) ==
    /\ devkit[d].runs[t] = "dialing"
    /\ devkit' = [devkit EXCEPT ![d].runs[t] = "ready", ![d].dials[t] = NoEndpoint,
                                ![d].connected = FALSE]
    /\ UNCHANGED <<simulators, handler, monitor>>

(* A cancelled task receives its CancelledError and ends.                  *)
RunEnds(d, t) ==
    /\ devkit[d].runs[t] = "cancelled"
    /\ devkit' = [devkit EXCEPT ![d].runs[t] = "none"]
    /\ handler' = [s \in Slot |-> IF d \in handler[s].on
                     THEN [handler[s] EXCEPT !.runs = @ \ {t}] ELSE handler[s]]
    /\ UNCHANGED <<simulators, monitor>>

LoopEnds(d, t) ==
    /\ devkit[d].loops[t] = "cancelled"
    /\ devkit' = [devkit EXCEPT ![d].loops[t] = "none"]
    /\ handler' = [s \in Slot |-> IF d \in handler[s].on
                     THEN [handler[s] EXCEPT !.loops = @ \ {t}] ELSE handler[s]]
    /\ UNCHANGED <<simulators, monitor>>

(* on_connect, its first step; the rest is BridgeRelay's.                  *)
OnConnect(d) ==
    /\ devkit[d].greeting
    /\ devkit' = [devkit EXCEPT ![d].greeting = FALSE, ![d].connected = TRUE]
    /\ UNCHANGED <<simulators, handler, monitor>>

(* The DevKit or the network drops the connection; on_disconnect runs.     *)
LinkDrops(d) ==
    /\ devkit[d].eio = "connected"
    /\ devkit' = [devkit EXCEPT ![d].eio = "disconnected", ![d].peer = NoEndpoint,
                                ![d].connected = FALSE]
    /\ UNCHANGED <<simulators, handler, monitor>>

MonitorStalls ==
    /\ MonitorMayStall
    /\ monitor = "reading"
    /\ monitor' = "stalled"
    /\ UNCHANGED <<simulators, devkit, handler>>

MonitorReads ==
    /\ monitor = "stalled"
    /\ monitor' = "reading"
    /\ UNCHANGED <<simulators, devkit, handler>>

-----------------------------------------------------------------------------
Command(s, d) ==
    \/ ConnectCommand(s, d)
    \/ DisconnectCommand(s, d)
    \/ \E to \in Endpoint : EndpointCommand(s, d, to) \/ RetireCommand(s, d, to)

Stop(s, d) == Disconnecting(s, d) \/ Disconnected(s, d) \/ Joined(s, d) \/ Published(s, d)

RunTask(d, t) ==
    \/ RunWakes(d, t) \/ RunNotified(d, t)
    \/ DialSucceeds(d, t) \/ DialFails(d, t) \/ RunEnds(d, t)

Next ==
    \/ \E sid \in Simulator : SimulatorConnect(sid) \/ SimulatorDisconnect(sid)
    \/ \E s \in Client, d \in DevKit : Command(s, d)
    \/ \E s \in Slot, d \in DevKit : Stop(s, d)
    \/ \E d \in DevKit, t \in Task : RunTask(d, t) \/ LoopEnds(d, t)
    \/ \E d \in DevKit : OnConnect(d) \/ LinkDrops(d)
    \/ MonitorStalls \/ MonitorReads

Spec == Init /\ [][Next]_vars

(* Ready tasks run, a dial ends within its timeout, and closing a socket   *)
(* ends; no dial needs to succeed, no link to drop, and no one to command. *)
(* A stop() may wait for a broadcast, which returns when the monitor reads *)
(* again and again, hence the strong fairness; that it does is assumed     *)
(* nowhere but in the property that needs it.                              *)
Fairness ==
    /\ \A s \in Slot, d \in DevKit : SF_vars(Stop(s, d))
    /\ \A d \in DevKit : WF_vars(OnConnect(d))
    /\ \A d \in DevKit, t \in Task : WF_vars(RunTask(d, t)) /\ WF_vars(LoopEnds(d, t))

FairSpec == Spec /\ Fairness

-----------------------------------------------------------------------------
(* Properties.                                                             *)

(* No two enabled DevKits share an endpoint: ensure_unique_devkit_endpoint *)
(* is read before the await of configure() and used after it.              *)
UniqueEndpoints ==
    \A d, o \in DevKit :
        /\ d # o /\ devkit[d].enabled /\ devkit[o].enabled
        /\ devkit[d].endpoint # NoEndpoint
        => devkit[d].endpoint # devkit[o].endpoint

(* Every task that may still act is the one its handle remembers, so that  *)
(* the next stop() cancels it, and there is one of a kind: two send loops  *)
(* or control loops would reorder frames and controls.                     *)
NoOrphan ==
    \A d \in DevKit, t \in Task :
        /\ devkit[d].runs[t] \in {"ready", "notifying", "dialing"} => devkit[d].run = t
        /\ devkit[d].loops[t] = "live" => devkit[d].loop = t

(* A DevKit that should be served is: its tasks run, unless a handler is   *)
(* at work on it (start() in the middle of a stop() must not get lost).    *)
Served ==
    \A d \in DevKit :
        /\ simulators # {} /\ devkit[d].enabled /\ devkit[d].endpoint # NoEndpoint
        /\ ~Busy(d)
        => /\ devkit[d].run # 0 /\ devkit[d].runs[devkit[d].run] \in {"ready", "notifying", "dialing"}
           /\ devkit[d].loop # 0 /\ devkit[d].loops[devkit[d].loop] = "live"

(* A DevKit that is disabled, or has no simulator, is down once the        *)
(* handlers are through with it: no connection, and no task to make one.   *)
DownWhenOff ==
    \A d \in DevKit :
        (simulators = {} \/ ~devkit[d].enabled) /\ ~Busy(d) =>
            /\ devkit[d].eio = "disconnected"
            /\ \A t \in Task : devkit[d].loops[t] # "live"

(* A DevKit in use is connected to the endpoint it is configured for.      *)
ConnectedToEndpoint ==
    \A d \in DevKit :
        devkit[d].eio = "connected" /\ ~Busy(d) => devkit[d].peer = devkit[d].endpoint

(* As long as the monitor reads again and again, every handler gets out of *)
(* stop(): it waits only for broadcasts, for a connection that closes and  *)
(* for tasks that it cancelled and that end.  (A monitor that stalls for   *)
(* good keeps it there: server.py, on_disconnect and stop.)                *)
HandlersReturn ==
    []<>(monitor = "reading") => \A s \in Slot : handler[s] # Idle ~> handler[s] = Idle

(* A DevKit left enabled with a simulator and down is dialed again and     *)
(* again, whatever happened to it before.                                  *)
KeepsDialing ==
    \A d \in DevKit :
        <>[](simulators # {} /\ devkit[d].enabled /\ devkit[d].endpoint # NoEndpoint /\ ~Busy(d))
          => []<>(\/ devkit[d].eio = "connected"
                 \/ \E t \in Task : devkit[d].runs[t] = "dialing")
=============================================================================
