----------------------------- MODULE MonitorHub -----------------------------
(***************************************************************************)
(* How monitor clients (browsers) learn the state of the Race Control      *)
(* Tower: RaceControlState, the rate of a DevKit's controls                *)
(* (BridgeRateTracker and its refresh loop), the set of monitor sockets    *)
(* (MonitorEventHub) and the handler of each socket (handle_monitor_ws).   *)
(*                                                                         *)
(* A message is built and its broadcast launched without a suspension.  A  *)
(* broadcast gathers one safe_send task per socket; tasks start in the     *)
(* order of their creation, write their frame and wait until the socket    *)
(* drains; when all are through, the sockets that failed are discarded.    *)
(* A handler that stops a DevKit changes the state before or after it      *)
(* awaits stop(), and publishes the status only at its end; stop() cancels *)
(* the control loop and may itself publish that the DevKit is down.        *)
(* RaceControlState is abstracted to a count of its changes (connections,  *)
(* endpoints, topics...), the rate of one DevKit, and monitor_clients;     *)
(* RCT_MONITOR_WS_HZ has its default, 0.                                   *)
(*                                                                         *)
(* The definitions named Faulty... are plausible mistakes in the operator  *)
(* that follows them; no specification uses them.                          *)
(***************************************************************************)
EXTENDS Naturals, FiniteSets, SequencesExt

CONSTANTS
    Monitor,    \* the sockets of monitor clients; a browser that reconnects has a new one
    Reader,     \* those whose browser keeps reading while they are open
    Active,     \* handlers that may get commands: of sockets, or "tower" (a bound)
    Window,     \* BRIDGE_RATE_WINDOW_SECONDS, in clock ticks
    HighWater,  \* messages a socket buffers before a send has to wait
    MaxFlight,  \* broadcasts that inputs may have under way at a time (a bound)
    MaxTime, MaxFacts, MaxRecord  \* bounds, used in guards only

ASSUME HubAssumption ==
    /\ IsFiniteSet(Monitor)
    /\ Reader \subseteq Monitor
    /\ Active \subseteq Monitor \cup {"tower"}
    /\ Monitor \cap {"tower", "control", "loop", "other"} = {}
    /\ Window \in Nat /\ HighWater \in Nat
    /\ MaxFlight \in Nat /\ MaxTime \in Nat /\ MaxFacts \in Nat
    /\ MaxRecord \in Nat

VARIABLES
    clock,      \* monotonic()
    stamps,     \* BridgeRateTracker._timestamps of the DevKit
    facts,      \* RaceControlState: the number of its changes
    unpublished, \* it changed since the last status, and nobody will publish that
    rate,       \* RaceControlState: the DevKit's bridge rate
    mirror,     \* RaceControlState: monitor_clients
    clients,    \* MonitorEventHub.clients
    phase,      \* where the handler of each socket is, and another that stops a DevKit
    socket,     \* "open" or "broken"
    wire,       \* messages written to a socket and not yet received
    shown,      \* the last status each browser received
    flight,     \* broadcasts under way, in the order of their launch
    refreshing  \* the refresh loop awaits its broadcast

trackerVars == <<clock, stamps>>
stateVars == <<facts, unpublished, rate, mirror>>
socketVars == <<phase, socket, wire, shown>>
vars == <<trackerVars, stateVars, clients, socketVars, flight, refreshing>>

Event == [kind |-> "event", facts |-> 0, rate |-> 0]
Blank == [kind |-> "none", facts |-> 0, rate |-> 0]
Message == [kind : {"status", "event", "none"}, facts : Nat, rate : Nat]

(* Who may call stop(): the handler of a socket (a WebSocket command), or  *)
(* one handler at a time (a bound) of REST or of a simulator that leaves.  *)
Caller == Monitor \cup {"tower"}

Flight == [message : Message, by : Caller \cup {"control", "loop", "other"},
           to : SUBSET Monitor, todo : SUBSET Monitor, waiting : SUBSET Monitor,
           lost : SUBSET Monitor]

(* Types; every broadcast under way addresses each socket at most once.    *)
TypeOK ==
    /\ clock \in Nat
    /\ stamps \in Seq(Nat)
    /\ facts \in Nat /\ rate \in Nat /\ mirror \in Nat
    /\ unpublished \in BOOLEAN
    /\ clients \subseteq Monitor
    /\ phase \in [Caller -> {"none", "greeting", "reading", "stopping", "notifying",
                             "publishing", "confirming", "leaving", "gone"}]
    /\ socket \in [Monitor -> {"open", "broken"}]
    /\ wire \in [Monitor -> Seq(Message)]
    /\ shown \in [Monitor -> Message]
    /\ flight \in Seq(Flight)
    /\ \A i \in 1..Len(flight) : flight[i].todo \cap flight[i].waiting = {}
    /\ refreshing \in BOOLEAN

Init ==
    /\ clock = 0 /\ stamps = <<>>
    /\ facts = 0 /\ rate = 0 /\ mirror = 0
    /\ unpublished = FALSE
    /\ clients = {}
    /\ phase = [a \in Caller |-> "none"]
    /\ socket = [m \in Monitor |-> "broken"]
    /\ wire = [m \in Monitor |-> <<>>]
    /\ shown = [m \in Monitor |-> Blank]
    /\ flight = <<>>
    /\ refreshing = FALSE

-----------------------------------------------------------------------------
(* Building and launching messages.                                        *)

(* BridgeRateTracker._prune: the timestamps up to the first recent one go. *)
Pruned(times) ==
    LET old == {i \in 1..Len(times) : \A j \in 1..i : times[j] + Window < clock} IN
    SubSeq(times, Cardinality(old) + 1, Len(times))

(* refresh_bridge_rates, which every status_payload calls: the state takes *)
(* the rate of the tracker.                                                *)
Refresh(times) ==
    /\ stamps' = Pruned(times)
    /\ rate' = Len(Pruned(times))

Status(f, times) == [kind |-> "status", facts |-> f, rate |-> Len(Pruned(times))]

(* MonitorEventHub.broadcast up to its await: nothing without clients.     *)
Launched(flights, to, message, by) ==
    IF to = {} THEN flights
    ELSE Append(flights, [message |-> message, by |-> by, to |-> to, todo |-> to,
                          waiting |-> {}, lost |-> {}])

(* A handler that stops a DevKit keeps room for the status it publishes.   *)
RoomBeside(flights) ==
    Len(flights) + Cardinality({a \in Caller : phase[a] = "stopping"}) < MaxFlight
Room == RoomBeside(flight)

-----------------------------------------------------------------------------
(* What changes the state and publishes it.                                *)

(* A handler that stops no DevKit (connect, on_connect, on_disconnect, the *)
(* topics...) changes something and calls publish_status at once.          *)
Change ==
    /\ Room /\ facts < MaxFacts
    /\ facts' = facts + 1
    /\ unpublished' = FALSE
    /\ Refresh(stamps)
    /\ flight' = Launched(flight, clients, Status(facts + 1, stamps), "other")
    /\ UNCHANGED <<clock, mirror, clients, socketVars, refreshing>>

(* run(): a dial failed; the DevKit is not connected, and no one says so.  *)
ConnectFails ==
    /\ facts < MaxFacts
    /\ facts' = facts + 1
    /\ unpublished' = TRUE
    /\ UNCHANGED <<trackerVars, rate, mirror, clients, socketVars, flight, refreshing>>

(* process_devkit_bridge_control: the control counts, and the status is    *)
(* published.  The control loop takes one control at a time; within the    *)
(* bounds, each control has the time to leave the window.                  *)
Record ==
    /\ Room /\ Len(stamps) < MaxRecord /\ clock + Window < MaxTime
    /\ \A i \in 1..Len(flight) : flight[i].by # "control"
    /\ unpublished' = FALSE
    /\ Refresh(Append(stamps, clock))
    /\ flight' = Launched(flight, clients, Status(facts, Append(stamps, clock)), "control")
    /\ UNCHANGED <<clock, facts, mirror, clients, socketVars, refreshing>>

(* bridge_rate_refresh_loop wakes: a changed rate is published.            *)
RefreshLoop ==
    /\ ~refreshing /\ Room
    /\ Len(Pruned(stamps)) # rate
    /\ unpublished' = FALSE
    /\ Refresh(stamps)
    /\ flight' = Launched(flight, clients, Status(facts, stamps), "loop")
    /\ refreshing' = (clients # {})
    /\ UNCHANGED <<clock, facts, mirror, clients, socketVars>>

(* handle_monitor_rest answers a GET with status_payload.                  *)
Poll ==
    /\ Refresh(stamps)
    /\ UNCHANGED <<clock, facts, unpublished, mirror, clients, socketVars, flight, refreshing>>

-----------------------------------------------------------------------------
(* The handler of a monitor's socket (handle_monitor_ws).                  *)

(* The socket joins the hub and gets its first status; safe_send is called *)
(* directly, so its frame is written before anything else runs.            *)
Join(m) ==
    /\ phase[m] = "none"
    /\ clients' = clients \cup {m}
    /\ mirror' = Cardinality(clients')
    /\ Refresh(stamps)
    /\ socket' = [socket EXCEPT ![m] = "open"]
    /\ wire' = [wire EXCEPT ![m] = <<Status(facts, stamps)>>]
    /\ phase' = [phase EXCEPT ![m] = "greeting"]
    /\ UNCHANGED <<clock, facts, unpublished, shown, flight, refreshing>>

Drained(m) == socket[m] = "broken" \/ Len(wire[m]) <= HighWater

Greeted(m) ==
    /\ phase[m] = "greeting" /\ Drained(m)
    /\ phase' = [phase EXCEPT ![m] = "reading"]
    /\ UNCHANGED <<trackerVars, stateVars, clients, socket, wire, shown, flight,
                   refreshing>>

(* A command of the monitor that stops no DevKit: the change, then         *)
(* publish_status, and then (see Finish) the broadcast of its event.       *)
Command(m) ==
    /\ m \in Active /\ phase[m] = "reading" /\ socket[m] = "open"
    /\ Room /\ facts < MaxFacts
    /\ facts' = facts + 1
    /\ unpublished' = FALSE
    /\ Refresh(stamps)
    /\ flight' = Launched(flight, clients, Status(facts + 1, stamps), m)
    /\ phase' = [phase EXCEPT ![m] = IF clients = {} THEN "reading" ELSE "publishing"]
    /\ UNCHANGED <<clock, mirror, clients, socket, wire, shown, refreshing>>

(* The reader sees that the socket is gone: finally, the handler leaves    *)
(* the hub and publishes the status to the others.                         *)
Leave(m) ==
    /\ phase[m] = "reading" /\ socket[m] = "broken"
    /\ clients' = clients \ {m}
    /\ mirror' = Cardinality(clients')
    /\ unpublished' = FALSE
    /\ Refresh(stamps)
    /\ flight' = Launched(flight, clients \ {m}, Status(facts, stamps), m)
    /\ phase' = [phase EXCEPT ![m] = IF clients \ {m} = {} THEN "gone" ELSE "leaving"]
    /\ UNCHANGED <<clock, facts, socket, wire, shown, refreshing>>

-----------------------------------------------------------------------------
(* A handler that stops a DevKit: a simulator that leaves, a command that  *)
(* disconnects or re-targets one.                                          *)

(* It changes the state before stop() (simulator_clients, enabled) or not; *)
(* stop() cancels the control loop if this is its DevKit, and with it the  *)
(* status broadcast of a control: sends that did not start are lost.       *)
StopBegins(a) ==
    /\ IF a = "tower" THEN phase[a] = "none" ELSE phase[a] = "reading" /\ socket[a] = "open"
    /\ a \in Active
    /\ facts' \in {facts, facts + 1} /\ facts' <= MaxFacts
    /\ phase' = [phase EXCEPT ![a] = "stopping"]
    /\ \/ flight' = flight
       \/ \E i \in 1..Len(flight) : flight[i].by = "control" /\ flight' = RemoveAt(flight, i)
    /\ RoomBeside(flight')
    /\ UNCHANGED <<trackerVars, unpublished, rate, mirror, clients, socket, wire, shown,
                   refreshing>>

(* on_disconnect, or the end of stop(): the DevKit is down, and stop()     *)
(* awaits the broadcast of that.                                           *)
StopNotifies(a) ==
    /\ phase[a] = "stopping"
    /\ facts < MaxFacts
    /\ facts' = facts + 1
    /\ unpublished' = FALSE
    /\ Refresh(stamps)
    /\ flight' = Launched(flight, clients, Status(facts + 1, stamps), a)
    /\ phase' = [phase EXCEPT ![a] = IF clients = {} THEN "stopping" ELSE "notifying"]
    /\ UNCHANGED <<clock, mirror, clients, socket, wire, shown, refreshing>>

(* stop() returned: the handler may change more (the endpoint, enabled)    *)
(* and publishes the status; a WebSocket command goes on like the others.  *)
StopReturns(a) ==
    /\ phase[a] = "stopping"
    /\ facts' \in {facts, facts + 1} /\ facts' <= MaxFacts
    /\ unpublished' = FALSE
    /\ Refresh(stamps)
    /\ flight' = Launched(flight, clients, Status(facts', stamps),
                          IF a = "tower" THEN "other" ELSE a)
    /\ phase' = [phase EXCEPT ![a] = CASE a = "tower" -> "none"
                                       [] clients = {} -> "reading"
                                       [] OTHER -> "publishing"]
    /\ UNCHANGED <<clock, mirror, clients, socket, wire, shown, refreshing>>

(* configure-devkits applies its entries one by one, with or without a     *)
(* stop(): when a later one is rejected, the error is broadcast and the    *)
(* status is not.                                                          *)
Rejected(m) ==
    /\ \/ phase[m] = "stopping"
       \/ m \in Active /\ phase[m] = "reading" /\ socket[m] = "open" /\ Room
    /\ facts' \in {facts, facts + 1} /\ facts' <= MaxFacts
    /\ unpublished' = (unpublished \/ phase[m] = "stopping" \/ facts' # facts)
    /\ flight' = Launched(flight, clients, Event, m)
    /\ phase' = [phase EXCEPT ![m] = IF clients = {} THEN "reading" ELSE "confirming"]
    /\ UNCHANGED <<trackerVars, rate, mirror, clients, socket, wire, shown, refreshing>>

-----------------------------------------------------------------------------
(* A broadcast under way.                                                  *)

(* The safe_send task of broadcast i for m starts, after those created     *)
(* before it for the same socket: it fails, or writes its frame.           *)
RepeatingFaultyStart(i, m) ==
    /\ i \in 1..Len(flight) /\ m \in flight[i].todo
    /\ socket[m] = "open"
    /\ wire' = [wire EXCEPT ![m] = Append(@, flight[i].message)]
    /\ flight' = [flight EXCEPT ![i].waiting = @ \cup {m}]
    /\ UNCHANGED <<trackerVars, stateVars, clients, phase, socket, shown, refreshing>>
UnorderedFaultyStart(i, m) ==
    /\ i \in 1..Len(flight) /\ m \in flight[i].todo
    /\ IF socket[m] = "open"
       THEN /\ wire' = [wire EXCEPT ![m] = Append(@, flight[i].message)]
            /\ flight' = [flight EXCEPT ![i].todo = @ \ {m}, ![i].waiting = @ \cup {m}]
       ELSE /\ flight' = [flight EXCEPT ![i].todo = @ \ {m}, ![i].lost = @ \cup {m}]
            /\ UNCHANGED wire
    /\ UNCHANGED <<trackerVars, stateVars, clients, phase, socket, shown, refreshing>>
SequentialFaultyStart(i, m) ==
    /\ i \in 1..Len(flight) /\ m \in flight[i].todo
    /\ \A j \in 1..(i - 1) : m \notin flight[j].todo
    /\ flight[i].waiting = {}
    /\ IF socket[m] = "open"
       THEN /\ wire' = [wire EXCEPT ![m] = Append(@, flight[i].message)]
            /\ flight' = [flight EXCEPT ![i].todo = @ \ {m}, ![i].waiting = @ \cup {m}]
       ELSE /\ flight' = [flight EXCEPT ![i].todo = @ \ {m}, ![i].lost = @ \cup {m}]
            /\ UNCHANGED wire
    /\ UNCHANGED <<trackerVars, stateVars, clients, phase, socket, shown, refreshing>>
Start(i, m) ==
    /\ i \in 1..Len(flight) /\ m \in flight[i].todo
    /\ \A j \in 1..(i - 1) : m \notin flight[j].todo
    /\ IF socket[m] = "open"
       THEN /\ wire' = [wire EXCEPT ![m] = Append(@, flight[i].message)]
            /\ flight' = [flight EXCEPT ![i].todo = @ \ {m}, ![i].waiting = @ \cup {m}]
       ELSE /\ flight' = [flight EXCEPT ![i].todo = @ \ {m}, ![i].lost = @ \cup {m}]
            /\ UNCHANGED wire
    /\ UNCHANGED <<trackerVars, stateVars, clients, phase, socket, shown, refreshing>>

(* safe_send returns: the socket drained, or was reset meanwhile.          *)
Sent(i, m) ==
    /\ i \in 1..Len(flight) /\ m \in flight[i].waiting
    /\ Drained(m)
    /\ flight' = [flight EXCEPT ![i].waiting = @ \ {m},
                    ![i].lost = IF socket[m] = "open" THEN @ ELSE @ \cup {m}]
    /\ UNCHANGED <<trackerVars, stateVars, clients, socketVars, refreshing>>

(* The gather is complete: discard the failed sockets and count the rest.  *)
OverwritingFaultyKept(to, lost) == to \ lost
Kept(to, lost) == clients \ lost

FaultyCounted(kept) == mirror
Counted(kept) == Cardinality(kept)

(* What the caller of the broadcast does next; a command that published    *)
(* its status goes on to broadcast its event.                              *)
Resumes(p, kept) ==
    CASE p = "notifying" -> "stopping"
      [] p = "publishing" -> IF kept = {} THEN "reading" ELSE "confirming"
      [] p = "confirming" -> "reading"
      [] p = "leaving" -> "gone"
      [] OTHER -> p

Finish(i) ==
    /\ i \in 1..Len(flight)
    /\ flight[i].todo = {} /\ flight[i].waiting = {}
    /\ LET by == flight[i].by
           kept == Kept(flight[i].to, flight[i].lost)
           rest == RemoveAt(flight, i) IN
       /\ clients' = kept
       /\ mirror' = Counted(kept)
       /\ refreshing' = (refreshing /\ by # "loop")
       /\ IF by \in Caller
          THEN /\ phase' = [phase EXCEPT ![by] = Resumes(@, kept)]
               /\ flight' = IF phase[by] = "publishing"
                            THEN Launched(rest, kept, Event, by) ELSE rest
          ELSE flight' = rest /\ UNCHANGED phase
    /\ UNCHANGED <<trackerVars, facts, unpublished, rate, socket, wire, shown>>

-----------------------------------------------------------------------------
(* The environment: browsers, the network, time.                           *)

Receive(m) ==
    /\ socket[m] = "open" /\ wire[m] # <<>>
    /\ wire' = [wire EXCEPT ![m] = Tail(@)]
    /\ shown' = [shown EXCEPT ![m] =
                   IF Head(wire[m]).kind = "status" THEN Head(wire[m]) ELSE @]
    /\ UNCHANGED <<trackerVars, stateVars, clients, phase, socket, flight,
                   refreshing>>

(* The browser closes the socket, or the network resets it.                *)
Break(m) ==
    /\ socket[m] = "open"
    /\ socket' = [socket EXCEPT ![m] = "broken"]
    /\ wire' = [wire EXCEPT ![m] = <<>>]
    /\ UNCHANGED <<trackerVars, stateVars, clients, phase, shown, flight,
                   refreshing>>

Tick ==
    /\ clock < MaxTime
    /\ clock' = clock + 1
    /\ UNCHANGED <<stamps, stateVars, clients, socketVars, flight, refreshing>>

-----------------------------------------------------------------------------
Handler(m) == Greeted(m) \/ Leave(m)

Stop(a) == StopBegins(a) \/ StopNotifies(a) \/ StopReturns(a)

Next ==
    \/ Change \/ ConnectFails \/ Record \/ RefreshLoop \/ Poll \/ Tick
    \/ \E a \in Caller : Stop(a)
    \/ \E m \in Monitor : Join(m) \/ Command(m) \/ Rejected(m) \/ Handler(m) \/ Receive(m) \/ Break(m)
    \/ \E i \in 1..Len(flight), m \in Monitor : Start(i, m) \/ Sent(i, m)
    \/ \E i \in 1..Len(flight) : Finish(i)

Spec == Init /\ [][Next]_vars

(* Ready tasks run, the refresh loop wakes every 0.25 s, what stop() waits *)
(* for apart from its broadcasts ends, and the browsers in Reader read     *)
(* what arrives.  Nothing is promised of the others, of the handlers'      *)
(* inputs, or of time.                                                     *)
Fairness ==
    /\ WF_vars(RefreshLoop)
    /\ \A a \in Caller : WF_vars(StopReturns(a))
    /\ \A m \in Monitor : WF_vars(Handler(m))
    /\ \A m \in Reader : WF_vars(Receive(m))
    /\ WF_vars(\E i \in 1..Len(flight) : Finish(i))
    /\ \A m \in Monitor :
         /\ WF_vars(\E i \in 1..Len(flight) : Start(i, m))
         /\ WF_vars(\E i \in 1..Len(flight) : Sent(i, m))

FairSpec == Spec /\ Fairness

-----------------------------------------------------------------------------
(* Properties.                                                             *)

(* monitor_clients is the number of sockets in the hub, however joins,     *)
(* leaves and broadcasts that discard sockets interleave (server.py,       *)
(* handle_monitor_ws and send_monitor_now; monitor.py, broadcast).         *)
MirrorExact == mirror = Cardinality(clients)

(* A handler that has yet to publish what it changes.                      *)
Owing == \E a \in Caller : phase[a] \in {"stopping", "notifying"}

(* A browser that has received all that was written to it, and for which   *)
(* no broadcast is about to write, shows the current state: no join that   *)
(* races a broadcast, no broadcast that overtakes another, discards        *)
(* sockets or is cancelled makes it miss the last status, or get an older  *)
(* one after it.  Until a handler that awaits stop() has published, and    *)
(* after a failed dial or a rejected entry, which nobody publishes, it may *)
(* be behind.                                                              *)
DrainedMonitorCurrent ==
    \A m \in Monitor :
        /\ socket[m] = "open" /\ wire[m] = <<>>
        /\ \A i \in 1..Len(flight) : m \notin flight[i].todo
        /\ ~Owing /\ ~unpublished
        => shown[m].facts = facts

(* What a browser shows never gets older, not even between two states that *)
(* are published while the status before them is still under way: an       *)
(* earlier state is never written after a later one, through stop()'s own  *)
(* status, the last one of its caller, and a leaving monitor's.            *)
ShownNeverOlder == [][\A m \in Monitor : shown'[m].facts >= shown[m].facts]_vars

(* A browser that keeps reading learns every change, or a later one, as    *)
(* long as none is left unpublished, whatever the others' sockets do: a    *)
(* stalled monitor delays no other, not even when a stop() waits for it    *)
(* for good, and what a cancelled broadcast carried comes with another.    *)
StatusReachesReader ==
    \A m \in Reader, f \in 1..MaxFacts :
        (socket[m] = "open" /\ facts = f)
          ~> (socket[m] = "broken" \/ shown[m].facts >= f \/ unpublished)

(* docs/monitor-protocol.md: GET responses and WS events are consistent.   *)
(* So a reading browser that stays comes to show the DevKit's rate, which  *)
(* any GET returns.                                                        *)
RateReachesReader ==
    \A m \in Reader :
        <>[](socket[m] = "open") => <>[](shown[m].rate = Len(Pruned(stamps)))
=============================================================================
