----------------------- MODULE DevKitLifecycle_proofs -----------------------
(***************************************************************************)
(* Theorems about DevKitLifecycle when handlers run one at a time, for     *)
(* every set of DevKits, clients, endpoints and simulators.  (With         *)
(* handlers that interleave, Served and UniqueEndpoints do not hold.)      *)
(***************************************************************************)
EXTENDS DevKitLifecycle, TLAPS

(* No endpoint is configured twice at startup.                             *)
InitialUnique ==
    \A d, o \in DevKit : d # o /\ Initial[d] # NoEndpoint => Initial[d] # Initial[o]

-----------------------------------------------------------------------------
(* The inductive invariant.                                                *)

InUse(c, sids) == sids # {} /\ c.enabled /\ c.endpoint # NoEndpoint

Typed ==
    /\ simulators \subseteq Simulator
    /\ devkit \in [DevKit -> DevKitConnection]
    /\ handler \in [Slot -> Handler]
    /\ monitor \in {"reading", "stalled"}

(* A connection at rest, and one whose tasks run.                          *)
Clear(c) ==
    /\ c.eio = "disconnected" /\ c.run = 0 /\ c.loop = 0
    /\ \A t \in Task : c.runs[t] = "none" /\ c.loops[t] = "none"

Up(c) ==
    /\ c.run \in Task /\ c.runs[c.run] \in {"ready", "dialing"}
    /\ c.loop \in Task /\ c.loops[c.loop] = "live"
    /\ \A t \in Task : /\ t # c.run => c.runs[t] = "none"
                       /\ t # c.loop => c.loops[t] = "none"
    /\ c.eio \in {"disconnected", "connected"}
    /\ c.eio = "connected" => c.peer = c.endpoint
    /\ c.runs[c.run] = "dialing" => c.dials[c.run] = c.endpoint

Settled(c, sids) == IF InUse(c, sids) THEN Up(c) ELSE Clear(c)

(* A connection that handler h is stopping: h waits for what is left of it *)
(* and for nothing else.                                                   *)
Stopped(c, h) ==
    /\ \A t \in Task : /\ c.runs[t] \in {"none", "cancelled"}
                       /\ c.loops[t] \in {"none", "cancelled"}
                       /\ c.runs[t] = "cancelled" <=> t \in h.runs
                       /\ c.loops[t] = "cancelled" <=> t \in h.loops
    /\ ~h.joins => h.runs = {} /\ h.loops = {}
    /\ h.pc \in {"notify", "closing", "joining", "publishing"}
    /\ h.pc = "notify" => c.eio \in {"connected", "disconnected"}
    /\ h.pc = "closing" => c.eio \in {"disconnecting", "disconnected"}
    /\ h.pc = "joining" => c.eio = "disconnected"
    /\ h.pc = "publishing" => Clear(c)

(* Why handler h stops d, and what of it still holds when it returns.      *)
Purpose(h, d) ==
    /\ h.kind \in {"leave", "disconnect", "endpoint", "retire"}
    /\ h.kind = "leave" => simulators = {}
    /\ h.kind = "disconnect" => ~devkit[d].enabled
    /\ h.kind = "endpoint" => h.to \in Endpoint /\ Unique(d, h.to)

(* A handler is about one DevKit, and alone but for the branches of a      *)
(* simulator's departure.                                                  *)
Alone ==
    /\ \A s \in Slot : handler[s] # Idle =>
         \E d \in DevKit : /\ handler[s].on = {d}
                           /\ s \in DevKit => s = d /\ handler[s].kind = "leave"
    /\ \A s, r \in Slot :
         handler[s] # Idle /\ handler[r] # Idle => s = r \/ (s \in DevKit /\ r \in DevKit)

Rest ==
    /\ \A d \in DevKit : ~Busy(d) => Settled(devkit[d], simulators)
    /\ \A s \in Slot : \A d \in handler[s].on :
         Stopped(devkit[d], handler[s]) /\ Purpose(handler[s], d)

IInv == Typed /\ Alone /\ UniqueEndpoints /\ Rest

-----------------------------------------------------------------------------
(* The methods.                                                            *)

LEMMA ZeroNoTask == 0 \notin Task /\ Task # {} /\ 1 \in Task
  BY LifecycleAssumption DEF Task

LEMMA IdleIs ==
    Idle.on = {} /\ Idle.pc = "idle" /\ Idle.kind = "none" /\ Idle \in Handler
  BY DEF Idle, Handler, Target

LEMMA FreshFree ==
    ASSUME NEW tasks, \A t \in Task : tasks[t] = "none" PROVE Fresh(tasks, 0) \in Task
<1>1. Free(tasks, 0) = Task
  BY ZeroNoTask DEF Free
<1> QED
  BY <1>1, ZeroNoTask DEF Fresh

(* start() of a connection at rest, or in use already.                     *)
LEMMA StartSettles ==
    ASSUME NEW c \in DevKitConnection, NEW sids, Clear(c) \/ (Up(c) /\ InUse(c, sids))
    PROVE  /\ Start(c, sids) \in DevKitConnection /\ Settled(Start(c, sids), sids)
           /\ Start(c, sids).enabled = c.enabled /\ Start(c, sids).endpoint = c.endpoint
<1>1. CASE ~InUse(c, sids)
  BY <1>1 DEF Start, InUse, Settled
<1>2. CASE InUse(c, sids) /\ Up(c)
  <2>1. ~Done(c.runs, c.run) /\ ~Done(c.loops, c.loop)
    BY <1>2, ZeroNoTask DEF Done, Up
  <2>2. Start(c, sids) = c
    BY <2>1 DEF Start, StartRun, StartLoop
  <2> QED
    BY <1>2, <2>2 DEF Settled
<1>3. CASE InUse(c, sids) /\ Clear(c)
  <2> DEFINE t == Fresh(c.runs, 0)
             u == Fresh(c.loops, 0)
             b == [c EXCEPT !.run = t, !.runs[t] = "ready"]
             a == [b EXCEPT !.loop = u, !.loops[u] = "live"]
  <2>1. t \in Task /\ u \in Task
    BY <1>3, FreshFree DEF Clear
  <2>2. c.run = 0 /\ c.loop = 0 /\ Done(c.runs, c.run) /\ Done(c.loops, c.loop)
    BY <1>3 DEF Clear, Done
  <2>3. StartRun(c) = b
    BY <2>2 DEF StartRun
  <2> HIDE DEF t, u
  <2>4. /\ b \in DevKitConnection /\ b.loop = c.loop /\ b.loops = c.loops /\ b.run = t
        /\ b.runs = [c.runs EXCEPT ![t] = "ready"] /\ b.eio = c.eio
        /\ b.enabled = c.enabled /\ b.endpoint = c.endpoint
    BY <2>1 DEF DevKitConnection
  <2> HIDE DEF b
  <2>5. StartLoop(b) = a
    BY <2>2, <2>4 DEF StartLoop, u, Done
  <2>6. /\ a \in DevKitConnection /\ a.loop = u /\ a.loops = [c.loops EXCEPT ![u] = "live"]
        /\ a.run = t /\ a.runs = [c.runs EXCEPT ![t] = "ready"] /\ a.eio = "disconnected"
        /\ a.enabled = c.enabled /\ a.endpoint = c.endpoint
    BY <1>3, <2>1, <2>4 DEF DevKitConnection, Clear
  <2>7. Start(c, sids) = a
    BY <1>3, <2>3, <2>5 DEF Start, InUse
  <2> HIDE DEF a
  <2>8. c.runs \in [Task -> {"none", "ready", "notifying", "dialing", "cancelled"}]
        /\ c.loops \in [Task -> {"none", "live", "cancelled"}]
    BY DEF DevKitConnection
  <2>9. Up(a)
    BY <1>3, <2>1, <2>6, <2>8 DEF Up, Clear
  <2> QED
    BY <1>3, <2>6, <2>7, <2>9 DEF Settled, InUse
<1> QED
  BY <1>1, <1>2, <1>3

(* The tasks of a connection at rest or in use, cancelled.                 *)
LEMMA CancelStops ==
    ASSUME NEW c \in DevKitConnection, Up(c) \/ Clear(c)
    PROVE  /\ Cancel(c) \in DevKitConnection
           /\ Cancel(c).enabled = c.enabled /\ Cancel(c).endpoint = c.endpoint
           /\ Cancel(c).eio = c.eio /\ Cancel(c).connected = c.connected
           /\ Cancel(c).run = c.run /\ Cancel(c).loop = c.loop
           /\ \A t \in Task :
                /\ Cancel(c).runs[t] = IF t = c.run THEN "cancelled" ELSE "none"
                /\ Cancel(c).loops[t] = IF t = c.loop THEN "cancelled" ELSE "none"
<1> DEFINE runs == [t \in Task |-> IF t = c.run /\ c.runs[t] # "none"
                                   THEN "cancelled" ELSE c.runs[t]]
           loops == [t \in Task |-> IF t = c.loop /\ c.loops[t] # "none"
                                    THEN "cancelled" ELSE c.loops[t]]
           dials == [t \in Task |-> IF t = c.run THEN NoEndpoint ELSE c.dials[t]]
<1>1. /\ c.runs \in [Task -> {"none", "ready", "notifying", "dialing", "cancelled"}]
      /\ c.loops \in [Task -> {"none", "live", "cancelled"}]
      /\ c.dials \in [Task -> Target] /\ NoEndpoint \in Target
  BY DEF DevKitConnection, Target
<1>2. Cancel(c) = [c EXCEPT !.runs = runs, !.loops = loops, !.dials = dials]
  BY DEF Cancel
<1>3. /\ runs \in [Task -> {"none", "ready", "notifying", "dialing", "cancelled"}]
      /\ loops \in [Task -> {"none", "live", "cancelled"}]
      /\ dials \in [Task -> Target]
  BY <1>1
<1>4. \A t \in Task : /\ runs[t] = IF t = c.run THEN "cancelled" ELSE "none"
                      /\ loops[t] = IF t = c.loop THEN "cancelled" ELSE "none"
  BY <1>1, ZeroNoTask DEF Up, Clear
<1> HIDE DEF runs, loops, dials
<1>5. /\ Cancel(c) \in DevKitConnection
      /\ Cancel(c).enabled = c.enabled /\ Cancel(c).endpoint = c.endpoint
      /\ Cancel(c).eio = c.eio /\ Cancel(c).run = c.run /\ Cancel(c).loop = c.loop
      /\ Cancel(c).runs = runs /\ Cancel(c).loops = loops
      /\ Cancel(c).connected = c.connected
  BY <1>2, <1>3 DEF DevKitConnection
<1> QED
  BY <1>4, <1>5

(* Where stop() of one at rest or in use suspends.                         *)
LEMMA PlaceIs ==
    ASSUME NEW c \in DevKitConnection, Up(c) \/ Clear(c)
    PROVE  /\ Place(c) \in {"notify", "closing", "joining", "publishing", "returned"}
           /\ Place(c) \in {"notify", "closing"} <=> c.eio = "connected"
           /\ Place(c) \in {"publishing", "returned"} => Clear(c)
           /\ Place(c) \notin {"notify", "closing"} => c.eio = "disconnected"
<1>1. CASE Up(c)
  <2>1. c.run # 0 /\ c.eio \in {"connected", "disconnected"}
    BY <1>1, ZeroNoTask DEF Up
  <2>2. Place(c) \in {"notify", "closing", "joining"}
        /\ (Place(c) \in {"notify", "closing"} <=> c.eio = "connected")
    BY <2>1 DEF Place
  <2> QED
    BY <2>1, <2>2
<1>2. CASE Clear(c)
  <2>1. c.eio = "disconnected" /\ c.run = 0 /\ c.loop = 0
    BY <1>2 DEF Clear
  <2>2. Place(c) \in {"publishing", "returned"}
    BY <2>1 DEF Place
  <2> QED
    BY <1>2, <2>1, <2>2
<1> QED
  BY <1>1, <1>2

(* stop() of a connection at rest or in use, up to there.                  *)
LEMMA HaltStops ==
    ASSUME NEW c \in DevKitConnection, Up(c) \/ Clear(c)
    PROVE  /\ Halt(c) \in DevKitConnection
           /\ Halt(c).enabled = c.enabled /\ Halt(c).endpoint = c.endpoint
           /\ Halt(c).eio = IF Place(c) = "closing" THEN "disconnecting" ELSE c.eio
           /\ Place(c) \in {"publishing", "returned"} => Clear(c) /\ Clear(Halt(c))
           /\ \A t \in Task :
                /\ Halt(c).runs[t] = IF t = c.run THEN "cancelled" ELSE "none"
                /\ Halt(c).loops[t] = IF t = c.loop THEN "cancelled" ELSE "none"
<1>1. PICK b : b = Cancel(c)
  OBVIOUS
<1>2. /\ b \in DevKitConnection /\ b.enabled = c.enabled /\ b.endpoint = c.endpoint
      /\ b.eio = c.eio /\ b.connected = c.connected /\ b.run = c.run /\ b.loop = c.loop
      /\ \A t \in Task : /\ b.runs[t] = IF t = c.run THEN "cancelled" ELSE "none"
                         /\ b.loops[t] = IF t = c.loop THEN "cancelled" ELSE "none"
  BY <1>1, CancelStops
<1>3. PICK x : x = IF Place(c) = "closing" THEN "disconnecting" ELSE b.eio
  OBVIOUS
<1>4. PICK y : y = (b.connected /\ Place(c) \notin {"notify", "publishing"})
  OBVIOUS
<1>5. Halt(c) = [b EXCEPT !.eio = x, !.connected = y]
  BY <1>1, <1>3, <1>4 DEF Halt
<1>6. x \in {"disconnected", "connected", "disconnecting"} /\ y \in BOOLEAN
  BY <1>2, <1>3, <1>4 DEF DevKitConnection
<1>7. PICK a : a = Halt(c)
  OBVIOUS
<1>8. /\ a \in DevKitConnection /\ a.enabled = b.enabled /\ a.endpoint = b.endpoint
      /\ a.eio = x /\ a.runs = b.runs /\ a.loops = b.loops
      /\ a.run = b.run /\ a.loop = b.loop
  BY <1>2, <1>5, <1>6, <1>7 DEF DevKitConnection
<1>9. \A t \in Task : /\ a.runs[t] = IF t = c.run THEN "cancelled" ELSE "none"
                      /\ a.loops[t] = IF t = c.loop THEN "cancelled" ELSE "none"
  BY <1>2, <1>8
<1>10. Place(c) \in {"publishing", "returned"} => Clear(c) /\ Clear(a)
  <2> SUFFICES ASSUME Place(c) \in {"publishing", "returned"} PROVE Clear(c) /\ Clear(a)
    OBVIOUS
  <2>1. Clear(c) /\ x = b.eio
    BY <1>3, PlaceIs
  <2> QED
    BY <1>2, <1>8, <1>9, <2>1, ZeroNoTask DEF Clear
<1>11. a.eio = IF Place(c) = "closing" THEN "disconnecting" ELSE c.eio
  BY <1>2, <1>3, <1>8
<1> QED
  BY <1>2, <1>7, <1>8, <1>9, <1>10, <1>11

(* The handler that called it waits for the tasks it cancelled.            *)
LEMMA StoppingIs ==
    ASSUME NEW b \in DevKitConnection, Up(b) \/ Clear(b), Suspends(b), NEW d \in DevKit,
           NEW kind \in {"leave", "disconnect", "endpoint", "retire"}, NEW to \in Target
    PROVE  LET h == Stopping(b, d, kind, to) IN
           /\ h \in Handler /\ h.on = {d} /\ h.kind = kind /\ h.to = to
           /\ Stopped(Halt(b), h)
<1>1. PICK h : h = Stopping(b, d, kind, to)
  OBVIOUS
<1>2. PICK c : c = Halt(b)
  OBVIOUS
<1>3. PICK place : place = Place(b)
  OBVIOUS
<1>4. /\ place \in {"notify", "closing", "joining", "publishing"}
      /\ place \in {"notify", "closing"} <=> b.eio = "connected"
      /\ place \notin {"notify", "closing"} => b.eio = "disconnected"
  BY <1>3, PlaceIs DEF Suspends
<1>5. PICK runs : runs = {t \in Task : t = b.run /\ b.runs[t] # "none"}
  OBVIOUS
<1>6. PICK loops : loops = {t \in Task : t = b.loop /\ b.loops[t] # "none"}
  OBVIOUS
<1>7. PICK joins : joins = (b.run # 0 \/ b.loop # 0)
  OBVIOUS
<1>8. h = [pc |-> place, on |-> {d}, kind |-> kind, to |-> to, joins |-> joins,
           runs |-> runs, loops |-> loops]
  BY <1>1, <1>3, <1>5, <1>6, <1>7 DEF Stopping
<1>9. h \in Handler
  <2>1. runs \subseteq Task /\ loops \subseteq Task /\ joins \in BOOLEAN
    BY <1>5, <1>6, <1>7
  <2> QED
    BY <1>4, <1>8, <2>1 DEF Handler
<1>10. /\ h.on = {d} /\ h.kind = kind /\ h.to = to /\ h.pc = place
       /\ h.joins = joins /\ h.runs = runs /\ h.loops = loops
  BY <1>8
<1>11. \A t \in Task : (t = b.run => b.runs[t] # "none") /\ (t = b.loop => b.loops[t] # "none")
  BY ZeroNoTask DEF Up, Clear
<1>12. \A t \in Task : (t \in runs <=> t = b.run) /\ (t \in loops <=> t = b.loop)
  BY <1>5, <1>6, <1>11
<1>13. /\ c.eio = IF place = "closing" THEN "disconnecting" ELSE b.eio
       /\ place = "publishing" => Clear(c)
       /\ \A t \in Task : /\ c.runs[t] = IF t = b.run THEN "cancelled" ELSE "none"
                          /\ c.loops[t] = IF t = b.loop THEN "cancelled" ELSE "none"
  BY <1>2, <1>3, HaltStops
<1>14. \A t \in Task : /\ c.runs[t] \in {"none", "cancelled"}
                       /\ c.loops[t] \in {"none", "cancelled"}
                       /\ c.runs[t] = "cancelled" <=> t \in h.runs
                       /\ c.loops[t] = "cancelled" <=> t \in h.loops
  BY <1>10, <1>12, <1>13
<1>15. ~h.joins => h.runs = {} /\ h.loops = {}
  <2>1. ~h.joins => b.run = 0 /\ b.loop = 0
    BY <1>7, <1>10
  <2>2. \A t \in runs : t \in Task /\ t = b.run
    BY <1>5
  <2>3. \A t \in loops : t \in Task /\ t = b.loop
    BY <1>6
  <2> QED
    BY <1>10, <2>1, <2>2, <2>3, ZeroNoTask
<1>16. /\ h.pc \in {"notify", "closing", "joining", "publishing"}
       /\ h.pc = "notify" => c.eio \in {"connected", "disconnected"}
       /\ h.pc = "closing" => c.eio \in {"disconnecting", "disconnected"}
       /\ h.pc = "joining" => c.eio = "disconnected"
       /\ h.pc = "publishing" => Clear(c)
  BY <1>4, <1>10, <1>13
<1>17. Stopped(c, h)
  BY <1>14, <1>15, <1>16 DEF Stopped
<1> QED
  BY <1>1, <1>2, <1>9, <1>10, <1>17

(* The fields that a command assigns are not those of the tasks.           *)
LEMMA AssignedIs ==
    ASSUME NEW b \in DevKitConnection, NEW flag \in BOOLEAN, NEW to \in Target
    PROVE  LET e == Enable(b, flag)
               f == Enable(Retarget(b, to), flag) IN
           /\ e \in DevKitConnection /\ f \in DevKitConnection
           /\ (e.enabled <=> flag) /\ (f.enabled <=> flag)
           /\ e.endpoint = b.endpoint /\ f.endpoint = to
           /\ e.eio = b.eio /\ e.run = b.run /\ e.loop = b.loop
           /\ (Clear(b) => Clear(e) /\ Clear(f)) /\ (Up(b) => Up(e))
           /\ to = b.endpoint => (Up(b) => Up(f))
           /\ Place(e) = Place(b) /\ (Suspends(e) <=> Suspends(b))
<1> DEFINE e == Enable(b, flag)
           f == Enable(Retarget(b, to), flag)
<1>1. /\ e \in DevKitConnection /\ f \in DevKitConnection
      /\ e.enabled = flag /\ f.enabled = flag
      /\ e.endpoint = b.endpoint /\ f.endpoint = to
      /\ e.eio = b.eio /\ e.run = b.run /\ e.loop = b.loop
      /\ e.runs = b.runs /\ e.loops = b.loops /\ e.dials = b.dials /\ e.peer = b.peer
      /\ e.connected = b.connected /\ f.connected = b.connected
      /\ f.eio = b.eio /\ f.run = b.run /\ f.loop = b.loop
      /\ f.runs = b.runs /\ f.loops = b.loops /\ f.dials = b.dials /\ f.peer = b.peer
  BY DEF Enable, Retarget, DevKitConnection
<1> HIDE DEF e, f
<1>2. (Clear(b) => Clear(e) /\ Clear(f)) /\ (Up(b) => Up(e))
  BY <1>1 DEF Clear, Up
<1>3. to = b.endpoint => (Up(b) => Up(f))
  BY <1>1 DEF Up
<1>4. Place(e) = Place(b) /\ (Suspends(e) <=> Suspends(b))
  BY <1>1 DEF Suspends, Place
<1> QED
  BY <1>1, <1>2, <1>3, <1>4 DEF e, f

LEMMA SameStop ==
    ASSUME NEW b \in DevKitConnection, NEW d
    PROVE  Stopping(Enable(b, FALSE), d, "disconnect", NoEndpoint)
             = Stopping(b, d, "disconnect", NoEndpoint)
<1>1. PICK e : e = Enable(b, FALSE)
  OBVIOUS
<1>2. e.eio = b.eio /\ e.run = b.run /\ e.loop = b.loop /\ e.connected = b.connected
      /\ e.runs = b.runs /\ e.loops = b.loops
  BY <1>1 DEF Enable, DevKitConnection
<1>3. Stopping(e, d, "disconnect", NoEndpoint) = Stopping(b, d, "disconnect", NoEndpoint)
  <2>1. Place(e) = Place(b)
    BY <1>2 DEF Place
  <2> QED
    BY <1>2, <2>1 DEF Stopping
<1> QED
  BY <1>1, <1>3

-----------------------------------------------------------------------------
(* What a change of one connection does to the invariant.                  *)

LEMMA UniqueAfter ==
    ASSUME Typed, UniqueEndpoints, NEW d \in DevKit, NEW c \in DevKitConnection,
           devkit' = [devkit EXCEPT ![d] = c],
           \/ ~c.enabled \/ c.endpoint = NoEndpoint \/ Unique(d, c.endpoint)
           \/ (c.enabled => devkit[d].enabled) /\ c.endpoint = devkit[d].endpoint
    PROVE  UniqueEndpoints'
<1>1. \A o \in DevKit : devkit'[o] = IF o = d THEN c ELSE devkit[o]
  BY DEF Typed
<1> SUFFICES ASSUME NEW a \in DevKit, NEW b \in DevKit, a # b,
                    devkit'[a].enabled, devkit'[b].enabled, devkit'[a].endpoint # NoEndpoint
             PROVE  devkit'[a].endpoint # devkit'[b].endpoint
  BY DEF UniqueEndpoints
<1>2. CASE a = d
  BY <1>1, <1>2 DEF UniqueEndpoints, Unique
<1>3. CASE b = d
  BY <1>1, <1>3 DEF UniqueEndpoints, Unique
<1>4. CASE a # d /\ b # d
  BY <1>1, <1>4 DEF UniqueEndpoints
<1> QED
  BY <1>2, <1>3, <1>4

(* Who is at work on d.                                                    *)
LEMMA OneAtWork ==
    ASSUME Typed, Alone, NEW s \in Slot, NEW d \in handler[s].on
    PROVE  /\ d \in DevKit /\ handler[s] \in Handler /\ handler[s] # Idle
           /\ handler[s].on = {d} /\ Busy(d)
           /\ s \in DevKit => s = d /\ handler[s].kind = "leave"
           /\ \A r \in Slot : r # s => d \notin handler[r].on
           /\ \A r \in Slot : r # s /\ handler[r] # Idle => handler[r].kind = "leave"
<1>1. handler[s] \in Handler /\ d \in DevKit
  BY DEF Typed, Handler
<1>2. handler[s] # Idle
  BY IdleIs
<1>3. handler[s].on = {d} /\ (s \in DevKit => s = d /\ handler[s].kind = "leave")
  <2>1. PICK e \in DevKit : /\ handler[s].on = {e}
                            /\ s \in DevKit => s = e /\ handler[s].kind = "leave"
    BY <1>2 DEF Alone
  <2>2. e = d
    BY <2>1
  <2> QED
    BY <2>1, <2>2
<1>4. ASSUME NEW r \in Slot, r # s, handler[r] # Idle
      PROVE  d \notin handler[r].on /\ handler[r].kind = "leave"
  <2>1. s \in DevKit /\ r \in DevKit
    BY <1>2, <1>4 DEF Alone
  <2>2. PICK e \in DevKit : handler[r].on = {e} /\ r = e /\ handler[r].kind = "leave"
    BY <1>4, <2>1 DEF Alone
  <2> QED
    BY <1>3, <1>4, <2>1, <2>2
<1>5. \A r \in Slot : r # s => d \notin handler[r].on
  BY <1>4, IdleIs
<1> QED
  BY <1>1, <1>2, <1>3, <1>4, <1>5 DEF Busy

(* A task or a link moves, no handler returns.                             *)
LEMMA TaskKeeps ==
    ASSUME IInv, NEW d \in DevKit, NEW c \in DevKitConnection,
           devkit' = [devkit EXCEPT ![d] = c], UNCHANGED <<simulators, handler, monitor>>,
           c.enabled <=> devkit[d].enabled, c.endpoint = devkit[d].endpoint,
           Settled(devkit[d], simulators) => Settled(c, simulators),
           \A h \in Handler : Stopped(devkit[d], h) => Stopped(c, h)
    PROVE  IInv'
<1>1. Typed' /\ Alone'
  BY DEF IInv, Typed, Alone
<1>2. UniqueEndpoints'
  BY UniqueAfter DEF IInv
<1>3. \A o \in DevKit : devkit'[o] = IF o = d THEN c ELSE devkit[o]
  BY DEF IInv, Typed
<1>4. \A e \in DevKit : \A to : Unique(e, to) => Unique(e, to)'
  BY <1>3 DEF Unique
<1>5. ASSUME NEW e \in DevKit, ~Busy(e)' PROVE Settled(devkit'[e], simulators')
  <2>1. Settled(devkit[e], simulators)
    BY <1>5 DEF IInv, Rest, Busy
  <2> QED
    BY <1>3, <2>1
<1>6. ASSUME NEW s \in Slot, NEW e \in handler[s].on
      PROVE  Stopped(devkit'[e], handler'[s]) /\ Purpose(handler[s], e)'
  <2>1. Stopped(devkit[e], handler[s]) /\ Purpose(handler[s], e) /\ e \in DevKit
        /\ handler[s] \in Handler
    BY OneAtWork DEF IInv, Rest
  <2>2. Stopped(devkit'[e], handler'[s])
    BY <1>3, <2>1
  <2>3. devkit'[e].enabled <=> devkit[e].enabled
    BY <1>3, <2>1
  <2> QED
    BY <1>4, <2>1, <2>2, <2>3 DEF Purpose
<1> QED
  BY <1>1, <1>2, <1>5, <1>6 DEF IInv, Rest

(* Handler s goes on in a stop(), of the same purpose or of another.       *)
LEMMA GoesTo ==
    ASSUME IInv, NEW s \in Slot, NEW d \in handler[s].on,
           NEW c \in DevKitConnection, NEW h \in Handler,
           devkit' = [devkit EXCEPT ![d] = c], handler' = [handler EXCEPT ![s] = h],
           UNCHANGED <<simulators, monitor>>,
           UniqueEndpoints', h.on = {d}, s \in DevKit => h.kind = "leave",
           Stopped(c, h), Purpose(h, d)'
    PROVE  IInv'
<1>1. /\ Typed /\ d \in DevKit /\ handler[s] # Idle /\ handler[s].on = {d}
      /\ s \in DevKit => s = d /\ handler[s].kind = "leave"
      /\ \A r \in Slot : r # s => d \notin handler[r].on
      /\ \A r \in Slot : r # s /\ handler[r] # Idle => handler[r].kind = "leave"
  BY OneAtWork DEF IInv
<1>2. h # Idle
  BY IdleIs
<1>3. \A r \in Slot : handler'[r] = IF r = s THEN h ELSE handler[r]
  BY <1>1 DEF Typed
<1>4. \A o \in DevKit : devkit'[o] = IF o = d THEN c ELSE devkit[o]
  BY <1>1 DEF Typed
<1>5. Typed'
  BY <1>1 DEF Typed
<1>6. Alone'
  <2>1. ASSUME NEW r \in Slot, handler'[r] # Idle
        PROVE  \E e \in DevKit : /\ handler'[r].on = {e}
                                 /\ r \in DevKit => r = e /\ handler'[r].kind = "leave"
    <3>1. CASE r = s
      BY <1>1, <1>3, <3>1
    <3>2. CASE r # s
      BY <1>3, <2>1, <3>2 DEF IInv, Alone
    <3> QED
      BY <3>1, <3>2
  <2>2. \A r \in Slot : handler'[r] # Idle => handler[r] # Idle
    BY <1>1, <1>3
  <2> QED
    BY <2>1, <2>2 DEF IInv, Alone
<1>9. ASSUME NEW e \in DevKit, ~Busy(e)' PROVE Settled(devkit'[e], simulators')
  <2>1. e # d
    BY <1>3, <1>9 DEF Busy
  <2>2. ~Busy(e)
    BY <1>1, <1>3, <1>9, <2>1 DEF Busy
  <2> QED
    BY <1>4, <2>1, <2>2 DEF IInv, Rest
<1>10. ASSUME NEW r \in Slot, NEW e \in handler'[r].on
       PROVE  Stopped(devkit'[e], handler'[r]) /\ Purpose(handler[r], e)'
  <2>1. CASE r = s
    <3>1. e = d /\ handler'[r] = h
      BY <1>3, <1>10, <2>1
    <3>2. Purpose(handler[r], e)'
      BY <3>1 DEF Purpose
    <3> QED
      BY <1>1, <1>4, <3>1, <3>2
  <2>2. CASE r # s
    <3>1. handler'[r] = handler[r] /\ e \in handler[r].on
      BY <1>3, <1>10, <2>2
    <3>2. Stopped(devkit[e], handler[r]) /\ Purpose(handler[r], e) /\ e \in DevKit /\ e # d
      BY <1>1, <2>2, <3>1, OneAtWork DEF IInv, Rest
    <3>3. handler[r].kind = "leave"
      BY <1>1, <2>2, <3>1, IdleIs
    <3> QED
      BY <1>4, <3>1, <3>2, <3>3 DEF Purpose
  <2> QED
    BY <2>1, <2>2
<1> QED
  BY <1>5, <1>6, <1>9, <1>10 DEF IInv, Rest

(* Of the same purpose.                                                    *)
LEMMA GoesOn ==
    ASSUME IInv, NEW s \in Slot, NEW d \in handler[s].on,
           NEW c \in DevKitConnection, NEW h \in Handler,
           devkit' = [devkit EXCEPT ![d] = c], handler' = [handler EXCEPT ![s] = h],
           UNCHANGED <<simulators, monitor>>,
           c.enabled <=> devkit[d].enabled, c.endpoint = devkit[d].endpoint,
           h.on = {d}, h.kind = handler[s].kind, h.to = handler[s].to, Stopped(c, h)
    PROVE  IInv'
<1>1. /\ Typed /\ UniqueEndpoints /\ d \in DevKit
      /\ s \in DevKit => handler[s].kind = "leave"
  BY OneAtWork DEF IInv
<1>2. UniqueEndpoints'
  BY <1>1, UniqueAfter
<1>3. \A o \in DevKit : devkit'[o] = IF o = d THEN c ELSE devkit[o]
  BY <1>1 DEF Typed
<1>4. \A to : Unique(d, to) => Unique(d, to)'
  BY <1>3 DEF Unique
<1>5. Purpose(handler[s], d)
  BY DEF IInv, Rest
<1>6. Purpose(h, d)'
  BY <1>1, <1>3, <1>4, <1>5 DEF Purpose
<1> QED
  BY <1>1, <1>2, <1>6, GoesTo

(* Handler s returns.                                                      *)
LEMMA Returns ==
    ASSUME IInv, NEW s \in Slot, NEW d \in handler[s].on, NEW c \in DevKitConnection,
           devkit' = [devkit EXCEPT ![d] = c], handler' = [handler EXCEPT ![s] = Idle],
           UNCHANGED <<simulators, monitor>>, UniqueEndpoints', Settled(c, simulators)
    PROVE  IInv'
<1>1. /\ Typed /\ d \in DevKit /\ handler[s] # Idle /\ handler[s].on = {d}
      /\ \A r \in Slot : r # s => d \notin handler[r].on
      /\ \A r \in Slot : r # s /\ handler[r] # Idle => handler[r].kind = "leave"
  BY OneAtWork DEF IInv
<1>2. \A r \in Slot : handler'[r] = IF r = s THEN Idle ELSE handler[r]
  BY <1>1 DEF Typed
<1>3. \A o \in DevKit : devkit'[o] = IF o = d THEN c ELSE devkit[o]
  BY <1>1 DEF Typed
<1>4. Typed'
  BY <1>1, IdleIs DEF Typed
<1>5. Alone'
  BY <1>2 DEF IInv, Alone
<1>6. ASSUME NEW e \in DevKit, ~Busy(e)' PROVE Settled(devkit'[e], simulators')
  <2>1. CASE e = d
    BY <1>3, <2>1
  <2>2. CASE e # d
    <3>1. ~Busy(e)
      BY <1>1, <1>2, <1>6, <2>2 DEF Busy
    <3> QED
      BY <1>3, <2>2, <3>1 DEF IInv, Rest
  <2> QED
    BY <2>1, <2>2
<1>7. ASSUME NEW r \in Slot, NEW e \in handler'[r].on
      PROVE  Stopped(devkit'[e], handler'[r]) /\ Purpose(handler[r], e)'
  <2>1. r # s /\ handler'[r] = handler[r] /\ e \in handler[r].on
    BY <1>2, <1>7, IdleIs
  <2>2. Stopped(devkit[e], handler[r]) /\ Purpose(handler[r], e) /\ e \in DevKit /\ e # d
        /\ handler[r].kind = "leave"
    BY <1>1, <2>1, OneAtWork DEF IInv, Rest
  <2> QED
    BY <1>3, <2>1, <2>2 DEF Purpose
<1> QED
  BY <1>4, <1>5, <1>6, <1>7 DEF IInv, Rest

(* A handler that starts while none is under way, and does not suspend.    *)
LEMMA Assigns ==
    ASSUME IInv, Quiet, NEW d \in DevKit, NEW c \in DevKitConnection,
           devkit' = [devkit EXCEPT ![d] = c], UNCHANGED <<simulators, handler, monitor>>,
           UniqueEndpoints', Settled(c, simulators)
    PROVE  IInv'
<1>1. \A o \in DevKit : devkit'[o] = IF o = d THEN c ELSE devkit[o]
  BY DEF IInv, Typed
<1>2. \A s \in Slot : handler'[s].on = {} /\ handler[s].on = {}
  BY IdleIs DEF Quiet
<1>3. Typed' /\ Alone'
  BY DEF IInv, Typed, Alone
<1>4. \A e \in DevKit : Settled(devkit'[e], simulators')
  BY <1>1, <1>2 DEF IInv, Rest, Busy
<1> QED
  BY <1>2, <1>3, <1>4 DEF IInv, Rest

(* One that suspends in a stop().                                          *)
LEMMA Begins ==
    ASSUME IInv, Quiet, NEW s \in Client, NEW d \in DevKit,
           NEW c \in DevKitConnection, NEW h \in Handler,
           devkit' = [devkit EXCEPT ![d] = c], handler' = [handler EXCEPT ![s] = h],
           UNCHANGED <<simulators, monitor>>, UniqueEndpoints',
           h.on = {d}, Stopped(c, h), Purpose(h, d)'
    PROVE  IInv'
<1>1. s \in Slot /\ s \notin DevKit
  BY LifecycleAssumption DEF Slot
<1>2. \A o \in DevKit : devkit'[o] = IF o = d THEN c ELSE devkit[o]
  BY DEF IInv, Typed
<1>3. \A r \in Slot : handler'[r] = IF r = s THEN h ELSE Idle
  BY <1>1 DEF IInv, Typed, Quiet
<1>4. Typed'
  BY <1>1 DEF IInv, Typed
<1>5. Alone'
  BY <1>1, <1>3 DEF Alone
<1>6. ASSUME NEW e \in DevKit, ~Busy(e)' PROVE Settled(devkit'[e], simulators')
  <2>1. e # d
    BY <1>1, <1>3, <1>6 DEF Busy
  <2>2. ~Busy(e)
    BY IdleIs DEF Busy, Quiet
  <2> QED
    BY <1>2, <2>1, <2>2 DEF IInv, Rest
<1>7. ASSUME NEW r \in Slot, NEW e \in handler'[r].on
      PROVE  Stopped(devkit'[e], handler'[r]) /\ Purpose(handler[r], e)'
  <2>1. r = s /\ e = d /\ handler'[r] = h
    BY <1>3, <1>7, IdleIs
  <2> QED
    BY <1>2, <2>1
<1> QED
  BY <1>4, <1>5, <1>6, <1>7 DEF IInv, Rest

-----------------------------------------------------------------------------
(* The tasks and the link.                                                 *)

LEMMA FieldTypes ==
    ASSUME IInv, NEW d \in DevKit
    PROVE  /\ devkit \in [DevKit -> DevKitConnection] /\ devkit[d] \in DevKitConnection
           /\ devkit[d].runs \in [Task -> {"none", "ready", "notifying", "dialing", "cancelled"}]
           /\ devkit[d].loops \in [Task -> {"none", "live", "cancelled"}]
           /\ devkit[d].dials \in [Task -> Target]
           /\ devkit[d].endpoint \in Target /\ devkit[d].peer \in Target
<1>1. devkit \in [DevKit -> DevKitConnection] /\ devkit[d] \in DevKitConnection
  BY DEF IInv, Typed
<1> QED
  BY <1>1 DEF DevKitConnection

(* Only a connection in use has a task that may act, and no task of one    *)
(* finds the client in a state between connected and disconnected.         *)
LEMMA ActingIsUp ==
    ASSUME NEW c, NEW t \in Task, c.runs[t] \in {"ready", "notifying", "dialing"}
    PROVE  /\ \A sids : Settled(c, sids) => /\ Up(c) /\ InUse(c, sids) /\ t = c.run
                                           /\ c.eio # "disconnecting"
                                           /\ c.runs[t] # "notifying"
           /\ \A h : ~Stopped(c, h)
  BY DEF Settled, Clear, Up, Stopped

LEMMA ActingSettled ==
    ASSUME IInv, NEW d \in DevKit, NEW t \in Task,
           devkit[d].runs[t] \in {"ready", "notifying", "dialing"}
    PROVE  devkit[d].eio # "disconnecting" /\ devkit[d].runs[t] # "notifying"
<1>1. CASE ~Busy(d)
  <2>1. Settled(devkit[d], simulators)
    BY <1>1 DEF IInv, Rest
  <2> QED
    BY <2>1, ActingIsUp
<1>2. CASE Busy(d)
  <2>1. PICK s \in Slot : Stopped(devkit[d], handler[s])
    BY <1>2 DEF IInv, Rest, Busy
  <2> QED
    BY <2>1, ActingIsUp
<1> QED
  BY <1>1, <1>2

(* A task step of a connection in use.                                     *)
LEMMA ActingKeeps ==
    ASSUME IInv, NEW d \in DevKit, NEW t \in Task,
           devkit[d].runs[t] \in {"ready", "notifying", "dialing"},
           NEW c \in DevKitConnection, devkit' = [devkit EXCEPT ![d] = c],
           UNCHANGED <<simulators, handler, monitor>>,
           c.enabled <=> devkit[d].enabled, c.endpoint = devkit[d].endpoint,
           InUse(devkit[d], simulators) /\ Up(devkit[d]) /\ t = devkit[d].run => Up(c)
    PROVE  IInv'
<1>1. Settled(devkit[d], simulators) => Settled(c, simulators)
  BY ActingIsUp DEF Settled, InUse
<1>2. \A h \in Handler : Stopped(devkit[d], h) => Stopped(c, h)
  BY ActingIsUp
<1> QED
  BY <1>1, <1>2, TaskKeeps

LEMMA RunWakesKeeps ==
    ASSUME IInv, NEW d \in DevKit, NEW t \in Task, RunWakes(d, t) PROVE IInv'
<1> DEFINE b == devkit[d]
<1>1. b.runs[t] = "ready" /\ UNCHANGED <<simulators, handler, monitor>>
  BY DEF RunWakes
<1>2. CASE ~InUse(b, simulators)
  <2> DEFINE c == [b EXCEPT !.runs = [b.runs EXCEPT ![t] = "none"]]
  <2>1. devkit' = [devkit EXCEPT ![d] = c]
    BY <1>2, FieldTypes DEF RunWakes, InUse, DevKitConnection
  <2>2. c \in DevKitConnection /\ c.enabled = b.enabled /\ c.endpoint = b.endpoint
    <3>1. b \in DevKitConnection /\ b.endpoint \in Target /\ NoEndpoint \in Target
      BY FieldTypes DEF Target
    <3> HIDE DEF b
    <3> QED
      BY <3>1 DEF DevKitConnection
  <2> HIDE DEF c
  <2> QED
    BY <1>1, <1>2, <2>1, <2>2, ActingKeeps
<1>3. CASE InUse(b, simulators)
  <2> DEFINE c == [b EXCEPT !.runs = [b.runs EXCEPT ![t] = "dialing"],
                            !.dials = [b.dials EXCEPT ![t] = b.endpoint],
                            !.eio = "disconnected", !.peer = NoEndpoint]
  <2>1. devkit' = [devkit EXCEPT ![d] = c]
    <3>1. devkit' = [devkit EXCEPT ![d].runs[t] = "dialing", ![d].dials[t] = b.endpoint,
                                   ![d].eio = "disconnected", ![d].peer = NoEndpoint]
      <4>1. b.eio # "disconnecting"
        BY <1>1, ActingSettled
      <4> QED
        BY <1>3, <4>1 DEF RunWakes, InUse, Dials
    <3> QED
      BY <3>1, FieldTypes DEF DevKitConnection
  <2>2. /\ c \in DevKitConnection /\ c.enabled = b.enabled /\ c.endpoint = b.endpoint
        /\ c.runs = [b.runs EXCEPT ![t] = "dialing"] /\ c.loops = b.loops
        /\ c.run = b.run /\ c.loop = b.loop /\ c.eio = "disconnected"
        /\ c.dials = [b.dials EXCEPT ![t] = b.endpoint]
    <3>1. b \in DevKitConnection /\ b.endpoint \in Target /\ NoEndpoint \in Target
      BY FieldTypes DEF Target
    <3> HIDE DEF b
    <3> QED
      BY <3>1 DEF DevKitConnection
  <2> HIDE DEF c
  <2>3. Up(b) /\ t = b.run => Up(c)
    BY <2>2, FieldTypes DEF Up
  <2> QED
    BY <1>1, <2>1, <2>2, <2>3, ActingKeeps
<1> QED
  BY <1>2, <1>3

LEMMA RunNotifiedKeeps ==
    ASSUME IInv, NEW d \in DevKit, NEW t \in Task, RunNotified(d, t) PROVE IInv'
  BY ActingSettled DEF RunNotified

LEMMA DialEndsKeeps ==
    ASSUME IInv, NEW d \in DevKit, NEW t \in Task, DialSucceeds(d, t) \/ DialFails(d, t)
    PROVE  IInv'
<1> DEFINE b == devkit[d]
<1>1. b.runs[t] = "dialing" /\ UNCHANGED <<simulators, handler, monitor>>
  BY DEF DialSucceeds, DialFails
<1>2. CASE DialSucceeds(d, t)
  <2> DEFINE c == [b EXCEPT !.runs = [b.runs EXCEPT ![t] = "ready"],
                            !.dials = [b.dials EXCEPT ![t] = NoEndpoint],
                            !.eio = "connected", !.peer = b.dials[t], !.greeting = TRUE]
  <2>1. devkit' = [devkit EXCEPT ![d] = c]
    <3>1. devkit' = [devkit EXCEPT ![d] =
                       [b EXCEPT !.runs[t] = "ready", !.dials[t] = NoEndpoint,
                                 !.eio = "connected", !.peer = b.dials[t], !.greeting = TRUE]]
      BY <1>2 DEF DialSucceeds
    <3>2. b \in DevKitConnection
      BY FieldTypes
    <3> HIDE DEF b
    <3> QED
      BY <3>1, <3>2 DEF DevKitConnection
  <2>2. /\ c \in DevKitConnection /\ c.enabled = b.enabled /\ c.endpoint = b.endpoint
        /\ c.runs = [b.runs EXCEPT ![t] = "ready"] /\ c.loops = b.loops
        /\ c.run = b.run /\ c.loop = b.loop /\ c.eio = "connected" /\ c.peer = b.dials[t]
    <3>1. b \in DevKitConnection /\ NoEndpoint \in Target /\ b.dials[t] \in Target
      BY FieldTypes DEF Target
    <3> HIDE DEF b
    <3> QED
      BY <3>1 DEF DevKitConnection
  <2> HIDE DEF c
  <2>3. Up(b) /\ t = b.run => Up(c)
    BY <1>1, <2>2, FieldTypes DEF Up
  <2> QED
    BY <1>1, <2>1, <2>2, <2>3, ActingKeeps
<1>3. CASE DialFails(d, t)
  <2> DEFINE c == [b EXCEPT !.runs = [b.runs EXCEPT ![t] = "ready"],
                            !.dials = [b.dials EXCEPT ![t] = NoEndpoint],
                            !.connected = FALSE]
  <2>1. devkit' = [devkit EXCEPT ![d] = c]
    BY <1>3, FieldTypes DEF DialFails, DevKitConnection
  <2>2. /\ c \in DevKitConnection /\ c.enabled = b.enabled /\ c.endpoint = b.endpoint
        /\ c.runs = [b.runs EXCEPT ![t] = "ready"] /\ c.loops = b.loops
        /\ c.run = b.run /\ c.loop = b.loop /\ c.eio = b.eio /\ c.peer = b.peer
    <3>1. b \in DevKitConnection /\ b.endpoint \in Target /\ NoEndpoint \in Target
      BY FieldTypes DEF Target
    <3> HIDE DEF b
    <3> QED
      BY <3>1 DEF DevKitConnection
  <2> HIDE DEF c
  <2>3. Up(b) /\ t = b.run => Up(c)
    BY <1>1, <2>2, FieldTypes DEF Up
  <2> QED
    BY <1>1, <2>1, <2>2, <2>3, ActingKeeps
<1> QED
  BY <1>2, <1>3

LEMMA LinkDropsKeeps == ASSUME IInv, NEW d \in DevKit, LinkDrops(d) PROVE IInv'
<1> DEFINE b == devkit[d]
           c == [b EXCEPT !.eio = "disconnected", !.peer = NoEndpoint, !.connected = FALSE]
<1>1. b.eio = "connected" /\ UNCHANGED <<simulators, handler, monitor>>
      /\ devkit' = [devkit EXCEPT ![d] = c]
  BY FieldTypes DEF LinkDrops, DevKitConnection
<1>2. /\ c \in DevKitConnection /\ c.enabled = b.enabled /\ c.endpoint = b.endpoint
      /\ c.runs = b.runs /\ c.loops = b.loops /\ c.dials = b.dials
      /\ c.run = b.run /\ c.loop = b.loop /\ c.eio = "disconnected"
  <2>1. b \in DevKitConnection /\ b.endpoint \in Target /\ NoEndpoint \in Target
    BY FieldTypes DEF Target
  <2> HIDE DEF b
  <2> QED
    BY <2>1 DEF DevKitConnection
<1> HIDE DEF c
<1>3. Settled(b, simulators) => Settled(c, simulators)
  BY <1>1, <1>2 DEF Settled, Up, Clear, InUse
<1>4. \A h \in Handler : Stopped(b, h) => Stopped(c, h)
  BY <1>1, <1>2 DEF Stopped, Clear
<1> QED
  BY <1>1, <1>2, <1>3, <1>4, TaskKeeps

LEMMA OnConnectKeeps == ASSUME IInv, NEW d \in DevKit, OnConnect(d) PROVE IInv'
<1> DEFINE b == devkit[d]
           c == [b EXCEPT !.greeting = FALSE, !.connected = TRUE]
<1>1. UNCHANGED <<simulators, handler, monitor>> /\ devkit' = [devkit EXCEPT ![d] = c]
  BY FieldTypes DEF OnConnect, DevKitConnection
<1>2. /\ c \in DevKitConnection /\ c.enabled = b.enabled /\ c.endpoint = b.endpoint
      /\ c.runs = b.runs /\ c.loops = b.loops /\ c.dials = b.dials
      /\ c.run = b.run /\ c.loop = b.loop /\ c.eio = b.eio /\ c.peer = b.peer
  <2>1. b \in DevKitConnection /\ b.endpoint \in Target /\ NoEndpoint \in Target
    BY FieldTypes DEF Target
  <2> HIDE DEF b
  <2> QED
    BY <2>1 DEF DevKitConnection
<1> HIDE DEF c
<1>3. Settled(b, simulators) => Settled(c, simulators)
  BY <1>2 DEF Settled, Up, Clear, InUse
<1>4. \A h \in Handler : Stopped(b, h) => Stopped(c, h)
  BY <1>2 DEF Stopped, Clear
<1> QED
  BY <1>1, <1>2, <1>3, <1>4, TaskKeeps

(* The monitor stalls, or reads again: the broadcasts wait, or return.     *)
LEMMA MonitorKeeps == ASSUME IInv, MonitorStalls \/ MonitorReads PROVE IInv'
<1>1. UNCHANGED <<simulators, devkit, handler>> /\ monitor' \in {"reading", "stalled"}
  BY DEF MonitorStalls, MonitorReads
<1> QED
  BY <1>1 DEF IInv, Typed, Alone, UniqueEndpoints, Rest, Busy, Purpose, Unique

(* A cancelled task ends: the handler that stops its DevKit knows of it.   *)
LEMMA CancelledIsBusy ==
    ASSUME IInv, NEW d \in DevKit, NEW t \in Task,
           devkit[d].runs[t] = "cancelled" \/ devkit[d].loops[t] = "cancelled"
    PROVE  \E s \in Slot : d \in handler[s].on
<1>1. ~Settled(devkit[d], simulators)
  BY DEF Settled, Up, Clear
<1> QED
  BY <1>1 DEF IInv, Rest, Busy

LEMMA EndsKeeps ==
    ASSUME IInv, NEW d \in DevKit, NEW t \in Task, RunEnds(d, t) \/ LoopEnds(d, t)
    PROVE  IInv'
<1> DEFINE b == devkit[d]
<1>1. PICK s \in Slot : d \in handler[s].on
  BY CancelledIsBusy DEF RunEnds, LoopEnds
<1> DEFINE g == handler[s]
<1>2. /\ g \in Handler /\ g.on = {d} /\ \A r \in Slot : r # s => d \notin handler[r].on
      /\ handler \in [Slot -> Handler] /\ Stopped(b, g)
  BY <1>1, OneAtWork DEF IInv, Typed, Rest
<1>5. g.pc # "publishing"
  BY <1>2 DEF Stopped, Clear, RunEnds, LoopEnds
<1>3. CASE RunEnds(d, t)
  <2> DEFINE c == [b EXCEPT !.runs = [b.runs EXCEPT ![t] = "none"]]
             h == [g EXCEPT !.runs = g.runs \ {t}]
  <2>1. devkit' = [devkit EXCEPT ![d] = c] /\ UNCHANGED <<simulators, monitor>>
    BY <1>3, FieldTypes DEF RunEnds, DevKitConnection
  <2>2. handler' = [handler EXCEPT ![s] = h]
    BY <1>1, <1>2, <1>3 DEF RunEnds
  <2>3. /\ c \in DevKitConnection /\ c.enabled = b.enabled /\ c.endpoint = b.endpoint
        /\ c.runs = [b.runs EXCEPT ![t] = "none"] /\ c.loops = b.loops /\ c.eio = b.eio
    <3>1. b \in DevKitConnection /\ b.endpoint \in Target /\ NoEndpoint \in Target
      BY FieldTypes DEF Target
    <3> HIDE DEF b
    <3> QED
      BY <3>1 DEF DevKitConnection
  <2>4. /\ h \in Handler /\ h.on = g.on /\ h.kind = g.kind /\ h.to = g.to /\ h.pc = g.pc
        /\ h.joins = g.joins /\ h.runs = g.runs \ {t} /\ h.loops = g.loops
    BY <1>2 DEF Handler
  <2> HIDE DEF c, h
  <2>5. Stopped(c, h)
    BY <1>2, <1>5, <2>3, <2>4, FieldTypes DEF Stopped
  <2> QED
    BY <1>1, <1>2, <2>1, <2>2, <2>3, <2>4, <2>5, GoesOn
<1>4. CASE LoopEnds(d, t)
  <2> DEFINE c == [b EXCEPT !.loops = [b.loops EXCEPT ![t] = "none"]]
             h == [g EXCEPT !.loops = g.loops \ {t}]
  <2>1. devkit' = [devkit EXCEPT ![d] = c] /\ UNCHANGED <<simulators, monitor>>
    BY <1>4, FieldTypes DEF LoopEnds, DevKitConnection
  <2>2. handler' = [handler EXCEPT ![s] = h]
    BY <1>1, <1>2, <1>4 DEF LoopEnds
  <2>3. /\ c \in DevKitConnection /\ c.enabled = b.enabled /\ c.endpoint = b.endpoint
        /\ c.loops = [b.loops EXCEPT ![t] = "none"] /\ c.runs = b.runs /\ c.eio = b.eio
    <3>1. b \in DevKitConnection /\ b.endpoint \in Target /\ NoEndpoint \in Target
      BY FieldTypes DEF Target
    <3> HIDE DEF b
    <3> QED
      BY <3>1 DEF DevKitConnection
  <2>4. /\ h \in Handler /\ h.on = g.on /\ h.kind = g.kind /\ h.to = g.to /\ h.pc = g.pc
        /\ h.joins = g.joins /\ h.loops = g.loops \ {t} /\ h.runs = g.runs
    BY <1>2 DEF Handler
  <2> HIDE DEF c, h
  <2>5. Stopped(c, h)
    BY <1>2, <1>5, <2>3, <2>4, FieldTypes DEF Stopped
  <2> QED
    BY <1>1, <1>2, <2>1, <2>2, <2>3, <2>4, <2>5, GoesOn
<1> QED
  BY <1>3, <1>4

-----------------------------------------------------------------------------
(* A stop() in progress.                                                   *)

LEMMA DisconnectingKeeps ==
    ASSUME IInv, NEW s \in Slot, NEW d \in DevKit, Disconnecting(s, d) PROVE IInv'
<1> DEFINE b == devkit[d]
           g == handler[s]
           h == [g EXCEPT !.pc = "closing"]
           c == [b EXCEPT !.eio = IF b.eio = "connected" THEN "disconnecting" ELSE b.eio]
<1>1. /\ d \in g.on /\ g.pc = "notify" /\ UNCHANGED <<simulators, monitor>>
      /\ handler' = [handler EXCEPT ![s] = h]
  BY DEF Disconnecting
<1>2. devkit' = [devkit EXCEPT ![d] = c]
  BY FieldTypes DEF Disconnecting, DevKitConnection
<1>3. g \in Handler /\ g.on = {d} /\ Stopped(b, g)
  BY <1>1, OneAtWork DEF IInv, Rest
<1>4. /\ h \in Handler /\ h.on = g.on /\ h.kind = g.kind /\ h.to = g.to /\ h.pc = "closing"
      /\ h.joins = g.joins /\ h.loops = g.loops /\ h.runs = g.runs
  BY <1>3 DEF Handler
<1>5. /\ c \in DevKitConnection /\ c.enabled = b.enabled /\ c.endpoint = b.endpoint
      /\ c.loops = b.loops /\ c.runs = b.runs
      /\ c.eio = IF b.eio = "connected" THEN "disconnecting" ELSE b.eio
  <2>1. b \in DevKitConnection /\ b.endpoint \in Target /\ NoEndpoint \in Target
    BY FieldTypes DEF Target
  <2> HIDE DEF b
  <2> QED
    BY <2>1 DEF DevKitConnection
<1> HIDE DEF c, h
<1>6. Stopped(c, h)
  BY <1>1, <1>3, <1>4, <1>5 DEF Stopped
<1> QED
  BY <1>1, <1>2, <1>3, <1>4, <1>5, <1>6, GoesOn

(* The rest of the handler, once nothing of the connection is left.        *)
LEMMA ReturnKeeps ==
    ASSUME IInv, NEW s \in Slot, NEW d \in handler[s].on, NEW c \in DevKitConnection,
           Return(s, d, c), UNCHANGED <<simulators, monitor>>, Clear(c),
           c.enabled <=> devkit[d].enabled, c.endpoint = devkit[d].endpoint
    PROVE  IInv'
<1> DEFINE g == handler[s]
<1>1. d \in DevKit /\ g \in Handler /\ Purpose(g, d) /\ Typed /\ UniqueEndpoints
      /\ (s \in DevKit => g.kind = "leave")
  BY OneAtWork DEF IInv, Rest
<1>3. CASE g.kind = "endpoint"
  <2> DEFINE e == Enable(Retarget(c, g.to), TRUE)
             a == Start(e, simulators)
  <2>1. devkit' = [devkit EXCEPT ![d] = a] /\ handler' = [handler EXCEPT ![s] = Idle]
    BY <1>3 DEF Return
  <2>2. g.to \in Endpoint /\ Unique(d, g.to)
    BY <1>1, <1>3 DEF Purpose
  <2>3. e \in DevKitConnection /\ Clear(e) /\ e.endpoint = g.to
    BY <2>2, AssignedIs DEF Target
  <2> HIDE DEF e
  <2>4. a \in DevKitConnection /\ Settled(a, simulators) /\ a.endpoint = g.to
    BY <2>3, StartSettles
  <2> HIDE DEF a
  <2>5. UniqueEndpoints'
    BY <1>1, <2>1, <2>2, <2>4, UniqueAfter
  <2> QED
    BY <2>1, <2>4, <2>5, Returns
<1>4. CASE g.kind = "retire"
  <2>1. PICK e : e = Enable(Retarget(c, g.to), FALSE)
    OBVIOUS
  <2>2. e \in DevKitConnection /\ Clear(e) /\ ~e.enabled
    <3>1. g.to \in Target
      BY <1>1 DEF Handler
    <3> QED
      BY <2>1, <3>1, AssignedIs
  <2>3. PICK a : a = Halt(e)
    OBVIOUS
  <2>4. /\ devkit' = [devkit EXCEPT ![d] = a]
        /\ handler' = [handler EXCEPT ![s] =
             IF Suspends(e) THEN Stopping(e, d, "disconnect", NoEndpoint) ELSE Idle]
    BY <1>4, <2>1, <2>3 DEF Return
  <2>5. a \in DevKitConnection /\ ~a.enabled
    BY <2>2, <2>3, HaltStops
  <2>6. UniqueEndpoints'
    BY <1>1, <2>4, <2>5, UniqueAfter
  <2>7. CASE Suspends(e)
    <3>1. PICK h : h = Stopping(e, d, "disconnect", NoEndpoint)
      OBVIOUS
    <3>2. h \in Handler /\ h.on = {d} /\ h.kind = "disconnect" /\ Stopped(a, h)
      <4>1. NoEndpoint \in Target
        BY DEF Target
      <4> QED
        BY <1>1, <2>2, <2>3, <2>7, <3>1, <4>1, StoppingIs
    <3>3. handler' = [handler EXCEPT ![s] = h]
      BY <2>4, <2>7, <3>1
    <3>4. devkit'[d] = a
      BY <1>1, <2>4 DEF Typed
    <3>5. Purpose(h, d)'
      BY <2>5, <3>2, <3>4 DEF Purpose
    <3>6. s \notin DevKit
      BY <1>1, <1>4
    <3> QED
      BY <2>4, <2>5, <2>6, <3>2, <3>3, <3>5, <3>6, GoesTo
  <2>8. CASE ~Suspends(e)
    <3>1. Clear(a)
      BY <2>2, <2>3, <2>8, HaltStops DEF Suspends
    <3>2. Settled(a, simulators)
      BY <2>5, <3>1 DEF Settled, InUse
    <3> QED
      BY <2>4, <2>5, <2>6, <2>8, <3>2, Returns
  <2> QED
    BY <2>7, <2>8
<1>5. CASE g.kind \notin {"endpoint", "retire"}
  <2>1. devkit' = [devkit EXCEPT ![d] = c] /\ handler' = [handler EXCEPT ![s] = Idle]
    BY <1>5 DEF Return
  <2>2. simulators = {} \/ ~devkit[d].enabled
    BY <1>1, <1>5 DEF Purpose
  <2>3. Settled(c, simulators)
    BY <2>2 DEF Settled, InUse
  <2>4. UniqueEndpoints'
    BY <1>1, <2>1, UniqueAfter
  <2> QED
    BY <2>1, <2>3, <2>4, Returns
<1> QED
  BY <1>3, <1>4, <1>5

(* The last part of stop(), when all that was left has ended.              *)
LEMMA ConcludeKeeps ==
    ASSUME IInv, NEW s \in Slot, NEW d \in handler[s].on, NEW c \in DevKitConnection,
           Conclude(s, d, c), UNCHANGED <<simulators, monitor>>,
           c.enabled <=> devkit[d].enabled, c.endpoint = devkit[d].endpoint,
           c.eio = "disconnected", \A t \in Task : c.runs[t] = "none" /\ c.loops[t] = "none",
           handler[s].runs = {}, handler[s].loops = {}
    PROVE  IInv'
<1> DEFINE g == handler[s]
<1>1. d \in DevKit /\ g \in Handler /\ g.on = {d}
  BY OneAtWork DEF IInv
<1>2. CASE c.connected
  <2> DEFINE h == [g EXCEPT !.pc = "publishing"]
             a == [Forget(c) EXCEPT !.connected = FALSE]
  <2>1. devkit' = [devkit EXCEPT ![d] = a] /\ handler' = [handler EXCEPT ![s] = h]
    BY <1>2 DEF Conclude
  <2>2. /\ a \in DevKitConnection /\ a.enabled = c.enabled /\ a.endpoint = c.endpoint
        /\ a.eio = c.eio /\ a.run = 0 /\ a.loop = 0 /\ a.runs = c.runs /\ a.loops = c.loops
    BY DEF Forget, DevKitConnection
  <2>3. /\ h \in Handler /\ h.on = g.on /\ h.kind = g.kind /\ h.to = g.to
        /\ h.pc = "publishing" /\ h.runs = g.runs /\ h.loops = g.loops
    BY <1>1 DEF Handler
  <2> HIDE DEF a, h
  <2>4. Clear(a)
    BY <2>2 DEF Clear
  <2>5. Stopped(a, h)
    <3>1. \A t \in Task : a.runs[t] = "none" /\ a.loops[t] = "none"
      BY <2>2
    <3>2. h.runs = {} /\ h.loops = {} /\ h.pc = "publishing"
      BY <2>3
    <3> QED
      BY <2>4, <3>1, <3>2 DEF Stopped
  <2> QED
    BY <1>1, <2>1, <2>2, <2>3, <2>5, GoesOn
<1>3. CASE ~c.connected
  <2> DEFINE a == Forget(c)
  <2>1. /\ a \in DevKitConnection /\ a.enabled = c.enabled /\ a.endpoint = c.endpoint
        /\ Clear(a)
    BY DEF Forget, DevKitConnection, Clear
  <2>2. Return(s, d, a)
    BY <1>3 DEF Conclude
  <2> HIDE DEF a
  <2> QED
    BY <2>1, <2>2, ReturnKeeps
<1> QED
  BY <1>2, <1>3

LEMMA DisconnectedKeeps ==
    ASSUME IInv, NEW s \in Slot, NEW d \in DevKit, Disconnected(s, d) PROVE IInv'
<1> DEFINE b == devkit[d]
           g == handler[s]
           h == [g EXCEPT !.pc = "joining"]
           c == [b EXCEPT !.eio = "disconnected", !.peer = NoEndpoint]
<1>1. d \in g.on /\ g.pc = "closing" /\ UNCHANGED <<simulators, monitor>>
  BY DEF Disconnected
<1>2. g \in Handler /\ g.on = {d} /\ Stopped(b, g)
  BY <1>1, OneAtWork DEF IInv, Rest
<1>3. /\ c \in DevKitConnection /\ c.enabled = b.enabled /\ c.endpoint = b.endpoint
      /\ c.loops = b.loops /\ c.runs = b.runs /\ c.eio = "disconnected"
  <2>1. b \in DevKitConnection /\ NoEndpoint \in Target
    BY FieldTypes DEF Target
  <2> HIDE DEF b
  <2> QED
    BY <2>1 DEF DevKitConnection
<1>4. CASE g.joins
  <2>1. devkit' = [devkit EXCEPT ![d] = c] /\ handler' = [handler EXCEPT ![s] = h]
    BY <1>4 DEF Disconnected
  <2>2. /\ h \in Handler /\ h.on = g.on /\ h.kind = g.kind /\ h.to = g.to
        /\ h.pc = "joining" /\ h.joins = g.joins /\ h.loops = g.loops /\ h.runs = g.runs
    BY <1>2 DEF Handler
  <2> HIDE DEF c, h
  <2>3. Stopped(c, h)
    BY <1>1, <1>2, <1>3, <2>2 DEF Stopped
  <2> QED
    BY <1>1, <1>2, <1>3, <2>1, <2>2, <2>3, GoesOn
<1>5. CASE ~g.joins
  <2>1. Conclude(s, d, c)
    BY <1>5 DEF Disconnected
  <2> HIDE DEF c
  <2>2. /\ \A t \in Task : c.runs[t] = "none" /\ c.loops[t] = "none"
        /\ g.runs = {} /\ g.loops = {}
    BY <1>2, <1>3, <1>5 DEF Stopped
  <2> QED
    BY <1>1, <1>3, <2>1, <2>2, ConcludeKeeps
<1> QED
  BY <1>4, <1>5

LEMMA JoinedKeeps ==
    ASSUME IInv, NEW s \in Slot, NEW d \in DevKit, Joined(s, d) PROVE IInv'
<1> DEFINE b == devkit[d]
           g == handler[s]
<1>1. /\ d \in g.on /\ g.pc = "joining" /\ UNCHANGED <<simulators, monitor>> /\ Conclude(s, d, b)
      /\ g.runs = {} /\ g.loops = {}
  BY DEF Joined, AllEnded
<1>2. Stopped(b, g) /\ b \in DevKitConnection
  BY <1>1, FieldTypes DEF IInv, Rest
<1>3. b.eio = "disconnected" /\ \A t \in Task : b.runs[t] = "none" /\ b.loops[t] = "none"
  BY <1>1, <1>2 DEF Stopped
<1> QED
  BY <1>1, <1>2, <1>3, ConcludeKeeps

LEMMA PublishedKeeps ==
    ASSUME IInv, NEW s \in Slot, NEW d \in DevKit, Published(s, d) PROVE IInv'
<1> DEFINE b == devkit[d]
           g == handler[s]
<1>1. /\ d \in g.on /\ g.pc = "publishing" /\ UNCHANGED <<simulators, monitor>>
      /\ Return(s, d, b)
  BY DEF Published
<1>2. Stopped(b, g) /\ b \in DevKitConnection
  BY <1>1, FieldTypes DEF IInv, Rest
<1>3. Clear(b)
  BY <1>1, <1>2 DEF Stopped
<1> QED
  BY <1>1, <1>2, <1>3, ReturnKeeps

-----------------------------------------------------------------------------
(* The handlers start while no other is under way.                         *)

LEMMA QuietSettled ==
    ASSUME IInv, Quiet, NEW d \in DevKit
    PROVE  /\ Settled(devkit[d], simulators) /\ devkit[d] \in DevKitConnection
           /\ Up(devkit[d]) \/ Clear(devkit[d])
<1>1. ~Busy(d)
  BY IdleIs DEF Quiet, Busy
<1>2. Settled(devkit[d], simulators)
  BY <1>1 DEF IInv, Rest
<1> QED
  BY <1>2, FieldTypes DEF Settled

LEMMA ConnectKeeps ==
    ASSUME IInv, Serial, NEW sid \in Simulator, SimulatorConnect(sid) PROVE IInv'
<1>1. /\ Quiet /\ simulators' = simulators \cup {sid} /\ UNCHANGED <<handler, monitor>>
      /\ devkit' = [d \in DevKit |-> Start(devkit[d], simulators')]
  BY DEF SimulatorConnect
<1>2. ASSUME NEW d \in DevKit
      PROVE  /\ devkit'[d] \in DevKitConnection /\ Settled(devkit'[d], simulators')
             /\ devkit'[d].enabled = devkit[d].enabled
             /\ devkit'[d].endpoint = devkit[d].endpoint
  <2> DEFINE sids == simulators \cup {sid}
             b == devkit[d]
  <2>1. b \in DevKitConnection /\ Settled(b, simulators)
    BY <1>1, QuietSettled
  <2>2. Clear(b) \/ (Up(b) /\ InUse(b, sids))
    BY <2>1 DEF Settled, InUse
  <2> HIDE DEF sids, b
  <2>3. /\ Start(b, sids) \in DevKitConnection /\ Settled(Start(b, sids), sids)
        /\ Start(b, sids).enabled = b.enabled /\ Start(b, sids).endpoint = b.endpoint
    BY <2>1, <2>2, StartSettles
  <2> QED
    BY <1>1, <2>3 DEF sids, b
<1>3. Typed'
  <2>1. devkit' \in [DevKit -> DevKitConnection]
    BY <1>1, <1>2
  <2> QED
    BY <1>1, <2>1 DEF IInv, Typed
<1>4. Alone'
  BY <1>1 DEF IInv, Alone
<1>6. UniqueEndpoints'
  <2>1. \A d \in DevKit : /\ devkit'[d].enabled => devkit[d].enabled
                          /\ devkit'[d].endpoint = devkit[d].endpoint
    BY <1>2
  <2> QED
    BY <2>1 DEF IInv, UniqueEndpoints
<1>5. \A s \in Slot : handler'[s].on = {}
  BY <1>1, IdleIs DEF Quiet
<1> QED
  BY <1>2, <1>3, <1>4, <1>5, <1>6 DEF IInv, Rest

LEMMA DepartureKeeps ==
    ASSUME IInv, Serial, NEW sid \in Simulator, SimulatorDisconnect(sid) PROVE IInv'
<1>1. Quiet /\ sid \in simulators /\ simulators' = simulators \ {sid} /\ monitor' = monitor
  BY DEF SimulatorDisconnect
<1>2. \A s \in Slot : handler[s] = Idle /\ handler[s].on = {}
  BY <1>1, IdleIs DEF Quiet
<1>3. CASE simulators' # {}
  <2>1. UNCHANGED <<devkit, handler>>
    BY <1>3 DEF SimulatorDisconnect, Abandoned
  <2>2. \A d \in DevKit : Settled(devkit[d], simulators')
    BY <1>1, <1>3, QuietSettled DEF Settled, InUse
  <2>3. Typed' /\ Alone' /\ UniqueEndpoints'
    BY <1>1, <2>1 DEF IInv, Typed, Alone, UniqueEndpoints
  <2> QED
    BY <1>2, <2>1, <2>2, <2>3 DEF IInv, Rest
<1>4. CASE simulators' = {}
  <2>1. /\ devkit' = [d \in DevKit |-> Halt(devkit[d])]
        /\ handler' = [s \in Slot |->
                         IF s \in DevKit /\ Suspends(devkit[s])
                         THEN Stopping(devkit[s], s, "leave", NoEndpoint) ELSE handler[s]]
    BY <1>4 DEF SimulatorDisconnect, Abandoned
  <2>2. ASSUME NEW d \in DevKit
        PROVE  /\ devkit'[d] \in DevKitConnection
               /\ devkit'[d].enabled = devkit[d].enabled
               /\ devkit'[d].endpoint = devkit[d].endpoint
               /\ ~Suspends(devkit[d]) => Clear(devkit'[d])
    <3> DEFINE b == devkit[d]
    <3>1. b \in DevKitConnection /\ (Up(b) \/ Clear(b))
      BY <1>1, QuietSettled
    <3>2. devkit'[d] = Halt(b)
      BY <2>1
    <3> HIDE DEF b
    <3>3. /\ Halt(b) \in DevKitConnection
          /\ Halt(b).enabled = b.enabled /\ Halt(b).endpoint = b.endpoint
          /\ ~Suspends(b) => Clear(Halt(b))
      BY <3>1, HaltStops DEF Suspends
    <3> QED
      BY <3>2, <3>3 DEF b
  <2>3. ASSUME NEW d \in DevKit, Suspends(devkit[d])
        PROVE  LET h == Stopping(devkit[d], d, "leave", NoEndpoint) IN
               h \in Handler /\ h.on = {d} /\ h.kind = "leave" /\ Stopped(devkit'[d], h)
    <3> DEFINE b == devkit[d]
    <3>1. b \in DevKitConnection /\ NoEndpoint \in Target /\ (Up(b) \/ Clear(b))
      BY <1>1, QuietSettled DEF Target
    <3>2. devkit'[d] = Halt(b)
      BY <2>1
    <3> QED
      BY <2>3, <3>1, <3>2, StoppingIs
  <2>4. \A s \in Slot : /\ s \in DevKit /\ Suspends(devkit[s]) =>
                             handler'[s] = Stopping(devkit[s], s, "leave", NoEndpoint)
                        /\ ~(s \in DevKit /\ Suspends(devkit[s])) => handler'[s] = Idle
    BY <1>2, <2>1
  <2>5. Typed'
    <3>1. devkit' \in [DevKit -> DevKitConnection]
      BY <2>1, <2>2
    <3>2. handler' \in [Slot -> Handler]
      BY <2>1, <2>3, <2>4, IdleIs
    <3> QED
      BY <1>1, <3>1, <3>2 DEF IInv, Typed
  <2>6. ASSUME NEW s \in Slot, handler'[s] # Idle
        PROVE  s \in DevKit /\ handler'[s].on = {s} /\ handler'[s].kind = "leave"
    BY <2>3, <2>4, <2>6
  <2>7. Alone'
    BY <2>6 DEF Alone
  <2>8. UniqueEndpoints'
    BY <2>2 DEF IInv, UniqueEndpoints
  <2>9. ASSUME NEW d \in DevKit, ~Busy(d)' PROVE Settled(devkit'[d], simulators')
    <3>1. d \in Slot
      BY DEF Slot
    <3>2. ~Suspends(devkit[d])
      BY <2>3, <2>4, <2>9, <3>1 DEF Busy
    <3> QED
      BY <1>4, <2>2, <3>2 DEF Settled, InUse
  <2>10. ASSUME NEW s \in Slot, NEW d \in handler'[s].on
         PROVE  Stopped(devkit'[d], handler'[s]) /\ Purpose(handler[s], d)'
    <3>1. /\ s \in DevKit /\ Suspends(devkit[s])
          /\ handler'[s] = Stopping(devkit[s], s, "leave", NoEndpoint)
      BY <2>4, <2>10, IdleIs
    <3>2. d = s
      BY <2>3, <2>10, <3>1
    <3>3. Stopped(devkit'[d], handler'[s]) /\ handler'[s].kind = "leave"
      BY <2>3, <3>1, <3>2
    <3> QED
      BY <1>4, <3>3 DEF Purpose
  <2> QED
    BY <2>5, <2>7, <2>8, <2>9, <2>10 DEF IInv, Rest
<1> QED
  BY <1>3, <1>4

(* A command that assigns without a stop(), and starts the DevKit.         *)
LEMMA StartCommand ==
    ASSUME IInv, Quiet, NEW d \in DevKit, NEW e \in DevKitConnection,
           devkit' = [devkit EXCEPT ![d] = Start(e, simulators)],
           UNCHANGED <<simulators, handler, monitor>>,
           Clear(e) \/ (Up(e) /\ InUse(e, simulators)),
           e.endpoint = NoEndpoint \/ Unique(d, e.endpoint)
    PROVE  IInv'
<1> DEFINE a == Start(e, simulators)
<1>1. a \in DevKitConnection /\ Settled(a, simulators) /\ a.endpoint = e.endpoint
  BY StartSettles
<1> HIDE DEF a
<1>2. devkit' = [devkit EXCEPT ![d] = a]
  BY DEF a
<1>3. UniqueEndpoints'
  BY <1>1, <1>2, UniqueAfter DEF IInv
<1> QED
  BY <1>1, <1>2, <1>3, Assigns

(* A command that suspends in the stop() of its DevKit.                    *)
LEMMA StopCommand ==
    ASSUME IInv, Quiet, NEW s \in Client, NEW d \in DevKit, NEW e \in DevKitConnection,
           NEW kind \in {"disconnect", "endpoint", "retire"}, NEW to \in Target,
           devkit' = [devkit EXCEPT ![d] = Halt(e)], UNCHANGED <<simulators, monitor>>,
           handler' = [handler EXCEPT ![s] = Stopping(e, d, kind, to)],
           e.endpoint = devkit[d].endpoint, e.enabled => devkit[d].enabled,
           Up(e) \/ Clear(e), Suspends(e),
           kind = "disconnect" => ~e.enabled,
           kind = "endpoint" => to \in Endpoint /\ Unique(d, to)
    PROVE  IInv'
<1>1. Typed /\ UniqueEndpoints
  BY DEF IInv
<1>2. PICK c : c = Halt(e)
  OBVIOUS
<1>3. PICK h : h = Stopping(e, d, kind, to)
  OBVIOUS
<1>4. c \in DevKitConnection /\ c.enabled = e.enabled /\ c.endpoint = e.endpoint
  BY <1>2, HaltStops
<1>5. h \in Handler /\ h.on = {d} /\ h.kind = kind /\ h.to = to /\ Stopped(c, h)
  BY <1>2, <1>3, StoppingIs
<1>6. devkit' = [devkit EXCEPT ![d] = c] /\ handler' = [handler EXCEPT ![s] = h]
  BY <1>2, <1>3
<1>7. UniqueEndpoints'
  <2>1. (c.enabled => devkit[d].enabled) /\ c.endpoint = devkit[d].endpoint
    BY <1>4
  <2> QED
    BY <1>1, <1>4, <1>6, <2>1, UniqueAfter
<1>8. \A o \in DevKit : devkit'[o] = IF o = d THEN c ELSE devkit[o]
  BY <1>1, <1>6 DEF Typed
<1>9. Unique(d, to) => Unique(d, to)'
  BY <1>8 DEF Unique
<1>10. Purpose(h, d)'
  <2>1. devkit'[d] = c
    BY <1>8
  <2>2. kind = "disconnect" => ~devkit'[d].enabled
    BY <1>4, <2>1
  <2>3. kind \in {"leave", "disconnect", "endpoint", "retire"} /\ kind # "leave"
    OBVIOUS
  <2> QED
    BY <1>5, <1>9, <2>2, <2>3 DEF Purpose
<1> QED
  BY <1>4, <1>5, <1>6, <1>7, <1>10, Begins

LEMMA ConnectCommandKeeps ==
    ASSUME IInv, Serial, NEW s \in Client, NEW d \in DevKit, ConnectCommand(s, d) PROVE IInv'
<1> DEFINE b == devkit[d]
           e == Enable(b, TRUE)
<1>1. /\ Quiet /\ UNCHANGED <<simulators, handler, monitor>>
      /\ devkit' = [devkit EXCEPT ![d] = Start(e, simulators)]
      /\ b.endpoint # NoEndpoint => Unique(d, b.endpoint)
  BY DEF ConnectCommand, Accepts
<1>2. b \in DevKitConnection /\ Settled(b, simulators) /\ b.endpoint \in Target
  BY <1>1, QuietSettled, FieldTypes
<1>3. /\ e \in DevKitConnection /\ e.enabled /\ e.endpoint = b.endpoint
      /\ (Clear(b) => Clear(e)) /\ (Up(b) => Up(e))
  BY <1>2, AssignedIs
<1> HIDE DEF e
<1>4. Clear(e) \/ (Up(e) /\ InUse(e, simulators))
  BY <1>2, <1>3 DEF Settled, InUse
<1> QED
  BY <1>1, <1>3, <1>4, StartCommand

LEMMA DisconnectCommandKeeps ==
    ASSUME IInv, Serial, NEW s \in Client, NEW d \in DevKit, DisconnectCommand(s, d) PROVE IInv'
<1> DEFINE b == devkit[d]
           e == Enable(b, FALSE)
<1>1. Quiet /\ UNCHANGED <<simulators, monitor>> /\ devkit' = [devkit EXCEPT ![d] = Halt(e)]
  BY DEF DisconnectCommand, Accepts
<1>2. b \in DevKitConnection /\ (Up(b) \/ Clear(b)) /\ b.endpoint \in Target
  BY <1>1, QuietSettled, FieldTypes
<1>3. /\ e \in DevKitConnection /\ ~e.enabled /\ e.endpoint = b.endpoint
      /\ Up(e) \/ Clear(e)
      /\ Suspends(e) <=> Suspends(b)
  BY <1>2, AssignedIs
<1>6. Stopping(e, d, "disconnect", NoEndpoint) = Stopping(b, d, "disconnect", NoEndpoint)
  BY <1>2, SameStop
<1>4. CASE Suspends(b)
  <2>1. handler' = [handler EXCEPT ![s] = Stopping(b, d, "disconnect", NoEndpoint)]
    BY <1>4 DEF DisconnectCommand
  <2>2. NoEndpoint \in Target
    BY DEF Target
  <2> HIDE DEF e
  <2>3. handler' = [handler EXCEPT ![s] = Stopping(e, d, "disconnect", NoEndpoint)]
    BY <1>6, <2>1
  <2> QED
    BY <1>1, <1>3, <1>4, <2>2, <2>3, StopCommand
<1>5. CASE ~Suspends(b)
  <2> DEFINE c == Halt(e)
  <2> HIDE DEF e
  <2>1. c \in DevKitConnection /\ Clear(c) /\ ~c.enabled /\ c.endpoint = e.endpoint
    BY <1>3, <1>5, HaltStops DEF Suspends
  <2>2. handler' = handler
    BY <1>5 DEF DisconnectCommand
  <2> HIDE DEF c
  <2>3. devkit' = [devkit EXCEPT ![d] = c]
    BY <1>1 DEF c
  <2>4. UniqueEndpoints' /\ Settled(c, simulators)
    BY <2>1, <2>3, UniqueAfter DEF IInv, Settled, InUse
  <2> QED
    BY <1>1, <2>1, <2>2, <2>3, <2>4, Assigns
<1> QED
  BY <1>4, <1>5

LEMMA EndpointCommandKeeps ==
    ASSUME IInv, Serial, NEW s \in Client, NEW d \in DevKit, NEW to \in Endpoint,
           EndpointCommand(s, d, to)
    PROVE  IInv'
<1> DEFINE b == devkit[d]
           f == Enable(Retarget(b, to), TRUE)
<1>1. Quiet /\ UNCHANGED <<simulators, monitor>> /\ Unique(d, to)
  BY DEF EndpointCommand, Accepts
<1>2. b \in DevKitConnection /\ (Up(b) \/ Clear(b)) /\ Settled(b, simulators)
      /\ to \in Target /\ to # NoEndpoint
  BY <1>1, QuietSettled, LifecycleAssumption DEF Target
<1>3. CASE to # b.endpoint /\ Suspends(b)
  <2>1. /\ devkit' = [devkit EXCEPT ![d] = Halt(b)]
        /\ handler' = [handler EXCEPT ![s] = Stopping(b, d, "endpoint", to)]
    BY <1>3 DEF EndpointCommand
  <2> HIDE DEF b
  <2> QED
    BY <1>1, <1>2, <1>3, <2>1, StopCommand DEF b
<1>4. CASE ~(to # b.endpoint /\ Suspends(b))
  <2>1. handler' = handler /\ devkit' = [devkit EXCEPT ![d] = Start(f, simulators)]
    BY <1>4 DEF EndpointCommand
  <2> HIDE DEF b
  <2>2. f \in DevKitConnection /\ f.enabled /\ f.endpoint = to
    <3>1. Enable(Retarget(b, to), TRUE) = [b EXCEPT !.endpoint = to, !.enabled = TRUE]
      BY <1>2 DEF Enable, Retarget, DevKitConnection
    <3> QED
      BY <1>2, <3>1 DEF DevKitConnection
  <2>4. Clear(b) => Clear(f)
    BY <1>2, AssignedIs
  <2>5. to = b.endpoint => (Up(b) => Up(f))
    BY <1>2, AssignedIs
  <2> HIDE DEF f
  <2>3. Clear(f) \/ (Up(f) /\ InUse(f, simulators))
    <3>1. ~Suspends(b) => Clear(b)
      BY <1>2, HaltStops DEF Suspends
    <3> QED
      BY <1>2, <1>4, <2>2, <2>4, <2>5, <3>1 DEF Settled, InUse
  <2> QED
    BY <1>1, <2>1, <2>2, <2>3, StartCommand
<1> QED
  BY <1>3, <1>4

LEMMA RetireCommandKeeps ==
    ASSUME IInv, Serial, NEW s \in Client, NEW d \in DevKit, NEW to \in Endpoint,
           RetireCommand(s, d, to)
    PROVE  IInv'
<1> DEFINE b == devkit[d]
           e == Enable(b, FALSE)
           f == Enable(Retarget(b, to), FALSE)
<1>1. Quiet /\ UNCHANGED <<simulators, monitor>>
  BY DEF RetireCommand, Accepts
<1>2. b \in DevKitConnection /\ (Up(b) \/ Clear(b)) /\ to \in Target /\ NoEndpoint \in Target
  BY <1>1, QuietSettled DEF Target
<1>3. CASE ~Suspends(b)
  <2>1. devkit' = [devkit EXCEPT ![d] = f] /\ handler' = handler
    BY <1>3 DEF RetireCommand
  <2>2. Clear(b)
    BY <1>2, <1>3, HaltStops DEF Suspends
  <2>3. f \in DevKitConnection /\ ~f.enabled /\ Clear(f)
    BY <1>2, <2>2, AssignedIs
  <2> HIDE DEF f
  <2>4. UniqueEndpoints' /\ Settled(f, simulators)
    BY <2>1, <2>3, UniqueAfter DEF IInv, Settled, InUse
  <2> QED
    BY <1>1, <2>1, <2>3, <2>4, Assigns
<1>4. CASE Suspends(b) /\ to # b.endpoint
  <2>1. /\ devkit' = [devkit EXCEPT ![d] = Halt(b)]
        /\ handler' = [handler EXCEPT ![s] = Stopping(b, d, "retire", to)]
    BY <1>4 DEF RetireCommand
  <2> HIDE DEF b
  <2> QED
    BY <1>1, <1>2, <1>4, <2>1, StopCommand DEF b
<1>5. CASE Suspends(b) /\ to = b.endpoint
  <2>1. /\ devkit' = [devkit EXCEPT ![d] = Halt(e)]
        /\ handler' = [handler EXCEPT ![s] = Stopping(b, d, "disconnect", NoEndpoint)]
    BY <1>5 DEF RetireCommand
  <2>2. /\ e \in DevKitConnection /\ ~e.enabled /\ e.endpoint = b.endpoint
        /\ Up(e) \/ Clear(e)
        /\ Suspends(e) <=> Suspends(b)
    BY <1>2, AssignedIs
  <2>4. Stopping(e, d, "disconnect", NoEndpoint) = Stopping(b, d, "disconnect", NoEndpoint)
    BY <1>2, SameStop
  <2> HIDE DEF e
  <2>3. handler' = [handler EXCEPT ![s] = Stopping(e, d, "disconnect", NoEndpoint)]
    BY <2>1, <2>4
  <2> QED
    BY <1>1, <1>2, <1>5, <2>1, <2>2, <2>3, StopCommand
<1> QED
  BY <1>3, <1>4, <1>5

-----------------------------------------------------------------------------
(* The theorems.                                                           *)

LEMMA IInvStep == ASSUME Serial PROVE IInv /\ [Next]_vars => IInv'
<1> SUFFICES ASSUME IInv, [Next]_vars PROVE IInv'
  OBVIOUS
<1>1. CASE UNCHANGED vars
  BY <1>1 DEF vars, IInv, Typed, Alone, UniqueEndpoints, Rest, Busy, Purpose, Unique
<1>2. CASE \E sid \in Simulator : SimulatorConnect(sid) \/ SimulatorDisconnect(sid)
  BY <1>2, ConnectKeeps, DepartureKeeps
<1>3. CASE \E s \in Client, d \in DevKit : Command(s, d)
  BY <1>3, ConnectCommandKeeps, DisconnectCommandKeeps, EndpointCommandKeeps,
     RetireCommandKeeps DEF Command
<1>4. CASE \E s \in Slot, d \in DevKit : Stop(s, d)
  BY <1>4, DisconnectingKeeps, DisconnectedKeeps, JoinedKeeps, PublishedKeeps DEF Stop
<1>5. CASE \E d \in DevKit, t \in Task : RunTask(d, t) \/ LoopEnds(d, t)
  BY <1>5, RunWakesKeeps, RunNotifiedKeeps, DialEndsKeeps, EndsKeeps DEF RunTask
<1>6. CASE \E d \in DevKit : OnConnect(d) \/ LinkDrops(d)
  BY <1>6, OnConnectKeeps, LinkDropsKeeps
<1>7. CASE MonitorStalls \/ MonitorReads
  BY <1>7, MonitorKeeps
<1> QED
  BY <1>1, <1>2, <1>3, <1>4, <1>5, <1>6, <1>7 DEF Next

LEMMA IInvInit == ASSUME InitialUnique PROVE Init => IInv
<1> SUFFICES ASSUME Init PROVE IInv
  OBVIOUS
<1>1. ASSUME NEW d \in DevKit
      PROVE  /\ devkit[d].endpoint = Initial[d] /\ Clear(devkit[d])
             /\ devkit[d] \in DevKitConnection
  <2> DEFINE b == devkit[d]
  <2>1. b = NewConnection(Initial[d]) /\ Initial[d] \in Target
    BY LifecycleAssumption DEF Init, Target
  <2>2. /\ b.endpoint = Initial[d] /\ b.eio = "disconnected" /\ b.run = 0 /\ b.loop = 0
        /\ b.runs = [t \in Task |-> "none"] /\ b.loops = [t \in Task |-> "none"]
    BY <2>1 DEF NewConnection
  <2>3. b \in DevKitConnection
    BY <2>1 DEF NewConnection, DevKitConnection, Target
  <2> HIDE DEF b
  <2> QED
    BY <2>2, <2>3 DEF Clear, b
<1>2. \A s \in Slot : handler[s] = Idle
  BY DEF Init
<1>4. Typed
  BY <1>1, IdleIs DEF Init, Typed
<1>5. Alone
  BY <1>2 DEF Alone
<1>6. UniqueEndpoints
  BY <1>1 DEF UniqueEndpoints, InitialUnique
<1>7. \A d \in DevKit : Settled(devkit[d], simulators)
  BY <1>1 DEF Init, Settled, InUse
<1> QED
  BY <1>2, <1>4, <1>5, <1>6, <1>7, IdleIs DEF IInv, Rest

(* When handlers run one at a time, every variable keeps its type, and a   *)
(* stop() waits only for tasks that it cancelled (DevKitConnection.stop).  *)
THEOREM TypeCorrect == ASSUME Serial, InitialUnique PROVE Spec => []TypeOK
<1>1. ASSUME IInv PROVE TypeOK
  <2>1. ASSUME NEW s \in Slot, NEW d \in handler[s].on
        PROVE  /\ \A t \in handler[s].runs : devkit[d].runs[t] = "cancelled"
               /\ \A t \in handler[s].loops : devkit[d].loops[t] = "cancelled"
    <3>1. Stopped(devkit[d], handler[s])
      BY <1>1 DEF IInv, Rest
    <3>2. handler[s].runs \subseteq Task /\ handler[s].loops \subseteq Task
      BY <1>1 DEF IInv, Typed, Handler
    <3> QED
      BY <3>1, <3>2 DEF Stopped
  <2> QED
    BY <1>1, <2>1 DEF IInv, Typed, TypeOK
<1>2. IInv => TypeOK
  BY <1>1
<1> QED
  BY <1>2, IInvInit, IInvStep, PTL DEF Spec

(* No command gives an enabled DevKit the endpoint of another one          *)
(* (ensure_unique_devkit_endpoint), if no other handler runs in between.   *)
THEOREM EndpointsStayUnique ==
    ASSUME Serial, InitialUnique PROVE Spec => []UniqueEndpoints
<1>1. IInv => UniqueEndpoints
  BY DEF IInv
<1> QED
  BY <1>1, IInvInit, IInvStep, PTL DEF Spec

(* The invariant of one connection: at rest, in use, or being stopped.     *)
LEMMA OneOfThree ==
    ASSUME IInv, NEW d \in DevKit
    PROVE  \/ ~Busy(d) /\ Settled(devkit[d], simulators)
           \/ Busy(d) /\ \A t \in Task : /\ devkit[d].runs[t] \in {"none", "cancelled"}
                                         /\ devkit[d].loops[t] \in {"none", "cancelled"}
  BY DEF IInv, Rest, Busy, Stopped

(* No task of a DevKit is left running that its handles have forgotten     *)
(* (DevKitConnection.start, stop).                                         *)
THEOREM NoTaskOrphaned == ASSUME Serial, InitialUnique PROVE Spec => []NoOrphan
<1>1. ASSUME IInv PROVE NoOrphan
  <2> SUFFICES ASSUME NEW d \in DevKit, NEW t \in Task
               PROVE  /\ devkit[d].runs[t] \in {"ready", "notifying", "dialing"} => devkit[d].run = t
                      /\ devkit[d].loops[t] = "live" => devkit[d].loop = t
    BY DEF NoOrphan
  <2>1. CASE Busy(d)
    BY <1>1, <2>1, OneOfThree
  <2>2. CASE ~Busy(d)
    BY <1>1, <2>2, OneOfThree DEF Settled, Up, Clear
  <2> QED
    BY <2>1, <2>2
<1>2. IInv => NoOrphan
  BY <1>1
<1> QED
  BY <1>2, IInvInit, IInvStep, PTL DEF Spec

(* An enabled and configured DevKit is served while there is a simulator   *)
(* (connect_all_devkits, disconnect_all_devkits, start).                   *)
THEOREM EnabledIsServed == ASSUME Serial, InitialUnique PROVE Spec => []Served
<1>1. ASSUME IInv PROVE Served
  <2>1. \A d \in DevKit : InUse(devkit[d], simulators) /\ ~Busy(d) => Up(devkit[d])
    BY <1>1, OneOfThree DEF Settled
  <2> QED
    BY <2>1, ZeroNoTask DEF Served, InUse, Up
<1>2. IInv => Served
  BY <1>1
<1> QED
  BY <1>2, IInvInit, IInvStep, PTL DEF Spec

(* A DevKit that is disabled or has no simulator is down (stop).           *)
THEOREM DisabledIsDown == ASSUME Serial, InitialUnique PROVE Spec => []DownWhenOff
<1>1. ASSUME IInv PROVE DownWhenOff
  <2>1. \A d \in DevKit : ~InUse(devkit[d], simulators) /\ ~Busy(d) => Clear(devkit[d])
    BY <1>1, OneOfThree DEF Settled
  <2> QED
    BY <2>1 DEF DownWhenOff, InUse, Clear
<1>2. IInv => DownWhenOff
  BY <1>1
<1> QED
  BY <1>2, IInvInit, IInvStep, PTL DEF Spec

(* No connection to an earlier endpoint survives a command that changes it *)
(* (configure).                                                            *)
THEOREM ConnectedAsConfigured ==
    ASSUME Serial, InitialUnique PROVE Spec => []ConnectedToEndpoint
<1>1. ASSUME IInv PROVE ConnectedToEndpoint
  <2>1. \A d \in DevKit : ~Busy(d) => Up(devkit[d]) \/ Clear(devkit[d])
    BY <1>1, OneOfThree DEF Settled
  <2> QED
    BY <2>1 DEF ConnectedToEndpoint, Up, Clear
<1>2. IInv => ConnectedToEndpoint
  BY <1>1
<1> QED
  BY <1>2, IInvInit, IInvStep, PTL DEF Spec
=============================================================================
