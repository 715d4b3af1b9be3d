----------------------- MODULE TelemetryCache_proofs -----------------------
(***************************************************************************)
(* Theorems about the cache of Telemetry, for every value of the           *)
(* constants: it holds the last valid readings and genuine scans, and the  *)
(* page shows it.                                                          *)
(***************************************************************************)
EXTENDS Telemetry_proofs, WellFoundedInduction

IsFunction(f) == f = [x \in DOMAIN f |-> f[x]]
IsSequence(s) == s \in Seq(ToSet(s))

(* Dicts of dicts.                                                         *)
IsTable(t) == IsFunction(t) /\ \A v \in DOMAIN t : IsFunction(t[v])

-----------------------------------------------------------------------------
(* What dict.update does.                                                  *)

LEMMA UpdatedFunction ==
    ASSUME NEW known, NEW found
    PROVE  /\ IsFunction(Updated(known, found))
           /\ DOMAIN Updated(known, found) = DOMAIN known \cup DOMAIN found
  BY DEF Updated, IsFunction

LEMMA EmptyFunction ==
    ASSUME NEW f, IsFunction(f)
    PROVE  f = <<>> <=> DOMAIN f = {}
  BY DEF IsFunction

LEMMA MergedFunction ==
    ASSUME NEW known, NEW found
    PROVE  /\ IsFunction(Merged(known, found))
           /\ DOMAIN Merged(known, found) = DOMAIN known \cup DOMAIN found
  BY DEF Merged, Updated, IsFunction

LEMMA MergedFound ==
    ASSUME NEW known, NEW found, NEW v, v \in DOMAIN found
    PROVE  Merged(known, found)[v] = Updated(Of(known, v), found[v])
  BY DEF Merged, Updated

LEMMA MergedKnown ==
    ASSUME NEW known, NEW found, NEW v, v \in DOMAIN known, v \notin DOMAIN found
    PROVE  Merged(known, found)[v] = known[v]
  BY DEF Merged, Updated

LEMMA OfIs ==
    ASSUME NEW t, NEW v
    PROVE  /\ v \in DOMAIN t => Of(t, v) = t[v]
           /\ v \notin DOMAIN t => Of(t, v) = <<>> /\ DOMAIN Of(t, v) = {}
  BY DEF Of

(* Field by field, the found value if there is one, else the known one.    *)
LEMMA MergedOf ==
    ASSUME NEW known, NEW found, NEW v
    PROVE  /\ v \in DOMAIN found =>
                Of(Merged(known, found), v) = Updated(Of(known, v), Of(found, v))
           /\ v \notin DOMAIN found => Of(Merged(known, found), v) = Of(known, v)
<1>1. CASE v \in DOMAIN found
  <2>1. v \in DOMAIN Merged(known, found)
    BY <1>1, MergedFunction
  <2>2. Merged(known, found)[v] = Updated(Of(known, v), found[v])
    BY <1>1, MergedFound
  <2>3. Of(found, v) = found[v]
    BY <1>1, OfIs
  <2>4. Of(Merged(known, found), v) = Merged(known, found)[v]
    BY <2>1, OfIs
  <2> QED
    BY <1>1, <2>2, <2>3, <2>4
<1>2. CASE v \notin DOMAIN found /\ v \in DOMAIN known
  <2>1. v \in DOMAIN Merged(known, found)
    BY <1>2, MergedFunction
  <2>2. Merged(known, found)[v] = known[v]
    BY <1>2, MergedKnown
  <2>3. Of(known, v) = known[v]
    BY <1>2, OfIs
  <2>4. Of(Merged(known, found), v) = Merged(known, found)[v]
    BY <2>1, OfIs
  <2> QED
    BY <1>2, <2>2, <2>3, <2>4
<1>3. CASE v \notin DOMAIN found /\ v \notin DOMAIN known
  <2>1. v \notin DOMAIN Merged(known, found)
    BY <1>3 DEF Merged, Updated
  <2>2. Of(known, v) = <<>> /\ Of(Merged(known, found), v) = <<>>
    BY <1>3, <2>1, OfIs
  <2> QED
    BY <1>3, <2>2
<1> QED
  BY <1>1, <1>2, <1>3

LEMMA MergedFields ==
    ASSUME NEW known, NEW found, NEW v, NEW f
    PROVE  f \in DOMAIN Of(Merged(known, found), v)
             <=> f \in DOMAIN Of(known, v) \/ f \in DOMAIN Of(found, v)
<1>1. CASE v \in DOMAIN found
  <2>1. Of(Merged(known, found), v) = Updated(Of(known, v), Of(found, v))
    BY <1>1, MergedOf
  <2> QED
    BY <2>1 DEF Updated
<1>2. CASE v \notin DOMAIN found
  <2>1. Of(Merged(known, found), v) = Of(known, v) /\ DOMAIN Of(found, v) = {}
    BY <1>2, MergedOf, OfIs
  <2> QED
    BY <2>1
<1> QED
  BY <1>1, <1>2

LEMMA MergedField ==
    ASSUME NEW known, NEW found, NEW v, NEW f
    PROVE  /\ f \in DOMAIN Of(found, v) => Of(Merged(known, found), v)[f] = Of(found, v)[f]
           /\ f \in DOMAIN Of(known, v) /\ f \notin DOMAIN Of(found, v) =>
                Of(Merged(known, found), v)[f] = Of(known, v)[f]
<1>1. CASE v \in DOMAIN found
  <2>1. Of(Merged(known, found), v) = Updated(Of(known, v), Of(found, v))
    BY <1>1, MergedOf
  <2> QED
    BY <2>1 DEF Updated
<1>2. CASE v \notin DOMAIN found
  <2>1. Of(Merged(known, found), v) = Of(known, v) /\ DOMAIN Of(found, v) = {}
    BY <1>2, MergedOf, OfIs
  <2> QED
    BY <2>1
<1> QED
  BY <1>1, <1>2

LEMMA MergedTable ==
    ASSUME NEW known, NEW found, IsTable(known)
    PROVE  IsTable(Merged(known, found))
<1> DEFINE merged == Merged(known, found)
<1>1. ASSUME NEW v \in DOMAIN merged PROVE IsFunction(merged[v])
  <2>1. CASE v \in DOMAIN found
    <3>1. merged[v] = Updated(Of(known, v), found[v])
      BY <2>1, MergedFound
    <3> QED
      BY <3>1, UpdatedFunction, Zenon
  <2>2. CASE v \notin DOMAIN found
    <3>1. v \in DOMAIN known /\ merged[v] = known[v]
      BY <2>2, MergedFunction, MergedKnown
    <3> QED
      BY <3>1 DEF IsTable
  <2> QED
    BY <2>1, <2>2
<1> QED
  BY <1>1, MergedFunction DEF IsTable

LEMMA MergedNothing ==
    ASSUME NEW known, NEW found, IsFunction(known), DOMAIN found = {}
    PROVE  Merged(known, found) = known
<1>1. DOMAIN Merged(known, found) = DOMAIN known /\ IsFunction(Merged(known, found))
  <2>1. DOMAIN Merged(known, found) = DOMAIN known \cup DOMAIN found
    BY MergedFunction, Zenon
  <2> QED
    BY <2>1, MergedFunction
<1>2. \A v \in DOMAIN known : Merged(known, found)[v] = known[v]
  BY MergedKnown
<1> QED
  BY <1>1, <1>2 DEF IsFunction

(* A dict that is not empty stays so.                                      *)
LEMMA FilledGrows ==
    ASSUME NEW known, NEW found, IsTable(known), Filled(Merged(known, found)) = <<>>
    PROVE  Filled(known) = <<>>
<1> DEFINE merged == Merged(known, found)
<1>1. DOMAIN Filled(merged) = {}
  OBVIOUS
<1>2. \A v \in DOMAIN merged : merged[v] = <<>>
  BY <1>1 DEF Filled
<1>3. ASSUME NEW v \in DOMAIN known PROVE known[v] = <<>>
  <2>1. v \in DOMAIN merged /\ Of(merged, v) = merged[v] /\ Of(known, v) = known[v]
    <3>1. DOMAIN merged = DOMAIN known \cup DOMAIN found
      BY MergedFunction, Zenon
    <3> QED
      BY <3>1, OfIs
  <2>2. DOMAIN known[v] \subseteq DOMAIN merged[v]
    <3>1. \A f \in DOMAIN Of(known, v) : f \in DOMAIN Of(merged, v)
      BY MergedFields
    <3> QED
      BY <2>1, <3>1
  <2>3. DOMAIN known[v] = {}
    BY <2>1, <2>2, <1>2
  <2> QED
    BY <2>3, EmptyFunction DEF IsTable
<1>4. DOMAIN Filled(known) = {} /\ IsFunction(Filled(known))
  BY <1>3 DEF Filled, IsFunction
<1> QED
  BY <1>4, EmptyFunction

-----------------------------------------------------------------------------
(* Messages on the wire.                                                   *)

LEMMA SequenceIs ==
    ASSUME NEW S, NEW s \in Seq(S)
    PROVE  IsSequence(s) /\ DOMAIN s = 1..Len(s) /\ Len(s) \in Nat
  BY DEF IsSequence, ToSet

LEMMA SequenceAppend ==
    ASSUME NEW s, IsSequence(s), NEW x
    PROVE  /\ IsSequence(Append(s, x))
           /\ Len(s) \in Nat /\ Len(Append(s, x)) = Len(s) + 1
           /\ DOMAIN s = 1..Len(s) /\ DOMAIN Append(s, x) = 1..(Len(s) + 1)
           /\ \A i \in 1..Len(s) : Append(s, x)[i] = s[i]
           /\ Append(s, x)[Len(s) + 1] = x
<1> DEFINE S == ToSet(s) \cup {x}
<1>1. s \in Seq(S) /\ x \in S
  BY DEF IsSequence
<1> HIDE DEF S
<1>2. /\ Append(s, x) \in Seq(S) /\ Len(Append(s, x)) = Len(s) + 1
      /\ \A i \in 1..Len(s) : Append(s, x)[i] = s[i]
      /\ Append(s, x)[Len(s) + 1] = x
  BY <1>1, AppendProperties
<1> QED
  BY <1>1, <1>2, SequenceIs

LEMMA SequenceTail ==
    ASSUME NEW s, IsSequence(s), s # <<>>
    PROVE  /\ IsSequence(Tail(s)) /\ Len(s) \in Nat \ {0}
           /\ DOMAIN s = 1..Len(s) /\ DOMAIN Tail(s) = 1..(Len(s) - 1)
           /\ Head(s) = s[1] /\ \A i \in 1..(Len(s) - 1) : Tail(s)[i] = s[i + 1]
<1>1. s \in Seq(ToSet(s))
  BY DEF IsSequence
<1>2. Tail(s) \in Seq(ToSet(s)) /\ Len(Tail(s)) = Len(s) - 1 /\ Head(s) = s[1]
      /\ \A i \in 1..Len(Tail(s)) : Tail(s)[i] = s[i + 1]
  BY <1>1, HeadTailProperties
<1>3. Len(s) \in Nat \ {0}
  BY <1>1, EmptySeq
<1> QED
  BY <1>1, <1>2, <1>3, SequenceIs

Carries(w, kind) == \E i \in DOMAIN w : w[i].kind = kind

(* The last telemetry in w tells all that is known.                        *)
NewestTells(w, known) ==
    \A i \in DOMAIN w :
        /\ w[i].kind = "telemetry"
        /\ \A j \in DOMAIN w : w[j].kind = "telemetry" => j <= i
        => w[i].vehicles = Filled(known)

LEMMA NewestAfterStatus ==
    ASSUME NEW w, IsSequence(w), NEW known, NewestTells(w, known), NEW ids
    PROVE  LET w2 == Append(w, StatusMessage(ids)) IN
           /\ IsSequence(w2) /\ NewestTells(w2, known)
           /\ Carries(w2, "telemetry") <=> Carries(w, "telemetry")
<1> DEFINE w2 == Append(w, StatusMessage(ids))
<1>1. StatusMessage(ids).kind = "status"
  BY DEF StatusMessage
<1>2. /\ IsSequence(w2) /\ Len(w) \in Nat
      /\ DOMAIN w = 1..Len(w) /\ DOMAIN w2 = 1..(Len(w) + 1)
      /\ \A i \in 1..Len(w) : w2[i] = w[i]
      /\ w2[Len(w) + 1].kind = "status"
  BY <1>1, SequenceAppend
<1> HIDE DEF w2
<1>3. Carries(w2, "telemetry") <=> Carries(w, "telemetry")
  BY <1>2 DEF Carries
<1>4. NewestTells(w2, known)
  BY <1>2 DEF NewestTells
<1> QED
  BY <1>2, <1>3, <1>4 DEF w2

LEMMA NewestAfterTelemetry ==
    ASSUME NEW w, IsSequence(w), NEW known
    PROVE  LET w2 == Append(w, TelemetryMessage(known)) IN
           IsSequence(w2) /\ NewestTells(w2, known) /\ Carries(w2, "telemetry")
<1> DEFINE w2 == Append(w, TelemetryMessage(known))
<1>1. /\ TelemetryMessage(known).kind = "telemetry"
      /\ TelemetryMessage(known).vehicles = Filled(known)
  BY DEF TelemetryMessage
<1>2. /\ IsSequence(w2) /\ Len(w) \in Nat /\ DOMAIN w2 = 1..(Len(w) + 1)
      /\ w2[Len(w) + 1].kind = "telemetry" /\ w2[Len(w) + 1].vehicles = Filled(known)
  BY <1>1, SequenceAppend
<1> HIDE DEF w2
<1>3. Len(w) + 1 \in DOMAIN w2
  BY <1>2
<1>4. NewestTells(w2, known)
  BY <1>2, <1>3 DEF NewestTells
<1> QED
  BY <1>2, <1>3, <1>4 DEF w2, Carries

LEMMA NewestAfterReceipt ==
    ASSUME NEW w, IsSequence(w), w # <<>>, NEW known, NewestTells(w, known)
    PROVE  /\ IsSequence(Tail(w)) /\ NewestTells(Tail(w), known)
           /\ Head(w).kind = "telemetry" /\ ~Carries(Tail(w), "telemetry")
                => Head(w).vehicles = Filled(known)
           /\ Head(w).kind # "telemetry"
                => (Carries(Tail(w), "telemetry") <=> Carries(w, "telemetry"))
<1> DEFINE t == Tail(w)
<1>1. /\ IsSequence(t) /\ Len(w) \in Nat \ {0}
      /\ DOMAIN w = 1..Len(w) /\ DOMAIN t = 1..(Len(w) - 1)
      /\ Head(w) = w[1] /\ \A i \in 1..(Len(w) - 1) : t[i] = w[i + 1]
  BY SequenceTail
<1> HIDE DEF t
<1>2. \A i \in DOMAIN t : i + 1 \in DOMAIN w /\ w[i + 1] = t[i]
  BY <1>1
<1>3. \A j \in DOMAIN w : j = 1 \/ (j - 1 \in DOMAIN t /\ t[j - 1] = w[j])
  BY <1>1
<1>4. NewestTells(t, known)
  <2> SUFFICES ASSUME NEW i \in DOMAIN t, t[i].kind = "telemetry",
                      \A j \in DOMAIN t : t[j].kind = "telemetry" => j <= i
               PROVE  t[i].vehicles = Filled(known)
    BY DEF NewestTells
  <2>1. i + 1 \in DOMAIN w /\ w[i + 1] = t[i] /\ i \in Nat
    BY <1>1, <1>2
  <2>2. \A j \in DOMAIN w : w[j].kind = "telemetry" => j <= i + 1
    BY <1>1, <1>3, <2>1
  <2> QED
    BY <2>1, <2>2 DEF NewestTells
<1>5. ASSUME Head(w).kind = "telemetry", ~Carries(t, "telemetry")
      PROVE  Head(w).vehicles = Filled(known)
  <2>1. \A j \in DOMAIN w : w[j].kind = "telemetry" => j <= 1
    BY <1>1, <1>3, <1>5 DEF Carries
  <2> QED
    BY <1>1, <1>5, <2>1 DEF NewestTells
<1>6. ASSUME Head(w).kind # "telemetry"
      PROVE  Carries(t, "telemetry") <=> Carries(w, "telemetry")
  BY <1>1, <1>2, <1>3, <1>6 DEF Carries
<1> QED
  BY <1>1, <1>4, <1>5, <1>6 DEF t

-----------------------------------------------------------------------------
(* The page shows the cache.                                               *)

PageInv ==
    /\ IsTable(cache) /\ IsSequence(wire)
    /\ ~streaming => /\ stream = "status"
                     /\ NewestTells(wire, cache)
                     /\ PageShowsCache

LEMMA PageInit == Init => PageInv
<1> SUFFICES ASSUME Init PROVE PageInv
  OBVIOUS
<1>1. IsTable(cache)
  BY DEF Init, IsTable, IsFunction
<1>2. wire \in Seq({StatusMessage({})}) /\ DOMAIN wire = {1} /\ wire[1].kind = "status"
  BY DEF Init, StatusMessage
<1>3. IsSequence(wire)
  BY <1>2, SequenceIs
<1>4. NewestTells(wire, cache)
  BY <1>2 DEF NewestTells
<1>5. shown = <<>> /\ cache = loaded /\ stream = "status"
  BY DEF Init
<1> QED
  BY <1>1, <1>3, <1>4, <1>5 DEF PageInv, PageShowsCache

LEMMA PageStep == PageInv /\ [Next]_vars => PageInv'
<1> SUFFICES ASSUME PageInv, [Next]_vars PROVE PageInv'
  OBVIOUS
<1> USE DEF PageInv
<1>0. \A w : Carries(w, "telemetry") <=> \E i \in DOMAIN w : w[i].kind = "telemetry"
  BY DEF Carries
<1>a. PageShowsCache <=> (~streaming /\ ~Carries(wire, "telemetry") =>
                            shown = Filled(cache) \/ (shown = <<>> /\ cache = loaded))
  BY DEF PageShowsCache, Sent, Carries
<1>b. PageShowsCache' <=> (~streaming' /\ ~Carries(wire', "telemetry") =>
                            shown' = Filled(cache') \/ (shown' = <<>> /\ cache' = loaded'))
  BY DEF PageShowsCache, Sent, Carries, Filled
<1>1. ASSUME NEW payload \in Payload, Event(payload) PROVE PageInv'
  <2> DEFINE read == MonitorTelemetry(payload)
             found == WithScans(read, Scans(payload, positions, read))
             known == Merged(cache, found)
  <2>1. /\ cache' = known /\ wire' = IF found = <<>> THEN wire ELSE Published(known, found)
        /\ UNCHANGED <<streaming, stream, shown, loaded>>
    BY <1>1 DEF Event, pageVars
  <2>2. IsFunction(found)
    BY MergedFunction DEF WithScans
  <2> HIDE DEF found
  <2>3. IsTable(known)
    BY MergedTable
  <2>4. found = <<>> => known = cache
    BY EmptyFunction, MergedNothing, <2>2 DEF IsTable
  <2>5. Filled(known) = <<>> => Filled(cache) = <<>>
    BY FilledGrows
  <2> HIDE DEF known
  <2>6. CASE found = <<>>
    BY <2>1, <2>4, <2>6, <1>a, <1>b
  <2>7. CASE found # <<>> /\ ~streaming /\ Filled(known) # <<>>
    <3>1. wire' = Append(wire, TelemetryMessage(known))
      BY <2>1, <2>7 DEF Published
    <3>2. IsSequence(wire') /\ NewestTells(wire', known) /\ Carries(wire', "telemetry")
      BY <3>1, NewestAfterTelemetry
    <3> QED
      BY <2>1, <2>3, <3>2, <1>b
  <2>8. CASE found # <<>> /\ ~streaming /\ Filled(known) = <<>>
    <3>1. wire' = wire /\ Filled(cache) = Filled(known)
      BY <2>1, <2>5, <2>8 DEF Published
    <3>2. NewestTells(wire', cache')
      BY <2>1, <2>8, <3>1 DEF NewestTells
    <3> QED
      BY <2>1, <2>3, <2>8, <3>1, <3>2, <1>a, <1>b
  <2>9. CASE found # <<>> /\ streaming
    <3>1. wire' = wire
      BY <2>1, <2>9 DEF Published
    <3> QED
      BY <2>1, <2>3, <2>9, <3>1
  <2> QED
    BY <2>6, <2>7, <2>8, <2>9
<1>2. ASSUME NEW v \in DevKit, Press(v) \/ Release(v) \/ Fail(v) PROVE PageInv'
  <2>1. UNCHANGED <<streaming, stream, cache, wire, shown, loaded>>
    BY <1>2 DEF Press, Release, Fail, Set, towerVars
  <2> QED
    BY <2>1, <1>a, <1>b
<1>3. ASSUME UNCHANGED <<streaming, cache, shown, loaded>>,
             ~streaming => stream' = stream,
             NEW ids, wire' = Append(wire, StatusMessage(ids))
      PROVE  PageInv'
  <2>1. IsSequence(wire')
    BY <1>3, SequenceAppend
  <2>2. ~streaming => /\ NewestTells(wire', cache)
                      /\ Carries(wire', "telemetry") <=> Carries(wire, "telemetry")
    BY <1>3, NewestAfterStatus
  <2> QED
    BY <1>3, <2>1, <2>2, <1>a, <1>b
<1>4. ASSUME NEW v \in DevKit, Serve(v) PROVE PageInv'
  BY <1>3, <1>4 DEF Serve
<1>5. CASE PublishStatus
  BY <1>3, <1>5 DEF PublishStatus, towerVars, pageVars
<1>6. CASE StreamStatus
  BY <1>3, <1>6 DEF StreamStatus, pageVars
<1>7. CASE StreamTelemetry
  <2>1. streaming /\ streaming' = streaming /\ cache' = cache
    BY <1>7 DEF StreamTelemetry
  <2>2. wire' = wire \/ wire' = Append(wire, TelemetryMessage(cache))
    BY <1>7 DEF StreamTelemetry
  <2>3. IsSequence(wire')
    BY <2>2, NewestAfterTelemetry
  <2> QED
    BY <2>1, <2>3
<1>8. CASE Receive
  <2>1. /\ wire # <<>> /\ wire' = Tail(wire) /\ UNCHANGED <<streaming, stream, cache, loaded>>
        /\ shown' = IF Head(wire).kind = "telemetry" THEN Head(wire).vehicles ELSE shown
    BY <1>8 DEF Receive, towerVars
  <2>2. IsSequence(wire')
    BY <2>1, SequenceTail
  <2>3. ASSUME ~streaming
        PROVE  /\ NewestTells(wire', cache)
               /\ Head(wire).kind = "telemetry" /\ ~Carries(wire', "telemetry")
                    => Head(wire).vehicles = Filled(cache)
               /\ Head(wire).kind # "telemetry"
                    => (Carries(wire', "telemetry") <=> Carries(wire, "telemetry"))
    BY <2>1, <2>3, NewestAfterReceipt
  <2> QED
    BY <2>1, <2>2, <2>3, <1>a, <1>b
<1>9. CASE Load
  <2>1. /\ wire' = <<StatusMessage(traced)>> /\ shown' = <<>> /\ loaded' = cache
        /\ UNCHANGED <<streaming, stream, cache>>
    BY <1>9 DEF Load, towerVars
  <2>2. wire' \in Seq({StatusMessage(traced)}) /\ DOMAIN wire' = {1} /\ wire'[1].kind = "status"
    BY <2>1 DEF StatusMessage
  <2>3. IsSequence(wire')
    BY <2>2, SequenceIs
  <2>4. NewestTells(wire', cache)
    BY <2>2 DEF NewestTells
  <2> QED
    BY <2>1, <2>3, <2>4, <1>b
<1>10. CASE UNCHANGED vars
  BY <1>10, <1>a, <1>b DEF vars, towerVars, pageVars
<1> QED
  BY <1>1, <1>2, <1>4, <1>5, <1>6, <1>7, <1>8, <1>9, <1>10 DEF Next

(* Without streaming, a page with no telemetry left to receive shows the   *)
(* whole cache, whatever the events, or has been sent none since it was    *)
(* loaded (publish_simulator_telemetry, cached_telemetry_message).         *)
THEOREM PageShows == Spec => []PageShowsCache
<1>1. PageInv => PageShowsCache
  BY DEF PageInv, PageShowsCache
<1> QED
  BY <1>1, PageInit, PageStep, PTL DEF Spec

-----------------------------------------------------------------------------
(* The last and the first of some indexes.                                 *)

LEMMA MinNat ==
    ASSUME NEW T \in SUBSET Nat, T # {}
    PROVE  \E x \in T : \A y \in T : x <= y
<1>1. PICK x \in T : \A y \in T : <<y, x>> \notin OpToRel(<, Nat)
  BY WFMin, NatLessThanWellFounded, Zenon
<1>2. \A y \in T : ~(y < x)
  BY <1>1, Zenon DEF OpToRel
<1> QED
  BY <1>2

LEMMA MinIs ==
    ASSUME NEW n \in Nat, NEW S \in SUBSET (1..n), S # {}
    PROVE  Min(S) \in S /\ \A y \in S : Min(S) <= y
<1>1. S \in SUBSET Nat
  OBVIOUS
<1>2. \E x \in S : \A y \in S : x <= y
  BY <1>1, MinNat
<1> QED
  BY <1>2, Zenon DEF Min

LEMMA MaxIs ==
    ASSUME NEW n \in Nat, NEW S \in SUBSET (1..n), S # {}
    PROVE  Max(S) \in S /\ \A y \in S : Max(S) >= y
<1> DEFINE T == {k \in Nat : n - k \in S}
<1>1. \A y \in S : n - (n - y) = y /\ n - y \in T
  <2> SUFFICES ASSUME NEW y \in S PROVE n - (n - y) = y /\ n - y \in T
    OBVIOUS
  <2>1. n - (n - y) = y /\ n - y \in Nat
    OBVIOUS
  <2> QED
    BY <2>1
<1>2. T \in SUBSET Nat /\ T # {}
  BY <1>1
<1>3. \A x \in T : n - x \in S
  OBVIOUS
<1> HIDE DEF T
<1>4. PICK x \in T : \A y \in T : x <= y
  BY <1>2, MinNat
<1>5. n - x \in S /\ \A y \in S : n - x >= y
  <2>1. x \in Nat /\ n - x \in S
    BY <1>2, <1>3
  <2>2. ASSUME NEW y \in S PROVE n - x >= y
    <3>1. x <= n - y /\ y \in Nat
      BY <1>1, <1>4
    <3> QED
      BY <2>1, <3>1
  <2> QED
    BY <2>1, <2>2
<1> QED
  BY <1>5, Zenon DEF Max

-----------------------------------------------------------------------------
(* What an event tells.                                                    *)

AnyField == Field \cup {"heading_yaw", "lidar_scan"}

LEMMA FieldNames == {"none", "heading_yaw", "lidar_scan"} \cap Field = {} /\ "ips" \in Field
  BY DEF Field, FieldRules

LEMMA MonitorFieldIs ==
    ASSUME NEW words
    PROVE  MonitorField(words) \in Field \cup {"none"}
<1> DEFINE fits == {i \in 1..Len(FieldRules) : FieldRules[i].words \subseteq words}
<1>1. MonitorField(words) = IF fits # {} THEN FieldRules[Min(fits)].field ELSE "none"
  <2>1. Len(FieldRules) = 11
    BY DEF FieldRules
  <2>2. fits # {} => Min(fits) \in 1..11
    BY <2>1, MinIs
  <2>3. MonitorField(words) =
          IF (IF fits # {} THEN Min(fits) ELSE 0) = 0 THEN "none"
          ELSE FieldRules[IF fits # {} THEN Min(fits) ELSE 0].field
    BY DEF MonitorField, SelectInSeq
  <2> HIDE DEF fits
  <2> QED
    BY <2>2, <2>3
<1>2. Len(FieldRules) \in Nat /\ DOMAIN FieldRules = 1..Len(FieldRules)
  BY DEF FieldRules
<1>3. fits # {} => Min(fits) \in DOMAIN FieldRules
  BY <1>2, MinIs
<1> QED
  BY <1>1, <1>3 DEF Field


LEMMA SettingFields ==
    ASSUME NEW e, MonitorField(e.words) # "none"
    PROVE  DOMAIN Setting(e) \subseteq Field \cup {"heading_yaw"}
  BY MonitorFieldIs DEF Setting

LEMMA SettingField ==
    ASSUME NEW e, NEW f \in Field
    PROVE  /\ f \in DOMAIN Setting(e) <=>
                MonitorField(e.words) = f /\ Reading(f, e.value) # NoValue
           /\ f \in DOMAIN Setting(e) => Setting(e)[f] = Reading(f, e.value)
<1> DEFINE field == MonitorField(e.words)
           reading == Reading(field, e.value)
           heading == IF SetsHeading(field, reading) THEN {"heading_yaw"} ELSE {}
<1>1. Setting(e) = [g \in IF reading = NoValue THEN {} ELSE {field} \cup heading |->
                      IF g = field THEN reading ELSE Value("yaw", reading.items)]
  BY DEF Setting
<1>2. f \notin heading
  BY FieldNames
<1> HIDE DEF reading, heading, field
<1>3. /\ f \in DOMAIN Setting(e) <=> field = f /\ reading # NoValue
      /\ f \in DOMAIN Setting(e) => Setting(e)[f] = reading
  BY <1>1, <1>2
<1> QED
  BY <1>3 DEF field, reading

LEMMA ExtractedFields ==
    ASSUME NEW items, NEW v, NEW f
    PROVE  f \in DOMAIN Of(Extracted(items), v) <=>
             \E i \in Telling(items, v) : f \in DOMAIN Setting(items[i])
<1>1. v \in DOMAIN Extracted(items) <=> Telling(items, v) # {}
  BY DEF Extracted, Told, Telling
<1>2. CASE Telling(items, v) = {}
  BY <1>1, <1>2, OfIs
<1>3. CASE Telling(items, v) # {}
  <2>1. v \in Told(items) /\ Of(Extracted(items), v) = Extracted(items)[v]
    BY <1>1, <1>3, OfIs DEF Extracted
  <2> QED
    BY <2>1 DEF Extracted
<1> QED
  BY <1>2, <1>3

LEMMA ExtractedField ==
    ASSUME NEW S, NEW items \in Seq(S), NEW v, NEW f \in DOMAIN Of(Extracted(items), v)
    PROVE  \E i \in Telling(items, v) :
              /\ f \in DOMAIN Setting(items[i])
              /\ Of(Extracted(items), v)[f] = Setting(items[i])[f]
<1> DEFINE setting == {i \in Telling(items, v) : f \in DOMAIN Setting(items[i])}
<1>1. setting # {} /\ v \in Told(items)
  <2>1. PICK i \in Telling(items, v) : f \in DOMAIN Setting(items[i])
    BY ExtractedFields
  <2> QED
    BY <2>1 DEF Told, Telling
<1>2. setting \in SUBSET (1..Len(items)) /\ Len(items) \in Nat
  BY DEF Telling
<1>3. Max(setting) \in setting
  BY <1>1, <1>2, MaxIs
<1>4. Of(Extracted(items), v) = Extracted(items)[v]
  BY <1>1, OfIs DEF Extracted
<1>5. Of(Extracted(items), v)[f] = Setting(items[Max(setting)])[f]
  BY <1>1, <1>3, <1>4 DEF Extracted
<1> QED
  BY <1>3, <1>5

(* The readings are those that the event carries.                          *)
LEMMA PayloadIs ==
    ASSUME NEW payload \in Payload
    PROVE  /\ payload.topic \in Seq(PayloadItem(Vehicle)) /\ Len(payload.topic) <= 1
           /\ payload.items \in Seq(PayloadItem(Vehicle))
  BY TelemetryAssumption

LEMMA TopicIs ==
    ASSUME NEW payload \in Payload, NEW t \in ToSet(payload.topic)
    PROVE  /\ ToSet(payload.topic) = {t} /\ payload.topic[1] = t
           /\ t.vehicle \in Vehicle \cup {0}
<1>1. /\ payload.topic \in Seq(PayloadItem(Vehicle)) /\ Len(payload.topic) \in Nat
      /\ Len(payload.topic) <= 1
  BY PayloadIs
<1>2. DOMAIN payload.topic = {1}
  BY <1>1 DEF ToSet
<1>3. payload.topic[1] \in PayloadItem(Vehicle)
  BY <1>1, <1>2
<1> QED
  BY <1>2, <1>3 DEF ToSet, PayloadItem

TopicTold(payload) == \E t \in ToSet(payload.topic) : TopicTells(t)

LEMMA TopicToldIs ==
    ASSUME NEW payload \in Payload
    PROVE  TopicTold(payload) <=>
             \E w \in Vehicle, g \in Field : TopicReadings(payload, w, g) # {}
<1>1. ASSUME NEW t \in ToSet(payload.topic), TopicTells(t)
      PROVE  \E w \in Vehicle, g \in Field : TopicReadings(payload, w, g) # {}
  <2> DEFINE field == MonitorField(t.words)
  <2>1. t.vehicle \in Vehicle /\ field \in Field
    BY <1>1, TopicIs, MonitorFieldIs DEF TopicTells
  <2>2. t \in Naming(payload.topic, t.vehicle, field)
    BY DEF Naming
  <2>3. TopicReading(field, t.value) \in TopicReadings(payload, t.vehicle, field)
    BY <1>1, <2>2 DEF TopicReadings, TopicTells
  <2> QED
    BY <2>1, <2>3
<1>2. ASSUME NEW w \in Vehicle, NEW g \in Field, TopicReadings(payload, w, g) # {}
      PROVE  TopicTold(payload)
  <2>1. PICK t \in Naming(payload.topic, w, g) : TopicReading(g, t.value) # NoValue
    BY <1>2 DEF TopicReadings
  <2>2. t \in ToSet(payload.topic) /\ t.vehicle = w /\ MonitorField(t.words) = g
    BY <2>1 DEF Naming
  <2>3. w # 0 /\ g # "none"
    BY TelemetryAssumption, FieldNames
  <2> QED
    BY <2>1, <2>2, <2>3 DEF TopicTold, TopicTells
<1> QED
  BY <1>1, <1>2 DEF TopicTold

LEMMA CarriedIs ==
    ASSUME NEW payload \in Payload, NEW v \in Vehicle, NEW f \in Field
    PROVE  Carried[payload][v][f] = IF TopicTold(payload) THEN TopicReadings(payload, v, f)
                                    ELSE ItemReadings(payload, v, f)
  BY TopicToldIs DEF Carried

LEMMA ReadFields ==
    ASSUME NEW payload, NEW v
    PROVE  /\ IsFunction(MonitorTelemetry(payload))
           /\ payload \in Payload =>
                DOMAIN Of(MonitorTelemetry(payload), v) \subseteq Field \cup {"heading_yaw"}
<1> DEFINE read == MonitorTelemetry(payload)
<1>1. IsFunction(read)
  BY DEF MonitorTelemetry, Extracted, IsFunction
<1>2. ASSUME NEW t \in ToSet(payload.topic), TopicTells(t), payload \in Payload
      PROVE  DOMAIN Of(read, v) \subseteq Field
  <2> DEFINE field == MonitorField(t.words)
  <2>1. read = [w \in {t.vehicle} |-> [g \in {field} |-> TopicReading(field, t.value)]]
    BY <1>2, TopicIs DEF MonitorTelemetry
  <2>2. field \in Field
    BY <1>2, MonitorFieldIs DEF TopicTells
  <2>3. DOMAIN Of(read, v) \subseteq {field}
    BY <2>1, OfIs
  <2> QED
    BY <2>2, <2>3
<1>3. ASSUME ~TopicTold(payload)
      PROVE  DOMAIN Of(read, v) \subseteq Field \cup {"heading_yaw"}
  <2>1. read = Extracted(payload.items)
    BY <1>3 DEF TopicTold, MonitorTelemetry
  <2>2. \A i \in Telling(payload.items, v) :
           DOMAIN Setting(payload.items[i]) \subseteq Field \cup {"heading_yaw"}
    BY SettingFields DEF Telling
  <2> QED
    BY <2>1, <2>2, ExtractedFields
<1> QED
  BY <1>1, <1>2, <1>3 DEF TopicTold

(* An event tells a field exactly when it carries a reading of it, and     *)
(* tells one of those it carries.                                          *)
LEMMA ReadCarried ==
    ASSUME NEW payload \in Payload, NEW v \in Vehicle, NEW f \in Field
    PROVE  LET read == MonitorTelemetry(payload) IN
           /\ f \in DOMAIN Of(read, v) <=> Carried[payload][v][f] # {}
           /\ f \in DOMAIN Of(read, v) => Of(read, v)[f] \in Carried[payload][v][f]
<1> DEFINE read == MonitorTelemetry(payload)
           items == payload.items
<1>0. v # 0 /\ f # "none"
  BY TelemetryAssumption, FieldNames
<1>1. ASSUME NEW t \in ToSet(payload.topic), TopicTells(t)
      PROVE  /\ f \in DOMAIN Of(read, v) <=> Carried[payload][v][f] # {}
             /\ f \in DOMAIN Of(read, v) => Of(read, v)[f] \in Carried[payload][v][f]
  <2> DEFINE field == MonitorField(t.words)
             reading == TopicReading(field, t.value)
  <2>1. ToSet(payload.topic) = {t} /\ read = [w \in {t.vehicle} |-> [g \in {field} |-> reading]]
    BY <1>1, TopicIs DEF MonitorTelemetry
  <2>2. Carried[payload][v][f] = TopicReadings(payload, v, f)
    BY <1>1, CarriedIs DEF TopicTold
  <2>3. field # "none" /\ reading # NoValue
    BY <1>1 DEF TopicTells
  <2>4. Naming(payload.topic, v, f) = IF t.vehicle = v /\ field = f THEN {t} ELSE {}
    BY <2>1 DEF Naming
  <2>5. TopicReadings(payload, v, f) = IF t.vehicle = v /\ field = f THEN {reading} ELSE {}
    BY <2>3, <2>4 DEF TopicReadings
  <2> HIDE DEF field, reading, read
  <2>6. CASE t.vehicle = v
    <3>1. Of(read, v) = [g \in {field} |-> reading]
      BY <2>1, <2>6, OfIs
    <3> QED
      BY <2>2, <2>5, <2>6, <3>1
  <2>7. CASE t.vehicle # v
    <3>1. DOMAIN Of(read, v) = {}
      BY <2>1, <2>7, OfIs
    <3> QED
      BY <2>2, <2>5, <2>7, <3>1
  <2> QED
    BY <2>6, <2>7
<1>2. ASSUME ~TopicTold(payload)
      PROVE  /\ f \in DOMAIN Of(read, v) <=> Carried[payload][v][f] # {}
             /\ f \in DOMAIN Of(read, v) => Of(read, v)[f] \in Carried[payload][v][f]
  <2>1. read = Extracted(items) /\ Carried[payload][v][f] = ItemReadings(payload, v, f)
    BY <1>2, CarriedIs DEF TopicTold, MonitorTelemetry
  <2>2. items \in Seq(PayloadItem(Vehicle))
    BY PayloadIs
  <2>3. ASSUME NEW i \in Telling(items, v), f \in DOMAIN Setting(items[i])
        PROVE  Setting(items[i])[f] \in ItemReadings(payload, v, f)
    <3>1. /\ MonitorField(items[i].words) = f /\ Reading(f, items[i].value) # NoValue
          /\ Setting(items[i])[f] = Reading(f, items[i].value)
      BY <2>3, SettingField
    <3>2. items[i] \in Naming(items, v, f)
      BY <3>1 DEF Naming, Telling, ToSet
    <3> QED
      BY <3>1, <3>2 DEF ItemReadings
  <2>4. ASSUME ItemReadings(payload, v, f) # {} PROVE f \in DOMAIN Of(read, v)
    <3>1. PICK e \in Naming(items, v, f) : Reading(f, e.value) # NoValue
      BY <2>4 DEF ItemReadings
    <3>2. PICK i \in DOMAIN items : e = items[i]
      BY <3>1 DEF Naming, ToSet
    <3>3. i \in Telling(items, v)
      BY <1>0, <3>1, <3>2 DEF Telling, Naming
    <3>4. f \in DOMAIN Setting(items[i])
      BY <3>1, <3>2, SettingField DEF Naming
    <3> QED
      BY <2>1, <3>3, <3>4, ExtractedFields
  <2>5. ASSUME f \in DOMAIN Of(read, v) PROVE Of(read, v)[f] \in ItemReadings(payload, v, f)
    <3>1. \E i \in Telling(items, v) :
             f \in DOMAIN Setting(items[i]) /\ Of(read, v)[f] = Setting(items[i])[f]
      BY <2>1, <2>2, <2>5, ExtractedField
    <3> QED
      BY <2>3, <3>1
  <2> QED
    BY <2>1, <2>4, <2>5
<1> QED
  BY <1>1, <1>2 DEF TopicTold


-----------------------------------------------------------------------------
(* What an event does to the cache and to the positions.                   *)

LEMMA WithScansOf ==
    ASSUME NEW read, NEW scans, NEW v, NEW f
    PROVE  LET found == WithScans(read, scans) IN
           /\ f \in DOMAIN Of(read, v) => f \in DOMAIN Of(found, v)
           /\ f \in DOMAIN Of(found, v) => f \in DOMAIN Of(read, v) \/ f = "lidar_scan"
           /\ f \in DOMAIN Of(read, v) /\ f # "lidar_scan" =>
                Of(found, v)[f] = Of(read, v)[f]
<1> DEFINE table == [w \in DOMAIN scans |-> [g \in {"lidar_scan"} |-> scans[w]]]
<1>1. WithScans(read, scans) = Merged(read, table)
  BY DEF WithScans
<1>2. f \in DOMAIN Of(table, v) => f = "lidar_scan"
  <2>1. CASE v \in DOMAIN scans
    BY <2>1, OfIs
  <2>2. CASE v \notin DOMAIN scans
    BY <2>2, OfIs
  <2> QED
    BY <2>1, <2>2
<1> HIDE DEF table
<1>3. f \in DOMAIN Of(Merged(read, table), v)
        <=> f \in DOMAIN Of(read, v) \/ f \in DOMAIN Of(table, v)
  BY MergedFields
<1>4. f \in DOMAIN Of(read, v) /\ f # "lidar_scan" =>
        Of(Merged(read, table), v)[f] = Of(read, v)[f]
  BY <1>2, MergedField
<1> QED
  BY <1>1, <1>2, <1>3, <1>4

(* A field other than the scan is what the event tells, else what it was.  *)
LEMMA EventField ==
    ASSUME NEW payload, Event(payload), NEW v, NEW f, f # "lidar_scan"
    PROVE  LET read == MonitorTelemetry(payload) IN
           /\ f \in DOMAIN Of(cache', v) <=> f \in DOMAIN Of(cache, v) \/ f \in DOMAIN Of(read, v)
           /\ f \in DOMAIN Of(read, v) => Of(cache', v)[f] = Of(read, v)[f]
           /\ f \in DOMAIN Of(cache, v) /\ f \notin DOMAIN Of(read, v) =>
                Of(cache', v)[f] = Of(cache, v)[f]
<1> DEFINE read == MonitorTelemetry(payload)
           found == WithScans(read, Scans(payload, positions, read))
<1>1. cache' = Merged(cache, found)
  BY DEF Event
<1>2. /\ f \in DOMAIN Of(found, v) <=> f \in DOMAIN Of(read, v)
      /\ f \in DOMAIN Of(read, v) => Of(found, v)[f] = Of(read, v)[f]
  BY WithScansOf
<1> HIDE DEF found, read
<1>3. f \in DOMAIN Of(Merged(cache, found), v)
        <=> f \in DOMAIN Of(cache, v) \/ f \in DOMAIN Of(found, v)
  BY MergedFields
<1>4. /\ f \in DOMAIN Of(found, v) => Of(Merged(cache, found), v)[f] = Of(found, v)[f]
      /\ f \in DOMAIN Of(cache, v) /\ f \notin DOMAIN Of(found, v) =>
           Of(Merged(cache, found), v)[f] = Of(cache, v)[f]
  BY MergedField
<1> QED
  BY <1>1, <1>2, <1>3, <1>4 DEF read

LEMMA PlacedIs ==
    ASSUME NEW known, NEW read, NEW v
    PROVE  /\ v \in DOMAIN Placed(known, read) <=> v \in DOMAIN known \/ "ips" \in DOMAIN Of(read, v)
           /\ "ips" \in DOMAIN Of(read, v) => Placed(known, read)[v] = Of(read, v)["ips"]
           /\ v \in DOMAIN known /\ "ips" \notin DOMAIN Of(read, v) =>
                Placed(known, read)[v] = known[v]
<1> DEFINE places == {w \in DOMAIN read : "ips" \in DOMAIN read[w]}
<1>1. Placed(known, read) = [w \in DOMAIN known \cup places |->
                               IF w \in places THEN read[w]["ips"] ELSE known[w]]
  BY DEF Placed, Updated
<1>2. v \in places <=> "ips" \in DOMAIN Of(read, v)
  BY OfIs
<1>3. v \in places => Of(read, v) = read[v]
  BY OfIs
<1> HIDE DEF places
<1> QED
  BY <1>1, <1>2, <1>3

LEMMA OthersKeepCache ==
    ASSUME [Next]_vars
    PROVE  \/ \E payload \in Payload : Event(payload)
           \/ UNCHANGED <<cache, positions, log>>
<1>1. ASSUME NEW v \in DevKit, Press(v) \/ Release(v) \/ Serve(v) \/ Fail(v)
      PROVE  UNCHANGED <<cache, positions, log>>
  BY <1>1 DEF Press, Release, Serve, Fail, Set, towerVars
<1>2. CASE PublishStatus \/ StreamStatus \/ StreamTelemetry \/ Receive \/ Load \/ UNCHANGED vars
  BY <1>2 DEF PublishStatus, StreamStatus, StreamTelemetry, Receive, Load, vars, towerVars
<1> QED
  BY <1>1, <1>2 DEF Next

-----------------------------------------------------------------------------
(* Types.                                                                  *)

CacheType ==
    /\ \A v \in DOMAIN cache : DOMAIN cache[v] \subseteq AnyField
    /\ DOMAIN positions = {v \in DOMAIN cache : "ips" \in DOMAIN cache[v]}
    /\ \A v \in DOMAIN positions : positions[v] = cache[v]["ips"]

LEMMA CacheTypeStep == CacheType /\ [Next]_vars => CacheType'
<1> SUFFICES ASSUME CacheType, [Next]_vars PROVE CacheType'
  OBVIOUS
<1>1. CASE UNCHANGED <<cache, positions, log>>
  BY <1>1 DEF CacheType
<1>2. ASSUME NEW payload \in Payload, Event(payload) PROVE CacheType'
  <2> DEFINE read == MonitorTelemetry(payload)
  <2>1. positions' = Placed(positions, read)
    BY <1>2 DEF Event
  <2>2. \A v : DOMAIN Of(cache, v) \subseteq AnyField
    BY OfIs DEF CacheType
  <2>3. ASSUME NEW v \in DOMAIN cache' PROVE DOMAIN cache'[v] \subseteq AnyField
    <3> SUFFICES ASSUME NEW f \in DOMAIN cache'[v], f # "lidar_scan" PROVE f \in AnyField
      BY DEF AnyField
    <3>1. Of(cache', v) = cache'[v]
      BY OfIs
    <3>2. f \in DOMAIN Of(cache, v) \/ f \in DOMAIN Of(read, v)
      BY <1>2, <3>1, EventField
    <3>3. DOMAIN Of(read, v) \subseteq Field \cup {"heading_yaw"}
      BY ReadFields
    <3> QED
      BY <2>2, <3>2, <3>3 DEF AnyField
  <2>4. ASSUME NEW v
        PROVE  /\ v \in DOMAIN positions' <=> "ips" \in DOMAIN Of(cache', v)
               /\ v \in DOMAIN positions' => positions'[v] = Of(cache', v)["ips"]
    <3>1. /\ v \in DOMAIN positions <=> "ips" \in DOMAIN Of(cache, v)
          /\ v \in DOMAIN positions => positions[v] = Of(cache, v)["ips"]
      BY OfIs DEF CacheType
    <3>2. /\ v \in DOMAIN positions' <=> v \in DOMAIN positions \/ "ips" \in DOMAIN Of(read, v)
          /\ "ips" \in DOMAIN Of(read, v) => positions'[v] = Of(read, v)["ips"]
          /\ v \in DOMAIN positions /\ "ips" \notin DOMAIN Of(read, v) =>
               positions'[v] = positions[v]
      BY <2>1, PlacedIs
    <3>3. /\ "ips" \in DOMAIN Of(cache', v)
               <=> "ips" \in DOMAIN Of(cache, v) \/ "ips" \in DOMAIN Of(read, v)
          /\ "ips" \in DOMAIN Of(read, v) => Of(cache', v)["ips"] = Of(read, v)["ips"]
          /\ "ips" \in DOMAIN Of(cache, v) /\ "ips" \notin DOMAIN Of(read, v) =>
               Of(cache', v)["ips"] = Of(cache, v)["ips"]
      BY <1>2, EventField
    <3> HIDE DEF read
    <3> QED
      BY <3>1, <3>2, <3>3
  <2>5. \A v : "ips" \in DOMAIN Of(cache', v) => v \in DOMAIN cache' /\ Of(cache', v) = cache'[v]
    BY OfIs
  <2>6. \A v \in DOMAIN cache' : Of(cache', v) = cache'[v]
    BY OfIs
  <2> QED
    BY <2>3, <2>4, <2>5, <2>6 DEF CacheType
<1> QED
  BY <1>1, <1>2, OthersKeepCache

TypeInv ==
    /\ CacheType /\ ButtonType
    /\ streaming \in BOOLEAN /\ stream \in {"status", "telemetry"}

LEMMA TypeInit == Init => TypeInv
<1> SUFFICES ASSUME Init PROVE TypeInv
  OBVIOUS
<1>1. cache = <<>> /\ positions = <<>> /\ DOMAIN <<>> = {}
  BY DEF Init
<1>2. CacheType
  BY <1>1 DEF CacheType
<1> QED
  BY <1>2, ButtonTypeInit DEF Init, TypeInv

LEMMA TypeStep == TypeInv /\ [Next]_vars => TypeInv'
<1> SUFFICES ASSUME TypeInv, [Next]_vars PROVE TypeInv'
  OBVIOUS
<1>1. streaming' = streaming /\ stream' \in {stream, "status", "telemetry"}
  <2>1. ASSUME NEW payload \in Payload, Event(payload)
        PROVE  streaming' = streaming /\ stream' = stream
    BY <2>1 DEF Event
  <2>2. ASSUME NEW v \in DevKit, Press(v) \/ Release(v) \/ Serve(v) \/ Fail(v)
        PROVE  streaming' = streaming /\ stream' = stream
    BY <2>2 DEF Press, Release, Serve, Fail, Set, towerVars
  <2>3. CASE PublishStatus \/ Receive \/ Load \/ UNCHANGED vars
    BY <2>3 DEF PublishStatus, Receive, Load, vars, towerVars
  <2>4. CASE StreamStatus \/ StreamTelemetry
    BY <2>4 DEF StreamStatus, StreamTelemetry
  <2> QED
    BY <2>1, <2>2, <2>3, <2>4 DEF Next
<1> QED
  BY <1>1, CacheTypeStep, ButtonTypeStep DEF TypeInv

(* The types, and that the tower's positions, by which it lays out scans,  *)
(* are those of its cache (publish_simulator_telemetry).                   *)
THEOREM TypeCorrect == Spec => []TypeOK
<1>1. TypeInv => TypeOK
  BY DEF TypeInv, TypeOK, CacheType, ButtonType, AnyField
<1> QED
  BY <1>1, TypeInit, TypeStep, PTL DEF Spec

-----------------------------------------------------------------------------
(* The cache holds the last valid reading of every field.                  *)

LogType == log \in Seq([payload : Payload, traced : SUBSET DevKit])

LEMMA LogStep == LogType /\ ButtonType /\ [Next]_vars => LogType'
<1> SUFFICES ASSUME LogType, ButtonType, [Next]_vars PROVE LogType'
  OBVIOUS
<1>1. ASSUME NEW payload \in Payload, Event(payload) PROVE LogType'
  <2>1. log' = Append(log, [payload |-> payload, traced |-> traced])
    BY <1>1 DEF Event
  <2>2. [payload |-> payload, traced |-> traced] \in [payload : Payload, traced : SUBSET DevKit]
    BY DEF ButtonType
  <2> QED
    BY <2>1, <2>2, AppendProperties DEF LogType
<1> QED
  BY <1>1, OthersKeepCache DEF LogType

ReadingInv == ButtonType /\ LogType /\ LatestReading

LEMMA ReadingStep == ReadingInv /\ [Next]_vars => ReadingInv'
<1> SUFFICES ASSUME ReadingInv, [Next]_vars PROVE LatestReading'
  BY LogStep, ButtonTypeStep DEF ReadingInv
<1>1. CASE UNCHANGED <<cache, positions, log>>
  BY <1>1 DEF ReadingInv, LatestReading, Carriers
<1>2. ASSUME NEW payload \in Payload, Event(payload), NEW v \in Vehicle, NEW f \in Field
      PROVE  IF Carriers(v, f)' = {} THEN f \notin DOMAIN Of(cache', v)
             ELSE /\ f \in DOMAIN Of(cache', v)
                  /\ Of(cache', v)[f] \in Carried[log'[Max(Carriers(v, f)')].payload][v][f]
  <2> DEFINE read == MonitorTelemetry(payload)
             n == Len(log)
             old == Carriers(v, f)
             carried == Carried[payload][v][f]
  <2>1. /\ n \in Nat /\ DOMAIN log = 1..n /\ DOMAIN log' = 1..(n + 1)
        /\ \A i \in 1..n : log'[i] = log[i]
        /\ log'[n + 1].payload = payload
    <3>1. /\ log \in Seq([payload : Payload, traced : SUBSET DevKit])
          /\ log' = Append(log, [payload |-> payload, traced |-> traced])
      BY <1>2 DEF Event, ReadingInv, LogType
    <3>2. IsSequence(log)
      BY <3>1, SequenceIs
    <3> QED
      BY <3>1, <3>2, SequenceAppend
  <2>2. old \in SUBSET (1..n)
    BY <2>1 DEF Carriers
  <2>3. Carriers(v, f)' = IF carried = {} THEN old ELSE old \cup {n + 1}
    BY <2>1 DEF Carriers
  <2>4. IF old = {} THEN f \notin DOMAIN Of(cache, v)
        ELSE /\ f \in DOMAIN Of(cache, v)
             /\ Of(cache, v)[f] \in Carried[log[Max(old)].payload][v][f]
    <3>1. f \in DOMAIN Of(cache, v) => Of(cache, v) = cache[v]
      BY OfIs
    <3> QED
      BY <3>1 DEF ReadingInv, LatestReading
  <2>5. f # "lidar_scan"
    BY FieldNames
  <2>6. /\ f \in DOMAIN Of(cache', v) <=> f \in DOMAIN Of(cache, v) \/ f \in DOMAIN Of(read, v)
        /\ f \in DOMAIN Of(read, v) => Of(cache', v)[f] = Of(read, v)[f]
        /\ f \in DOMAIN Of(cache, v) /\ f \notin DOMAIN Of(read, v) =>
             Of(cache', v)[f] = Of(cache, v)[f]
    BY <1>2, <2>5, EventField
  <2>7. /\ f \in DOMAIN Of(read, v) <=> carried # {}
        /\ f \in DOMAIN Of(read, v) => Of(read, v)[f] \in carried
    BY ReadCarried
  <2> HIDE DEF read, old, n
  <2>8. CASE carried = {}
    <3>1. old # {} => Max(old) \in 1..n
      BY <2>1, <2>2, MaxIs
    <3> QED
      BY <2>1, <2>3, <2>4, <2>6, <2>7, <2>8, <3>1
  <2>9. CASE carried # {}
    <3> DEFINE new == old \cup {n + 1}
    <3>1. new \in SUBSET (1..(n + 1)) /\ new # {} /\ n + 1 \in Nat /\ n + 1 \in new
      <4>1. \A x \in old : x \in 1..(n + 1)
        BY <2>1, <2>2
      <4>2. n + 1 \in Nat /\ n + 1 \in 1..(n + 1)
        BY <2>1
      <4> QED
        BY <4>1, <4>2
    <3>2. Max(new) \in new /\ \A y \in new : Max(new) >= y
      <4> DEFINE m == n + 1
      <4>1. m \in Nat /\ new \in SUBSET (1..m) /\ new # {}
        BY <3>1
      <4> HIDE DEF new, m
      <4> QED
        BY <4>1, MaxIs
    <3>3. Max(new) = n + 1
      <4>1. Max(new) \in 1..(n + 1) /\ Max(new) >= n + 1
        <5> HIDE DEF new
        <5> QED
          BY <3>1, <3>2
      <4> QED
        BY <2>1, <4>1
    <3> HIDE DEF new
    <3>4. Carriers(v, f)' = new /\ new # {}
      BY <2>3, <2>9, <3>1 DEF new
    <3>5. Carried[log'[Max(new)].payload][v][f] = carried
      BY <2>1, <3>3
    <3> QED
      BY <2>6, <2>7, <2>9, <3>4, <3>5
  <2> QED
    BY <2>8, <2>9
<1>3. ASSUME NEW payload \in Payload, Event(payload) PROVE LatestReading'
  <2> SUFFICES ASSUME NEW v \in Vehicle, NEW f \in Field
               PROVE  IF Carriers(v, f)' = {} THEN f \notin DOMAIN Of(cache', v)
                      ELSE /\ f \in DOMAIN Of(cache', v)
                           /\ cache'[v][f] \in Carried[log'[Max(Carriers(v, f)')].payload][v][f]
    BY DEF LatestReading, Carriers
  <2>1. f \in DOMAIN Of(cache', v) => Of(cache', v) = cache'[v]
    BY OfIs
  <2> QED
    BY <1>2, <1>3, <2>1
<1> QED
  BY <1>1, <1>3, OthersKeepCache

(* Whatever events come in whatever order, what the tower knows of a       *)
(* vehicle is, field by field, the reading of the last event that carried  *)
(* a valid one (extract_monitor_telemetry, publish_simulator_telemetry).   *)
THEOREM CacheHoldsLatest == Spec => []LatestReading
<1>1. Init => ReadingInv
  <2> SUFFICES ASSUME Init PROVE ReadingInv
    OBVIOUS
  <2>1. log = <<>> /\ DOMAIN log = {} /\ cache = <<>> /\ DOMAIN cache = {}
    BY DEF Init
  <2>2. LatestReading
    BY <2>1, OfIs DEF LatestReading, Carriers
  <2>3. LogType
    BY <2>1 DEF LogType
  <2> QED
    BY <2>2, <2>3, ButtonTypeInit DEF ReadingInv
<1>2. ReadingInv => LatestReading
  BY DEF ReadingInv
<1> QED
  BY <1>1, <1>2, ReadingStep, PTL DEF Spec


-----------------------------------------------------------------------------
(* Scans.                                                                  *)

Given(value) == {<<>>, value.items, NumericOnly(value.items)}

HasArray(payload, v) ==
    \E a \in ToSet(payload.items) : a.vehicle = v /\ IsRangeArrayKey(a.words)

LEMMA RangeValuesIs ==
    ASSUME NEW value
    PROVE  RangeValues(value).form = "ranges" /\ RangeValues(value).items \in Given(value)
  BY DEF RangeValues, Value, Given

LEMMA RangeArraysIs ==
    ASSUME NEW payload \in Payload, NEW T, NEW v
    PROVE  /\ v \in DOMAIN RangeArrays(payload, T) <=> v \in T /\ HasArray(payload, v)
           /\ v \in DOMAIN RangeArrays(payload, T) =>
                \E a \in ToSet(payload.items) :
                   /\ a.vehicle = v /\ IsRangeArrayKey(a.words)
                   /\ RangeArrays(payload, T)[v] = RangeValues(a.value)
<1> DEFINE items == payload.items
           arrays == {i \in DOMAIN items : items[i].vehicle = v /\ IsRangeArrayKey(items[i].words)}
<1>1. arrays \in SUBSET (1..Len(items)) /\ Len(items) \in Nat
  BY PayloadIs
<1>2. arrays # {} <=> HasArray(payload, v)
  BY DEF HasArray, ToSet
<1>3. v \in DOMAIN RangeArrays(payload, T) <=> v \in T /\ arrays # {}
  BY DEF RangeArrays
<1>4. v \in DOMAIN RangeArrays(payload, T) =>
        RangeArrays(payload, T)[v] = RangeValues(items[Max(arrays)].value)
  BY DEF RangeArrays
<1>5. arrays # {} => Max(arrays) \in arrays
  BY <1>1, MaxIs
<1>6. ASSUME NEW i \in arrays
      PROVE  items[i] \in ToSet(items) /\ items[i].vehicle = v /\ IsRangeArrayKey(items[i].words)
  BY DEF ToSet
<1> HIDE DEF arrays, items
<1> QED
  BY <1>2, <1>3, <1>4, <1>5, <1>6 DEF items

LEMMA LidarScansIs ==
    ASSUME NEW payload \in Payload, NEW T, NEW place, NEW v \in DOMAIN LidarScans(payload, T, place)
    PROVE  /\ v \in T
           /\ \E e \in Entries(payload) :
                 /\ e.vehicle = v /\ Scan(e, place).items # <<>>
                 /\ LidarScans(payload, T, place)[v] = Scan(e, place)
<1> DEFINE scans(entries) == {i \in DOMAIN entries : /\ entries[i].vehicle = v
                                                    /\ Scan(entries[i], place).items # <<>>}
<1>1. \E entries \in {payload.topic, payload.items} :
         /\ v \in T /\ scans(entries) # {}
         /\ LidarScans(payload, T, place)[v] = Scan(entries[Max(scans(entries))], place)
  BY DEF LidarScans
<1>2. PICK entries \in {payload.topic, payload.items} :
         /\ v \in T /\ scans(entries) # {}
         /\ LidarScans(payload, T, place)[v] = Scan(entries[Max(scans(entries))], place)
  BY <1>1
<1>3. scans(entries) \in SUBSET (1..Len(entries)) /\ Len(entries) \in Nat
  BY PayloadIs
<1> DEFINE last == Max(scans(entries))
<1>4. last \in scans(entries)
  <2> HIDE DEF scans
  <2> QED
    BY <1>2, <1>3, MaxIs
<1>5. entries[last] \in Entries(payload)
  BY <1>4 DEF Entries, ToSet
<1>6. entries[last].vehicle = v /\ Scan(entries[last], place).items # <<>>
  BY <1>4
<1> QED
  BY <1>2, <1>5, <1>6

LEMMA NumbersAre ==
    ASSUME NEW v, v.form # "packed"
    PROVE  Numbers(v) \in Given(v)
<1>1. CASE v.form = "text"
  BY <1>1 DEF Numbers, Given
<1>2. CASE v.form # "text"
  BY <1>2 DEF Numbers, Given
<1> QED
  BY <1>1, <1>2

LEMMA PointsAre ==
    ASSUME NEW v, NEW origin, NEW ranges \in BOOLEAN
    PROVE  \/ v.form = "points" /\ Points(v, origin, ranges) = Value("points", v.items)
           \/ v.form = "dict" /\ Points(v, origin, ranges) = Value("points", First(v.items, 2).items)
           \/ Points(v, origin, ranges) \in {NoValue, Value("points", Numbers(v))}
           \/ origin # <<>> /\ Points(v, origin, ranges) = Polar(origin, Numbers(v))
<1>1. CASE v.form = "points"
  BY <1>1 DEF Points
<1>2. CASE v.form = "dict"
  BY <1>2 DEF Points
<1>3. CASE v.form \notin {"points", "dict"}
  BY <1>3 DEF Points
<1> QED
  BY <1>1, <1>2, <1>3

LEMMA ScanIs ==
    ASSUME NEW e \in PayloadItem(Vehicle), NEW place, PlainScan(e), Scan(e, place).items # <<>>
    PROVE  /\ IsScanKey(e.words) /\ Scan(e, place).items \in Given(e.value)
           /\ Scan(e, place).form = "polar" =>
                /\ Scan(e, place).origin = Origin(place, e.vehicle)
                /\ Origin(place, e.vehicle) # <<>>
<1> DEFINE value == e.value
           origin == Origin(place, e.vehicle)
           ranges == IsRangeKey(e.words)
           points == Points(value, origin, ranges)
<1>1. IsScanKey(e.words) /\ Scan(e, place) = points
  BY DEF Scan, NoValue
<1>2. value.form # "packed" /\ (value.form = "dict" => Len(value.items) = 2)
  BY DEF PlainScan
<1>3. Numbers(value) \in Given(value) /\ value.items \in Given(value)
      /\ <<>> \in Given(value)
  BY <1>2, NumbersAre DEF Given
<1>4. value.form = "dict" => First(value.items, 2).items \in Given(value)
  <2>1. value.items \in Seq(Int \cup {Junk})
    BY DEF PayloadItem
  <2>2. Len(value.items) = 2 => SubSeq(value.items, 1, 2) = value.items
    BY <2>1
  <2> QED
    BY <1>2, <2>2 DEF First, Value, NoValue, Given
<1>5. ranges \in BOOLEAN
  BY DEF IsRangeKey
<1>6. \/ points \in {Value("points", value.items), NoValue, Value("points", Numbers(value))}
      \/ value.form = "dict" /\ points = Value("points", First(value.items, 2).items)
      \/ origin # <<>> /\ points = Polar(origin, Numbers(value))
  <2> HIDE DEF value, origin, ranges
  <2> QED
    BY <1>2, <1>5, PointsAre
<1> HIDE DEF value, origin, ranges, points
<1>7. points.items \in Given(value)
  BY <1>3, <1>4, <1>6 DEF Value, Polar, NoValue
<1>8. points.form = "polar" => points.origin = origin /\ origin # <<>>
  BY <1>6 DEF Value, Polar, NoValue
<1> QED
  BY <1>1, <1>7, <1>8 DEF value, origin


(* A scan that an event yields is of a traced vehicle, was measured by its *)
(* LiDAR, and lies where the vehicle is; a range array always yields one.  *)
LEMMA ScansAre ==
    ASSUME NEW payload \in Payload, NEW known, NEW read, NEW v
    PROVE  LET scans == Scans(payload, known, read) IN
           /\ v \in traced /\ HasArray(payload, v) => v \in DOMAIN scans
           /\ v \in DOMAIN scans =>
                /\ v \in traced
                /\ \E e \in Entries(payload) :
                     /\ e.vehicle = v /\ "lidar" \in e.words
                     /\ e.words \cap {"rate", "intensity"} = {}
                     /\ scans[v].items \in Given(e.value)
                /\ scans[v].form = "polar" =>
                     /\ scans[v].origin = Origin(Placed(known, read), v)
                     /\ Origin(Placed(known, read), v) # <<>>
<1> DEFINE place == Placed(known, read)
           lidar == LidarScans(payload, traced, place)
           arrays == RangeArrays(payload, traced)
           scans == Scans(payload, known, read)
           Good(scan) ==
             /\ v \in traced
             /\ \E e \in Entries(payload) :
                  /\ e.vehicle = v /\ "lidar" \in e.words
                  /\ e.words \cap {"rate", "intensity"} = {}
                  /\ scan.items \in Given(e.value)
             /\ scan.form = "polar" => scan.origin = Origin(place, v) /\ Origin(place, v) # <<>>
<1>1. scans = Updated(lidar, arrays)
  BY DEF Scans
<1>2. v \in DOMAIN arrays <=> v \in traced /\ HasArray(payload, v)
  BY RangeArraysIs
<1>3. ASSUME v \in DOMAIN arrays PROVE Good(arrays[v])
  <2>1. PICK a \in ToSet(payload.items) :
           a.vehicle = v /\ IsRangeArrayKey(a.words) /\ arrays[v] = RangeValues(a.value)
    BY <1>3, RangeArraysIs
  <2>2. a \in Entries(payload)
    BY DEF Entries
  <2>3. "lidar" \in a.words /\ a.words \cap {"rate", "intensity"} = {}
    BY <2>1, <2>2, LidarAssumption DEF IsRangeArrayKey
  <2>4. arrays[v].items \in Given(a.value) /\ arrays[v].form = "ranges"
    BY <2>1, RangeValuesIs
  <2> HIDE DEF arrays
  <2> QED
    BY <1>2, <1>3, <2>1, <2>2, <2>3, <2>4
<1>4. ASSUME v \in DOMAIN lidar, v \notin DOMAIN arrays PROVE Good(lidar[v])
  <2>1. PICK e \in Entries(payload) :
           v \in traced /\ e.vehicle = v /\ Scan(e, place).items # <<>> /\ lidar[v] = Scan(e, place)
    BY <1>4, LidarScansIs
  <2>2. e \in PayloadItem(Vehicle)
    BY PayloadIs DEF Entries, ToSet
  <2>3. IsScanKey(e.words)
    BY <2>1 DEF Scan, NoValue
  <2>4. PlainScan(e)
    BY <1>2, <1>4, <2>1, <2>3, LidarAssumption DEF HasArray
  <2>5. /\ lidar[v].items \in Given(e.value)
        /\ lidar[v].form = "polar" =>
             lidar[v].origin = Origin(place, v) /\ Origin(place, v) # <<>>
    <3> HIDE DEF lidar, place
    <3> QED
      BY <2>1, <2>2, <2>4, ScanIs
  <2> HIDE DEF lidar, place
  <2> QED
    BY <2>1, <2>3, <2>4, <2>5 DEF IsScanKey, PlainScan
<1> HIDE DEF lidar, arrays, Good
<1>5. /\ v \in DOMAIN scans <=> v \in DOMAIN lidar \/ v \in DOMAIN arrays
      /\ v \in DOMAIN arrays => scans[v] = arrays[v]
      /\ v \in DOMAIN lidar /\ v \notin DOMAIN arrays => scans[v] = lidar[v]
  BY <1>1 DEF Updated
<1>6. v \in DOMAIN scans => Good(scans[v])
  BY <1>3, <1>4, <1>5
<1> HIDE DEF scans
<1> QED
  BY <1>2, <1>5, <1>6 DEF Good, scans

(* Those scans, and no others, get into the cache.                         *)
LEMMA EventScan ==
    ASSUME NEW payload \in Payload, Event(payload), NEW v
    PROVE  LET scans == Scans(payload, positions, MonitorTelemetry(payload)) IN
           /\ v \in DOMAIN scans => /\ "lidar_scan" \in DOMAIN Of(cache', v)
                                    /\ Of(cache', v)["lidar_scan"] = scans[v]
           /\ v \notin DOMAIN scans /\ "lidar_scan" \in DOMAIN Of(cache', v) =>
                /\ "lidar_scan" \in DOMAIN Of(cache, v)
                /\ Of(cache', v)["lidar_scan"] = Of(cache, v)["lidar_scan"]
<1> DEFINE read == MonitorTelemetry(payload)
           scans == Scans(payload, positions, read)
           table == [w \in DOMAIN scans |-> [f \in {"lidar_scan"} |-> scans[w]]]
           found == WithScans(read, scans)
<1>1. cache' = Merged(cache, found) /\ found = Merged(read, table)
  BY DEF Event, WithScans
<1>2. "lidar_scan" \notin DOMAIN Of(read, v)
  BY ReadFields, FieldNames
<1>3. /\ "lidar_scan" \in DOMAIN Of(table, v) <=> v \in DOMAIN scans
      /\ v \in DOMAIN scans => Of(table, v)["lidar_scan"] = scans[v]
  <2> HIDE DEF scans
  <2>1. CASE v \in DOMAIN scans
    BY <2>1, OfIs
  <2>2. CASE v \notin DOMAIN scans
    BY <2>2, OfIs
  <2> QED
    BY <2>1, <2>2
<1> HIDE DEF table, found, scans, read
<1>4. /\ "lidar_scan" \in DOMAIN Of(Merged(read, table), v) <=> v \in DOMAIN scans
      /\ v \in DOMAIN scans => Of(Merged(read, table), v)["lidar_scan"] = scans[v]
  <2>1. "lidar_scan" \in DOMAIN Of(Merged(read, table), v)
          <=> "lidar_scan" \in DOMAIN Of(read, v) \/ "lidar_scan" \in DOMAIN Of(table, v)
    BY MergedFields
  <2>2. "lidar_scan" \in DOMAIN Of(table, v) =>
          Of(Merged(read, table), v)["lidar_scan"] = Of(table, v)["lidar_scan"]
    BY MergedField
  <2> QED
    BY <1>2, <1>3, <2>1, <2>2
<1>5. "lidar_scan" \in DOMAIN Of(Merged(cache, found), v)
        <=> "lidar_scan" \in DOMAIN Of(cache, v) \/ "lidar_scan" \in DOMAIN Of(found, v)
  BY MergedFields
<1>6. /\ "lidar_scan" \in DOMAIN Of(found, v) =>
           Of(Merged(cache, found), v)["lidar_scan"] = Of(found, v)["lidar_scan"]
      /\ "lidar_scan" \in DOMAIN Of(cache, v) /\ "lidar_scan" \notin DOMAIN Of(found, v) =>
           Of(Merged(cache, found), v)["lidar_scan"] = Of(cache, v)["lidar_scan"]
  BY MergedField
<1> QED
  BY <1>1, <1>4, <1>5, <1>6 DEF scans, read


(* The inductive invariant: one event both measured a scan and placed it.  *)
Seen(i, v) == {j \in Carriers(v, "ips") : j <= i}
PlacedAt(i, v) ==
    cache[v]["lidar_scan"].form = "polar" =>
        /\ Seen(i, v) # {}
        /\ \E r \in Carried[log[Max(Seen(i, v))].payload][v]["ips"] :
              r.items = cache[v]["lidar_scan"].origin
ScanInv == \A v \in Vehicle : HasScan(v) => \E i \in DOMAIN log : Measures(i, v) /\ PlacedAt(i, v)

AllInv == TypeInv /\ ReadingInv /\ ScanInv

LEMMA EventLog ==
    ASSUME LogType, ButtonType, NEW payload \in Payload, Event(payload)
    PROVE  /\ Len(log) \in Nat /\ Len(log') = Len(log) + 1
           /\ DOMAIN log = 1..Len(log) /\ DOMAIN log' = 1..(Len(log) + 1)
           /\ \A i \in 1..Len(log) : log'[i] = log[i]
           /\ log'[Len(log) + 1] = [payload |-> payload, traced |-> traced]
<1>1. /\ log \in Seq([payload : Payload, traced : SUBSET DevKit])
      /\ log' = Append(log, [payload |-> payload, traced |-> traced])
  BY DEF Event, LogType
<1>2. IsSequence(log)
  BY <1>1, SequenceIs
<1> QED
  BY <1>1, <1>2, SequenceAppend

LEMMA EventSeen ==
    ASSUME LogType, ButtonType, NEW payload \in Payload, Event(payload), NEW v,
           NEW i \in DOMAIN log
    PROVE  Seen(i, v)' = Seen(i, v) /\ (Seen(i, v) # {} => Max(Seen(i, v)) \in DOMAIN log)
<1>1. /\ Len(log) \in Nat /\ DOMAIN log = 1..Len(log) /\ DOMAIN log' = 1..(Len(log) + 1)
      /\ \A j \in 1..Len(log) : log'[j] = log[j]
  BY EventLog
<1>2. Seen(i, v) \in SUBSET (1..Len(log))
  BY <1>1 DEF Seen, Carriers
<1>3. Seen(i, v)' = Seen(i, v)
  BY <1>1 DEF Seen, Carriers
<1>4. Seen(i, v) # {} => Max(Seen(i, v)) \in Seen(i, v)
  BY <1>1, <1>2, MaxIs
<1> QED
  BY <1>1, <1>2, <1>3, <1>4

(* A new scan: the event measured it, and placed it at the reading of the  *)
(* vehicle's position that the cache now has.                              *)
LEMMA NewScan ==
    ASSUME AllInv, TypeInv', ReadingInv', NEW payload \in Payload, Event(payload),
           NEW v \in Vehicle, v \in DOMAIN Scans(payload, positions, MonitorTelemetry(payload))
    PROVE  \E i \in DOMAIN log' : Measures(i, v)' /\ PlacedAt(i, v)'
<1> DEFINE read == MonitorTelemetry(payload)
           scan == Scans(payload, positions, read)[v]
<1> SUFFICES ASSUME NEW n \in Nat, n = Len(log) + 1
             PROVE  \E i \in DOMAIN log' : Measures(i, v)' /\ PlacedAt(i, v)'
  BY EventLog DEF AllInv, TypeInv, ReadingInv
<1>1. /\ Len(log) \in Nat /\ n \in Nat /\ Len(log') = n /\ DOMAIN log' = 1..n
      /\ n \in DOMAIN log' /\ log'[n] = [payload |-> payload, traced |-> traced]
  BY EventLog DEF AllInv, TypeInv, ReadingInv
<1>2. v \in DOMAIN cache' /\ cache'[v]["lidar_scan"] = scan
  BY EventScan, OfIs
<1>3. /\ v \in traced
      /\ \E e \in Entries(payload) :
           /\ e.vehicle = v /\ "lidar" \in e.words /\ e.words \cap {"rate", "intensity"} = {}
           /\ scan.items \in Given(e.value)
      /\ scan.form = "polar" => /\ scan.origin = Origin(Placed(positions, read), v)
                                /\ Origin(Placed(positions, read), v) # <<>>
  BY ScansAre
<1>4. Placed(positions, read) = positions'
  BY DEF Event
<1> HIDE DEF scan, read
<1>5. Measures(n, v)'
  <2>1. v \in log'[n].traced /\ log'[n].payload = payload
    BY <1>1, <1>3
  <2>2. (n + 1)..Len(log') = {}
    BY <1>1
  <2> QED
    BY <1>2, <1>3, <2>1, <2>2 DEF Measures, Given
<1>6. ASSUME scan.form = "polar"
      PROVE  /\ Seen(n, v)' # {}
             /\ \E r \in Carried[log'[Max(Seen(n, v)')].payload][v]["ips"] : r.items = scan.origin
  <2>1. v \in DOMAIN positions' /\ scan.origin = positions'[v].items
    BY <1>3, <1>4, <1>6 DEF Origin
  <2>2. "ips" \in DOMAIN Of(cache', v) /\ positions'[v] = cache'[v]["ips"]
    BY <2>1, OfIs DEF TypeInv, CacheType
  <2>3. /\ Carriers(v, "ips")' # {}
        /\ cache'[v]["ips"] \in Carried[log'[Max(Carriers(v, "ips")')].payload][v]["ips"]
    BY <2>2, FieldNames DEF ReadingInv, LatestReading
  <2>4. Seen(n, v)' = Carriers(v, "ips")'
    BY <1>1 DEF Seen, Carriers
  <2> QED
    BY <2>1, <2>2, <2>3, <2>4
<1>7. PlacedAt(n, v)'
  BY <1>2, <1>6 DEF PlacedAt
<1> QED
  BY <1>1, <1>5, <1>7

(* A scan that stays: the event that measured it still did.                *)
LEMMA OldScan ==
    ASSUME AllInv, NEW payload \in Payload, Event(payload), NEW v \in Vehicle, HasScan(v)',
           v \notin DOMAIN Scans(payload, positions, MonitorTelemetry(payload))
    PROVE  \E i \in DOMAIN log' : Measures(i, v)' /\ PlacedAt(i, v)'
<1>1. /\ Len(log) \in Nat /\ Len(log') = Len(log) + 1
      /\ DOMAIN log = 1..Len(log) /\ DOMAIN log' = 1..(Len(log) + 1)
      /\ \A i \in 1..Len(log) : log'[i] = log[i]
      /\ log'[Len(log) + 1] = [payload |-> payload, traced |-> traced]
  BY EventLog DEF AllInv, TypeInv, ReadingInv
<1>2. HasScan(v) /\ cache'[v]["lidar_scan"] = cache[v]["lidar_scan"]
  BY EventScan, OfIs DEF HasScan
<1>3. v \in traced => ~HasArray(payload, v)
  BY ScansAre
<1>4. PICK i \in DOMAIN log : Measures(i, v) /\ PlacedAt(i, v)
  BY <1>2 DEF AllInv, ScanInv
<1>5. i \in DOMAIN log' /\ log'[i] = log[i] /\ i \in 1..Len(log)
  BY <1>1
<1>6. Measures(i, v)'
  <2>1. ASSUME NEW j \in (i + 1)..Len(log'), v \in log'[j].traced
        PROVE  \A e \in ToSet(log'[j].payload.items) : ~(e.vehicle = v /\ IsRangeArrayKey(e.words))
    <3>1. CASE j = Len(log) + 1
      BY <1>1, <1>3, <2>1, <3>1 DEF HasArray
    <3>2. CASE j # Len(log) + 1
      <4>1. j \in (i + 1)..Len(log) /\ j \in 1..Len(log)
        BY <1>1, <1>5, <3>2
      <4> QED
        BY <1>1, <1>4, <2>1, <4>1 DEF Measures
    <3> QED
      BY <3>1, <3>2
  <2> QED
    BY <1>2, <1>4, <1>5, <2>1 DEF Measures
<1>7. PlacedAt(i, v)'
  <2>1. Seen(i, v)' = Seen(i, v) /\ (Seen(i, v) # {} => Max(Seen(i, v)) \in DOMAIN log)
    BY EventSeen DEF AllInv, TypeInv, ReadingInv
  <2> QED
    BY <1>1, <1>2, <1>4, <2>1 DEF PlacedAt
<1> QED
  BY <1>5, <1>6, <1>7

LEMMA AllInit == Init => AllInv
<1> SUFFICES ASSUME Init PROVE AllInv
  OBVIOUS
<1>1. log = <<>> /\ DOMAIN log = {} /\ cache = <<>> /\ DOMAIN cache = {}
  BY DEF Init
<1>2. LatestReading /\ ScanInv
  BY <1>1, OfIs DEF LatestReading, Carriers, ScanInv, HasScan
<1>3. LogType
  BY <1>1 DEF LogType
<1> QED
  BY <1>2, <1>3, TypeInit, ButtonTypeInit DEF AllInv, ReadingInv

LEMMA AllStep == AllInv /\ [Next]_vars => AllInv'
<1> SUFFICES ASSUME AllInv, [Next]_vars PROVE AllInv'
  OBVIOUS
<1>1. TypeInv' /\ ReadingInv'
  BY TypeStep, ReadingStep DEF AllInv
<1>2. CASE UNCHANGED <<cache, positions, log>>
  <2>1. ASSUME NEW i, NEW v PROVE Measures(i, v)' = Measures(i, v) /\ PlacedAt(i, v)' = PlacedAt(i, v)
    <3>1. Seen(i, v)' = Seen(i, v)
      BY <1>2 DEF Seen, Carriers
    <3> QED
      BY <1>2, <3>1 DEF Measures, PlacedAt
  <2> QED
    BY <1>1, <1>2, <2>1 DEF AllInv, ScanInv, HasScan
<1>3. ASSUME NEW payload \in Payload, Event(payload) PROVE ScanInv'
  BY <1>1, <1>3, NewScan, OldScan DEF ScanInv
<1> QED
  BY <1>1, <1>2, <1>3, OthersKeepCache DEF AllInv

(* Rates, intensities and packed strings never pass for a scan: whatever   *)
(* the payloads, a scan on display was measured by that vehicle's LiDAR    *)
(* while it was traced, and a frame replaces an older scan                 *)
(* (extract_lidar_range_arrays, extract_lidar_scans).                      *)
THEOREM ScansGenuine == Spec => []ScanGenuine
<1>1. AllInv => ScanGenuine
  BY DEF AllInv, ScanInv, ScanGenuine
<1> QED
  BY <1>1, AllInit, AllStep, PTL DEF Spec

(* Distances are laid around where the vehicle was when they were          *)
(* measured, wherever in the event its position stands (lidar_positions).  *)
THEOREM ScansPlaced == Spec => []ScanPlaced
<1>1. AllInv => ScanPlaced
  BY DEF AllInv, ScanInv, PlacedAt, Seen, ScanPlaced
<1> QED
  BY <1>1, AllInit, AllStep, PTL DEF Spec

=============================================================================
