----------------------- MODULE VehicleRewriting_proofs -----------------------
(***************************************************************************)
(* Theorems about the rewriting of vehicle ids, for payloads of any shape  *)
(* and of any depth.                                                       *)
(*                                                                         *)
(* A recursive function is only known to satisfy its equation once one is  *)
(* shown to exist: the least depth without one would have one.  The same   *)
(* way, a set that holds each payload whose parts it holds holds them all  *)
(* (TreeInduction).                                                        *)
(***************************************************************************)
EXTENDS VehicleRewriting, WellFoundedInduction, SequenceTheorems, TLAPS

-----------------------------------------------------------------------------
(* Induction, for the sets it is used with.                                *)

LEMMA MinNat ==
    ASSUME NEW T \in SUBSET Nat, T # {}
    PROVE  \E x \in T : \A y \in T : x <= y
<1>1. PICK x \in T : \A y \in T : <<y, x>> \notin OpToRel(<, Nat)
  BY WFMin, NatLessThanWellFounded, Zenon
<1>2. \A y \in T : ~(y < x)
  BY <1>1, Zenon DEF OpToRel
<1> QED
  BY <1>2

LEMMA Induction ==
    ASSUME NEW top \in Nat, NEW S, 0 \in S, \A n \in 0..top : n \in S /\ n < top => n + 1 \in S
    PROVE  top \in S
<1> SUFFICES ASSUME top \notin S PROVE FALSE
  OBVIOUS
<1> DEFINE T == {n \in 0..top : n \notin S}
<1>1. T \in SUBSET Nat /\ top \in T
  OBVIOUS
<1>2. PICK x \in T : \A y \in T : x <= y
  BY <1>1, MinNat
<1>3. x \in 0..top /\ x # 0 /\ x \notin S
  OBVIOUS
<1>4. x - 1 \in 0..top /\ x - 1 < top /\ (x - 1) + 1 = x
  BY <1>3
<1>5. x - 1 \in S
  BY <1>2, <1>4
<1> QED
  BY <1>3, <1>4, <1>5

-----------------------------------------------------------------------------
(* The recursive functions exist.                                          *)

LEMMA TreeIs ==
    Tree = [n \in 0..Depth |-> IF n = 0 THEN Texts ELSE Nest(Tree[n - 1])]
<1> DEFINE Is(g, n) == g = [m \in 0..n |-> IF m = 0 THEN Texts ELSE Nest(g[m - 1])]
           S == {n \in Nat : \E g : Is(g, n)}
<1>1. 0 \in S
  <2> DEFINE g == [m \in 0..0 |-> Texts]
  <2>1. Is(g, 0)
    OBVIOUS
  <2> QED
    BY <2>1
<1>2. ASSUME NEW n \in 0..Depth, n \in S PROVE n + 1 \in S
  <2>1. PICK g : Is(g, n)
    BY <1>2
  <2> DEFINE h == [m \in 0..(n + 1) |-> IF m = n + 1 THEN Nest(g[n]) ELSE g[m]]
  <2>2. n \in Nat /\ n + 1 \in Nat
    BY DepthAssumption
  <2>3. ASSUME NEW m \in 0..(n + 1)
        PROVE  h[m] = IF m = 0 THEN Texts ELSE Nest(h[m - 1])
    <3>1. CASE m = n + 1
      BY <2>2, <3>1
    <3>2. CASE m # n + 1
      <4>1. m \in 0..n
        BY <2>2, <3>2
      <4>2. g[m] = IF m = 0 THEN Texts ELSE Nest(g[m - 1])
        BY <2>1, <4>1
      <4>3. m # 0 => m - 1 \in 0..(n + 1) /\ m - 1 # n + 1
        BY <2>2, <4>1
      <4> QED
        BY <3>2, <4>2, <4>3
    <3> QED
      BY <3>1, <3>2
  <2>4. Is(h, n + 1)
    <3> HIDE DEF h
    <3>1. h = [m \in 0..(n + 1) |-> h[m]]
      BY DEF h
    <3> QED
      BY <2>3, <3>1
  <2> QED
    BY <2>2, <2>4
<1>3. Depth \in S
  <2> HIDE DEF S
  <2> QED
    BY <1>1, <1>2, DepthAssumption, Induction
<1>4. PICK g : Is(g, Depth)
  BY <1>3
<1> QED
  BY <1>4 DEF Tree


-----------------------------------------------------------------------------
(* What values are made of.                                                *)

LEMMA TreeAt ==
    /\ Tree[0] = Texts
    /\ \A n \in 0..Depth : n < Depth => Tree[n + 1] = Nest(Tree[n])
<1>1. 0 \in 0..Depth
  BY DepthAssumption
<1>2. ASSUME NEW n \in 0..Depth, n < Depth PROVE Tree[n + 1] = Nest(Tree[n])
  <2>1. n + 1 \in 0..Depth /\ n + 1 # 0 /\ (n + 1) - 1 = n
    BY <1>2, DepthAssumption
  <2> QED
    BY <2>1, TreeIs
<1> QED
  BY <1>1, <1>2, TreeIs

LEMMA NestGrows ==
    ASSUME NEW S, NEW T, S \subseteq T
    PROVE  Nest(S) \subseteq Nest(T)
<1>1. Seq(S) \subseteq Seq(T)
  BY SeqMonotonic
<1>2. Lists(S) \subseteq Lists(T)
  BY <1>1 DEF Lists
<1>3. Dicts(S) \subseteq Dicts(T)
  BY DEF Dicts
<1> QED
  BY <1>2, <1>3 DEF Nest

LEMMA TreeGrows ==
    ASSUME NEW n \in 0..Depth, n < Depth
    PROVE  Tree[n] \subseteq Tree[n + 1]
<1> DEFINE S == {m \in Nat : m < Depth => Tree[m] \subseteq Tree[m + 1]}
<1>1. 0 \in S
  BY TreeAt, DepthAssumption DEF Nest
<1>2. ASSUME NEW m \in 0..Depth, m \in S, m < Depth PROVE m + 1 \in S
  <2>1. m + 1 \in 0..Depth /\ m + 1 \in Nat
    BY <1>2, DepthAssumption
  <2>2. ASSUME m + 1 < Depth PROVE Tree[m + 1] \subseteq Tree[(m + 1) + 1]
    <3>1. Tree[m] \subseteq Tree[m + 1]
      BY <1>2
    <3>2. Tree[m + 1] = Nest(Tree[m]) /\ Tree[(m + 1) + 1] = Nest(Tree[m + 1])
      BY <1>2, <2>1, <2>2, TreeAt
    <3> QED
      BY <3>1, <3>2, NestGrows
  <2> QED
    BY <2>1, <2>2
<1>3. n \in S
  <2>1. n \in Nat /\ 0..n \subseteq 0..Depth /\ \A m \in 0..n : m < n => m < Depth
    BY DepthAssumption
  <2> HIDE DEF S
  <2> QED
    BY <1>1, <1>2, <2>1, Induction
<1> QED
  BY <1>3

LEMMA TreeValue ==
    ASSUME NEW n \in 0..Depth
    PROVE  Tree[n] \subseteq Value
<1> DEFINE S == {m \in Nat : m <= n \/ Tree[n] \subseteq Tree[m] \/ m > Depth}
<1>1. 0 \in S
  BY DepthAssumption
<1>2. ASSUME NEW m \in 0..Depth, m \in S, m < Depth PROVE m + 1 \in S
  <2>1. m \in Nat /\ n \in Nat /\ Depth \in Nat
    BY DepthAssumption
  <2>2. CASE m < n
    BY <2>1, <2>2
  <2>3. CASE m = n
    BY <1>2, <2>1, <2>3, TreeGrows
  <2>4. CASE m > n
    BY <1>2, <2>1, <2>4, TreeGrows
  <2> QED
    BY <2>1, <2>2, <2>3, <2>4
<1>3. Depth \in S
  <2> HIDE DEF S
  <2> QED
    BY <1>1, <1>2, DepthAssumption, Induction
<1>4. Depth <= n => Tree[n] = Tree[Depth]
  BY DepthAssumption
<1> QED
  BY <1>3, <1>4, DepthAssumption DEF Value

(* The values in a container.                                              *)
Parts(v) ==
    CASE v.kind = "text" -> {}
      [] v.kind = "list" -> {v.items[i] : i \in DOMAIN v.items}
      [] v.kind = "dict" -> {i.value : i \in v.items}

LEMMA NestIs ==
    ASSUME NEW S, NEW v \in Nest(S)
    PROVE  \/ v \in Texts /\ v.kind = "text" /\ Parts(v) = {}
           \/ v \in Lists(S) /\ v.kind = "list" /\ v.items \in Seq(S)
                /\ Parts(v) = {v.items[i] : i \in DOMAIN v.items} /\ Parts(v) \subseteq S
           \/ v \in Dicts(S) /\ v.kind = "dict" /\ v.items \in SUBSET [key : Keys, value : S]
                /\ UniqueKeys(v.items)
                /\ Parts(v) = {i.value : i \in v.items} /\ Parts(v) \subseteq S
<1>1. CASE v \in Texts
  BY <1>1 DEF Texts, Parts
<1>2. CASE v \in Lists(S)
  <2>1. v.kind = "list" /\ v.items \in Seq(S)
    BY <1>2 DEF Lists
  <2>2. Parts(v) = {v.items[i] : i \in DOMAIN v.items}
    BY <2>1 DEF Parts
  <2>3. \A i \in DOMAIN v.items : v.items[i] \in S
    BY <2>1
  <2> QED
    BY <1>2, <2>1, <2>2, <2>3
<1>3. CASE v \in Dicts(S)
  <2>1. v.kind = "dict" /\ v.items \in SUBSET [key : Keys, value : S] /\ UniqueKeys(v.items)
    BY <1>3 DEF Dicts
  <2>2. Parts(v) = {i.value : i \in v.items}
    BY <2>1 DEF Parts
  <2> QED
    BY <1>3, <2>1, <2>2
<1> QED
  BY <1>1, <1>2, <1>3 DEF Nest

LEMMA TreeParts ==
    ASSUME NEW n \in 0..Depth, NEW v \in Tree[n]
    PROVE  \/ n = 0 /\ v \in Texts /\ v.kind = "text" /\ Parts(v) = {}
           \/ n # 0 /\ n - 1 \in 0..Depth /\ v \in Nest(Tree[n - 1]) /\ Parts(v) \subseteq Tree[n - 1]
<1>1. CASE n = 0
  BY <1>1, TreeAt DEF Texts, Parts
<1>2. CASE n # 0
  <2>1. n - 1 \in 0..Depth /\ n - 1 < Depth /\ (n - 1) + 1 = n
    BY <1>2, DepthAssumption
  <2>2. Tree[n] = Nest(Tree[n - 1])
    BY <2>1, TreeAt
  <2> QED
    BY <1>2, <2>1, <2>2, NestIs
<1> QED
  BY <1>1, <1>2

LEMMA ValueParts ==
    ASSUME NEW v \in Value
    PROVE  Parts(v) \subseteq Value
<1>1. Depth \in 0..Depth /\ v \in Tree[Depth]
  BY DepthAssumption DEF Value
<1> QED
  BY <1>1, TreeParts, TreeValue


-----------------------------------------------------------------------------
(* The other recursive functions exist: each step uses the values of the   *)
(* parts only.                                                             *)

Agree(v, f, g) == \A p \in Parts(v) : f[p] = g[p]

ContainsStep(v, f) ==
    CASE v.kind = "text" -> v.ids # {}
      [] v.kind = "list" -> \E i \in DOMAIN v.items : f[v.items[i]]
      [] v.kind = "dict" -> \E i \in v.items : i.key.ids # {} \/ f[i.value]

LEMMA ContainsLocal ==
    ASSUME NEW S, NEW v \in Nest(S), NEW f, NEW g, Agree(v, f, g)
    PROVE  ContainsStep(v, f) = ContainsStep(v, g)
<1>1. CASE v.kind = "text"
  BY <1>1 DEF ContainsStep
<1>2. CASE v.kind = "list"
  <2>1. \A i \in DOMAIN v.items : f[v.items[i]] = g[v.items[i]]
    BY <1>2, NestIs DEF Agree
  <2> QED
    BY <1>2, <2>1 DEF ContainsStep
<1>3. CASE v.kind = "dict"
  <2>1. \A i \in v.items : f[i.value] = g[i.value]
    BY <1>3, NestIs DEF Agree
  <2> QED
    BY <1>3, <2>1 DEF ContainsStep
<1> QED
  BY <1>1, <1>2, <1>3, NestIs

LEMMA ContainsIs ==
    ContainsVehicleId = [v \in Value |-> ContainsStep(v, ContainsVehicleId)]
<1> DEFINE Is(f, n) == f = [v \in Tree[n] |-> ContainsStep(v, f)]
           S == {n \in Nat : \E f : Is(f, n)}
<1>1. 0 \in S
  <2> DEFINE f == [v \in Tree[0] |-> v.ids # {}]
  <2>1. ASSUME NEW v \in Tree[0] PROVE ContainsStep(v, f) = (v.ids # {})
    <3>1. v.kind = "text"
      BY TreeAt DEF Texts
    <3> QED
      BY <3>1 DEF ContainsStep
  <2>2. Is(f, 0)
    BY <2>1
  <2> QED
    BY <2>2
<1>2. ASSUME NEW n \in 0..Depth, n \in S, n < Depth PROVE n + 1 \in S
  <2>1. PICK f : Is(f, n)
    BY <1>2
  <2> DEFINE g == [v \in Tree[n + 1] |-> ContainsStep(v, f)]
  <2>2. ASSUME NEW v \in Tree[n + 1] PROVE ContainsStep(v, f) = ContainsStep(v, g)
    <3>1. v \in Nest(Tree[n])
      BY <1>2, TreeAt
    <3>2. Parts(v) \subseteq Tree[n] /\ Tree[n] \subseteq Tree[n + 1]
      BY <1>2, <3>1, NestIs, TreeGrows
    <3>3. Agree(v, f, g)
      BY <2>1, <3>2 DEF Agree
    <3> HIDE DEF g
    <3> QED
      BY <3>1, <3>3, ContainsLocal
  <2>3. g = [v \in Tree[n + 1] |-> ContainsStep(v, f)]
    OBVIOUS
  <2> HIDE DEF g
  <2>4. Is(g, n + 1)
    BY <2>2, <2>3
  <2>5. n + 1 \in Nat
    OBVIOUS
  <2> QED
    BY <2>4, <2>5
<1>3. Depth \in S
  <2> HIDE DEF S
  <2> QED
    BY <1>1, <1>2, DepthAssumption, Induction
<1>4. PICK f : Is(f, Depth)
  BY <1>3
<1> QED
  BY <1>4 DEF ContainsVehicleId, ContainsStep, Value

LEMMA RewrittenLocal ==
    ASSUME NEW S, NEW v \in Nest(S), NEW f, NEW g, Agree(v, f, g),
           NEW source, NEW target, NEW drop
    PROVE  Rewritten(v, f, source, target, drop) = Rewritten(v, g, source, target, drop)
<1>1. CASE v.kind = "text"
  BY <1>1 DEF Rewritten
<1>2. CASE v.kind = "list"
  <2>1. \A i \in DOMAIN v.items : f[v.items[i]] = g[v.items[i]]
    BY <1>2, NestIs DEF Agree
  <2>2. [i \in DOMAIN v.items |-> f[v.items[i]]] = [i \in DOMAIN v.items |-> g[v.items[i]]]
    BY <2>1
  <2>3. Remaining([i \in DOMAIN v.items |-> f[v.items[i]]])
        = Remaining([i \in DOMAIN v.items |-> g[v.items[i]]])
    BY <2>2, Zenon
  <2>4. RewrittenList(v, f, drop) = RewrittenList(v, g, drop)
    BY <2>3, Zenon DEF RewrittenList
  <2> QED
    BY <1>2, <2>4 DEF Rewritten
<1>3. CASE v.kind = "dict"
  <2>1. \A i \in v.items : f[i.value] = g[i.value]
    BY <1>3, NestIs DEF Agree
  <2>2. \A i \in v.items : Omitted(i, f, source, drop) <=> Omitted(i, g, source, drop)
    BY <2>1 DEF Omitted
  <2>3. {Item(RewriteText(i.key, source, target), f[i.value]) :
           i \in {j \in v.items : ~ Omitted(j, f, source, drop)}}
        = {Item(RewriteText(i.key, source, target), g[i.value]) :
             i \in {j \in v.items : ~ Omitted(j, g, source, drop)}}
    BY <2>1, <2>2
  <2>4. RewrittenItems(v.items, f, source, target, drop)
        = RewrittenItems(v.items, g, source, target, drop)
    BY <2>3 DEF RewrittenItems
  <2>5. RewrittenDict(v, f, source, target, drop) = RewrittenDict(v, g, source, target, drop)
    BY <2>4 DEF RewrittenDict
  <2> QED
    BY <1>3, <2>5 DEF Rewritten
<1> QED
  BY <1>1, <1>2, <1>3, NestIs

(* The equation by which _rewrite_json_value is defined holds of it.       *)
LEMMA RewriteIs ==
    ASSUME NEW source, NEW target, NEW drop
    PROVE  Rewrite(source, target, drop) =
             [v \in Value |-> Rewritten(v, Rewrite(source, target, drop), source, target, drop)]
<1> DEFINE Step(v, f) == Rewritten(v, f, source, target, drop)
           Is(f, n) == f = [v \in Tree[n] |-> Step(v, f)]
           S == {n \in Nat : \E f : Is(f, n)}
<1>1. 0 \in S
  <2> DEFINE f == [v \in Tree[0] |-> RewrittenText(v, source, target, drop)]
  <2>1. ASSUME NEW v \in Tree[0] PROVE Step(v, f) = RewrittenText(v, source, target, drop)
    <3>1. v.kind = "text"
      BY TreeAt DEF Texts
    <3> QED
      BY <3>1 DEF Rewritten
  <2> HIDE DEF Step
  <2>2. Is(f, 0)
    BY <2>1
  <2> QED
    BY <2>2
<1>2. ASSUME NEW n \in 0..Depth, n \in S, n < Depth PROVE n + 1 \in S
  <2>1. PICK f : Is(f, n)
    BY <1>2
  <2> DEFINE g == [v \in Tree[n + 1] |-> Step(v, f)]
  <2>2. ASSUME NEW v \in Tree[n + 1] PROVE Step(v, f) = Step(v, g)
    <3>1. v \in Nest(Tree[n])
      BY <1>2, TreeAt
    <3>2. Parts(v) \subseteq Tree[n] /\ Tree[n] \subseteq Tree[n + 1]
      BY <1>2, <3>1, NestIs, TreeGrows
    <3>3. Agree(v, f, g)
      <4> HIDE DEF Step
      <4> QED
        BY <2>1, <3>2 DEF Agree
    <3> HIDE DEF g
    <3> QED
      BY <3>1, <3>3, RewrittenLocal
  <2> HIDE DEF Step
  <2>3. g = [v \in Tree[n + 1] |-> Step(v, f)]
    OBVIOUS
  <2> HIDE DEF g
  <2>4. Is(g, n + 1)
    BY <2>2, <2>3
  <2>5. n + 1 \in Nat
    OBVIOUS
  <2> QED
    BY <2>4, <2>5
<1>3. Depth \in S
  <2> HIDE DEF S
  <2> QED
    BY <1>1, <1>2, DepthAssumption, Induction
<1>4. PICK f : Is(f, Depth)
  BY <1>3
<1> QED
  BY <1>4 DEF Rewrite, Value


LeavesStep(v, f) ==
    CASE v.kind = "text" -> {[path |-> <<>>, leaf |-> v, texts |-> {v}]}
      [] v.kind = "list" -> UNION {f[v.items[i]] : i \in DOMAIN v.items}
      [] v.kind = "dict" ->
           UNION {{[path |-> <<item.key>> \o l.path, leaf |-> l.leaf,
                    texts |-> l.texts \cup {item.key} \cup Pointed(v.items)] :
                     l \in f[item.value]} : item \in v.items}

LEMMA LeavesLocal ==
    ASSUME NEW S, NEW v \in Nest(S), NEW f, NEW g, Agree(v, f, g)
    PROVE  LeavesStep(v, f) = LeavesStep(v, g)
<1>1. CASE v.kind = "text"
  BY <1>1 DEF LeavesStep
<1>2. CASE v.kind = "list"
  <2>1. \A i \in DOMAIN v.items : f[v.items[i]] = g[v.items[i]]
    BY <1>2, NestIs DEF Agree
  <2>2. {f[v.items[i]] : i \in DOMAIN v.items} = {g[v.items[i]] : i \in DOMAIN v.items}
    BY <2>1
  <2> QED
    BY <1>2, <2>2 DEF LeavesStep
<1>3. CASE v.kind = "dict"
  <2> DEFINE Below(h, item) == {[path |-> <<item.key>> \o l.path, leaf |-> l.leaf,
                                 texts |-> l.texts \cup {item.key} \cup Pointed(v.items)] :
                                  l \in h[item.value]}
  <2>1. \A item \in v.items : f[item.value] = g[item.value]
    BY <1>3, NestIs DEF Agree
  <2>2. \A item \in v.items : Below(f, item) = Below(g, item)
    BY <2>1
  <2>3. LeavesStep(v, f) = UNION {Below(f, item) : item \in v.items}
        /\ LeavesStep(v, g) = UNION {Below(g, item) : item \in v.items}
    BY <1>3 DEF LeavesStep
  <2> HIDE DEF Below
  <2> QED
    BY <2>2, <2>3
<1> QED
  BY <1>1, <1>2, <1>3, NestIs

LEMMA LeavesIs ==
    Leaves = [v \in Value |-> LeavesStep(v, Leaves)]
<1> DEFINE Is(f, n) == f = [v \in Tree[n] |-> LeavesStep(v, f)]
           S == {n \in Nat : \E f : Is(f, n)}
<1>1. 0 \in S
  <2> DEFINE f == [v \in Tree[0] |-> {[path |-> <<>>, leaf |-> v, texts |-> {v}]}]
  <2>1. ASSUME NEW v \in Tree[0]
        PROVE  LeavesStep(v, f) = {[path |-> <<>>, leaf |-> v, texts |-> {v}]}
    <3>1. v.kind = "text"
      BY TreeAt DEF Texts
    <3> QED
      BY <3>1 DEF LeavesStep
  <2>2. Is(f, 0)
    BY <2>1
  <2> QED
    BY <2>2
<1>2. ASSUME NEW n \in 0..Depth, n \in S, n < Depth PROVE n + 1 \in S
  <2>1. PICK f : Is(f, n)
    BY <1>2
  <2> DEFINE g == [v \in Tree[n + 1] |-> LeavesStep(v, f)]
  <2>2. ASSUME NEW v \in Tree[n + 1] PROVE LeavesStep(v, f) = LeavesStep(v, g)
    <3>1. v \in Nest(Tree[n])
      BY <1>2, TreeAt
    <3>2. Parts(v) \subseteq Tree[n] /\ Tree[n] \subseteq Tree[n + 1]
      BY <1>2, <3>1, NestIs, TreeGrows
    <3>3. Agree(v, f, g)
      BY <2>1, <3>2 DEF Agree
    <3> HIDE DEF g
    <3> QED
      BY <3>1, <3>3, LeavesLocal
  <2>3. g = [v \in Tree[n + 1] |-> LeavesStep(v, f)]
    OBVIOUS
  <2> HIDE DEF g
  <2>4. Is(g, n + 1)
    BY <2>2, <2>3
  <2>5. n + 1 \in Nat
    OBVIOUS
  <2> QED
    BY <2>4, <2>5
<1>3. Depth \in S
  <2> HIDE DEF S
  <2> QED
    BY <1>1, <1>2, DepthAssumption, Induction
<1>4. PICK f : Is(f, Depth)
  BY <1>3
<1> QED
  BY <1>4 DEF Leaves, LeavesStep, Value

(* What is left of a list: its items that are not dropped, in order.       *)
LEMMA RemainingIs ==
    ASSUME NEW X, NEW s \in Seq(X)
    PROVE  /\ Remaining(s) \in Seq(X)
           /\ {Remaining(s)[i] : i \in DOMAIN Remaining(s)}
                = {s[i] : i \in DOMAIN s} \ {DropValue}
           /\ (\A i \in DOMAIN s : s[i] # DropValue) => Remaining(s) = s
<1> DEFINE Is(f, n) == f = [i \in 0..n |-> IF i = 0 THEN <<>>
                                           ELSE IF s[i] # DropValue THEN Append(f[i - 1], s[i])
                                           ELSE f[i - 1]]
           S == {n \in Nat : \E f : Is(f, n)}
<1>0. Len(s) \in Nat /\ DOMAIN s = 1..Len(s)
  OBVIOUS
<1>1. \E f : Is(f, Len(s))
  <2>1. 0 \in S
    <3> DEFINE f == [i \in 0..0 |-> <<>>]
    <3>1. Is(f, 0)
      OBVIOUS
    <3> QED
      BY <3>1
  <2>2. ASSUME NEW n \in 0..Len(s), n \in S, n < Len(s) PROVE n + 1 \in S
    <3>1. PICK f : Is(f, n)
      BY <2>2
    <3> DEFINE g == [i \in 0..(n + 1) |->
                       IF i = n + 1 THEN IF s[i] # DropValue THEN Append(f[n], s[i]) ELSE f[n]
                       ELSE f[i]]
    <3>2. n \in Nat /\ n + 1 \in Nat
      BY <1>0
    <3>3. ASSUME NEW i \in 0..(n + 1)
          PROVE  g[i] = IF i = 0 THEN <<>>
                        ELSE IF s[i] # DropValue THEN Append(g[i - 1], s[i]) ELSE g[i - 1]
      <4>1. CASE i = n + 1
        BY <3>2, <4>1
      <4>2. CASE i # n + 1
        <5>1. i \in 0..n /\ (i # 0 => i - 1 \in 0..(n + 1) /\ i - 1 # n + 1)
          BY <3>2, <4>2
        <5>2. f[i] = IF i = 0 THEN <<>>
                     ELSE IF s[i] # DropValue THEN Append(f[i - 1], s[i]) ELSE f[i - 1]
          BY <3>1, <5>1
        <5> QED
          BY <4>2, <5>1, <5>2
      <4> QED
        BY <4>1, <4>2
    <3>4. g = [i \in 0..(n + 1) |-> g[i]]
      OBVIOUS
    <3> HIDE DEF g
    <3>5. Is(g, n + 1)
      BY <3>3, <3>4
    <3> QED
      BY <3>2, <3>5
  <2> HIDE DEF S
  <2>3. Len(s) \in S
    BY <1>0, <2>1, <2>2, Induction
  <2> QED
    BY <2>3 DEF S
<1> DEFINE f == CHOOSE g : Is(g, Len(s))
<1>2. Is(f, Len(s))
  BY <1>1
<1>3. Remaining(s) = f[Len(s)]
  BY DEF Remaining
<1> HIDE DEF f
<1> DEFINE Good(n) == /\ f[n] \in Seq(X)
                      /\ {f[n][i] : i \in 1..Len(f[n])} = {s[i] : i \in 1..n} \ {DropValue}
                      /\ (\A i \in 1..n : s[i] # DropValue) =>
                           Len(f[n]) = n /\ \A i \in 1..n : f[n][i] = s[i]
           T == {n \in Nat : Good(n)}
<1>4. 0 \in T
  <2>1. f[0] = <<>>
    BY <1>0, <1>2
  <2>2. Len(<<>>) = 0 /\ <<>> \in Seq(X) /\ 1..0 = {}
    OBVIOUS
  <2> QED
    BY <2>1, <2>2
<1>5. ASSUME NEW n \in 0..Len(s), n \in T, n < Len(s) PROVE n + 1 \in T
  <2>1. n \in Nat /\ n + 1 \in Nat /\ n + 1 \in 0..Len(s) /\ (n + 1) - 1 = n /\ n + 1 # 0
    BY <1>0, <1>5
  <2>2. f[n + 1] = IF s[n + 1] # DropValue THEN Append(f[n], s[n + 1]) ELSE f[n]
    BY <1>2, <2>1
  <2>3. s[n + 1] \in X /\ f[n] \in Seq(X) /\ Len(f[n]) \in Nat
    BY <1>0, <1>5, <2>1
  <2>4. 1..(n + 1) = (1..n) \cup {n + 1}
    BY <2>1
  <2>5. Good(n)
    BY <1>5
  <2>6. CASE s[n + 1] # DropValue
    <3>1. /\ f[n + 1] \in Seq(X) /\ Len(f[n + 1]) = Len(f[n]) + 1
          /\ \A i \in 1..Len(f[n]) : f[n + 1][i] = f[n][i]
          /\ f[n + 1][Len(f[n]) + 1] = s[n + 1]
      BY <2>2, <2>3, <2>6, AppendProperties
    <3>2. 1..Len(f[n + 1]) = 1..Len(f[n]) \cup {Len(f[n]) + 1}
      BY <2>3, <3>1
    <3>3. {f[n + 1][i] : i \in 1..Len(f[n + 1])}
          = {f[n][i] : i \in 1..Len(f[n])} \cup {s[n + 1]}
      <4>1. {f[n + 1][i] : i \in 1..Len(f[n + 1])}
            = {f[n + 1][i] : i \in 1..Len(f[n])} \cup {f[n + 1][Len(f[n]) + 1]}
        BY <3>2
      <4>2. {f[n + 1][i] : i \in 1..Len(f[n])} = {f[n][i] : i \in 1..Len(f[n])}
        BY <3>1
      <4> QED
        BY <3>1, <4>1, <4>2
    <3>4. {s[i] : i \in 1..(n + 1)} \ {DropValue}
          = ({s[i] : i \in 1..n} \ {DropValue}) \cup {s[n + 1]}
      BY <2>4, <2>6
    <3>5. ASSUME \A i \in 1..(n + 1) : s[i] # DropValue
          PROVE  Len(f[n + 1]) = n + 1 /\ \A i \in 1..(n + 1) : f[n + 1][i] = s[i]
      <4>1. Len(f[n]) = n /\ \A i \in 1..n : f[n][i] = s[i]
        BY <2>4, <2>5, <3>5
      <4> QED
        BY <2>4, <3>1, <4>1
    <3> QED
      BY <2>1, <2>5, <3>1, <3>3, <3>4, <3>5
  <2>7. CASE s[n + 1] = DropValue
    <3>1. f[n + 1] = f[n]
      BY <2>2, <2>7
    <3>2. {s[i] : i \in 1..(n + 1)} \ {DropValue} = {s[i] : i \in 1..n} \ {DropValue}
      BY <2>4, <2>7
    <3>3. ~ \A i \in 1..(n + 1) : s[i] # DropValue
      BY <2>4, <2>7
    <3>4. Good(n + 1)
      <4>1. {f[n + 1][i] : i \in 1..Len(f[n + 1])} = {f[n][i] : i \in 1..Len(f[n])}
        BY <3>1
      <4>2. {f[n + 1][i] : i \in 1..Len(f[n + 1])} = {s[i] : i \in 1..(n + 1)} \ {DropValue}
        BY <2>5, <3>2, <4>1
      <4> QED
        BY <2>5, <3>1, <3>3, <4>2
    <3> HIDE DEF Good
    <3> QED
      BY <2>1, <3>4
  <2> QED
    BY <2>6, <2>7
<1>6. Len(s) \in T
  <2> HIDE DEF T
  <2> QED
    BY <1>0, <1>4, <1>5, Induction
<1>7. Good(Len(s))
  BY <1>6
<1>8. DOMAIN Remaining(s) = 1..Len(Remaining(s))
  BY <1>3, <1>7
<1>9. ASSUME \A i \in DOMAIN s : s[i] # DropValue PROVE Remaining(s) = s
  <2>1. Len(Remaining(s)) = Len(s) /\ \A i \in 1..Len(s) : Remaining(s)[i] = s[i]
    BY <1>0, <1>3, <1>7, <1>9
  <2> QED
    BY <1>3, <1>7, <2>1, SeqEqual
<1> QED
  BY <1>0, <1>3, <1>7, <1>8, <1>9


-----------------------------------------------------------------------------
(* The cases of the rewriting, and the type of its result.                 *)

LEMMA TreeInduction ==
    ASSUME NEW S, \A v \in Value : Parts(v) \subseteq S => v \in S
    PROVE  Value \subseteq S
<1> DEFINE T == {n \in Nat : n <= Depth => Tree[n] \subseteq S}
<1>1. 0 \in T
  <2>1. 0 \in 0..Depth
    BY DepthAssumption
  <2>2. \A v \in Tree[0] : v \in Value /\ Parts(v) = {}
    BY <2>1, TreeParts, TreeValue
  <2> QED
    BY <2>2
<1>2. ASSUME NEW n \in 0..Depth, n \in T, n < Depth PROVE n + 1 \in T
  <2>1. n + 1 \in 0..Depth /\ n + 1 # 0 /\ (n + 1) - 1 = n /\ n + 1 \in Nat /\ n <= Depth
    BY <1>2, DepthAssumption
  <2>2. \A v \in Tree[n + 1] : v \in Value /\ Parts(v) \subseteq Tree[n]
    BY <2>1, TreeParts, TreeValue
  <2> QED
    BY <1>2, <2>1, <2>2
<1>3. Depth \in T
  <2> HIDE DEF T
  <2> QED
    BY <1>1, <1>2, DepthAssumption, Induction
<1> QED
  BY <1>3, DepthAssumption DEF Value

LEMMA ValueIs ==
    ASSUME NEW v \in Value
    PROVE  /\ Parts(v) \subseteq Value
           /\ \/ v \in Texts /\ v.kind = "text" /\ Parts(v) = {}
              \/ v.kind = "list" /\ v.items \in Seq(Value)
                   /\ Parts(v) = {v.items[i] : i \in DOMAIN v.items}
              \/ v.kind = "dict" /\ v.items \in SUBSET [key : Keys, value : Value]
                   /\ UniqueKeys(v.items) /\ Parts(v) = {i.value : i \in v.items}
<1>1. Depth \in 0..Depth /\ v \in Tree[Depth]
  BY DepthAssumption DEF Value
<1>2. Parts(v) \subseteq Value
  BY ValueParts
<1>3. CASE Depth = 0
  BY <1>1, <1>2, <1>3, TreeParts
<1>4. CASE Depth # 0
  <2>1. Depth - 1 \in 0..Depth /\ v \in Nest(Tree[Depth - 1]) /\ Tree[Depth - 1] \subseteq Value
    BY <1>1, <1>4, TreeParts, TreeValue
  <2>2. v \in Nest(Value)
    BY <2>1, NestGrows
  <2> QED
    BY <1>2, <2>2, NestIs
<1> QED
  BY <1>3, <1>4

LEMMA ContainsAt ==
    ASSUME NEW v \in Value
    PROVE  /\ v.kind = "text" => ContainsVehicleId[v] = (v.ids # {})
           /\ v.kind = "list" =>
                ContainsVehicleId[v] = \E i \in DOMAIN v.items : ContainsVehicleId[v.items[i]]
           /\ v.kind = "dict" =>
                ContainsVehicleId[v] =
                  \E i \in v.items : i.key.ids # {} \/ ContainsVehicleId[i.value]
<1>1. ContainsVehicleId[v] = ContainsStep(v, ContainsVehicleId)
  BY ContainsIs
<1>2. v.kind = "text" => ContainsStep(v, ContainsVehicleId) = (v.ids # {})
  BY DEF ContainsStep
<1>3. v.kind = "list" => ContainsStep(v, ContainsVehicleId)
                         = \E i \in DOMAIN v.items : ContainsVehicleId[v.items[i]]
  BY DEF ContainsStep
<1>4. v.kind = "dict" => ContainsStep(v, ContainsVehicleId)
                         = \E i \in v.items : i.key.ids # {} \/ ContainsVehicleId[i.value]
  BY DEF ContainsStep
<1> QED
  BY <1>1, <1>2, <1>3, <1>4

LEMMA RewriteAt ==
    ASSUME NEW source, NEW target, NEW drop, NEW v \in Value
    PROVE  LET R == Rewrite(source, target, drop) IN
           /\ v.kind = "text" => R[v] = RewrittenText(v, source, target, drop)
           /\ v.kind = "list" => R[v] = RewrittenList(v, R, drop)
           /\ v.kind = "dict" => R[v] = RewrittenDict(v, R, source, target, drop)
<1> DEFINE R == Rewrite(source, target, drop)
<1>1. R[v] = Rewritten(v, R, source, target, drop)
  BY RewriteIs
<1> HIDE DEF R
<1>2. v.kind = "text" => R[v] = RewrittenText(v, source, target, drop)
  BY <1>1 DEF Rewritten
<1>3. v.kind = "list" => R[v] = RewrittenList(v, R, drop)
  BY <1>1 DEF Rewritten
<1>4. v.kind = "dict" => R[v] = RewrittenDict(v, R, source, target, drop)
  BY <1>1 DEF Rewritten
<1> QED
  BY <1>2, <1>3, <1>4 DEF R

LEMMA RewriteTextIs ==
    ASSUME NEW text \in Texts, NEW source \in Nat, NEW target \in Nat
    PROVE  /\ RewriteText(text, source, target) \in Texts
           /\ text \in Keys => RewriteText(text, source, target) \in Keys
           /\ RewriteText(text, source, target).words = text.words
           /\ RewriteText(text, source, target).at = text.at
           /\ RewriteText(text, source, target).kind = "text"
           /\ RewriteText(text, source, target).ids =
                {IF id = source THEN target ELSE id : id \in text.ids}
  BY DEF RewriteText, Texts, Keys

LEMMA TextsEqual ==
    ASSUME NEW a \in Texts, NEW b \in Texts, a.words = b.words, a.at = b.at, a.ids = b.ids
    PROVE  a = b
  BY DEF Texts

LEMMA AssignedIs ==
    ASSUME NEW items
    PROVE  /\ Assigned(items) \subseteq items /\ UniqueKeys(Assigned(items))
           /\ items # {} => Assigned(items) # {}
           /\ UniqueKeys(items) => Assigned(items) = items
<1> DEFINE one(k) == CHOOSE i \in items : i.key = k
<1>1. \A k \in {i.key : i \in items} : one(k) \in items /\ one(k).key = k
  OBVIOUS
<1>2. Assigned(items) = {one(k) : k \in {i.key : i \in items}}
  BY DEF Assigned
<1> HIDE DEF one
<1>3. Assigned(items) \subseteq items /\ (items # {} => Assigned(items) # {})
  BY <1>1, <1>2
<1>4. UniqueKeys(Assigned(items))
  BY <1>1, <1>2 DEF UniqueKeys
<1>5. ASSUME UniqueKeys(items) PROVE items \subseteq Assigned(items)
  <2> SUFFICES ASSUME NEW i \in items PROVE i = one(i.key)
    BY <1>2
  <2> QED
    BY <1>1, <1>5 DEF UniqueKeys
<1> QED
  BY <1>3, <1>4, <1>5

(* The items of a dict that stay, renamed.                                 *)
Renamed(items, inner, source, target, drop) ==
    {Item(RewriteText(i.key, source, target), inner[i.value]) :
       i \in {j \in items : ~ Omitted(j, inner, source, drop)}}

LEMMA RewriteTyped ==
    ASSUME NEW source \in Nat, NEW target \in Nat, NEW drop \in BOOLEAN,
           NEW n \in 0..Depth, NEW v \in Tree[n]
    PROVE  LET w == Rewrite(source, target, drop)[v] IN
           w = DropValue \/ (w \in Tree[n] /\ w.kind = v.kind)
<1> DEFINE R == Rewrite(source, target, drop)
           Good(u, m) == R[u] = DropValue \/ (R[u] \in Tree[m] /\ R[u].kind = u.kind)
           S == {u \in Value : \A m \in 0..Depth : u \in Tree[m] => Good(u, m)}
<1>1. ASSUME NEW u \in Value, Parts(u) \subseteq S, NEW m \in 0..Depth, u \in Tree[m]
      PROVE  Good(u, m)
  <2>1. CASE u \in Texts /\ u.kind = "text"
    <3>1. R[u] = RewrittenText(u, source, target, drop)
      BY <2>1, RewriteAt
    <3>2. R[u] = DropValue \/ R[u] = RewriteText(u, source, target)
      BY <3>1 DEF RewrittenText
    <3>3. RewriteText(u, source, target) \in Tree[m] /\ RewriteText(u, source, target).kind = "text"
      <4>1. RewriteText(u, source, target) \in Texts
        BY <2>1, RewriteTextIs
      <4>2. Tree[m] = Texts \/ \E T : Tree[m] = Nest(T)
        BY TreeIs
      <4> QED
        BY <4>1, <4>2 DEF Nest, Texts
    <3>4. u.kind = "text"
      BY <2>1
    <3> HIDE DEF R
    <3> QED
      BY <3>2, <3>3, <3>4
  <2> DEFINE T == Tree[m - 1]
  <2>2. ASSUME m # 0
        PROVE  /\ u \in Nest(T) /\ Parts(u) \subseteq T /\ Tree[m] = Nest(T)
               /\ \A p \in Parts(u) : R[p] = DropValue \/ R[p] \in T
    <3>1. m - 1 \in 0..Depth /\ u \in Nest(T) /\ Parts(u) \subseteq T
      BY <1>1, <2>2, TreeParts
    <3>2. Tree[m] = Nest(T)
      BY <2>2, TreeIs
    <3>3. \A p \in Parts(u) : p \in S /\ p \in T
      BY <1>1, <3>1
    <3> QED
      BY <3>1, <3>2, <3>3
  <2>3. CASE m # 0 /\ u \in Lists(T) /\ u.kind = "list" /\ u.items \in Seq(T)
             /\ Parts(u) = {u.items[i] : i \in DOMAIN u.items}
    <3> DEFINE items == [i \in DOMAIN u.items |-> R[u.items[i]]]
    <3>1. R[u] = RewrittenList(u, R, drop)
      BY <1>1, <2>3, RewriteAt
    <3>2. R[u] = DropValue \/ R[u] = List(Remaining(items))
      BY <3>1 DEF RewrittenList
    <3>3. items \in Seq(T \cup {DropValue})
      <4>1. \A i \in DOMAIN u.items : R[u.items[i]] \in T \cup {DropValue}
        BY <2>2, <2>3
      <4>2. DOMAIN u.items = 1..Len(u.items) /\ Len(u.items) \in Nat
        BY <2>3
      <4> HIDE DEF R
      <4> QED
        BY <4>1, <4>2, IsASeq
    <3>4. /\ Remaining(items) \in Seq(T \cup {DropValue})
          /\ {Remaining(items)[i] : i \in DOMAIN Remaining(items)}
               = {items[i] : i \in DOMAIN items} \ {DropValue}
      <4> HIDE DEF items
      <4> QED
        BY <3>3, RemainingIs
    <3> DEFINE rest == Remaining(items)
    <3> HIDE DEF rest
    <3>5. rest \in Seq(T)
      <4>1. rest \in Seq(T \cup {DropValue})
            /\ \A i \in DOMAIN rest : rest[i] # DropValue
        BY <3>4 DEF rest
      <4> HIDE DEF T
      <4>2. \A i \in 1..Len(rest) : rest[i] \in T
        BY <4>1
      <4>3. Len(rest) \in Nat /\ rest = [i \in 1..Len(rest) |-> rest[i]]
        BY <4>1
      <4> QED
        BY <4>2, <4>3, IsASeq
    <3>6. List(rest) \in Tree[m] /\ List(rest).kind = "list"
      <4>1. List(rest) \in Lists(T) /\ List(rest).kind = "list"
        BY <3>5 DEF Lists, List
      <4> HIDE DEF T
      <4> QED
        BY <2>2, <2>3, <4>1 DEF Nest
    <3> QED
      BY <2>3, <3>2, <3>6 DEF rest
  <2>4. CASE m # 0 /\ u \in Dicts(T) /\ u.kind = "dict" /\ u.items \in SUBSET [key : Keys, value : T]
             /\ Parts(u) = {i.value : i \in u.items}
    <3> DEFINE renamed == Renamed(u.items, R, source, target, drop)
               items == Assigned(renamed)
    <3>1. R[u] = RewrittenDict(u, R, source, target, drop)
      BY <1>1, <2>4, RewriteAt
    <3>2. R[u] = DropValue \/ R[u] = Dict(items)
      BY <3>1 DEF RewrittenDict, RewrittenItems, Renamed
    <3>3. ASSUME NEW i \in u.items, ~ Omitted(i, R, source, drop)
          PROVE  Item(RewriteText(i.key, source, target), R[i.value]) \in [key : Keys, value : T]
      <4>1. i.key \in Keys /\ i.key \in Texts /\ R[i.value] # DropValue
        BY <2>4, <3>3 DEF Omitted, Keys
      <4>2. R[i.value] \in T
        BY <2>2, <2>4, <4>1
      <4>3. RewriteText(i.key, source, target) \in Keys
        BY <4>1, RewriteTextIs
      <4> QED
        BY <4>2, <4>3 DEF Item
    <3>4. renamed \in SUBSET [key : Keys, value : T]
      BY <3>3 DEF Renamed
    <3>5. items \in SUBSET [key : Keys, value : T] /\ UniqueKeys(items)
      <4> HIDE DEF renamed
      <4> QED
        BY <3>4, AssignedIs
    <3> HIDE DEF items
    <3>6. Dict(items) \in Tree[m] /\ Dict(items).kind = "dict"
      <4>1. Dict(items) \in Dicts(T) /\ Dict(items).kind = "dict"
        BY <3>5 DEF Dicts, Dict
      <4> HIDE DEF T
      <4> QED
        BY <2>2, <2>4, <4>1 DEF Nest
    <3> QED
      BY <2>4, <3>2, <3>6
  <2>5. CASE m = 0
    BY <1>1, <2>1, <2>5, TreeParts
  <2>6. CASE m # 0
    BY <2>1, <2>2, <2>3, <2>4, <2>6, NestIs
  <2> QED
    BY <2>5, <2>6
<1>2. \A u \in Value : Parts(u) \subseteq S => u \in S
  <2> HIDE DEF Good
  <2> QED
    BY <1>1
<1>3. Value \subseteq S
  <2> HIDE DEF S
  <2> QED
    BY <1>2, TreeInduction
<1>4. v \in Value
  BY TreeValue
<1> QED
  BY <1>3, <1>4


-----------------------------------------------------------------------------
(* What a DevKit gets and sends back.                                      *)

LEMMA KindIs ==
    ASSUME NEW source \in Nat, NEW target \in Nat, NEW drop \in BOOLEAN, NEW v \in Value
    PROVE  LET w == Rewrite(source, target, drop)[v] IN
           w = DropValue \/ (w \in Value /\ w.kind = v.kind)
<1>1. Depth \in 0..Depth /\ v \in Tree[Depth] /\ Tree[Depth] = Value
  BY DepthAssumption DEF Value
<1>2. LET w == Rewrite(source, target, drop)[v] IN
      w = DropValue \/ (w \in Tree[Depth] /\ w.kind = v.kind)
  BY <1>1, RewriteTyped
<1> QED
  BY <1>1, <1>2

LEMMA NotDropped ==
    \A v \in Value : v # DropValue /\ v.kind # "drop"
<1> SUFFICES ASSUME NEW v \in Value PROVE v # DropValue /\ v.kind # "drop"
  OBVIOUS
<1>1. v.kind \in {"text", "list", "dict"}
  BY ValueIs
<1> QED
  BY <1>1 DEF DropValue

(* Without drop nothing is left out.                                       *)
LEMMA Undropped ==
    ASSUME NEW source \in Nat, NEW target \in Nat, NEW v \in Value
    PROVE  /\ Rewrite(source, target, FALSE)[v] \in Value
           /\ Rewrite(source, target, FALSE)[v].kind = v.kind
<1> DEFINE R == Rewrite(source, target, FALSE)
<1>1. R[v] # DropValue
  <2>1. ASSUME v.kind = "text" PROVE R[v].kind = "text"
    <3>1. v \in Texts
      BY <2>1, ValueIs
    <3>2. R[v] = RewrittenText(v, source, target, FALSE)
      BY <2>1, RewriteAt
    <3>3. R[v] = RewriteText(v, source, target)
      BY <3>2 DEF RewrittenText
    <3> HIDE DEF R
    <3> QED
      BY <3>1, <3>3, RewriteTextIs
  <2>2. v.kind = "list" => R[v].kind = "list"
    <3>1. v.kind = "list" => R[v] = RewrittenList(v, R, FALSE)
      BY RewriteAt
    <3> HIDE DEF R
    <3> QED
      BY <3>1 DEF RewrittenList, Emptied, List
  <2>3. v.kind = "dict" => R[v].kind = "dict"
    <3>1. v.kind = "dict" => R[v] = RewrittenDict(v, R, source, target, FALSE)
      BY RewriteAt
    <3> HIDE DEF R
    <3> QED
      BY <3>1 DEF RewrittenDict, Emptied, Dict
  <2> HIDE DEF R
  <2> QED
    BY <2>1, <2>2, <2>3, ValueIs DEF DropValue
<1> QED
  BY <1>1, KindIs

(* A text that is the DevKit's own or nobody's comes back as it was.       *)
LEMMA TextTwice ==
    ASSUME NEW text \in Texts, NEW d \in Nat, NEW e \in Nat, ~ Foreign(text, d)
    PROVE  LET there == RewriteText(text, d, e)
               back == RewriteText(there, e, d)
           IN  /\ there \in Texts /\ back \in Texts
               /\ ~ Foreign(back, d) /\ RewriteText(back, d, e) = there
               /\ back.kind = "text" /\ back.words = text.words
               /\ (back.ids = {} <=> text.ids = {})
<1> DEFINE there == RewriteText(text, d, e)
           back == RewriteText(there, e, d)
           again == RewriteText(back, d, e)
<1>1. /\ there \in Texts /\ there.words = text.words /\ there.at = text.at
      /\ there.ids = {IF id = d THEN e ELSE id : id \in text.ids}
  BY RewriteTextIs
<1>2. /\ back \in Texts /\ back.words = text.words /\ back.at = text.at /\ back.kind = "text"
      /\ back.ids = {IF id = e THEN d ELSE id : id \in there.ids}
  BY <1>1, RewriteTextIs
<1>3. /\ again \in Texts /\ again.words = text.words /\ again.at = text.at
      /\ again.ids = {IF id = d THEN e ELSE id : id \in back.ids}
  BY <1>2, RewriteTextIs
<1> HIDE DEF there, back, again
<1>4. again.ids = there.ids
  <2>1. \A id \in text.ids :
          LET a == IF id = d THEN e ELSE id
              b == IF a = e THEN d ELSE a
          IN  (IF b = d THEN e ELSE b) = a
    OBVIOUS
  <2> QED
    BY <1>1, <1>2, <1>3, <2>1
<1>5. again = there
  BY <1>1, <1>3, <1>4, TextsEqual
<1>6. ~ Foreign(back, d) /\ (back.ids = {} <=> text.ids = {})
  <2>1. text.ids = {} \/ d \in text.ids
    BY DEF Foreign
  <2>2. text.ids = {} => there.ids = {} /\ back.ids = {}
    BY <1>1, <1>2
  <2>3. d \in text.ids => d \in back.ids
    BY <1>1, <1>2
  <2> QED
    BY <2>1, <2>2, <2>3 DEF Foreign
<1> QED
  BY <1>1, <1>2, <1>5, <1>6 DEF there, back, again

(* The keys of what a DevKit gets: renaming them keeps them apart.         *)
LEMMA KeysApart ==
    ASSUME NEW a \in Keys, NEW b \in Keys, NEW d \in Nat, NEW e \in Nat,
           ~ Foreign(a, d), ~ Foreign(b, d), RewriteText(a, d, e) = RewriteText(b, d, e)
    PROVE  a = b
<1>1. a \in Texts /\ b \in Texts
  BY DEF Keys
<1>2. /\ RewriteText(a, d, e).words = a.words /\ RewriteText(a, d, e).at = a.at
      /\ RewriteText(a, d, e).ids = {IF id = d THEN e ELSE id : id \in a.ids}
  BY <1>1, RewriteTextIs
<1>3. /\ RewriteText(b, d, e).words = b.words /\ RewriteText(b, d, e).at = b.at
      /\ RewriteText(b, d, e).ids = {IF id = d THEN e ELSE id : id \in b.ids}
  BY <1>1, RewriteTextIs
<1>4. (a.ids = {} \/ a.ids = {d}) /\ (b.ids = {} \/ b.ids = {d})
  BY DEF Foreign, Keys
<1>5. a.ids = b.ids
  BY <1>2, <1>3, <1>4
<1> QED
  BY <1>1, <1>2, <1>3, <1>5, TextsEqual


(* What a list is rewritten to: rest are the rewritten values that stay.   *)
ListBecomes(v, R, drop, rest) ==
    /\ R[v] = IF drop /\ rest = <<>> /\ ContainsVehicleId[v] THEN DropValue ELSE List(rest)
    /\ \A i \in DOMAIN rest : \E p \in Parts(v) : rest[i] = R[p] /\ R[p] # DropValue
    /\ \A p \in Parts(v) : R[p] # DropValue => \E i \in DOMAIN rest : rest[i] = R[p]
    /\ (\A p \in Parts(v) : R[p] # DropValue) =>
         /\ DOMAIN rest = DOMAIN v.items
         /\ \A i \in DOMAIN rest : rest[i] = R[v.items[i]]

LEMMA ListRewritten ==
    ASSUME NEW source \in Nat, NEW target \in Nat, NEW drop \in BOOLEAN,
           NEW R, R = Rewrite(source, target, drop), NEW v \in Value, v.kind = "list"
    PROVE  \E rest \in Seq(Value) : ListBecomes(v, R, drop, rest)
<1> DEFINE items == [i \in DOMAIN v.items |-> R[v.items[i]]]
           rest == Remaining(items)
<1>1. v.items \in Seq(Value) /\ Parts(v) = {v.items[i] : i \in DOMAIN v.items}
  BY ValueIs
<1>2. R[v] = RewrittenList(v, R, drop)
  BY RewriteAt
<1>3. \A p \in Value : R[p] \in Value \cup {DropValue}
  BY KindIs
<1>4. items \in Seq(Value \cup {DropValue})
  <2>1. \A i \in DOMAIN v.items : R[v.items[i]] \in Value \cup {DropValue}
    BY <1>1, <1>3
  <2>2. DOMAIN v.items = 1..Len(v.items) /\ Len(v.items) \in Nat
    BY <1>1
  <2> QED
    BY <2>1, <2>2, IsASeq
<1>5. {items[i] : i \in DOMAIN items} = {R[p] : p \in Parts(v)}
  <2>1. DOMAIN items = DOMAIN v.items /\ \A i \in DOMAIN items : items[i] = R[v.items[i]]
    OBVIOUS
  <2>2. /\ \A i \in DOMAIN v.items : v.items[i] \in Parts(v)
        /\ \A p \in Parts(v) : \E i \in DOMAIN v.items : p = v.items[i]
    BY <1>1
  <2> HIDE DEF items
  <2> QED
    BY <2>1, <2>2
<1>6. R[v] = IF Emptied(v, {rest[i] : i \in DOMAIN rest}, drop) THEN DropValue ELSE List(rest)
  BY <1>2 DEF RewrittenList
<1> HIDE DEF items
<1>7. /\ rest \in Seq(Value \cup {DropValue})
      /\ {rest[i] : i \in DOMAIN rest} = {items[i] : i \in DOMAIN items} \ {DropValue}
      /\ (\A i \in DOMAIN items : items[i] # DropValue) => rest = items
  BY <1>4, RemainingIs
<1> HIDE DEF rest
<1>8. {rest[i] : i \in DOMAIN rest} = {R[p] : p \in Parts(v)} \ {DropValue}
  BY <1>5, <1>7
<1>9. \A i \in DOMAIN rest : \E p \in Parts(v) : rest[i] = R[p] /\ R[p] # DropValue
  <2> SUFFICES ASSUME NEW i \in DOMAIN rest
               PROVE  \E p \in Parts(v) : rest[i] = R[p] /\ R[p] # DropValue
    OBVIOUS
  <2>1. rest[i] \in {R[p] : p \in Parts(v)} \ {DropValue}
    BY <1>8
  <2> QED
    BY <2>1
<1>10. \A p \in Parts(v) : R[p] # DropValue => \E i \in DOMAIN rest : rest[i] = R[p]
  <2> SUFFICES ASSUME NEW p \in Parts(v), R[p] # DropValue
               PROVE  \E i \in DOMAIN rest : rest[i] = R[p]
    OBVIOUS
  <2>1. R[p] \in {rest[i] : i \in DOMAIN rest}
    BY <1>8
  <2> QED
    BY <2>1
<1>11. rest \in Seq(Value)
  <2>1. \A i \in DOMAIN rest : rest[i] \in Value
    BY <1>1, <1>3, <1>9, ValueParts
  <2>2. DOMAIN rest = 1..Len(rest) /\ Len(rest) \in Nat /\ rest = [i \in 1..Len(rest) |-> rest[i]]
    BY <1>7
  <2> QED
    BY <2>1, <2>2, IsASeq
<1>12. ASSUME \A p \in Parts(v) : R[p] # DropValue
       PROVE  /\ DOMAIN rest = DOMAIN v.items
              /\ \A i \in DOMAIN rest : rest[i] = R[v.items[i]]
  <2>1. \A i \in DOMAIN items : items[i] # DropValue
    BY <1>1, <1>12 DEF items
  <2>2. rest = items
    BY <1>7, <2>1
  <2> QED
    BY <2>2 DEF items
<1>13. {rest[i] : i \in DOMAIN rest} = {} <=> rest = <<>>
  <2>1. rest = <<>> <=> Len(rest) = 0
    BY <1>11, EmptySeq
  <2>2. Len(rest) \in Nat /\ DOMAIN rest = 1..Len(rest)
    BY <1>11
  <2>3. Len(rest) = 0 <=> DOMAIN rest = {}
    <3>1. Len(rest) = 0 => 1..Len(rest) = {}
      OBVIOUS
    <3>2. Len(rest) # 0 => 1 \in 1..Len(rest)
      BY <2>2
    <3> QED
      BY <2>2, <3>1, <3>2
  <2> QED
    BY <2>1, <2>3
<1>14. R[v] = IF drop /\ rest = <<>> /\ ContainsVehicleId[v] THEN DropValue ELSE List(rest)
  BY <1>6, <1>13 DEF Emptied
<1> QED
  BY <1>9, <1>10, <1>11, <1>12, <1>14 DEF ListBecomes

(* The rewriting of what goes to a DevKit, and of what comes from it.      *)
Inward(d, e, R) == \E drop \in BOOLEAN : drop = TRUE /\ R = Rewrite(d, e, drop)
Outward(e, d, B) == \E drop \in BOOLEAN : drop = FALSE /\ B = Rewrite(e, d, drop)

LEMMA InwardIs == \A d, e : Inward(d, e, Rewrite(d, e, TRUE))
  BY DEF Inward
LEMMA OutwardIs == \A d, e : Outward(e, d, Rewrite(e, d, FALSE))
  BY DEF Outward

LEMMA InwardAt ==
    ASSUME NEW d \in Nat, NEW e \in Nat, NEW R, Inward(d, e, R), NEW v \in Value
    PROVE  /\ R[v] = DropValue \/ (R[v] \in Value /\ R[v].kind = v.kind)
           /\ v.kind = "text" => R[v] = IF Foreign(v, d) THEN DropValue ELSE RewriteText(v, d, e)
<1>1. PICK drop \in BOOLEAN : drop = TRUE /\ R = Rewrite(d, e, drop)
  BY DEF Inward
<1>2. R[v] = DropValue \/ (R[v] \in Value /\ R[v].kind = v.kind)
  BY <1>1, KindIs
<1>3. v.kind = "text" => R[v] = RewrittenText(v, d, e, drop)
  BY <1>1, RewriteAt
<1> QED
  BY <1>1, <1>2, <1>3 DEF RewrittenText

LEMMA OutwardAt ==
    ASSUME NEW e \in Nat, NEW d \in Nat, NEW B, Outward(e, d, B), NEW v \in Value
    PROVE  /\ B[v] \in Value /\ B[v].kind = v.kind
           /\ v.kind = "text" => B[v] = RewriteText(v, e, d)
<1>1. PICK drop \in BOOLEAN : drop = FALSE /\ B = Rewrite(e, d, drop)
  BY DEF Outward
<1>2. v.kind = "text" => B[v] = RewrittenText(v, e, d, drop)
  BY <1>1, RewriteAt
<1>3. B = Rewrite(e, d, FALSE)
  BY <1>1
<1>4. B[v] \in Value /\ B[v].kind = v.kind
  BY <1>3, Undropped
<1> QED
  BY <1>1, <1>2, <1>4 DEF RewrittenText

InwardListBecomes(v, R, rest) == \E drop \in BOOLEAN : drop = TRUE /\ ListBecomes(v, R, drop, rest)

LEMMA InwardList ==
    ASSUME NEW d \in Nat, NEW e \in Nat, NEW R, Inward(d, e, R), NEW v \in Value, v.kind = "list"
    PROVE  \E rest \in Seq(Value) : InwardListBecomes(v, R, rest)
<1>1. PICK drop \in BOOLEAN : drop = TRUE /\ R = Rewrite(d, e, drop)
  BY DEF Inward
<1>2. PICK rest \in Seq(Value) : ListBecomes(v, R, drop, rest)
  BY <1>1, ListRewritten
<1> QED
  BY <1>1, <1>2 DEF InwardListBecomes

LEMMA OutwardList ==
    ASSUME NEW e \in Nat, NEW d \in Nat, NEW B, Outward(e, d, B), NEW v \in Value, v.kind = "list"
    PROVE  \E back \in Seq(Value) :
             /\ B[v] = List(back) /\ DOMAIN back = DOMAIN v.items
             /\ \A i \in DOMAIN back : back[i] = B[v.items[i]]
<1>1. PICK drop \in BOOLEAN : drop = FALSE /\ B = Rewrite(e, d, drop)
  BY DEF Outward
<1>2. PICK back \in Seq(Value) : ListBecomes(v, B, drop, back)
  BY <1>1, ListRewritten
<1>3. \A p \in Parts(v) : B[p] # DropValue
  BY OutwardAt, ValueParts, NotDropped
<1> QED
  BY <1>1, <1>2, <1>3 DEF ListBecomes

(* What a dict is rewritten to for a DevKit: got is each item that is not  *)
(* left out, renamed.                                                      *)
DictBecomes(v, R, d, e, got) ==
    /\ R[v] = IF PointsToOther(v.items, d) \/ (got = {} /\ ContainsVehicleId[v])
              THEN DropValue ELSE Dict(got)
    /\ \A a \in got : \E i \in v.items : /\ ~ Foreign(i.key, d) /\ R[i.value] # DropValue
                                         /\ a = Item(RewriteText(i.key, d, e), R[i.value])
    /\ \A i \in v.items : ~ Foreign(i.key, d) /\ R[i.value] # DropValue =>
         Item(RewriteText(i.key, d, e), R[i.value]) \in got

(* None of the items is lost to another one, as their keys stay apart.     *)
LEMMA InwardDict ==
    ASSUME NEW d \in Nat, NEW e \in Nat, NEW R, Inward(d, e, R), NEW v \in Value, v.kind = "dict"
    PROVE  \E got \in SUBSET [key : Keys, value : Value] :
             UniqueKeys(got) /\ DictBecomes(v, R, d, e, got)
<1>1. PICK drop \in BOOLEAN : drop = TRUE /\ R = Rewrite(d, e, drop)
  BY DEF Inward
<1>2. v.items \in SUBSET [key : Keys, value : Value] /\ UniqueKeys(v.items)
  BY ValueIs
<1>3. R[v] = RewrittenDict(v, R, d, e, drop)
  BY <1>1, RewriteAt
<1>4. \A i \in v.items : R[i.value] \in Value \cup {DropValue}
  BY <1>2, InwardAt
<1> DEFINE got == Renamed(v.items, R, d, e, drop)
<1>5. \A a \in got : \E i \in v.items : /\ ~ Foreign(i.key, d) /\ R[i.value] # DropValue
                                        /\ a = Item(RewriteText(i.key, d, e), R[i.value])
  BY <1>1 DEF Renamed, Omitted
<1>6. \A i \in v.items : ~ Foreign(i.key, d) /\ R[i.value] # DropValue =>
        Item(RewriteText(i.key, d, e), R[i.value]) \in got
  BY DEF Renamed, Omitted
<1> HIDE DEF got
<1>7. got \in SUBSET [key : Keys, value : Value]
  <2> SUFFICES ASSUME NEW a \in got PROVE a \in [key : Keys, value : Value]
    OBVIOUS
  <2>1. PICK i \in v.items : /\ R[i.value] # DropValue
                             /\ a = Item(RewriteText(i.key, d, e), R[i.value])
    BY <1>5
  <2>2. i.key \in Keys /\ i.key \in Texts /\ R[i.value] \in Value
    BY <1>2, <1>4, <2>1 DEF Keys
  <2>3. RewriteText(i.key, d, e) \in Keys
    BY <2>2, RewriteTextIs
  <2> QED
    BY <2>1, <2>2, <2>3 DEF Item
<1>8. UniqueKeys(got)
  <2> SUFFICES ASSUME NEW a \in got, NEW b \in got, a.key = b.key PROVE a = b
    BY DEF UniqueKeys
  <2>1. PICK i \in v.items : ~ Foreign(i.key, d) /\ a = Item(RewriteText(i.key, d, e), R[i.value])
    BY <1>5
  <2>2. PICK j \in v.items : ~ Foreign(j.key, d) /\ b = Item(RewriteText(j.key, d, e), R[j.value])
    BY <1>5
  <2>3. RewriteText(i.key, d, e) = RewriteText(j.key, d, e)
    BY <2>1, <2>2 DEF Item
  <2>4. i.key \in Keys /\ j.key \in Keys
    BY <1>2
  <2>5. i.key = j.key
    BY <2>1, <2>2, <2>3, <2>4, KeysApart
  <2>6. i = j
    BY <1>2, <2>5 DEF UniqueKeys
  <2> QED
    BY <2>1, <2>2, <2>6
<1>9. Assigned(got) = got
  BY <1>8, AssignedIs
<1>10. RewrittenItems(v.items, R, d, e, drop) = got
  BY <1>9 DEF RewrittenItems, Renamed, got
<1>11. R[v] = IF PointsToOther(v.items, d) \/ (got = {} /\ ContainsVehicleId[v])
              THEN DropValue ELSE Dict(got)
  BY <1>1, <1>3, <1>10 DEF RewrittenDict, Emptied
<1> QED
  BY <1>5, <1>6, <1>7, <1>8, <1>11 DEF DictBecomes

(* What comes from a DevKit, if renaming the keys keeps them apart.        *)
LEMMA OutwardDict ==
    ASSUME NEW e \in Nat, NEW d \in Nat, NEW B, Outward(e, d, B), NEW v \in Value, v.kind = "dict",
           \A i \in v.items : ~ Foreign(i.key, e)
    PROVE  \E back : /\ B[v] = Dict(back)
                     /\ \A b \in back : \E i \in v.items :
                          b = Item(RewriteText(i.key, e, d), B[i.value])
                     /\ \A i \in v.items : Item(RewriteText(i.key, e, d), B[i.value]) \in back
<1>1. PICK drop \in BOOLEAN : drop = FALSE /\ B = Rewrite(e, d, drop)
  BY DEF Outward
<1>2. v.items \in SUBSET [key : Keys, value : Value] /\ UniqueKeys(v.items)
  BY ValueIs
<1>3. B[v] = RewrittenDict(v, B, e, d, drop)
  BY <1>1, RewriteAt
<1>4. \A i \in v.items : B[i.value] # DropValue
  BY <1>2, OutwardAt, NotDropped
<1> DEFINE back == Renamed(v.items, B, e, d, drop)
<1>5. \A b \in back : \E i \in v.items : b = Item(RewriteText(i.key, e, d), B[i.value])
  BY DEF Renamed
<1>6. \A i \in v.items : Item(RewriteText(i.key, e, d), B[i.value]) \in back
  BY <1>1, <1>4 DEF Renamed, Omitted
<1> HIDE DEF back
<1>7. UniqueKeys(back)
  <2> SUFFICES ASSUME NEW a \in back, NEW b \in back, a.key = b.key PROVE a = b
    BY DEF UniqueKeys
  <2>1. PICK i \in v.items : a = Item(RewriteText(i.key, e, d), B[i.value])
    BY <1>5
  <2>2. PICK j \in v.items : b = Item(RewriteText(j.key, e, d), B[j.value])
    BY <1>5
  <2>3. RewriteText(i.key, e, d) = RewriteText(j.key, e, d)
    BY <2>1, <2>2 DEF Item
  <2>4. i.key \in Keys /\ j.key \in Keys /\ ~ Foreign(i.key, e) /\ ~ Foreign(j.key, e)
    BY <1>2
  <2>5. i.key = j.key
    BY <2>3, <2>4, KeysApart
  <2>6. i = j
    BY <1>2, <2>5 DEF UniqueKeys
  <2> QED
    BY <2>1, <2>2, <2>6
<1>8. Assigned(back) = back
  BY <1>7, AssignedIs
<1>9. RewrittenItems(v.items, B, e, d, drop) = back
  BY <1>8 DEF RewrittenItems, Renamed, back
<1>10. B[v] = Dict(back)
  BY <1>1, <1>3, <1>9 DEF RewrittenDict, Emptied
<1> QED
  BY <1>5, <1>6, <1>10

LEMMA TextBack ==
    ASSUME NEW d \in Nat, NEW e \in Nat, NEW R, Inward(d, e, R), NEW B, Outward(e, d, B),
           NEW v \in Value, v.kind = "text", R[v] # DropValue
    PROVE  R[B[R[v]]] = R[v]
<1>1. v \in Texts
  BY ValueIs
<1>2. ~ Foreign(v, d) /\ R[v] = RewriteText(v, d, e)
  BY InwardAt
<1>3. R[v] \in Value /\ R[v].kind = "text"
  BY InwardAt
<1>4. B[R[v]] \in Value /\ B[R[v]].kind = "text" /\ B[R[v]] = RewriteText(R[v], e, d)
  BY <1>3, OutwardAt
<1>5. ~ Foreign(B[R[v]], d) /\ RewriteText(B[R[v]], d, e) = R[v]
  <2>1. LET there == RewriteText(v, d, e)
            back == RewriteText(there, e, d)
        IN  ~ Foreign(back, d) /\ RewriteText(back, d, e) = there
    BY <1>1, <1>2, TextTwice
  <2> QED
    BY <1>2, <1>4, <2>1
<1> QED
  BY <1>4, <1>5, InwardAt

LEMMA ListBack ==
    ASSUME NEW d \in Nat, NEW e \in Nat, NEW R, Inward(d, e, R), NEW B, Outward(e, d, B),
           NEW v \in Value, v.kind = "list", R[v] # DropValue,
           \A p \in Parts(v) : p \in Value /\ (R[p] # DropValue => R[B[R[p]]] = R[p])
    PROVE  R[B[R[v]]] = R[v]
<1>1. PICK rest \in Seq(Value) :
        /\ R[v] = List(rest)
        /\ \A i \in DOMAIN rest : \E p \in Parts(v) : rest[i] = R[p] /\ R[p] # DropValue
  <2>1. PICK rest \in Seq(Value) : InwardListBecomes(v, R, rest)
    BY InwardList
  <2>2. PICK drop \in BOOLEAN : drop = TRUE /\ ListBecomes(v, R, drop, rest)
    BY <2>1 DEF InwardListBecomes
  <2>3. R[v] = List(rest)
    BY <2>2 DEF ListBecomes
  <2>4. \A i \in DOMAIN rest : \E p \in Parts(v) : rest[i] = R[p] /\ R[p] # DropValue
    BY <2>2 DEF ListBecomes
  <2> QED
    BY <2>3, <2>4
<1>2. R[v] \in Value /\ R[v].kind = "list" /\ R[v].items = rest
  BY <1>1, InwardAt DEF List
<1>3. \A i \in DOMAIN rest : R[B[rest[i]]] = rest[i] /\ rest[i] # DropValue
  BY <1>1
<1>4. PICK back \in Seq(Value) : /\ B[R[v]] = List(back) /\ DOMAIN back = DOMAIN rest
                                 /\ \A i \in DOMAIN back : back[i] = B[rest[i]]
  BY <1>2, OutwardList
<1>5. PICK w : w = B[R[v]]
  OBVIOUS
<1>6. w \in Value /\ w.kind = "list" /\ w.items = back
  BY <1>2, <1>4, <1>5, OutwardAt DEF List
<1>7. \A p \in Parts(w) : \E i \in DOMAIN back : p = back[i]
  BY <1>6, ValueIs
<1>8. \A p \in Parts(w) : R[p] # DropValue
  BY <1>3, <1>4, <1>7
<1>9. PICK again \in Seq(Value) :
        /\ R[w] = IF again = <<>> /\ ContainsVehicleId[w] THEN DropValue ELSE List(again)
        /\ DOMAIN again = DOMAIN back
        /\ \A i \in DOMAIN again : again[i] = R[back[i]]
  <2>1. PICK again \in Seq(Value) : InwardListBecomes(w, R, again)
    BY <1>6, InwardList
  <2>2. PICK drop \in BOOLEAN : drop = TRUE /\ ListBecomes(w, R, drop, again)
    BY <2>1 DEF InwardListBecomes
  <2> QED
    BY <1>6, <1>8, <2>2 DEF ListBecomes
<1>10. again = rest
  <2>1. \A i \in DOMAIN again : again[i] = rest[i]
    BY <1>3, <1>4, <1>9
  <2>2. Len(again) = Len(rest)
    BY <1>4, <1>9
  <2> QED
    BY <2>1, <2>2, <1>4, <1>9, SeqEqual
<1>11. again = <<>> => ~ ContainsVehicleId[w]
  <2>1. ContainsVehicleId[w] = \E i \in DOMAIN back : ContainsVehicleId[back[i]]
    BY <1>6, ContainsAt
  <2>2. again = <<>> => DOMAIN back = {}
    BY <1>9
  <2> QED
    BY <2>1, <2>2
<1> QED
  BY <1>1, <1>5, <1>9, <1>10, <1>11

LEMMA DictBack ==
    ASSUME NEW d \in Nat, NEW e \in Nat, NEW R, Inward(d, e, R), NEW B, Outward(e, d, B),
           NEW v \in Value, v.kind = "dict", R[v] # DropValue,
           \A p \in Parts(v) : p \in Value /\ (R[p] # DropValue => R[B[R[p]]] = R[p])
    PROVE  R[B[R[v]]] = R[v]
<1>1. v.items \in SUBSET [key : Keys, value : Value] /\ \A i \in v.items : i.value \in Parts(v)
  BY ValueIs
<1>2. PICK got \in SUBSET [key : Keys, value : Value] :
        UniqueKeys(got) /\ DictBecomes(v, R, d, e, got)
  BY InwardDict
<1>3. R[v] = Dict(got)
  BY <1>2 DEF DictBecomes
<1>4. R[v] \in Value /\ R[v].kind = "dict" /\ R[v].items = got
  BY <1>3, InwardAt DEF Dict
(* How the items of got come back.                                         *)
<1> DEFINE returned(a) == Item(RewriteText(a.key, e, d), B[a.value])
<1>5. ASSUME NEW a \in got
      PROVE  /\ ~ Foreign(a.key, e) /\ ~ Foreign(returned(a).key, d)
             /\ RewriteText(returned(a).key, d, e) = a.key
             /\ R[returned(a).value] = a.value /\ a.value # DropValue
             /\ returned(a).value \in Value
  <2>1. PICK i \in v.items : /\ ~ Foreign(i.key, d) /\ R[i.value] # DropValue
                             /\ a = Item(RewriteText(i.key, d, e), R[i.value])
    BY <1>2 DEF DictBecomes
  <2>2. a.key = RewriteText(i.key, d, e) /\ a.value = R[i.value]
    BY <2>1 DEF Item
  <2>3. i.key \in Texts /\ i.value \in Value /\ R[B[R[i.value]]] = R[i.value]
    BY <1>1, <2>1 DEF Keys
  <2>4. returned(a).key = RewriteText(a.key, e, d) /\ returned(a).value = B[a.value]
    BY DEF Item
  <2>5. /\ ~ Foreign(RewriteText(RewriteText(i.key, d, e), e, d), d)
        /\ RewriteText(RewriteText(RewriteText(i.key, d, e), e, d), d, e) = RewriteText(i.key, d, e)
    BY <2>1, <2>3, TextTwice
  <2>6. RewriteText(i.key, d, e).ids = {IF id = d THEN e ELSE id : id \in i.key.ids}
    BY <2>3, RewriteTextIs
  <2>7. ~ Foreign(a.key, e)
    BY <2>1, <2>2, <2>6 DEF Foreign
  <2>8. R[i.value] \in Value
    BY <2>1, <2>3, InwardAt
  <2>9. B[R[i.value]] \in Value
    BY <2>8, OutwardAt
  <2> HIDE DEF returned
  <2> QED
    BY <2>1, <2>2, <2>3, <2>4, <2>5, <2>7, <2>9
<1>6. PICK back : /\ B[R[v]] = Dict(back)
                  /\ \A b \in back : \E a \in got : b = returned(a)
                  /\ \A a \in got : returned(a) \in back
  <2>1. \A i \in R[v].items : ~ Foreign(i.key, e)
    BY <1>4, <1>5
  <2> QED
    BY <1>4, <2>1, OutwardDict
<1> HIDE DEF returned
<1>7. PICK w : w = B[R[v]]
  OBVIOUS
<1>8. w \in Value /\ w.kind = "dict" /\ w.items = back
  BY <1>4, <1>6, <1>7, OutwardAt DEF Dict
<1>9. PICK again \in SUBSET [key : Keys, value : Value] :
        UniqueKeys(again) /\ DictBecomes(w, R, d, e, again)
  BY <1>8, InwardDict
<1>10. again = got
  <2>1. \A a \in got : a = Item(a.key, a.value)
    BY DEF Item
  <2>2. \A a \in got : Item(RewriteText(returned(a).key, d, e), R[returned(a).value]) = a
    BY <1>5, <2>1
  <2>3. ASSUME NEW a \in again PROVE a \in got
    <3>1. PICK b \in back : a = Item(RewriteText(b.key, d, e), R[b.value])
      BY <1>8, <1>9 DEF DictBecomes
    <3> QED
      BY <1>6, <2>2, <3>1
  <2>4. ASSUME NEW a \in got PROVE a \in again
    <3>1. returned(a) \in back /\ ~ Foreign(returned(a).key, d) /\ R[returned(a).value] # DropValue
      BY <1>5, <1>6
    <3>2. Item(RewriteText(returned(a).key, d, e), R[returned(a).value]) \in again
      BY <1>8, <1>9, <3>1 DEF DictBecomes
    <3> QED
      BY <2>2, <3>2
  <2> QED
    BY <2>3, <2>4
<1>11. ~ PointsToOther(back, d)
  <2> SUFFICES ASSUME NEW b \in back, b.value.kind = "text" PROVE ~ Foreign(b.value, d)
    BY DEF PointsToOther, Pointed
  <2>1. b.value \in Value /\ R[b.value] # DropValue
    BY <1>5, <1>6
  <2> QED
    BY <2>1, InwardAt
<1>12. got = {} => ~ ContainsVehicleId[w]
  <2>1. got = {} => back = {}
    BY <1>6
  <2> QED
    BY <1>8, <2>1, ContainsAt
<1>13. R[w] = Dict(got)
  BY <1>8, <1>9, <1>10, <1>11, <1>12 DEF DictBecomes
<1> QED
  BY <1>3, <1>7, <1>13

(* What a DevKit got comes back to it as it was, if it sends it, and the   *)
(* simulator sends it again: renaming loses nothing and takes nothing to   *)
(* another vehicle (protocol.py, rewrite_devkit_payload_to_simulator and   *)
(* rewrite_simulator_payload_to_devkit).                                   *)
THEOREM RoundTrip ==
    ASSUME NEW d \in Nat, NEW payload \in Value, ToDevKit(payload, d) # DropValue
    PROVE  /\ ToSimulator(ToDevKit(payload, d), d) \in Value
           /\ ToDevKit(ToSimulator(ToDevKit(payload, d), d), d) = ToDevKit(payload, d)
<1> DEFINE R == Rewrite(d, 1, TRUE)
           B == Rewrite(1, d, FALSE)
           S == {v \in Value : R[v] # DropValue => R[B[R[v]]] = R[v]}
<1>1. Inward(d, 1, R) /\ Outward(1, d, B) /\ 1 \in Nat
  BY InwardIs, OutwardIs
<1>2. R = Rewrite(d, 1, TRUE) /\ B = Rewrite(1, d, FALSE)
  OBVIOUS
<1> HIDE DEF R, B
<1>3. ASSUME NEW v \in Value, Parts(v) \subseteq S PROVE v \in S
  <2> SUFFICES ASSUME R[v] # DropValue PROVE R[B[R[v]]] = R[v]
    OBVIOUS
  <2>1. \A p \in Parts(v) : p \in Value /\ (R[p] # DropValue => R[B[R[p]]] = R[p])
    BY <1>3
  <2>2. v.kind = "text" => R[B[R[v]]] = R[v]
    BY <1>1, TextBack
  <2>3. v.kind = "list" => R[B[R[v]]] = R[v]
    BY <1>1, <2>1, ListBack
  <2>4. v.kind = "dict" => R[B[R[v]]] = R[v]
    BY <1>1, <2>1, DictBack
  <2> QED
    BY <2>2, <2>3, <2>4, ValueIs
<1>4. Value \subseteq S
  <2> HIDE DEF S
  <2> QED
    BY <1>3, TreeInduction
<1>5. R[payload] # DropValue
  BY <1>2 DEF ToDevKit
<1>6. R[payload] \in Value /\ B[R[payload]] \in Value
  BY <1>1, <1>5, InwardAt, OutwardAt
<1>7. R[B[R[payload]]] = R[payload]
  BY <1>4, <1>5
<1> QED
  BY <1>2, <1>6, <1>7 DEF ToDevKit, ToSimulator


-----------------------------------------------------------------------------
(* What a DevKit gets of a payload: its own part.                          *)

(* A leaf of a dict, from the leaf of the item's value.                    *)
Below(item, l, items) ==
    [path |-> <<item.key>> \o l.path, leaf |-> l.leaf,
     texts |-> l.texts \cup {item.key} \cup Pointed(items)]

LEMMA LeavesAt ==
    ASSUME NEW v \in Value
    PROVE  /\ v.kind = "text" => Leaves[v] = {[path |-> <<>>, leaf |-> v, texts |-> {v}]}
           /\ v.kind = "list" =>
                \A l : l \in Leaves[v] <=> \E p \in Parts(v) : l \in Leaves[p]
           /\ v.kind = "dict" =>
                \A l : l \in Leaves[v] <=>
                  \E i \in v.items : \E k \in Leaves[i.value] : l = Below(i, k, v.items)
<1>1. Leaves[v] = LeavesStep(v, Leaves)
  BY LeavesIs
<1>2. ASSUME v.kind = "text" PROVE Leaves[v] = {[path |-> <<>>, leaf |-> v, texts |-> {v}]}
  BY <1>1, <1>2 DEF LeavesStep
<1>3. ASSUME v.kind = "list", NEW l
      PROVE  l \in Leaves[v] <=> \E p \in Parts(v) : l \in Leaves[p]
  <2>1. Leaves[v] = UNION {Leaves[v.items[i]] : i \in DOMAIN v.items}
    BY <1>1, <1>3 DEF LeavesStep
  <2>2. Parts(v) = {v.items[i] : i \in DOMAIN v.items}
    BY <1>3, ValueIs
  <2> QED
    BY <2>1, <2>2
<1>4. ASSUME v.kind = "dict", NEW l
      PROVE  l \in Leaves[v] <=>
               \E i \in v.items : \E k \in Leaves[i.value] : l = Below(i, k, v.items)
  <2>1. Leaves[v] = UNION {{Below(i, k, v.items) : k \in Leaves[i.value]} : i \in v.items}
    BY <1>1, <1>4 DEF LeavesStep, Below
  <2> QED
    BY <2>1
<1> QED
  BY <1>2, <1>3, <1>4

LEMMA PathsTyped ==
    \A v \in Value : \A l \in Leaves[v] : l.path \in Seq(Keys)
<1> DEFINE S == {v \in Value : \A l \in Leaves[v] : l.path \in Seq(Keys)}
<1>1. ASSUME NEW v \in Value, Parts(v) \subseteq S PROVE v \in S
  <2> SUFFICES ASSUME NEW l \in Leaves[v] PROVE l.path \in Seq(Keys)
    OBVIOUS
  <2>1. CASE v.kind = "text"
    <3>1. l.path = <<>>
      BY <2>1, LeavesAt
    <3> QED
      BY <3>1, EmptySeq
  <2>2. CASE v.kind = "list"
    BY <1>1, <2>2, LeavesAt
  <2>3. CASE v.kind = "dict"
    <3>1. PICK i \in v.items : \E k \in Leaves[i.value] : l = Below(i, k, v.items)
      BY <2>3, LeavesAt
    <3>2. PICK k \in Leaves[i.value] : l = Below(i, k, v.items)
      BY <3>1
    <3>3. i.key \in Keys /\ i.value \in Parts(v)
      BY <2>3, ValueIs
    <3>4. k.path \in Seq(Keys)
      BY <1>1, <3>3
    <3>5. l.path = <<i.key>> \o k.path
      BY <3>2 DEF Below
    <3>6. <<i.key>> \in Seq(Keys)
      BY <3>3
    <3> QED
      BY <3>4, <3>5, <3>6, ConcatProperties
  <2> QED
    BY <2>1, <2>2, <2>3, ValueIs
<1>2. Value \subseteq S
  <2> HIDE DEF S
  <2> QED
    BY <1>1, TreeInduction
<1> QED
  BY <1>2

(* The leaves that are the DevKit's or nobody's, and what they become.     *)
Own(v, d) == {l \in Leaves[v] : \A t \in l.texts : ~ Foreign(t, d)}
Becomes(l, m, d, e) ==
    /\ m.path = [i \in DOMAIN l.path |-> RewriteText(l.path[i], d, e)]
    /\ m.leaf = RewriteText(l.leaf, d, e)

LEMMA BelowBecomes ==
    ASSUME NEW d \in Nat, NEW e \in Nat, NEW i, NEW w, NEW l, NEW m, NEW X, NEW Y,
           i.key \in Keys, l.path \in Seq(Keys), Becomes(l, m, d, e)
    PROVE  Becomes(Below(i, l, X), Below(Item(RewriteText(i.key, d, e), w), m, Y), d, e)
<1> DEFINE a == Below(i, l, X)
           b == Below(Item(RewriteText(i.key, d, e), w), m, Y)
           ren(s) == [j \in DOMAIN s |-> RewriteText(s[j], d, e)]
           first == <<i.key>>
           p == first \o l.path
           q == ren(first) \o ren(l.path)
<1>1. a.path = p /\ a.leaf = l.leaf
  BY DEF Below
<1>2. ren(first) = <<RewriteText(i.key, d, e)>>
  OBVIOUS
<1>3. m.path = ren(l.path) /\ m.leaf = RewriteText(l.leaf, d, e)
  BY DEF Becomes
<1>4. b.path = <<RewriteText(i.key, d, e)>> \o m.path /\ b.leaf = m.leaf
  BY DEF Below, Item
<1>5. b.path = q /\ b.leaf = m.leaf
  BY <1>2, <1>3, <1>4
<1> HIDE DEF a, b
<1>6. ASSUME NEW s \in Seq(Keys)
      PROVE  /\ ren(s) \in Seq(Keys) /\ Len(ren(s)) = Len(s) /\ Len(s) \in Nat
             /\ \A j \in 1..Len(s) : ren(s)[j] = RewriteText(s[j], d, e)
  <2>1. \A j \in 1..Len(s) : RewriteText(s[j], d, e) \in Keys
    <3> SUFFICES ASSUME NEW j \in 1..Len(s) PROVE RewriteText(s[j], d, e) \in Keys
      OBVIOUS
    <3>1. s[j] \in Keys /\ s[j] \in Texts
      BY DEF Keys
    <3> QED
      BY <3>1, RewriteTextIs
  <2>2. DOMAIN s = 1..Len(s) /\ Len(s) \in Nat
    OBVIOUS
  <2>3. ren(s) \in Seq(Keys)
    BY <2>1, <2>2, IsASeq
  <2> QED
    BY <2>2, <2>3
<1>7. first \in Seq(Keys) /\ Len(first) = 1
  OBVIOUS
<1> HIDE DEF first, ren
<1>8. /\ p \in Seq(Keys) /\ Len(p) = 1 + Len(l.path)
      /\ \A j \in 1..(1 + Len(l.path)) : p[j] = IF j <= 1 THEN first[j] ELSE l.path[j - 1]
  <2>1. /\ p \in Seq(Keys) /\ Len(p) = Len(first) + Len(l.path)
        /\ \A j \in 1..(Len(first) + Len(l.path)) :
             p[j] = IF j <= Len(first) THEN first[j] ELSE l.path[j - Len(first)]
    BY <1>7, ConcatProperties
  <2>2. Len(l.path) \in Nat
    OBVIOUS
  <2> HIDE DEF p
  <2> QED
    BY <1>7, <2>1, <2>2
<1>9. /\ q \in Seq(Keys) /\ Len(q) = 1 + Len(l.path)
      /\ \A j \in 1..(1 + Len(l.path)) : q[j] = IF j <= 1 THEN ren(first)[j] ELSE ren(l.path)[j - 1]
  <2>1. /\ ren(first) \in Seq(Keys) /\ Len(ren(first)) = 1
        /\ ren(l.path) \in Seq(Keys) /\ Len(ren(l.path)) = Len(l.path) /\ Len(l.path) \in Nat
    BY <1>6, <1>7
  <2>2. PICK x \in Seq(Keys) : x = ren(first)
    BY <2>1
  <2>3. PICK y \in Seq(Keys) : y = ren(l.path)
    BY <2>1
  <2>4. /\ x \o y \in Seq(Keys) /\ Len(x \o y) = Len(x) + Len(y)
        /\ \A j \in 1..(Len(x) + Len(y)) :
             (x \o y)[j] = IF j <= Len(x) THEN x[j] ELSE y[j - Len(x)]
    BY ConcatProperties
  <2>5. q = x \o y /\ Len(x) = 1 /\ Len(y) = Len(l.path)
    BY <2>1, <2>2, <2>3
  <2> HIDE DEF q
  <2> QED
    BY <2>2, <2>3, <2>4, <2>5
<1> HIDE DEF p, q
<1>10. ren(p) \in Seq(Keys) /\ Len(ren(p)) = Len(p)
       /\ \A j \in 1..Len(p) : ren(p)[j] = RewriteText(p[j], d, e)
  BY <1>6, <1>8
<1>11. \A j \in 1..(1 + Len(l.path)) : q[j] = ren(p)[j]
  <2> SUFFICES ASSUME NEW j \in 1..(1 + Len(l.path)) PROVE q[j] = ren(p)[j]
    OBVIOUS
  <2>1. Len(l.path) \in Nat
    OBVIOUS
  <2>2. ren(p)[j] = RewriteText(p[j], d, e)
    BY <1>8, <1>10
  <2>3. CASE j <= 1
    <3>1. j \in 1..Len(first) /\ q[j] = ren(first)[j] /\ p[j] = first[j]
      BY <1>7, <1>8, <1>9, <2>3
    <3> QED
      BY <1>6, <1>7, <2>2, <3>1
  <2>4. CASE ~(j <= 1)
    <3>1. j - 1 \in 1..Len(l.path) /\ q[j] = ren(l.path)[j - 1] /\ p[j] = l.path[j - 1]
      BY <1>8, <1>9, <2>1, <2>4
    <3> QED
      BY <1>6, <2>2, <3>1
  <2> QED
    BY <2>3, <2>4
<1>12. q = ren(p)
  BY <1>8, <1>9, <1>10, <1>11, SeqEqual
<1>13. ren(p) = [j \in DOMAIN p |-> RewriteText(p[j], d, e)]
  BY DEF ren
<1> QED
  BY <1>1, <1>3, <1>5, <1>12, <1>13 DEF Becomes, a, b

(* What a DevKit gets are exactly the leaves of the payload that are its   *)
(* own or nobody's, renamed (protocol.py, _rewrite_json_value).            *)
IsOwnPart(v, R, d, e) ==
    /\ \A l \in Own(v, d) : R[v] # DropValue /\ \E m \in Leaves[R[v]] : Becomes(l, m, d, e)
    /\ R[v] # DropValue => \A m \in Leaves[R[v]] : \E l \in Own(v, d) : Becomes(l, m, d, e)

LEMMA OwnText ==
    ASSUME NEW d \in Nat, NEW e \in Nat, NEW R, Inward(d, e, R), NEW v \in Value, v.kind = "text"
    PROVE  IsOwnPart(v, R, d, e)
<1>1. R[v] = IF Foreign(v, d) THEN DropValue ELSE RewriteText(v, d, e)
  BY InwardAt
<1>2. Leaves[v] = {[path |-> <<>>, leaf |-> v, texts |-> {v}]}
  BY LeavesAt
<1>3. Own(v, d) = IF Foreign(v, d) THEN {} ELSE {[path |-> <<>>, leaf |-> v, texts |-> {v}]}
  BY <1>2 DEF Own
<1>4. ASSUME R[v] # DropValue
      PROVE  Leaves[R[v]] = {[path |-> <<>>, leaf |-> R[v], texts |-> {R[v]}]}
  <2>1. R[v] \in Value /\ R[v].kind = "text"
    BY <1>4, InwardAt
  <2> QED
    BY <2>1, LeavesAt
<1>5. CASE Foreign(v, d)
  BY <1>1, <1>3, <1>5 DEF IsOwnPart
<1>6. CASE ~ Foreign(v, d)
  <2>1. R[v] # DropValue
    <3>1. R[v].kind = "text"
      BY <1>1, <1>6, ValueIs, RewriteTextIs
    <3> QED
      BY <3>1 DEF DropValue
  <2>2. Becomes([path |-> <<>>, leaf |-> v, texts |-> {v}],
                [path |-> <<>>, leaf |-> R[v], texts |-> {R[v]}], d, e)
    BY <1>1, <1>6 DEF Becomes
  <2> QED
    BY <1>3, <1>4, <1>6, <2>1, <2>2 DEF IsOwnPart
<1> QED
  BY <1>5, <1>6

LEMMA OwnList ==
    ASSUME NEW d \in Nat, NEW e \in Nat, NEW R, Inward(d, e, R), NEW v \in Value, v.kind = "list",
           \A p \in Parts(v) : IsOwnPart(p, R, d, e)
    PROVE  IsOwnPart(v, R, d, e)
<1>1. PICK rest \in Seq(Value) : InwardListBecomes(v, R, rest)
  BY InwardList
<1>2. PICK drop \in BOOLEAN : drop = TRUE /\ ListBecomes(v, R, drop, rest)
  BY <1>1 DEF InwardListBecomes
<1>3. /\ R[v] = IF rest = <<>> /\ ContainsVehicleId[v] THEN DropValue ELSE List(rest)
      /\ \A i \in DOMAIN rest : \E p \in Parts(v) : rest[i] = R[p] /\ R[p] # DropValue
      /\ \A p \in Parts(v) : R[p] # DropValue => \E i \in DOMAIN rest : rest[i] = R[p]
  BY <1>2 DEF ListBecomes
<1>4. \A l : l \in Own(v, d) <=> \E p \in Parts(v) : l \in Own(p, d)
  BY LeavesAt DEF Own
<1>5. ASSUME R[v] # DropValue
      PROVE  \A m : m \in Leaves[R[v]] <=> \E i \in DOMAIN rest : m \in Leaves[rest[i]]
  <2>1. R[v] \in Value /\ R[v].kind = "list" /\ R[v].items = rest
    BY <1>3, <1>5, InwardAt DEF List
  <2>2. Parts(R[v]) = {rest[i] : i \in DOMAIN rest}
    BY <2>1, ValueIs
  <2>3. \A m : m \in Leaves[R[v]] <=> \E p \in Parts(R[v]) : m \in Leaves[p]
    BY <2>1, LeavesAt
  <2> QED
    BY <2>2, <2>3
<1>6. ASSUME NEW l \in Own(v, d)
      PROVE  R[v] # DropValue /\ \E m \in Leaves[R[v]] : Becomes(l, m, d, e)
  <2>1. PICK p \in Parts(v) : l \in Own(p, d)
    BY <1>4
  <2>2. R[p] # DropValue /\ \E m \in Leaves[R[p]] : Becomes(l, m, d, e)
    BY <2>1 DEF IsOwnPart
  <2>3. PICK i \in DOMAIN rest : rest[i] = R[p]
    BY <1>3, <2>2
  <2>4. R[v] # DropValue
    <3>1. rest # <<>>
      BY <2>3
    <3>2. R[v] = List(rest)
      BY <1>3, <3>1
    <3> QED
      BY <3>2 DEF List, DropValue
  <2> QED
    BY <1>5, <2>2, <2>3, <2>4
<1>7. ASSUME R[v] # DropValue, NEW m \in Leaves[R[v]]
      PROVE  \E l \in Own(v, d) : Becomes(l, m, d, e)
  <2>1. PICK i \in DOMAIN rest : m \in Leaves[rest[i]]
    BY <1>5, <1>7
  <2>2. PICK p \in Parts(v) : rest[i] = R[p] /\ R[p] # DropValue
    BY <1>3
  <2>3. \E l \in Own(p, d) : Becomes(l, m, d, e)
    BY <2>1, <2>2 DEF IsOwnPart
  <2> QED
    BY <1>4, <2>3
<1> QED
  BY <1>6, <1>7 DEF IsOwnPart

LEMMA OwnDict ==
    ASSUME NEW d \in Nat, NEW e \in Nat, NEW R, Inward(d, e, R), NEW v \in Value, v.kind = "dict",
           \A p \in Parts(v) : IsOwnPart(p, R, d, e)
    PROVE  IsOwnPart(v, R, d, e)
<1>1. PICK got \in SUBSET [key : Keys, value : Value] :
        UniqueKeys(got) /\ DictBecomes(v, R, d, e, got)
  BY InwardDict
<1>2. \A i \in v.items : /\ i.key \in Keys /\ i.value \in Value /\ IsOwnPart(i.value, R, d, e)
  BY ValueIs
<1>3. \A l : l \in Leaves[v] <=> \E i \in v.items : \E k \in Leaves[i.value] : l = Below(i, k, v.items)
  BY LeavesAt
<1>4. ASSUME R[v] # DropValue
      PROVE  /\ R[v] = Dict(got) /\ ~ PointsToOther(v.items, d)
             /\ \A m : m \in Leaves[R[v]] <=>
                  \E a \in got : \E k \in Leaves[a.value] : m = Below(a, k, got)
  <2>1. R[v] = Dict(got) /\ ~ PointsToOther(v.items, d)
    BY <1>1, <1>4 DEF DictBecomes
  <2>2. R[v] \in Value /\ R[v].kind = "dict" /\ R[v].items = got
    BY <1>4, <2>1, InwardAt DEF Dict
  <2> QED
    BY <2>1, <2>2, LeavesAt
<1>5. ASSUME NEW l \in Own(v, d)
      PROVE  R[v] # DropValue /\ \E m \in Leaves[R[v]] : Becomes(l, m, d, e)
  <2>1. PICK i \in v.items : \E k \in Leaves[i.value] : l = Below(i, k, v.items)
    BY <1>3 DEF Own
  <2>2. PICK k \in Leaves[i.value] : l = Below(i, k, v.items)
    BY <2>1
  <2>3. \A t \in k.texts \cup {i.key} \cup Pointed(v.items) : ~ Foreign(t, d)
    BY <2>2 DEF Own, Below
  <2>4. k \in Own(i.value, d) /\ ~ Foreign(i.key, d) /\ ~ PointsToOther(v.items, d)
    BY <2>3 DEF Own, PointsToOther
  <2>5. R[i.value] # DropValue
    BY <1>2, <2>4 DEF IsOwnPart
  <2>6. PICK m \in Leaves[R[i.value]] : Becomes(k, m, d, e)
    BY <1>2, <2>4 DEF IsOwnPart
  <2> DEFINE a == Item(RewriteText(i.key, d, e), R[i.value])
  <2>7. a \in got /\ a.value = R[i.value]
    BY <1>1, <2>4, <2>5 DEF DictBecomes, Item
  <2>8. R[v] # DropValue
    <3>1. R[v] = Dict(got)
      BY <1>1, <2>4, <2>7 DEF DictBecomes
    <3> QED
      BY <3>1 DEF Dict, DropValue
  <2>9. Becomes(l, Below(a, m, got), d, e)
    BY <1>2, <2>2, <2>6, PathsTyped, BelowBecomes
  <2>10. Below(a, m, got) \in Leaves[R[v]]
    <3> HIDE DEF a
    <3> QED
      BY <1>4, <2>6, <2>7, <2>8
  <2> QED
    BY <2>8, <2>9, <2>10
<1>6. ASSUME R[v] # DropValue, NEW m \in Leaves[R[v]]
      PROVE  \E l \in Own(v, d) : Becomes(l, m, d, e)
  <2>1. PICK a \in got : \E k \in Leaves[a.value] : m = Below(a, k, got)
    BY <1>4, <1>6
  <2>2. PICK k \in Leaves[a.value] : m = Below(a, k, got)
    BY <2>1
  <2>3. PICK i \in v.items : /\ ~ Foreign(i.key, d) /\ R[i.value] # DropValue
                             /\ a = Item(RewriteText(i.key, d, e), R[i.value])
    BY <1>1 DEF DictBecomes
  <2>4. a.value = R[i.value]
    BY <2>3 DEF Item
  <2>5. PICK l \in Own(i.value, d) : Becomes(l, k, d, e)
    BY <1>2, <2>2, <2>3, <2>4 DEF IsOwnPart
  <2>6. l \in Leaves[i.value] /\ \A t \in l.texts : ~ Foreign(t, d)
    BY <2>5 DEF Own
  <2>7. Below(i, l, v.items) \in Leaves[v]
    BY <1>3, <2>6
  <2>8. \A t \in Below(i, l, v.items).texts : ~ Foreign(t, d)
    <3>1. ~ PointsToOther(v.items, d)
      BY <1>4, <1>6
    <3> QED
      BY <2>3, <2>6, <3>1 DEF Below, PointsToOther
  <2>9. Becomes(Below(i, l, v.items), m, d, e)
    BY <1>2, <2>2, <2>3, <2>5, <2>6, PathsTyped, BelowBecomes
  <2> QED
    BY <2>7, <2>8, <2>9 DEF Own
<1> QED
  BY <1>5, <1>6 DEF IsOwnPart

THEOREM OwnPart ==
    ASSUME NEW d \in Nat, NEW e \in Nat, NEW R, Inward(d, e, R), NEW payload \in Value
    PROVE  IsOwnPart(payload, R, d, e)
<1> DEFINE S == {v \in Value : IsOwnPart(v, R, d, e)}
<1>1. ASSUME NEW v \in Value, Parts(v) \subseteq S PROVE v \in S
  <2>1. \A p \in Parts(v) : IsOwnPart(p, R, d, e)
    BY <1>1
  <2>2. v.kind = "text" => IsOwnPart(v, R, d, e)
    BY OwnText
  <2>3. v.kind = "list" => IsOwnPart(v, R, d, e)
    BY <2>1, OwnList
  <2>4. v.kind = "dict" => IsOwnPart(v, R, d, e)
    BY <2>1, OwnDict
  <2> QED
    BY <2>2, <2>3, <2>4, ValueIs
<1>2. Value \subseteq S
  <2> HIDE DEF S
  <2> QED
    BY <1>1, TreeInduction
<1> QED
  BY <1>2

=============================================================================
