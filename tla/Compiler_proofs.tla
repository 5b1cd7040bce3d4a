--------------------------- MODULE Compiler_proofs ---------------------------
(***************************************************************************)
(* Theorems about the graph compiler, for every template: the order of a   *)
(* compiled graph respects its edges, the graph has no cycle, a graph that *)
(* is refused for a cycle has one, the listing of the template does not    *)
(* matter, and what is not orphaned feeds something.                       *)
(***************************************************************************)
EXTENDS Compiler, FiniteSetTheorems, WellFoundedInduction, TLAPS

\* What is in a sequence, and a sequence of whatever it holds.
Listed(s) == {s[i] : i \in DOMAIN s}
IsSeq(s) == s \in Seq(Listed(s))

Distinct(s) == \A i, j \in DOMAIN s : s[i] = s[j] => i = j

\* The order of keys knows every key of these nodes.
Sortable(nodes) ==
    /\ IsSeq(nodes)
    /\ IsSeq(KeyOrder) /\ Keys(nodes) \subseteq Listed(KeyOrder)

\* Every edge into the node at place i comes from an earlier place.
Arranged(nodes, order) ==
    /\ order \in Seq(Keys(nodes)) /\ Distinct(order)
    /\ \A i \in DOMAIN order : \E j \in DOMAIN nodes :
         nodes[j].key = order[i] /\ Upstream(nodes[j]) \subseteq {order[h] : h \in 1..(i - 1)}

\* Each of some nodes has an edge from one of them.
Cyclic(nodes) ==
    \E T \in SUBSET DOMAIN nodes :
       T # {} /\ \A i \in T : \E j \in T : nodes[j].key \in Upstream(nodes[i])

-----------------------------------------------------------------------------
(* Numbers, sequences and functions defined on segments *)

\* Of the numbers in a set, one is the least.
LEMMA LeastNumber ==
    ASSUME NEW T, T \subseteq Nat, T # {}
    PROVE  \E i \in T : \A k \in T : i <= k
  <1> DEFINE Segments == {1..i : i \in T}
             R == StrictSubsetOrdering(Nat)
  <1>1. ASSUME NEW i \in T PROVE 1..i \in FiniteSubsetsOf(Nat)
    <2>1. IsFiniteSet(1..i)
      BY FS_Interval
    <2> QED
      BY <2>1 DEF FiniteSubsetsOf
  <1>2. Segments \subseteq FiniteSubsetsOf(Nat) /\ Segments # {}
    BY <1>1
  <1>3. PICK x \in Segments : \A y \in Segments : ~ (<<y, x>> \in R)
    <2>1. IsWellFoundedOn(R, FiniteSubsetsOf(Nat))
      BY FS_StrictSubsetOrderingWellFounded
    <2> HIDE DEF R, Segments
    <2> QED
      BY <1>2, <2>1, WFMin
  <1>4. PICK i \in T : x = 1..i
    BY <1>3
  <1>5. ASSUME NEW k \in T, k < i PROVE FALSE
    <2>1. k \in Nat /\ i \in Nat
      OBVIOUS
    <2>2. 1..k \subseteq 1..i /\ i \notin 1..k /\ i \in 1..i
      BY <1>5, <2>1
    <2>3. <<1..k, 1..i>> \in R
      BY <2>1, <2>2 DEF StrictSubsetOrdering
    <2> QED
      BY <1>3, <1>4, <2>3
  <1>6. \A k \in T : i <= k
    BY <1>5
  <1> QED
    BY <1>6

\* Induction on the numbers up to m, for a set of them.
LEMMA Climb ==
    ASSUME NEW m \in Nat, NEW S, 0 \in S,
           \A k \in 0..m : k # 0 /\ k - 1 \in S => k \in S
    PROVE  \A k \in 0..m : k \in S
  <1>1. SUFFICES ASSUME {k \in 0..m : k \notin S} # {} PROVE FALSE
    OBVIOUS
  <1> DEFINE T == {k \in 0..m : k \notin S}
  <1>2. PICK i \in T : \A k \in T : i <= k
    <2>1. T \subseteq Nat /\ T # {}
      BY <1>1
    <2> HIDE DEF T
    <2> QED
      BY <2>1, LeastNumber
  <1>3. i \in 0..m /\ i # 0 /\ i - 1 \in 0..m /\ ~(i <= i - 1)
    BY <1>2
  <1>4. i - 1 \in S
    BY <1>2, <1>3
  <1> QED
    BY <1>2, <1>3, <1>4

\* f is g applied again and again, from first on.
Repeats(f, m, first, g) == f = [k \in 0..m |-> IF k = 0 THEN first ELSE g[f[k - 1]]]

\* A function is defined by what it starts with and how it goes on.
LEMMA Iterates ==
    ASSUME NEW D, NEW first \in D, NEW g \in [D -> D], NEW m \in Nat
    PROVE  \E f \in [0..m -> D] : Repeats(f, m, first, g)
  <1> DEFINE Is(f, k) == f = [j \in 0..k |-> IF j = 0 THEN first ELSE g[f[j - 1]]]
             S == {k \in Nat : \E f \in [0..k -> D] : Is(f, k)}
  <1>1. 0 \in S
    <2> DEFINE f == [j \in 0..0 |-> first]
    <2>1. f \in [0..0 -> D] /\ Is(f, 0)
      OBVIOUS
    <2> QED
      BY <2>1
  <1>2. ASSUME NEW k \in 0..m, k # 0, k - 1 \in S PROVE k \in S
    <2>1. PICK f \in [0..(k - 1) -> D] : Is(f, k - 1)
      BY <1>2
    <2> DEFINE h == [j \in 0..k |-> IF j = k THEN g[f[k - 1]] ELSE f[j]]
    <2>2. k \in Nat /\ k - 1 \in Nat /\ \A j \in 0..k : j # k => j \in 0..(k - 1)
      BY <1>2
    <2>3. h \in [0..k -> D]
      <3>1. k - 1 \in 0..(k - 1) /\ f[k - 1] \in D
        BY <1>2, <2>2
      <3>2. \A j \in 0..k : (IF j = k THEN g[f[k - 1]] ELSE f[j]) \in D
        BY <2>2, <3>1
      <3> QED
        BY <3>2
    <2>4. \A j \in 0..k : j # 0 => j - 1 \in 0..(k - 1) /\ h[j - 1] = f[j - 1]
      BY <2>2
    <2>5. \A j \in 0..k : h[j] = IF j = 0 THEN first ELSE g[h[j - 1]]
      <3>1. TAKE j \in 0..k
      <3>2. CASE j = k
        BY <1>2, <2>2, <2>4, <3>2
      <3>3. CASE j # k
        <4>1. h[j] = f[j] /\ j \in 0..(k - 1)
          BY <2>2, <3>3
        <4>2. f[j] = IF j = 0 THEN first ELSE g[f[j - 1]]
          BY <2>1, <4>1
        <4> QED
          BY <2>4, <4>1, <4>2
      <3> QED
        BY <3>2, <3>3
    <2>6. Is(h, k)
      <3>1. h = [j \in 0..k |-> h[j]]
        OBVIOUS
      <3> HIDE DEF h
      <3> QED
        BY <2>5, <3>1
    <2> HIDE DEF Is, h
    <2> QED
      BY <2>2, <2>3, <2>6
  <1>3. m \in S
    <2> HIDE DEF S
    <2>1. m \in 0..m
      OBVIOUS
    <2> QED
      BY <1>1, <1>2, <2>1, Climb
  <1> QED
    BY <1>3 DEF Repeats

\* A sequence is a function on a segment.
LEMMA SeqIs ==
    ASSUME NEW S, NEW s \in Seq(S)
    PROVE  /\ Len(s) \in Nat /\ DOMAIN s = 1..Len(s) /\ s \in [1..Len(s) -> S]
           /\ Listed(s) \subseteq S
  BY DEF Listed

\* As many things are listed as there are places, when none is repeated, and fewer else.
LEMMA ListedCount ==
    ASSUME NEW S, NEW s \in Seq(S)
    PROVE  /\ IsFiniteSet(Listed(s)) /\ Cardinality(Listed(s)) <= Len(s)
           /\ Cardinality(Listed(s)) = Len(s) <=> Distinct(s)
  <1> DEFINE T == Listed(s)  n == Len(s)
  <1>1. n \in Nat /\ DOMAIN s = 1..n
    BY SeqIs
  <1>2. s \in Surjection(1..n, T)
    <2>1. s \in [1..n -> T]
      BY <1>1 DEF Listed
    <2>2. \A t \in T : \E i \in 1..n : s[i] = t
      BY <1>1 DEF Listed
    <2> QED
      BY <2>1, <2>2 DEF Surjection
  <1>3. IsFiniteSet(1..n) /\ Cardinality(1..n) = n
    BY <1>1, FS_Interval
  <1>4. /\ IsFiniteSet(T) /\ Cardinality(T) <= n
        /\ Cardinality(T) = n <=> s \in Injection(1..n, T)
    <2> HIDE DEF n, T
    <2> QED
      BY <1>2, <1>3, FS_Surjection
  <1>5. s \in Injection(1..n, T) <=> Distinct(s)
    <2>1. s \in [1..n -> T]
      BY <1>2 DEF Surjection
    <2> QED
      BY <1>1, <2>1 DEF Injection, IsInjective, Distinct
  <1> QED
    BY <1>4, <1>5

-----------------------------------------------------------------------------
(* Kahn's algorithm *)

\* The next node of some that are ready is one of them.
LEMMA LeastIsOne ==
    ASSUME IsSeq(KeyOrder), NEW keys, keys # {}, keys \subseteq Listed(KeyOrder)
    PROVE  Least(keys) \in keys
  <1> DEFINE places == {i \in DOMAIN KeyOrder : KeyOrder[i] \in keys}
             First(i) == KeyOrder[i] \in keys /\ \A j \in 1..(i - 1) : KeyOrder[j] \notin keys
  <1>1. Len(KeyOrder) \in Nat /\ DOMAIN KeyOrder = 1..Len(KeyOrder)
    BY SeqIs DEF IsSeq
  <1>2. places \subseteq Nat /\ places # {}
    BY <1>1 DEF Listed
  <1>3. PICK i \in places : \A k \in places : i <= k
    <2> HIDE DEF places
    <2> QED
      BY <1>2, LeastNumber
  <1>4. i \in DOMAIN KeyOrder /\ First(i)
    <2>1. ASSUME NEW j \in 1..(i - 1) PROVE KeyOrder[j] \notin keys
      <3>1. i \in Nat /\ j \in DOMAIN KeyOrder /\ ~(i <= j)
        BY <1>1, <1>3
      <3> QED
        BY <1>3, <3>1
    <2> QED
      BY <1>3, <2>1
  <1>5. Least(keys) = KeyOrder[CHOOSE j \in DOMAIN KeyOrder : First(j)]
    BY DEF Least
  <1>6. First(CHOOSE j \in DOMAIN KeyOrder : First(j))
    <2> HIDE DEF First
    <2> QED
      BY <1>4
  <1> QED
    BY <1>5, <1>6

\* What is ready is a node that is not placed and waits for placed nodes only.
LEMMA FrontierIs ==
    ASSUME NEW nodes, NEW done, NEW key
    PROVE  key \in Frontier(nodes, done) <=>
             \E j \in DOMAIN nodes : /\ nodes[j].key = key /\ key \notin done
                                     /\ Upstream(nodes[j]) \subseteq done
  BY DEF Frontier

\* One step of the algorithm.
LEMMA ExtendedIs ==
    ASSUME NEW nodes, Sortable(nodes), NEW order \in Seq(Keys(nodes))
    PROVE  /\ Extended(nodes, order) \in Seq(Keys(nodes))
           /\ \/ Frontier(nodes, Listed(order)) = {} /\ Extended(nodes, order) = order
              \/ \E key \in Frontier(nodes, Listed(order)) : Extended(nodes, order) = Append(order, key)
  <1> DEFINE ready == Frontier(nodes, Listed(order))
  <1>1. Extended(nodes, order) = IF ready = {} THEN order ELSE Append(order, Least(ready))
    BY DEF Extended, Listed
  <1>2. ready \subseteq Keys(nodes)
    BY DEF Frontier, Keys
  <1>3. ready # {} => Least(ready) \in ready
    <2> HIDE DEF ready
    <2> QED
      BY <1>2, LeastIsOne DEF Sortable
  <1> HIDE DEF ready
  <1>4. ready # {} => Append(order, Least(ready)) \in Seq(Keys(nodes))
    <2> DEFINE K == Keys(nodes)  k == Least(ready)
    <2>1. order \in Seq(K) /\ (ready # {} => k \in K)
      BY <1>2, <1>3
    <2> HIDE DEF K, k
    <2>2. k \in K => Append(order, k) \in Seq(K)
      BY <2>1
    <2> QED
      BY <2>1, <2>2 DEF K, k
  <1> QED
    BY <1>1, <1>3, <1>4 DEF ready

\* A step keeps the order arranged.
LEMMA ArrangedOn ==
    ASSUME NEW nodes, Sortable(nodes), NEW order, Arranged(nodes, order)
    PROVE  Arranged(nodes, Extended(nodes, order))
  <1> DEFINE K == Keys(nodes)  n == Len(order)
  <1>1. order \in Seq(K) /\ n \in Nat /\ DOMAIN order = 1..n
    BY SeqIs DEF Arranged
  <1>2. CASE Extended(nodes, order) = order
    BY <1>2
  <1>3. ASSUME NEW key \in Frontier(nodes, Listed(order)), Extended(nodes, order) = Append(order, key)
        PROVE  Arranged(nodes, Extended(nodes, order))
    <2>1. PICK next : next = Append(order, key)
      OBVIOUS
    <2>2. PICK j \in DOMAIN nodes : /\ nodes[j].key = key /\ key \notin Listed(order)
                                    /\ Upstream(nodes[j]) \subseteq Listed(order)
      BY FrontierIs
    <2>3. key \in K
      BY <2>2 DEF Keys
    <2> HIDE DEF K
    <2>4. /\ next \in Seq(K) /\ DOMAIN next = 1..(n + 1)
          /\ next[n + 1] = key /\ \A i \in 1..n : next[i] = order[i]
      BY <1>1, <2>1, <2>3
    <2> HIDE DEF n
    <2>5. Distinct(next)
      <3>1. \A i \in 1..n : order[i] # key
        BY <1>1, <2>2 DEF Listed
      <3>2. \A i, k \in 1..n : order[i] = order[k] => i = k
        BY <1>1 DEF Arranged, Distinct
      <3>3. \A i \in DOMAIN next : i \in 1..n \/ i = n + 1
        BY <1>1, <2>4
      <3> QED
        BY <2>4, <3>1, <3>2, <3>3 DEF Distinct
    <2>6. ASSUME NEW i \in DOMAIN next
          PROVE  \E l \in DOMAIN nodes :
                   nodes[l].key = next[i] /\ Upstream(nodes[l]) \subseteq {next[h] : h \in 1..(i - 1)}
      <3>1. CASE i = n + 1
        <4>1. {next[h] : h \in 1..(i - 1)} = Listed(order)
          <5>1. 1..(i - 1) = DOMAIN order
            BY <1>1, <3>1
          <5> QED
            BY <1>1, <2>4, <5>1 DEF Listed
        <4> QED
          BY <2>2, <2>4, <3>1, <4>1
      <3>2. CASE i # n + 1
        <4>1. i \in 1..n /\ \A h \in 1..(i - 1) : h \in 1..n
          BY <1>1, <2>4, <3>2
        <4>2. PICK l \in DOMAIN nodes :
                nodes[l].key = order[i] /\ Upstream(nodes[l]) \subseteq {order[h] : h \in 1..(i - 1)}
          BY <1>1, <4>1 DEF Arranged
        <4>3. {order[h] : h \in 1..(i - 1)} = {next[h] : h \in 1..(i - 1)}
          BY <2>4, <4>1
        <4> QED
          BY <2>4, <4>1, <4>2, <4>3
      <3> QED
        BY <3>1, <3>2
    <2>7. Arranged(nodes, next)
      BY <2>4, <2>5, <2>6 DEF Arranged, K
    <2> QED
      BY <1>3, <2>1, <2>7
  <1> QED
    BY <1>1, <1>2, <1>3, ExtendedIs

\* The steps of the algorithm.
Steps(nodes, step) ==
    step = [k \in 0..Len(nodes) |-> IF k = 0 THEN <<>> ELSE Extended(nodes, step[k - 1])]

\* The algorithm takes its steps.
LEMMA StepsExist ==
    ASSUME NEW nodes, Sortable(nodes)
    PROVE  \E step : Steps(nodes, step) /\ TopologicalOrder(nodes) = step[Len(nodes)]
  <1> DEFINE K == Keys(nodes)  n == Len(nodes)
             g == [o \in Seq(K) |-> Extended(nodes, o)]
  <1>1. n \in Nat
    BY SeqIs DEF Sortable, IsSeq
  <1>2. g \in [Seq(K) -> Seq(K)]
    BY ExtendedIs
  <1>3. <<>> \in Seq(K)
    <2> HIDE DEF K
    <2> QED
      OBVIOUS
  <1>4. PICK f \in [0..n -> Seq(K)] : f = [k \in 0..n |-> IF k = 0 THEN <<>> ELSE g[f[k - 1]]]
    <2> HIDE DEF K, n, g
    <2>1. PICK f \in [0..n -> Seq(K)] : Repeats(f, n, <<>>, g)
      BY <1>1, <1>2, <1>3, Iterates
    <2> QED
      BY <2>1 DEF Repeats
  <1>5. \A k \in 0..n : k # 0 => f[k - 1] \in Seq(K)
    <2> HIDE DEF K, n, g
    <2>1. TAKE k \in 0..n
    <2>2. k # 0 => k - 1 \in 0..n
      BY <1>1
    <2> QED
      BY <1>4, <2>2
  <1>6. Steps(nodes, f)
    <2>1. \A k \in 0..n : k # 0 => g[f[k - 1]] = Extended(nodes, f[k - 1])
      BY <1>5
    <2> HIDE DEF g, K
    <2>2. f = [k \in 0..n |-> IF k = 0 THEN <<>> ELSE Extended(nodes, f[k - 1])]
      BY <1>4, <2>1
    <2> QED
      BY <2>2 DEF Steps
  <1> DEFINE step == CHOOSE s : Steps(nodes, s)
  <1>7. Steps(nodes, step)
    BY <1>6
  <1>8. TopologicalOrder(nodes) = step[Len(nodes)]
    BY DEF TopologicalOrder, Steps
  <1> QED
    BY <1>7, <1>8

\* The order is arranged, and it is full unless nothing more is ready.
LEMMA OrderIs ==
    ASSUME NEW nodes, Sortable(nodes), NEW order, order = TopologicalOrder(nodes)
    PROVE  /\ Arranged(nodes, order)
           /\ Len(order) = Len(nodes) \/ Frontier(nodes, Listed(order)) = {}
  <1> DEFINE n == Len(nodes)
             Fine(o, k) == /\ Arranged(nodes, o)
                           /\ Len(o) = k \/ Frontier(nodes, Listed(o)) = {}
  <1>1. n \in Nat
    BY SeqIs DEF Sortable, IsSeq
  <1>2. PICK step : Steps(nodes, step) /\ order = step[n]
    BY StepsExist
  <1>3. \A k \in 0..n : step[k] = IF k = 0 THEN <<>> ELSE Extended(nodes, step[k - 1])
    BY <1>2 DEF Steps
  <1> DEFINE S == {k \in 0..n : Fine(step[k], k)}
  <1>4. 0 \in S
    <2>1. step[0] = <<>> /\ 0 \in 0..n
      BY <1>1, <1>3
    <2>2. PICK K : K = Keys(nodes)
      OBVIOUS
    <2>3. <<>> \in Seq(K) /\ DOMAIN <<>> = {} /\ Len(<<>>) = 0
      OBVIOUS
    <2>4. Arranged(nodes, <<>>)
      BY <2>2, <2>3 DEF Arranged, Distinct
    <2> QED
      BY <2>1, <2>3, <2>4
  <1>5. ASSUME NEW k \in 0..n, k # 0, k - 1 \in S PROVE k \in S
    <2>1. PICK o : o = step[k - 1]
      OBVIOUS
    <2>2. Fine(o, k - 1)
      BY <1>5, <2>1
    <2>3. step[k] = Extended(nodes, o)
      BY <1>3, <1>5, <2>1
    <2>4. Arranged(nodes, Extended(nodes, o))
      BY <2>2, ArrangedOn
    <2>5. o \in Seq(Keys(nodes))
      BY <2>2 DEF Arranged
    <2>6. CASE Frontier(nodes, Listed(o)) = {}
      <3>1. Extended(nodes, o) = o
        BY <2>5, <2>6, ExtendedIs
      <3> QED
        BY <2>3, <2>4, <2>6, <3>1
    <2>7. CASE Frontier(nodes, Listed(o)) # {}
      <3>1. Len(o) = k - 1
        BY <2>2, <2>7
      <3>2. PICK key : Extended(nodes, o) = Append(o, key)
        BY <2>5, <2>7, ExtendedIs
      <3>3. PICK K : K = Keys(nodes)
        OBVIOUS
      <3>4. Len(Append(o, key)) = Len(o) + 1
        BY <2>5, <3>3
      <3>5. Len(Extended(nodes, o)) = k
        BY <3>1, <3>2, <3>4, <1>1
      <3> QED
        BY <2>3, <2>4, <3>5
    <2> QED
      BY <2>6, <2>7
  <1>6. n \in S
    <2> HIDE DEF S
    <2>1. n \in 0..n
      BY <1>1
    <2>2. \A k \in 0..n : k \in S
      <3> HIDE DEF n
      <3> QED
        BY <1>1, <1>4, <1>5, Climb
    <2> QED
      BY <2>1, <2>2
  <1> QED
    BY <1>2, <1>6

-----------------------------------------------------------------------------
(* Compiling *)

\* What _compile_nodes makes of a template, and why a template may be refused before.
Compiled(template, parameters, policies) ==
    [i \in DOMAIN template |-> CompiledNode(template[i], parameters, policies)]

Invalid(template, parameters, policies) ==
    \/ DuplicateKeys(template)
    \/ \E i \in DOMAIN template : \/ InvalidInputs(template[i], Keys(template))
                                  \/ Unresolved(template[i], parameters, policies)

\* The three results of a compilation.
LEMMA CompileIs ==
    ASSUME NEW template, NEW parameters, NEW policies,
           NEW graph, graph = Compile(template, parameters, policies),
           NEW nodes, nodes = Compiled(template, parameters, policies)
    PROVE  /\ graph.error = "INVALID_GRAPH" <=> Invalid(template, parameters, policies)
           /\ graph.error = "GRAPH_CYCLE" <=>
                /\ ~Invalid(template, parameters, policies)
                /\ Len(TopologicalOrder(nodes)) # Len(nodes)
           /\ graph.error = "NONE" <=>
                /\ ~Invalid(template, parameters, policies)
                /\ Len(TopologicalOrder(nodes)) = Len(nodes)
           /\ graph.error = "NONE" => /\ graph.nodes = nodes /\ graph.hash = Listed(nodes)
                                      /\ graph.order = TopologicalOrder(nodes)
  <1> DEFINE order == TopologicalOrder(nodes)
             sorted == [error |-> "NONE", nodes |-> nodes, order |-> order, hash |-> Listed(nodes)]
  <1>1. graph = IF Invalid(template, parameters, policies) THEN [error |-> "INVALID_GRAPH"]
                ELSE IF Len(order) # Len(nodes) THEN [error |-> "GRAPH_CYCLE"] ELSE sorted
    BY DEF Compile, Invalid, Compiled, Listed
  <1>2. /\ sorted.error = "NONE" /\ sorted.nodes = nodes /\ sorted.order = order
        /\ sorted.hash = Listed(nodes)
    OBVIOUS
  <1> HIDE DEF sorted, order
  <1>3. /\ [error |-> "INVALID_GRAPH"].error = "INVALID_GRAPH"
        /\ [error |-> "GRAPH_CYCLE"].error = "GRAPH_CYCLE"
    OBVIOUS
  <1> QED
    BY <1>1, <1>2, <1>3 DEF order

\* A compiled node keeps its key and its inputs.
LEMMA CompiledIs ==
    ASSUME NEW template, Sortable(template), NEW parameters, NEW policies,
           NEW nodes, nodes = Compiled(template, parameters, policies)
    PROVE  /\ DOMAIN nodes = DOMAIN template /\ Len(nodes) = Len(template)
           /\ \A i \in DOMAIN template :
                nodes[i].key = template[i].key /\ Upstream(nodes[i]) = Upstream(template[i])
           /\ Keys(nodes) = Keys(template)
           /\ Sortable(nodes)
  <1> DEFINE n == Len(template)
  <1>1. n \in Nat /\ DOMAIN template = 1..n
    BY SeqIs DEF Sortable, IsSeq
  <1>2. /\ DOMAIN nodes = 1..n
        /\ \A i \in 1..n : nodes[i] = CompiledNode(template[i], parameters, policies)
    BY <1>1 DEF Compiled
  <1>3. nodes \in [1..n -> Listed(nodes)]
    <2>1. nodes = [i \in 1..n |-> nodes[i]]
      BY <1>1 DEF Compiled
    <2> QED
      BY <1>2, <2>1 DEF Listed
  <1>4. IsSeq(nodes) /\ Len(nodes) = n
    <2> HIDE DEF n
    <2>1. PICK T : T = Listed(nodes)
      OBVIOUS
    <2>2. nodes \in Seq(T) /\ Len(nodes) = n
      BY <1>1, <1>2, <1>3, <2>1
    <2> QED
      BY <2>1, <2>2 DEF IsSeq
  <1>5. \A i \in 1..n : /\ nodes[i].key = template[i].key
                        /\ nodes[i].inputs = template[i].inputs
    BY <1>2 DEF CompiledNode
  <1>6. \A i \in 1..n : Upstream(nodes[i]) = Upstream(template[i])
    BY <1>5 DEF Upstream
  <1>7. Keys(nodes) = Keys(template)
    BY <1>1, <1>2, <1>5 DEF Keys
  <1> QED
    BY <1>1, <1>2, <1>4, <1>5, <1>6, <1>7 DEF Sortable

\* Nodes without a common key are as many as their keys.
LEMMA KeyCount ==
    ASSUME NEW nodes, IsSeq(nodes)
    PROVE  /\ IsFiniteSet(Keys(nodes)) /\ Cardinality(Keys(nodes)) <= Len(nodes)
           /\ Cardinality(Keys(nodes)) = Len(nodes) <=> ~DuplicateKeys(nodes)
  <1> DEFINE n == Len(nodes)  keys == [i \in 1..n |-> nodes[i].key]
  <1>1. n \in Nat /\ DOMAIN nodes = 1..n
    BY SeqIs DEF IsSeq
  <1>2. Listed(keys) = Keys(nodes)
    BY <1>1 DEF Listed, Keys
  <1>3. Distinct(keys) <=> ~DuplicateKeys(nodes)
    BY <1>1 DEF Distinct, DuplicateKeys
  <1>4. keys \in [1..n -> Keys(nodes)]
    BY <1>1 DEF Keys
  <1>5. PICK K, k : K = Keys(nodes) /\ k = keys
    OBVIOUS
  <1>6. k \in Seq(K) /\ Len(k) = n
    <2>1. DOMAIN k = 1..n /\ k \in [1..n -> K]
      BY <1>4, <1>5
    <2> HIDE DEF n, keys
    <2> QED
      BY <1>1, <2>1
  <1>7. /\ IsFiniteSet(Listed(k)) /\ Cardinality(Listed(k)) <= Len(k)
        /\ Cardinality(Listed(k)) = Len(k) <=> Distinct(k)
    BY <1>6, ListedCount
  <1> QED
    BY <1>2, <1>3, <1>5, <1>6, <1>7

\* topological_order lists every node once, and whatever has an edge into a node
\* before it.
THEOREM OrderRespectsEdges ==
    ASSUME NEW template, Sortable(template), NEW parameters, NEW policies,
           NEW graph, graph = Compile(template, parameters, policies), graph.error = "NONE"
    PROVE  /\ Distinct(graph.order) /\ Listed(graph.order) = Keys(template)
           /\ \A i \in DOMAIN graph.order, j \in DOMAIN template :
                template[j].key = graph.order[i] =>
                  Upstream(template[j]) \subseteq {graph.order[h] : h \in 1..(i - 1)}
  <1>1. PICK nodes : nodes = Compiled(template, parameters, policies)
    OBVIOUS
  <1>2. /\ graph.order = TopologicalOrder(nodes) /\ Len(graph.order) = Len(nodes)
        /\ ~Invalid(template, parameters, policies)
    BY <1>1, CompileIs
  <1>3. PICK order : order = graph.order
    OBVIOUS
  <1>4. /\ Sortable(nodes) /\ Keys(nodes) = Keys(template) /\ Len(nodes) = Len(template)
        /\ DOMAIN nodes = DOMAIN template
        /\ \A j \in DOMAIN template :
             nodes[j].key = template[j].key /\ Upstream(nodes[j]) = Upstream(template[j])
    BY <1>1, CompiledIs
  <1>5. Arranged(nodes, order)
    BY <1>2, <1>3, <1>4, OrderIs
  <1>6. Listed(order) = Keys(template)
    <2>1. PICK K, c : K = Keys(template) /\ c = Cardinality(Listed(order))
      OBVIOUS
    <2>2. order \in Seq(K) /\ Distinct(order)
      BY <1>4, <1>5, <2>1 DEF Arranged
    <2>3. Listed(order) \subseteq K /\ c = Len(template)
      BY <1>2, <1>3, <1>4, <2>1, <2>2, SeqIs, ListedCount
    <2>4. IsFiniteSet(K) /\ Cardinality(K) <= Len(template) /\ Cardinality(K) \in Nat
      <3>1. IsSeq(template)
        BY DEF Sortable
      <3> QED
        BY <2>1, <3>1, KeyCount, FS_CardinalityType
    <2>5. Cardinality(Listed(order)) <= Cardinality(K)
      BY <2>3, <2>4, FS_Subset
    <2>6. Cardinality(K) = Cardinality(Listed(order))
      <3>1. Len(template) \in Nat
        BY SeqIs DEF Sortable, IsSeq
      <3> QED
        BY <2>1, <2>3, <2>4, <2>5, <3>1
    <2>7. K = Listed(order)
      BY <2>3, <2>4, <2>6, FS_Subset
    <2> QED
      BY <2>1, <2>7
  <1>7. ASSUME NEW i \in DOMAIN order, NEW j \in DOMAIN template, template[j].key = order[i]
        PROVE  Upstream(template[j]) \subseteq {order[h] : h \in 1..(i - 1)}
    <2>1. PICK l \in DOMAIN nodes :
            nodes[l].key = order[i] /\ Upstream(nodes[l]) \subseteq {order[h] : h \in 1..(i - 1)}
      BY <1>5 DEF Arranged
    <2>2. l = j
      BY <1>2, <1>4, <1>7, <2>1 DEF Invalid, DuplicateKeys
    <2> QED
      BY <1>4, <2>1, <2>2
  <1>8. Distinct(order)
    BY <1>5 DEF Arranged
  <1> QED
    BY <1>3, <1>6, <1>7, <1>8

\* "GRAPH_CYCLE" is said of the templates that have a cycle and of no other: Kahn's
\* algorithm comes to a halt before its end exactly when the nodes that are left
\* wait for each other.
THEOREM RefusedForItsCycles ==
    ASSUME NEW template, Sortable(template), NEW parameters, NEW policies,
           NEW graph, graph = Compile(template, parameters, policies),
           graph.error # "INVALID_GRAPH"
    PROVE  graph.error = "GRAPH_CYCLE" <=> Cyclic(template)
  <1>1. PICK nodes : nodes = Compiled(template, parameters, policies)
    OBVIOUS
  <1>2. PICK order : order = TopologicalOrder(nodes)
    OBVIOUS
  <1>3. /\ graph.error = "GRAPH_CYCLE" <=> Len(order) # Len(nodes)
        /\ graph.error = "NONE" <=> Len(order) = Len(nodes)
        /\ graph.error = "NONE" => graph.order = order
        /\ ~Invalid(template, parameters, policies)
    BY <1>1, <1>2, CompileIs
  <1>4. /\ Sortable(nodes) /\ Keys(nodes) = Keys(template) /\ Len(nodes) = Len(template)
        /\ DOMAIN nodes = DOMAIN template
        /\ \A j \in DOMAIN template :
             nodes[j].key = template[j].key /\ Upstream(nodes[j]) = Upstream(template[j])
    BY <1>1, CompiledIs
  <1>5. Arranged(nodes, order) /\ (Len(order) = Len(nodes) \/ Frontier(nodes, Listed(order)) = {})
    BY <1>2, <1>4, OrderIs
  <1>6. ASSUME Len(order) # Len(nodes) PROVE Cyclic(template)
    <2> DEFINE T == {i \in DOMAIN template : template[i].key \notin Listed(order)}
    <2>1. T # {}
      <3>1. SUFFICES ASSUME T = {} PROVE FALSE
        OBVIOUS
      <3>2. Listed(order) = Keys(template)
        <4>1. Keys(template) \subseteq Listed(order)
          BY <3>1 DEF Keys
        <4>2. PICK K : K = Keys(template)
          OBVIOUS
        <4>3. Listed(order) \subseteq K
          BY <1>4, <1>5, <4>2, SeqIs DEF Arranged
        <4> QED
          BY <4>1, <4>2, <4>3
      <3>3. Cardinality(Listed(order)) = Len(order)
        <4>1. PICK K : K = Keys(template)
          OBVIOUS
        <4>2. order \in Seq(K) /\ Distinct(order)
          BY <1>4, <1>5, <4>1 DEF Arranged
        <4> QED
          BY <4>2, ListedCount
      <3>4. Cardinality(Keys(template)) = Len(template)
        BY <1>3, KeyCount DEF Invalid, Sortable
      <3> QED
        BY <1>4, <1>6, <3>2, <3>3, <3>4
    <2>2. ASSUME NEW i \in T PROVE \E j \in T : template[j].key \in Upstream(template[i])
      <3>1. ~(Upstream(template[i]) \subseteq Listed(order))
        <4>1. template[i].key \notin Frontier(nodes, Listed(order))
          BY <1>5, <1>6
        <4> QED
          BY <1>4, <4>1, FrontierIs
      <3>2. PICK key \in Upstream(template[i]) : key \notin Listed(order)
        BY <3>1
      <3>3. Upstream(template[i]) \subseteq Keys(template)
        BY <1>3 DEF Invalid, InvalidInputs
      <3>4. PICK j \in DOMAIN template : template[j].key = key
        BY <3>2, <3>3 DEF Keys
      <3> QED
        BY <3>2, <3>4
    <2> HIDE DEF T
    <2>3. T \in SUBSET DOMAIN template
      BY DEF T
    <2> QED
      BY <2>1, <2>2, <2>3 DEF Cyclic
  <1>7. ASSUME Len(order) = Len(nodes), Cyclic(template) PROVE FALSE
    <2>1. graph.error = "NONE" /\ graph.order = order
      BY <1>3, <1>7
    <2>2. /\ Listed(order) = Keys(template)
          /\ \A i \in DOMAIN order, j \in DOMAIN template :
               template[j].key = order[i] =>
                 Upstream(template[j]) \subseteq {order[h] : h \in 1..(i - 1)}
      <3>1. /\ Listed(graph.order) = Keys(template)
            /\ \A i \in DOMAIN graph.order, j \in DOMAIN template :
                 template[j].key = graph.order[i] =>
                   Upstream(template[j]) \subseteq {graph.order[h] : h \in 1..(i - 1)}
        BY <2>1, OrderRespectsEdges
      <3> QED
        BY <2>1, <3>1
    <2>3. PICK T \in SUBSET DOMAIN template :
            T # {} /\ \A i \in T : \E j \in T : template[j].key \in Upstream(template[i])
      BY <1>7 DEF Cyclic
    <2> DEFINE P == {p \in DOMAIN order : \E i \in T : template[i].key = order[p]}
    <2>4. DOMAIN order \subseteq Nat
      <3>1. PICK K : K = Keys(nodes)
        OBVIOUS
      <3>2. order \in Seq(K)
        BY <1>5, <3>1 DEF Arranged
      <3>3. DOMAIN order = 1..Len(order) /\ Len(order) \in Nat
        BY <3>2, SeqIs
      <3> QED
        BY <3>3
    <2>5. ASSUME NEW i \in T PROVE \E p \in P : template[i].key = order[p]
      <3>1. template[i].key \in Listed(order)
        BY <2>2 DEF Keys
      <3> QED
        BY <3>1 DEF Listed
    <2>6. PICK p \in P : \A k \in P : p <= k
      <3>1. P # {} /\ P \subseteq Nat
        BY <2>3, <2>4, <2>5
      <3> HIDE DEF P
      <3> QED
        BY <3>1, LeastNumber
    <2>7. PICK i \in T : template[i].key = order[p]
      BY <2>6
    <2>8. PICK j \in T : template[j].key \in Upstream(template[i])
      BY <2>3
    <2>9. PICK h \in 1..(p - 1) : template[j].key = order[h]
      BY <2>2, <2>6, <2>7, <2>8
    <2>10. p \in 1..Len(order) /\ Len(order) \in Nat /\ DOMAIN order = 1..Len(order)
      <3>1. PICK K : K = Keys(nodes)
        OBVIOUS
      <3>2. order \in Seq(K)
        BY <1>5, <3>1 DEF Arranged
      <3>3. DOMAIN order = 1..Len(order) /\ Len(order) \in Nat
        BY <3>2, SeqIs
      <3> QED
        BY <2>6, <3>3
    <2>11. h \in DOMAIN order /\ ~(p <= h)
      BY <2>9, <2>10
    <2> QED
      BY <2>6, <2>9, <2>11
  <1> QED
    BY <1>3, <1>6, <1>7

\* The node that has a key is the one with that key.
LEMMA ByKeyIs ==
    ASSUME NEW nodes, NEW key \in Keys(nodes)
    PROVE  \E j \in DOMAIN nodes : nodes[j].key = key /\ ByKey(nodes, key) = nodes[j]
  BY DEF Keys, ByKey

\* What Impact assumes of a graph, the compiler ensures of every graph it accepts: of
\* any of its nodes, there is one that reads none of them.
THEOREM CompiledIsAcyclic ==
    ASSUME NEW template, Sortable(template), NEW parameters, NEW policies,
           NEW graph, graph = Compile(template, parameters, policies), graph.error = "NONE"
    PROVE  /\ IsFiniteSet(Keys(graph.nodes))
           /\ \A T \in SUBSET Keys(graph.nodes) :
                T # {} => \E key \in T : Upstream(ByKey(graph.nodes, key)) \cap T = {}
  <1>1. PICK nodes : nodes = Compiled(template, parameters, policies)
    OBVIOUS
  <1>2. graph.nodes = nodes
    BY <1>1, CompileIs
  <1>3. /\ Sortable(nodes) /\ Keys(nodes) = Keys(template) /\ DOMAIN nodes = DOMAIN template
        /\ \A j \in DOMAIN template :
             nodes[j].key = template[j].key /\ Upstream(nodes[j]) = Upstream(template[j])
    BY <1>1, CompiledIs
  <1>4. ~Cyclic(template)
    BY RefusedForItsCycles
  <1>5. ASSUME NEW T \in SUBSET Keys(nodes), T # {},
               \A key \in T : Upstream(ByKey(nodes, key)) \cap T # {}
        PROVE  FALSE
    <2> DEFINE P == {i \in DOMAIN template : template[i].key \in T /\ ByKey(nodes, template[i].key) = nodes[i]}
    <2>1. \A key \in T : \E i \in P : template[i].key = key
      BY <1>3, ByKeyIs
    <2>2. P # {}
      BY <1>5, <2>1
    <2>3. ASSUME NEW i \in P PROVE \E j \in P : template[j].key \in Upstream(template[i])
      <3>1. Upstream(template[i]) \cap T # {}
        BY <1>3, <1>5
      <3> QED
        BY <2>1, <3>1
    <2> HIDE DEF P
    <2>4. P \in SUBSET DOMAIN template
      BY DEF P
    <2> QED
      BY <1>4, <2>2, <2>3, <2>4 DEF Cyclic
  <1>6. IsFiniteSet(Keys(nodes))
    BY <1>3, KeyCount DEF Sortable
  <1> QED
    BY <1>2, <1>5, <1>6

\* What is ready depends on the nodes, not on their places.
LEMMA SameFrontier ==
    ASSUME NEW nodes, NEW others, Listed(nodes) = Listed(others), NEW done
    PROVE  Frontier(nodes, done) = Frontier(others, done)
  <1> DEFINE Ready(s) == {x.key : x \in {y \in Listed(s) : y.key \notin done /\ Upstream(y) \subseteq done}}
  <1>1. ASSUME NEW s PROVE Frontier(s, done) = Ready(s)
    <2>1. \A key : key \in Frontier(s, done) => key \in Ready(s)
      BY DEF Frontier, Listed
    <2>2. \A key : key \in Ready(s) => key \in Frontier(s, done)
      BY DEF Frontier, Listed
    <2> QED
      BY <2>1, <2>2
  <1>2. Ready(nodes) = Ready(others)
    OBVIOUS
  <1> QED
    BY <1>1, <1>2

\* Nor does their order.
LEMMA SameOrder ==
    ASSUME NEW nodes, NEW others, Sortable(nodes), Sortable(others),
           Listed(nodes) = Listed(others), Len(nodes) = Len(others)
    PROVE  TopologicalOrder(nodes) = TopologicalOrder(others)
  <1> DEFINE n == Len(nodes)
  <1>1. PICK step : Steps(nodes, step) /\ TopologicalOrder(nodes) = step[n]
    BY StepsExist
  <1>2. PICK other : Steps(others, other) /\ TopologicalOrder(others) = other[n]
    BY StepsExist
  <1>3. \A order : Extended(nodes, order) = Extended(others, order)
    <2>1. \A done : Frontier(nodes, done) = Frontier(others, done)
      BY SameFrontier
    <2> QED
      BY <2>1 DEF Extended
  <1>4. /\ \A k \in 0..n : step[k] = IF k = 0 THEN <<>> ELSE Extended(nodes, step[k - 1])
        /\ \A k \in 0..n : other[k] = IF k = 0 THEN <<>> ELSE Extended(nodes, other[k - 1])
    BY <1>1, <1>2, <1>3 DEF Steps
  <1> DEFINE S == {k \in 0..n : step[k] = other[k]}
  <1>5. n \in Nat
    BY SeqIs DEF Sortable, IsSeq
  <1>6. 0 \in S
    BY <1>4, <1>5
  <1>7. ASSUME NEW k \in 0..n, k # 0, k - 1 \in S PROVE k \in S
    BY <1>4, <1>7
  <1>8. \A k \in 0..n : k \in S
    <2> HIDE DEF S, n
    <2> QED
      BY <1>5, <1>6, <1>7, Climb
  <1>9. n \in S
    BY <1>5, <1>8
  <1> QED
    BY <1>1, <1>2, <1>9

\* "The result depends only on graph structure, never on list ordering" (compiler.py):
\* templates that list the same nodes, in whatever order, are refused for the same
\* reason or compile to the same order and hash.
THEOREM ListingDoesNotMatter ==
    ASSUME NEW template, Sortable(template), NEW other, Sortable(other),
           Listed(template) = Listed(other), Len(template) = Len(other),
           NEW parameters, NEW policies,
           NEW graph, graph = Compile(template, parameters, policies),
           NEW again, again = Compile(other, parameters, policies)
    PROVE  /\ graph.error = again.error
           /\ graph.error = "NONE" => graph.order = again.order /\ graph.hash = again.hash
  <1>1. PICK nodes : nodes = Compiled(template, parameters, policies)
    OBVIOUS
  <1>2. PICK others : others = Compiled(other, parameters, policies)
    OBVIOUS
  <1>3. Listed(nodes) = Listed(others)
    <2>1. ASSUME NEW s PROVE Listed(Compiled(s, parameters, policies)) =
                                {CompiledNode(x, parameters, policies) : x \in Listed(s)}
      BY DEF Compiled, Listed
    <2> QED
      BY <1>1, <1>2, <2>1
  <1>4. Sortable(nodes) /\ Sortable(others) /\ Len(nodes) = Len(others)
    BY <1>1, <1>2, CompiledIs
  <1>5. TopologicalOrder(nodes) = TopologicalOrder(others)
    BY <1>3, <1>4, SameOrder
  <1>6. Keys(template) = Keys(other)
    <2>1. ASSUME NEW s PROVE Keys(s) = {x.key : x \in Listed(s)}
      BY DEF Keys, Listed
    <2> QED
      BY <2>1
  <1>7. DuplicateKeys(template) <=> DuplicateKeys(other)
    BY <1>6, KeyCount DEF Sortable
  <1>8. Invalid(template, parameters, policies) <=> Invalid(other, parameters, policies)
    <2> DEFINE Bad(x) == \/ InvalidInputs(x, Keys(template))
                         \/ Unresolved(x, parameters, policies)
    <2>1. \A s : (\E i \in DOMAIN s : Bad(s[i])) <=> \E x \in Listed(s) : Bad(x)
      <3> HIDE DEF Bad
      <3> QED
        BY DEF Listed
    <2> QED
      BY <1>6, <1>7, <2>1 DEF Invalid
  <1>9. /\ graph.error = "INVALID_GRAPH" \/ graph.error = "GRAPH_CYCLE" \/ graph.error = "NONE"
        /\ again.error = "INVALID_GRAPH" \/ again.error = "GRAPH_CYCLE" \/ again.error = "NONE"
    BY CompileIs
  <1>10. graph.error = again.error
    BY <1>1, <1>2, <1>4, <1>5, <1>8, <1>9, CompileIs
  <1> QED
    BY <1>1, <1>2, <1>3, <1>5, <1>10, CompileIs

-----------------------------------------------------------------------------
(* Orphans *)

\* What feeds some nodes of a graph are nodes of the graph.
LEMMA UpstreamIsKnown ==
    ASSUME NEW nodes, \A j \in DOMAIN nodes : Upstream(nodes[j]) \subseteq Keys(nodes),
           NEW found \in SUBSET Keys(nodes)
    PROVE  WithUpstream(nodes, found) \in SUBSET Keys(nodes)
  <1>1. \A key \in found : Upstream(ByKey(nodes, key)) \subseteq Keys(nodes)
    BY ByKeyIs
  <1> QED
    BY <1>1 DEF WithUpstream

\* assert_reaches does what it says: in a graph without orphans, every required node
\* is a deliverable or feeds another node.
THEOREM NoOrphanIsRead ==
    ASSUME NEW template, Sortable(template), NEW parameters, NEW policies,
           NEW graph, graph = Compile(template, parameters, policies), graph.error = "NONE",
           NEW deliverables, deliverables \subseteq Keys(graph.nodes),
           Orphaned(graph, deliverables) = {},
           NEW key \in Keys(graph.nodes), ByKey(graph.nodes, key).required,
           key \notin deliverables
    PROVE  \E reader \in Keys(graph.nodes) : key \in Upstream(ByKey(graph.nodes, reader))
  <1>1. PICK nodes : nodes = graph.nodes
    OBVIOUS
  <1>2. /\ nodes = Compiled(template, parameters, policies)
        /\ ~Invalid(template, parameters, policies)
    BY <1>1, CompileIs
  <1>3. \A j \in DOMAIN nodes : Upstream(nodes[j]) \subseteq Keys(nodes)
    <2>1. \A j \in DOMAIN template : Upstream(template[j]) \subseteq Keys(template)
      BY <1>2 DEF Invalid, InvalidInputs
    <2> QED
      BY <1>2, <2>1, CompiledIs
  <1> DEFINE K == Keys(nodes)  n == Len(nodes)
             Next(s) == WithUpstream(nodes, s)
             g == [s \in SUBSET K |-> Next(s)]
             Is(f) == f = [k \in 0..n |-> IF k = 0 THEN deliverables ELSE Next(f[k - 1])]
             reaching == CHOOSE f : Is(f)
  <1>4. n \in Nat
    BY <1>2, CompiledIs, SeqIs DEF Sortable, IsSeq
  <1>5. g \in [SUBSET K -> SUBSET K] /\ deliverables \in SUBSET K
    BY <1>1, <1>3, UpstreamIsKnown
  <1>6. PICK f \in [0..n -> SUBSET K] : Repeats(f, n, deliverables, g)
    <2>1. PICK D : D = SUBSET K
      OBVIOUS
    <2> HIDE DEF K, n, g
    <2>2. \E f \in [0..n -> D] : Repeats(f, n, deliverables, g)
      BY <1>4, <1>5, <2>1, Iterates
    <2> QED
      BY <2>1, <2>2
  <1>7. Is(f)
    <2>1. ASSUME NEW k \in 0..n, k # 0 PROVE g[f[k - 1]] = Next(f[k - 1])
      <3>1. k - 1 \in 0..n
        BY <1>4, <2>1
      <3>2. f[k - 1] \in SUBSET K
        <4> HIDE DEF K, n
        <4> QED
          BY <1>6, <3>1
      <3> HIDE DEF Next, K
      <3> QED
        BY <3>2
    <2> HIDE DEF g, Next, n
    <2> QED
      BY <1>6, <2>1 DEF Repeats
  <1>8. Is(reaching)
    <2> HIDE DEF Is
    <2> QED
      BY <1>7
  <1>9. Orphaned(graph, deliverables) =
          {k \in K : ByKey(nodes, k).required /\ k \notin reaching[n]}
    BY <1>1 DEF Orphaned
  <1>10. key \in reaching[n]
    <2> HIDE DEF reaching
    <2> QED
      BY <1>1, <1>9
  <1> HIDE DEF reaching
  <1>11. \A k \in 0..n : reaching[k] = IF k = 0 THEN deliverables ELSE Next(reaching[k - 1])
    <2> HIDE DEF Next, n
    <2> QED
      BY <1>8
  <1> DEFINE Fed(s) == s \subseteq K /\ \A x \in s : x \in deliverables \/ \E y \in K : x \in Upstream(ByKey(nodes, y))
             S == {k \in 0..n : Fed(reaching[k])}
  <1>12. 0 \in S
    BY <1>4, <1>5, <1>11
  <1>13. ASSUME NEW k \in 0..n, k # 0, k - 1 \in S PROVE k \in S
    <2>1. PICK s : s = reaching[k - 1]
      OBVIOUS
    <2>2. Fed(s) /\ reaching[k] = Next(s)
      BY <1>11, <1>13, <2>1
    <2>3. Next(s) \subseteq K
      BY <1>3, <2>2, UpstreamIsKnown
    <2>4. \A x \in Next(s) : x \in s \/ \E y \in s : x \in Upstream(ByKey(nodes, y))
      BY DEF WithUpstream
    <2>5. Fed(Next(s))
      <3> HIDE DEF Next, K
      <3> QED
        BY <2>2, <2>3, <2>4
    <2> QED
      BY <2>2, <2>5
  <1>14. Fed(reaching[n])
    <2>1. \A k \in 0..n : k \in S
      <3> HIDE DEF S, n
      <3> QED
        BY <1>4, <1>12, <1>13, Climb
    <2>2. n \in S
      BY <1>4, <2>1
    <2> QED
      BY <2>2
  <1> QED
    BY <1>1, <1>10, <1>14

=============================================================================
