------------------------ MODULE WorkflowRunnerProofs ------------------------
(***************************************************************************)
(* What holds of a run of any graphs that a save accepts, whatever its     *)
(* steps answer, its conditions decide and however often its loops iterate:*)
(* a node is settled after all that lies before it, and none that can run  *)
(* is left behind; the nodes of a body run in their loop only; every node  *)
(* is accounted for in the end; and a loop never pushes an old result.     *)
(***************************************************************************)
EXTENDS WorkflowRunner, FiniteSetTheorems, SequenceTheorems, WellFoundedInduction, TLAPS

(* Induction.                                                              *)
Less == OpToRel(<, Nat)

LEMMA Least ==
  ASSUME NEW T, T \subseteq Nat, T # {}
  PROVE  \E x \in T : \A y \in T : x <= y
<1>1. IsWellFoundedOn(Less, Nat)
  BY NatLessThanWellFounded, Zenon DEF Less
<1>2. \A x, y \in Nat : <<x, y>> \in Less <=> x < y
  BY DEF Less, OpToRel
<1>3. PICK x \in T : \A y \in T : <<y, x>> \notin Less
  BY <1>1, WFMin, Zenon
<1>4. x \in Nat /\ \A y \in T : y \in Nat
  OBVIOUS
<1>5. \A y \in T : ~(y < x)
  BY <1>2, <1>3, <1>4, Zenon
<1>6. \A y \in T : x <= y
  BY <1>4, <1>5
<1> QED BY <1>6

LEMMA Induction ==
  ASSUME NEW P \in SUBSET Nat, 0 \in P, \A n \in P : n + 1 \in P
  PROVE  P = Nat
<1> SUFFICES ASSUME P # Nat PROVE FALSE
  OBVIOUS
<1>1. Nat \ P \subseteq Nat /\ Nat \ P # {}
  OBVIOUS
<1>2. PICK m \in Nat \ P : \A y \in Nat \ P : m <= y
  BY <1>1, Least, Zenon
<1>3. m # 0 /\ m - 1 \in Nat /\ ~(m <= m - 1) /\ (m - 1) + 1 = m
  BY <1>2
<1>4. m - 1 \in P
  BY <1>2, <1>3
<1> QED BY <1>2, <1>3, <1>4
-----------------------------------------------------------------------------
(* What edges lead to.                                                     *)
Spreads(f, n, S, E) == f = [k \in 0..n |-> IF k = 0 THEN S ELSE Further(f[k - 1], E)]

LEMMA SpreadExists ==
  ASSUME NEW S, NEW E
  PROVE  \A n \in Nat : \E f : Spreads(f, n, S, E)
<1> DEFINE P == {n \in Nat : \E f : Spreads(f, n, S, E)}
<1>1. 0 \in P
  <2> DEFINE f == [k \in 0..0 |-> S]
  <2>1. Spreads(f, 0, S, E)
    BY DEF Spreads
  <2> QED BY <2>1
<1>2. ASSUME NEW n \in P PROVE n + 1 \in P
  <2>1. PICK f : Spreads(f, n, S, E)
    OBVIOUS
  <2> DEFINE h == [k \in 0..(n + 1) |-> IF k = n + 1 THEN Further(f[n], E) ELSE f[k]]
  <2>2. n \in Nat
    OBVIOUS
  <2>3. \A k \in 0..n : h[k] = f[k] /\ f[k] = IF k = 0 THEN S ELSE Further(f[k - 1], E)
    BY <2>1, <2>2 DEF Spreads
  <2>4. h[n + 1] = Further(f[n], E) /\ h[n] = f[n]
    BY <2>2
  <2>5. \A k \in 0..(n + 1) : h[k] = IF k = 0 THEN S ELSE Further(h[k - 1], E)
    <3> HIDE DEF h
    <3> TAKE k \in 0..(n + 1)
    <3>1. CASE k = n + 1
      BY <2>2, <2>4, <3>1
    <3>2. CASE k \in 0..n
      <4>1. k # 0 => k - 1 \in 0..n
        BY <2>2, <3>2
      <4>2. k # 0 => h[k - 1] = f[k - 1]
        BY <2>3, <4>1
      <4> QED BY <2>3, <3>2, <4>2
    <3> QED BY <2>2, <3>1, <3>2
  <2>6. Spreads(h, n + 1, S, E)
    <3>1. h = [k \in 0..(n + 1) |-> h[k]]
      OBVIOUS
    <3> HIDE DEF h
    <3> QED BY <2>5, <3>1, Zenon DEF Spreads
  <2>7. n + 1 \in Nat
    BY <2>2
  <2> QED BY <2>6, <2>7
<1> HIDE DEF P
<1>3. P = Nat
  <2>1. P \in SUBSET Nat
    BY DEF P
  <2> QED BY <1>1, <1>2, <2>1, Induction, Zenon
<1> QED BY <1>3 DEF P

LEMMA SpreadStep ==
  ASSUME NEW g, NEW S, NEW E, Cardinality(g.nodes) \in Nat
  PROVE  \A k \in 0..Cardinality(g.nodes) :
           Spread(g, S, E)[k] = IF k = 0 THEN S ELSE Further(Spread(g, S, E)[k - 1], E)
<1>1. \E f : Spreads(f, Cardinality(g.nodes), S, E)
  BY SpreadExists
<1>2. Spread(g, S, E) = CHOOSE f : Spreads(f, Cardinality(g.nodes), S, E)
  BY Zenon DEF Spread, Spreads
<1>3. Spreads(Spread(g, S, E), Cardinality(g.nodes), S, E)
  BY <1>1, <1>2, Zenon
<1> QED BY <1>3, Zenon DEF Spreads
-----------------------------------------------------------------------------
(* What is reached stays within any set that the edges do not leave; it is *)
(* such a set itself, because each step adds a node until none does.       *)
LEMMA ReachedWithin ==
  ASSUME NEW g, NEW S, NEW E, NEW C, Cardinality(g.nodes) \in Nat,
         S \subseteq C, \A e \in E : e.source \in C => e.target \in C
  PROVE  Reached(g, S, E) \subseteq C
<1> DEFINE N == Cardinality(g.nodes)
           s == Spread(g, S, E)
           P == {k \in Nat : k \in 0..N => s[k] \subseteq C}
<1>1. s[0] = S
  BY SpreadStep
<1>2. \A k \in 1..N : s[k] = Further(s[k - 1], E)
  BY SpreadStep
<1> HIDE DEF s
<1>3. 0 \in P
  BY <1>1
<1>4. ASSUME NEW k \in P PROVE k + 1 \in P
  <2> SUFFICES ASSUME k + 1 \in 0..N PROVE s[k + 1] \subseteq C
    OBVIOUS
  <2>1. k \in 0..N /\ k + 1 \in 1..N /\ (k + 1) - 1 = k
    OBVIOUS
  <2>2. s[k] \subseteq C /\ s[k + 1] = Further(s[k], E)
    BY <1>2, <2>1
  <2> QED BY <2>2 DEF Further, Targets
<1>5. P = Nat
  <2>1. P \in SUBSET Nat
    OBVIOUS
  <2> HIDE DEF P
  <2> QED BY <1>3, <1>4, <2>1, Induction, Zenon
<1>6. N \in P
  BY <1>5
<1> QED BY <1>6 DEF Reached, s

LEMMA ReachedClosed ==
  ASSUME NEW g, NEW S, NEW E, IsFiniteSet(g.nodes), S \subseteq g.nodes,
         \A e \in E : e.target \in g.nodes
  PROVE  /\ S \subseteq Reached(g, S, E) /\ Reached(g, S, E) \subseteq g.nodes
         /\ \A e \in E : e.source \in Reached(g, S, E) => e.target \in Reached(g, S, E)
<1> DEFINE N == Cardinality(g.nodes)
           s == Spread(g, S, E)
           Whole(R) == \A e \in E : e.source \in R => e.target \in R
           P == {k \in Nat : k \in 0..N => /\ S \subseteq s[k] /\ s[k] \subseteq g.nodes
                                           /\ Whole(s[k]) \/ Cardinality(s[k]) >= k}
<1>1. N \in Nat
  BY FS_CardinalityType
<1>2. s[0] = S /\ \A k \in 1..N : s[k] = Further(s[k - 1], E)
  BY <1>1, SpreadStep
<1> HIDE DEF s
<1>3. \A R : R \subseteq g.nodes => IsFiniteSet(R) /\ Cardinality(R) \in Nat
  BY FS_Subset, FS_CardinalityType
<1>4. 0 \in P
  <2>1. Cardinality(s[0]) \in Nat
    BY <1>2, <1>3
  <2> QED BY <1>2, <2>1
<1>5. ASSUME NEW k \in P PROVE k + 1 \in P
  <2> SUFFICES ASSUME k + 1 \in 0..N
               PROVE  /\ S \subseteq s[k + 1] /\ s[k + 1] \subseteq g.nodes
                      /\ Whole(s[k + 1]) \/ Cardinality(s[k + 1]) >= k + 1
    OBVIOUS
  <2>1. k \in Nat /\ k \in 0..N /\ k + 1 \in 1..N /\ (k + 1) - 1 = k
    BY <1>1
  <2>2. /\ S \subseteq s[k] /\ s[k] \subseteq g.nodes
        /\ Whole(s[k]) \/ Cardinality(s[k]) >= k
    BY <2>1
  <2>3. s[k + 1] = Further(s[k], E)
    BY <1>2, <2>1
  <2>4. s[k] \subseteq s[k + 1] /\ s[k + 1] \subseteq g.nodes
    BY <2>2, <2>3 DEF Further, Targets
  <2>5. CASE Whole(s[k])
    <3>1. s[k + 1] = s[k]
      BY <2>3, <2>5 DEF Further, Targets
    <3> QED BY <2>2, <2>5, <3>1
  <2>6. CASE ~Whole(s[k])
    <3>1. PICK e \in E : e.source \in s[k] /\ e.target \notin s[k]
      BY <2>6
    <3>2. e.target \in s[k + 1]
      BY <2>3, <3>1 DEF Further, Targets
    <3>3. /\ Cardinality(s[k]) \in Nat /\ Cardinality(s[k + 1]) \in Nat
          /\ IsFiniteSet(s[k + 1])
      BY <1>3, <2>2, <2>4
    <3>4. Cardinality(s[k]) < Cardinality(s[k + 1])
      <4>1. s[k] # s[k + 1]
        BY <3>1, <3>2
      <4> QED BY <2>4, <3>3, <4>1, FS_Subset
    <3>5. Cardinality(s[k]) >= k
      BY <2>2, <2>6
    <3>6. Cardinality(s[k + 1]) >= k + 1
      BY <2>1, <3>3, <3>4, <3>5
    <3> QED BY <2>2, <2>4, <3>6
  <2> QED BY <2>5, <2>6
<1>6. P = Nat
  <2>1. P \in SUBSET Nat
    OBVIOUS
  <2> HIDE DEF P
  <2> QED BY <1>4, <1>5, <2>1, Induction, Zenon
<1>7. N \in P /\ N \in 0..N
  BY <1>1, <1>6
<1>8. s[N] \subseteq g.nodes /\ S \subseteq s[N] /\ (Whole(s[N]) \/ Cardinality(s[N]) >= N)
  BY <1>7
<1>9. Whole(s[N])
  <2> SUFFICES ASSUME Cardinality(s[N]) >= N PROVE Whole(s[N])
    BY <1>8
  <2>1. s[N] = g.nodes
    BY <1>1, <1>3, <1>8, FS_Subset
  <2> QED BY <2>1
<1> QED BY <1>8, <1>9 DEF Reached, s
-----------------------------------------------------------------------------
(* Graphs that a save accepts.                                             *)

(* What forward edges lead to from n: there the body of a loop lives.      *)
After(g, n) == Reached(g, Targets({e \in Forward(g) : e.source = n}), Forward(g))

LEMMA GraphFacts ==
  ASSUME NEW g \in Graphs
  PROVE  /\ g.nodes \subseteq Nat /\ IsFiniteSet(g.nodes) /\ Trigger \in g.nodes
         /\ Cardinality(g.nodes) \in Nat
         /\ \A e \in g.edges : e.source \in g.nodes /\ e.target \in g.nodes
         /\ Forward(g) \subseteq g.edges
         /\ g.type[Trigger] = "trigger"
<1>1. g.nodes \subseteq 0..LastNode /\ IsFiniteSet(0..LastNode)
  BY RunnerAssumption, FS_Interval
<1>2. IsFiniteSet(g.nodes)
  BY <1>1, FS_Subset
<1>3. Cardinality(g.nodes) \in Nat
  BY <1>2, FS_CardinalityType
<1>4. Trigger \in g.nodes /\ g.type[Trigger] = "trigger"
  BY RunnerAssumption DEF OfType
<1>5. \A e \in g.edges : e.source \in g.nodes /\ e.target \in g.nodes
  BY RunnerAssumption, Zenon DEF Accepted
<1>6. g.nodes \subseteq Nat
  BY <1>1
<1> QED BY <1>2, <1>3, <1>4, <1>5, <1>6 DEF Forward

(* No forward edge leads back.                                             *)
LEMMA AfterFacts ==
  ASSUME NEW g \in Graphs, NEW n \in g.nodes
  PROVE  /\ After(g, n) \subseteq g.nodes /\ n \notin After(g, n)
         /\ \A e \in Forward(g) : e.source = n => e.target \in After(g, n)
         /\ \A e \in Forward(g) : e.source \in After(g, n) => e.target \in After(g, n)
<1> DEFINE S == Targets({e \in Forward(g) : e.source = n})
<1>1. S \subseteq g.nodes /\ \A e \in Forward(g) : e.target \in g.nodes
  BY GraphFacts DEF Targets
<1>2. \A e \in Forward(g) : e.source = n => e.target \in S
  BY DEF Targets
<1>3. n \notin Reached(g, S, Forward(g))
  BY RunnerAssumption, Zenon DEF Accepted, hasCycle
<1> HIDE DEF S
<1>4. /\ S \subseteq Reached(g, S, Forward(g)) /\ Reached(g, S, Forward(g)) \subseteq g.nodes
      /\ \A e \in Forward(g) : e.source \in Reached(g, S, Forward(g))
                                 => e.target \in Reached(g, S, Forward(g))
  BY <1>1, GraphFacts, ReachedClosed
<1>5. After(g, n) = Reached(g, S, Forward(g))
  BY DEF After, S
<1> QED BY <1>2, <1>3, <1>4, <1>5

LEMMA AfterAfter ==
  ASSUME NEW g \in Graphs, NEW n \in g.nodes, NEW m \in After(g, n)
  PROVE  After(g, m) \subseteq After(g, n)
<1>1. \A e \in Forward(g) : e.source \in After(g, n) => e.target \in After(g, n)
  BY AfterFacts
<1>2. Targets({e \in Forward(g) : e.source = m}) \subseteq After(g, n)
  BY <1>1 DEF Targets
<1>3. Cardinality(g.nodes) \in Nat
  BY GraphFacts
<1> QED BY <1>1, <1>2, <1>3, ReachedWithin DEF After

(* Among some nodes there is one to which no forward edge leads from       *)
(* another of them: one with the most nodes after it.                      *)
LEMMA FirstOfSome ==
  ASSUME NEW g \in Graphs, NEW U, U \subseteq g.nodes, U # {}
  PROVE  \E m \in U : \A e \in Forward(g) : e.target = m => e.source \notin U
<1> DEFINE N == Cardinality(g.nodes)
           size(n) == Cardinality(After(g, n))
           T == {N - size(n) : n \in U}
<1>1. \A n \in U : IsFiniteSet(After(g, n)) /\ size(n) \in Nat /\ size(n) <= N /\ N \in Nat
  BY GraphFacts, AfterFacts, FS_Subset, FS_CardinalityType
<1>2. T \subseteq Nat /\ T # {}
  BY <1>1
<1>3. PICK x \in T : \A y \in T : x <= y
  BY <1>2, Least, Zenon
<1>4. PICK m \in U : \A n \in U : N - size(m) <= N - size(n)
  BY <1>3
<1>5. \A n \in U : size(n) <= size(m)
  <2> TAKE n \in U
  <2> HIDE DEF size, N, T
  <2> QED BY <1>1, <1>4
<1>6. ASSUME NEW e \in Forward(g), e.target = m, e.source \in U PROVE FALSE
  <2>1. m \in After(g, e.source) /\ m \notin After(g, m)
    BY <1>6, AfterFacts
  <2>2. After(g, m) \subseteq After(g, e.source)
    BY <1>6, <2>1, AfterAfter
  <2>3. size(m) < size(e.source)
    <3>1. After(g, m) # After(g, e.source)
      BY <2>1
    <3>2. IsFiniteSet(After(g, e.source)) /\ After(g, m) \subseteq After(g, e.source)
      BY <1>1, <1>6, <2>2
    <3>3. size(m) <= size(e.source) /\ size(m) # size(e.source)
      BY <3>1, <3>2, FS_Subset
    <3>4. size(m) \in Nat /\ size(e.source) \in Nat
      BY <1>1, <1>6
    <3> HIDE DEF size
    <3> QED BY <3>3, <3>4
  <2> HIDE DEF size
  <2> QED BY <1>1, <1>5, <1>6, <2>3
<1> QED BY <1>6

LEMMA BodyFacts ==
  ASSUME NEW g \in Graphs, NEW n \in OfType(g, "loop")
  PROVE  /\ n \in g.nodes /\ n # None
         /\ collectBodySubgraph(g, n) \subseteq g.nodes
         /\ collectBodySubgraph(g, n) \subseteq BodyNodes(g)
<1>1. n \in g.nodes /\ n # None
  BY GraphFacts DEF OfType, None
<1>2. collectBodySubgraph(g, n) \subseteq g.nodes
  <2> DEFINE inner == {e \in Forward(g) :
                         /\ e.target # n
                         /\ ~(g.type[e.source] = "loop" /\ e.handle = "loop")}
             start == Targets({e \in Outgoing(g, n) : e.handle = "loop"}) \ {n}
  <2>1. start \subseteq g.nodes /\ \A e \in inner : e.target \in g.nodes
    BY GraphFacts DEF Targets, Outgoing
  <2>2. collectBodySubgraph(g, n) = Reached(g, start, inner)
    BY DEF collectBodySubgraph
  <2>3. Cardinality(g.nodes) \in Nat
    BY GraphFacts
  <2> HIDE DEF start, inner
  <2> QED BY <2>1, <2>2, <2>3, ReachedWithin
<1>3. collectBodySubgraph(g, n) \subseteq BodyNodes(g)
  BY DEF BodyNodes
<1> QED BY <1>1, <1>2, <1>3
-----------------------------------------------------------------------------
(* The inductive invariant.                                                *)

Frames(g) ==
  [loop : Nat, entries : SUBSET Nat, scope : SUBSET Nat, waiting : SUBSET Nat,
   settled : SUBSET Nat, active : SUBSET g.edges, decided : SUBSET g.edges,
   last : Nat, mode : {"main", "forEach", "while"}, limit : Nat, iteration : Nat,
   began : Nat, at : {"walking", "deciding"}]

Types ==
  /\ graph \in Graphs
  /\ test \in {NoTest} \cup Tests
  /\ stack \in Seq(Frames(graph)) /\ stack # <<>>
  /\ cur \in [node : Nat, attempt : Nat]
  /\ stopping \in BOOLEAN
  /\ order \in Nat
  /\ open \subseteq graph.nodes
  /\ outputs \in [graph.nodes -> Nat]
  /\ result \in [node : Nat, at : Nat, began : Nat]
  /\ visited \subseteq graph.nodes
  /\ skipped \subseteq graph.nodes \ {Trigger}

(* The edges of a traversal f in the graph g.                              *)
Into(g, f, n) == {e \in Incoming(g, n) : ~isLoopBackEdge(e) /\ e.source \in f.scope}
OutOf(g, f, n) == {e \in Outgoing(g, n) : ~isLoopBackEdge(e) /\ e.target \in f.scope}

(* A traversal settles a node once its predecessors have decided, and has  *)
(* in its queue what it can settle.                                        *)
Closed(g, f) ==
  /\ f.settled \subseteq f.scope
  /\ \A n \in f.settled : Into(g, f, n) \subseteq f.decided
  /\ \A e \in f.decided : e.source \in f.settled
Queued(g, f) ==
  \A n \in f.scope \ f.settled :
    Into(g, f, n) \subseteq f.decided /\ (n \in f.entries \/ Into(g, f, n) # {})
      => n \in f.waiting
Walks(g, f) == Closed(g, f) /\ Queued(g, f)

(* A settled node has decided, unless it is the one that executes.         *)
Complete(g, f, executing) ==
  \A n \in f.settled : n \in executing \/ OutOf(g, f, n) \subseteq f.decided
Executing(k) ==
  IF k < Len(stack) THEN {stack[k + 1].loop}
  ELSE IF cur = Idle THEN {} ELSE {cur.node}

(* The first traversal, those of the loops, and how they are nested.       *)
Main ==
  /\ stack[1].loop = None /\ stack[1].at = "walking"
  /\ stack[1].scope = IF test = NoTest THEN mainScope(graph) ELSE {test.node}
InLoop(g, f) ==
  /\ f.loop \in OfType(g, "loop")
  /\ f.scope = collectBodySubgraph(g, f.loop)
  /\ f.entries \subseteq After(g, f.loop)
  /\ \A e \in f.active : e.target \in After(g, f.loop)
Nested ==
  /\ \A k \in 2..Len(stack) : stack[k].loop \in stack[k - 1].settled
  /\ \A i, j \in 2..Len(stack) : i < j => stack[j].loop \in After(graph, stack[i].loop)

Traversals ==
  /\ \A k \in 1..Len(stack) : Walks(graph, stack[k])
  /\ ~stopping => \A k \in 1..Len(stack) : Complete(graph, stack[k], Executing(k))
  /\ \A k \in 2..Len(stack) : InLoop(graph, stack[k])
  /\ Main /\ Nested

Current ==
  /\ cur # Idle \/ Len(stack) > 1 \/ stopping => MayRun
  /\ cur # Idle =>
       /\ ~stopping
       /\ Top.at = "walking"
       /\ cur.node \in Top.settled
       /\ graph.type[cur.node] \in {"agent", "condition"}
       /\ Len(stack) > 1 => cur.node \in After(graph, Top.loop)

(* What a traversal remembers is of its time: o is the order, out the      *)
(* outputs.                                                                *)
Dated(g, f, o, out) ==
  /\ f.began <= o
  /\ f.last # None => f.last \in g.nodes /\ out[f.last] > f.began
Times ==
  /\ \A k \in 1..Len(stack) :
       /\ Dated(graph, stack[k], order, outputs)
       /\ k < Len(stack) \/ cur # Idle => stack[k].began < order
  /\ \A n \in graph.nodes : outputs[n] <= order
  /\ FreshResult

(* The rows at 'running' are those of what executes, and the nodes that    *)
(* were skipped are none that ran.                                         *)
Loops == {stack[k].loop : k \in 2..Len(stack)}
Rows ==
  /\ open = Loops \cup (IF cur = Idle THEN {} ELSE {cur.node})
  /\ status # "running" => Len(stack) = 1 /\ cur = Idle
Logged ==
  test = NoTest =>
    /\ visited \cap skipped = {}
    /\ visited \cap stack[1].scope \subseteq stack[1].settled
    /\ status = "running" => skipped \subseteq stack[1].settled
    /\ status # "running" => graph.nodes \ {Trigger} \subseteq visited \cup skipped

IInv == Types /\ Traversals /\ Current /\ Times /\ Rows /\ Logged
-----------------------------------------------------------------------------
(* The stack.                                                              *)

(* The traversals below the n-th stay.                                     *)
Stay(n) == \A k \in 1..(n - 1) : stack'[k] = stack[k]

TopBecomes(f) ==
  Len(stack') = Len(stack) /\ Stay(Len(stack)) /\ stack'[Len(stack)] = f

LEMMA StackFacts ==
  ASSUME NEW D, stack \in Seq(D), stack # <<>>
  PROVE  /\ Len(stack) \in Nat \ {0} /\ \A k \in 1..Len(stack) : stack[k] \in D
         /\ Len(stack) \in 1..Len(stack) /\ Top \in D
<1>1. Len(stack) \in Nat /\ Len(stack) # 0
  BY EmptySeq
<1> QED BY <1>1, ElementOfSeq DEF Top

LEMMA FrontFacts ==
  ASSUME NEW D, NEW s \in Seq(D), s # <<>>
  PROVE  /\ Front(s) \in Seq(D) /\ Len(Front(s)) = Len(s) - 1
         /\ \A k \in 1..(Len(s) - 1) : Front(s)[k] = s[k]
<1>1. Len(s) \in Nat \ {0}
  BY EmptySeq
<1>2. \A k \in 1..(Len(s) - 1) : s[k] \in D
  BY <1>1, ElementOfSeq
<1> DEFINE n == Len(s) - 1
<1>3. n \in Int /\ n - 1 + 1 = n /\ Len(s) - 1 = n /\ n >= 0
  BY <1>1
<1> HIDE DEF n
<1>4. /\ SubSeq(s, 1, n) \in Seq(D)
      /\ Len(SubSeq(s, 1, n)) = IF 1 <= n THEN n - 1 + 1 ELSE 0
      /\ \A k \in 1..(n - 1 + 1) : SubSeq(s, 1, n)[k] = s[1 + k - 1]
  BY <1>2, <1>3, SubSeqProperties
<1>5. \A k \in 1..n : SubSeq(s, 1, n)[k] = s[k]
  BY <1>3, <1>4
<1>6. Len(SubSeq(s, 1, n)) = n
  BY <1>3, <1>4
<1>7. Front(s) = SubSeq(s, 1, n)
  BY <1>3 DEF Front
<1> QED BY <1>3, <1>4, <1>5, <1>6, <1>7, Zenon

LEMMA TopSet ==
  ASSUME NEW D, stack \in Seq(D), stack # <<>>, NEW f \in D
  PROVE  /\ WithTop(f) \in Seq(D) /\ WithTop(f) # <<>>
         /\ stack' = WithTop(f) => TopBecomes(f)
<1> DEFINE L == Len(stack)
           b == Front(stack)
<1>1. L \in Nat \ {0}
  BY StackFacts
<1>2. b \in Seq(D) /\ Len(b) = L - 1 /\ \A k \in 1..(L - 1) : b[k] = stack[k]
  BY FrontFacts
<1> HIDE DEF b
<1>3. b \o <<f>> \in Seq(D) /\ Len(b \o <<f>>) = L
  BY <1>1, <1>2
<1>4. (b \o <<f>>)[L] = f /\ \A k \in 1..(L - 1) : (b \o <<f>>)[k] = stack[k]
  BY <1>1, <1>2
<1>5. WithTop(f) = b \o <<f>>
  BY DEF WithTop, Below, Front, b
<1> QED BY <1>1, <1>3, <1>4, <1>5 DEF TopBecomes, Stay

LEMMA Pushed ==
  ASSUME NEW D, stack \in Seq(D), stack # <<>>, NEW f \in D, NEW h \in D
  PROVE  /\ WithTop(f) \o <<h>> \in Seq(D) /\ WithTop(f) \o <<h>> # <<>>
         /\ stack' = WithTop(f) \o <<h>> =>
              /\ Len(stack') = Len(stack) + 1 /\ Stay(Len(stack))
              /\ stack'[Len(stack)] = f /\ stack'[Len(stack) + 1] = h
<1> DEFINE L == Len(stack)
           b == Front(stack)
<1>1. L \in Nat \ {0}
  BY StackFacts
<1>2. b \in Seq(D) /\ Len(b) = L - 1 /\ \A k \in 1..(L - 1) : b[k] = stack[k]
  BY FrontFacts
<1>3. WithTop(f) = b \o <<f>>
  BY DEF WithTop, Below, Front
<1> HIDE DEF b
<1> DEFINE w == b \o <<f>>
<1>4. w \in Seq(D) /\ Len(w) = L /\ w[L] = f /\ \A k \in 1..(L - 1) : w[k] = stack[k]
  BY <1>1, <1>2
<1> HIDE DEF w
<1>5. w \o <<h>> \in Seq(D) /\ Len(w \o <<h>>) = L + 1
  BY <1>1, <1>4
<1>6. (w \o <<h>>)[L + 1] = h /\ \A k \in 1..L : (w \o <<h>>)[k] = w[k]
  BY <1>1, <1>4
<1>7. \A k \in 1..(L - 1) : k \in 1..L
  BY <1>1
<1> QED BY <1>1, <1>3, <1>4, <1>5, <1>6, <1>7 DEF w, Stay

LEMMA Popped ==
  ASSUME NEW D, stack \in Seq(D), stack # <<>>, Len(stack) > 1
  PROVE  /\ Below \in Seq(D) /\ Below # <<>>
         /\ stack' = Below => Len(stack') = Len(stack) - 1 /\ Stay(Len(stack))
<1>1. Len(stack) \in Nat \ {0}
  BY StackFacts
<1>2. /\ Below \in Seq(D) /\ Len(Below) = Len(stack) - 1
      /\ \A k \in 1..(Len(stack) - 1) : Below[k] = stack[k]
  BY FrontFacts DEF Below, Front
<1> QED BY <1>1, <1>2 DEF Stay

LEMMA Returned ==
  ASSUME NEW D, stack \in Seq(D), stack # <<>>, Len(stack) > 1, NEW f \in D
  PROVE  /\ Front(Below) \o <<f>> \in Seq(D) /\ Front(Below) \o <<f>> # <<>>
         /\ Below[Len(Below)] = stack[Len(stack) - 1]
         /\ stack' = Front(Below) \o <<f>> =>
              /\ Len(stack') = Len(stack) - 1 /\ Stay(Len(stack) - 1)
              /\ stack'[Len(stack) - 1] = f
<1> DEFINE L == Len(stack)
           c == Front(Below)
<1>1. L \in Nat \ {0}
  BY StackFacts
<1>2. /\ Below \in Seq(D) /\ Len(Below) = L - 1
      /\ \A k \in 1..(L - 1) : Below[k] = stack[k]
  BY FrontFacts DEF Below, Front
<1>3. c \in Seq(D) /\ Len(c) = L - 2 /\ \A k \in 1..(L - 2) : c[k] = Below[k]
  <2>1. Below # <<>>
    BY <1>1, <1>2
  <2> QED BY <1>1, <1>2, <2>1, FrontFacts
<1>4. \A k \in 1..(L - 2) : c[k] = stack[k]
  BY <1>1, <1>2, <1>3
<1>5. Below[Len(Below)] = stack[L - 1]
  BY <1>1, <1>2
<1> HIDE DEF c
<1>6. /\ c \o <<f>> \in Seq(D) /\ Len(c \o <<f>>) = L - 1
      /\ (c \o <<f>>)[L - 1] = f /\ \A k \in 1..(L - 2) : (c \o <<f>>)[k] = stack[k]
  BY <1>1, <1>3, <1>4
<1> QED BY <1>1, <1>5, <1>6 DEF c, Stay
-----------------------------------------------------------------------------
(* A traversal and its edges.                                              *)

LEMMA EdgesOf ==
  ASSUME NEW f, NEW n
  PROVE  /\ IncomingInScope(f, n) = Into(graph, f, n)
         /\ OutgoingInScope(f, n) = OutOf(graph, f, n)
  BY DEF IncomingInScope, OutgoingInScope, Into, OutOf

(* What stays when a traversal takes a node from its queue or decides.     *)
Same(f, h) ==
  /\ h.loop = f.loop /\ h.entries = f.entries /\ h.scope = f.scope
  /\ h.began = f.began /\ h.at = f.at

LEMMA TakesFacts ==
  ASSUME NEW g, NEW f \in Frames(g), NEW n \in Nat
  PROVE  /\ Takes(f, n) \in Frames(g) /\ Same(f, Takes(f, n))
         /\ Takes(f, n).waiting = f.waiting \ {n}
         /\ Takes(f, n).settled = f.settled \cup {n}
         /\ Takes(f, n).active = f.active /\ Takes(f, n).decided = f.decided
         /\ Takes(f, n).last = f.last
  BY DEF Frames, Takes, Same

LEMMA DecidesFacts ==
  ASSUME graph \in Graphs, NEW f \in Frames(graph), NEW n, NEW handles
  PROVE  /\ Decides(f, n, handles) \in Frames(graph) /\ Same(f, Decides(f, n, handles))
         /\ Decides(f, n, handles).waiting = f.waiting \cup Targets(OutOf(graph, f, n))
         /\ Decides(f, n, handles).settled = f.settled
         /\ Decides(f, n, handles).decided = f.decided \cup OutOf(graph, f, n)
         /\ Decides(f, n, handles).active \subseteq f.active \cup OutOf(graph, f, n)
         /\ handles = {} => Decides(f, n, handles).active = f.active
         /\ Decides(f, n, handles).last = f.last
<1> DEFINE O == OutOf(graph, f, n)
           A == {e \in O : e.handle \in handles}
<1>1. O \subseteq graph.edges /\ A \subseteq O /\ (handles = {} => A = {})
  BY DEF OutOf, Outgoing
<1>2. Targets(O) \subseteq Nat
  BY <1>1, GraphFacts DEF Targets
<1>3. PICK a, d, w : /\ a = f.active \cup A /\ d = f.decided \cup O
                     /\ w = f.waiting \cup Targets(O)
  OBVIOUS
<1>4. a \in SUBSET graph.edges /\ d \in SUBSET graph.edges /\ w \in SUBSET Nat
  BY <1>1, <1>2, <1>3 DEF Frames
<1>5. Decides(f, n, handles) = [f EXCEPT !.active = a, !.decided = d, !.waiting = w]
  BY <1>3, EdgesOf DEF Decides, Frames
<1> HIDE DEF O, A
<1>6. PICK h : h = [f EXCEPT !.active = a, !.decided = d, !.waiting = w]
  OBVIOUS
<1>7. h \in Frames(graph)
  BY <1>4, <1>6 DEF Frames
<1>8. /\ Same(f, h) /\ h.waiting = w /\ h.settled = f.settled
      /\ h.decided = d /\ h.active = a /\ h.last = f.last
  BY <1>6 DEF Frames, Same
<1>9. a \subseteq f.active \cup O /\ (handles = {} => a = f.active)
  BY <1>1, <1>3
<1> QED BY <1>3, <1>5, <1>6, <1>7, <1>8, <1>9 DEF O

LEMMA ExecutedFacts ==
  ASSUME graph \in Graphs, NEW f \in Frames(graph), NEW n \in Nat, NEW handles
  PROVE  /\ Executed(f, n, handles) \in Frames(graph) /\ Same(f, Executed(f, n, handles))
         /\ Executed(f, n, handles).waiting = f.waiting \cup Targets(OutOf(graph, f, n))
         /\ Executed(f, n, handles).settled = f.settled
         /\ Executed(f, n, handles).decided = f.decided \cup OutOf(graph, f, n)
         /\ Executed(f, n, handles).active \subseteq f.active \cup OutOf(graph, f, n)
         /\ Executed(f, n, handles).last = n
<1>1. PICK h : h = Decides(f, n, handles)
  OBVIOUS
<1>2. Executed(f, n, handles) = [h EXCEPT !.last = n]
  BY <1>1 DEF Executed
<1>3. /\ h \in Frames(graph) /\ Same(f, h)
      /\ h.waiting = f.waiting \cup Targets(OutOf(graph, f, n))
      /\ h.settled = f.settled /\ h.decided = f.decided \cup OutOf(graph, f, n)
      /\ h.active \subseteq f.active \cup OutOf(graph, f, n)
  BY <1>1, DecidesFacts
<1> QED BY <1>2, <1>3 DEF Frames, Same

(* Settling a node whose predecessors have decided.                        *)
LEMMA WalksTakes ==
  ASSUME NEW g, NEW f, NEW h, NEW n \in f.scope, Walks(g, f), Same(f, h),
         Into(g, f, n) \subseteq f.decided,
         h.waiting = f.waiting \ {n}, h.settled = f.settled \cup {n},
         h.decided = f.decided
  PROVE  Walks(g, h)
<1>1. \A m : Into(g, h, m) = Into(g, f, m)
  BY DEF Into, Same
<1>2. Closed(g, h)
  BY <1>1 DEF Walks, Closed, Same
<1>3. Queued(g, h)
  BY <1>1 DEF Walks, Queued, Same
<1> QED BY <1>2, <1>3 DEF Walks

(* A settled node decides: what that makes ready is queued.                *)
LEMMA WalksDecides ==
  ASSUME NEW g, NEW f, NEW h, NEW n \in f.settled, Walks(g, f), Same(f, h),
         h.waiting = f.waiting \cup Targets(OutOf(g, f, n)),
         h.settled = f.settled, h.decided = f.decided \cup OutOf(g, f, n)
  PROVE  Walks(g, h)
<1>1. \A m : Into(g, h, m) = Into(g, f, m)
  BY DEF Into, Same
<1>2. Closed(g, h)
  <2>1. \A e \in OutOf(g, f, n) : e.source = n
    BY DEF OutOf, Outgoing
  <2> QED BY <1>1, <2>1 DEF Walks, Closed, Same
<1>3. Queued(g, h)
  <2> SUFFICES ASSUME NEW m \in f.scope \ f.settled,
                      Into(g, f, m) \subseteq f.decided \cup OutOf(g, f, n),
                      m \in f.entries \/ Into(g, f, m) # {}
               PROVE  m \in f.waiting \cup Targets(OutOf(g, f, n))
    BY <1>1 DEF Queued, Same
  <2>1. CASE Into(g, f, m) \subseteq f.decided
    BY <2>1 DEF Walks, Queued
  <2>2. CASE ~(Into(g, f, m) \subseteq f.decided)
    <3>1. PICK e \in Into(g, f, m) : e \in OutOf(g, f, n)
      BY <2>2
    <3> QED BY <3>1 DEF Into, Incoming, Targets
  <2> QED BY <2>1, <2>2
<1> QED BY <1>2, <1>3 DEF Walks

LEMMA CompleteTakes ==
  ASSUME NEW g, NEW f, NEW h, NEW n, Complete(g, f, {}), Same(f, h),
         h.settled = f.settled \cup {n}, h.decided = f.decided
  PROVE  Complete(g, h, {n})
<1>1. \A m : OutOf(g, h, m) = OutOf(g, f, m)
  BY DEF OutOf, Same
<1> QED BY <1>1 DEF Complete

LEMMA CompleteDecides ==
  ASSUME NEW g, NEW f, NEW h, NEW n, Complete(g, f, {n}), Same(f, h),
         h.settled = f.settled, h.decided = f.decided \cup OutOf(g, f, n)
  PROVE  Complete(g, h, {})
<1>1. \A m : OutOf(g, h, m) = OutOf(g, f, m)
  BY DEF OutOf, Same
<1> QED BY <1>1 DEF Complete

(* In the body of a loop, what runs and what it leads to is after the loop.*)
LEMMA InLoopDecides ==
  ASSUME NEW g \in Graphs, NEW f, NEW h, NEW n \in After(g, f.loop), InLoop(g, f),
         Same(f, h), h.active \subseteq f.active \cup OutOf(g, f, n)
  PROVE  InLoop(g, h)
<1>1. f.loop \in g.nodes
  BY BodyFacts DEF InLoop
<1>2. ASSUME NEW e \in OutOf(g, f, n) PROVE e.target \in After(g, f.loop)
  <2>1. e \in Forward(g) /\ e.source = n
    BY <1>2 DEF OutOf, Outgoing, Forward
  <2> QED BY <1>1, <2>1, AfterFacts
<1> QED BY <1>2 DEF InLoop, Same

LEMMA InLoopSame ==
  ASSUME NEW g, NEW f, NEW h, InLoop(g, f), Same(f, h), h.active \subseteq f.active
  PROVE  InLoop(g, h)
  BY DEF InLoop, Same
-----------------------------------------------------------------------------
(* Steps of the stack.                                                     *)

LEMMA Frame1 ==
  ASSUME IInv
  PROVE  /\ Len(stack) \in Nat \ {0} /\ \A k \in 1..Len(stack) : stack[k] \in Frames(graph)
         /\ Top = stack[Len(stack)] /\ Top \in Frames(graph) /\ graph \in Graphs
         /\ Walks(graph, Top) /\ (Len(stack) > 1 => InLoop(graph, Top))
         /\ Top.scope \subseteq Nat /\ Top.waiting \subseteq Nat
<1>1. /\ Len(stack) \in Nat \ {0} /\ \A k \in 1..Len(stack) : stack[k] \in Frames(graph)
      /\ Len(stack) \in 1..Len(stack) /\ Top \in Frames(graph) /\ graph \in Graphs
  BY StackFacts DEF IInv, Types
<1>2. Top = stack[Len(stack)]
  BY DEF Top
<1>3. Walks(graph, Top) /\ (Len(stack) > 1 => InLoop(graph, Top))
  BY <1>1, <1>2 DEF IInv, Traversals
<1> QED BY <1>1, <1>2, <1>3 DEF Frames

LEMMA TopChanges ==
  ASSUME IInv, NEW f, TopBecomes(f), UNCHANGED <<graph, test>>,
         f.loop = Top.loop, f.scope = Top.scope, Len(stack) = 1 => f.at = "walking",
         Walks(graph, f), Len(stack) > 1 => InLoop(graph, f),
         ~stopping' => /\ ~stopping
                       /\ Complete(graph, f, IF cur' = Idle THEN {} ELSE {cur'.node})
  PROVE  Traversals' /\ Loops' = Loops
<1>1. PICK L \in Nat \ {0} : L = Len(stack)
  BY Frame1
<1>2. /\ Top = stack[L] /\ Len(stack') = L /\ stack'[L] = f
      /\ \A k \in 1..(L - 1) : stack'[k] = stack[k]
  BY <1>1 DEF Top, TopBecomes, Stay
<1>3. \A k \in 1..L : stack'[k].loop = stack[k].loop /\ stack'[k].scope = stack[k].scope
  BY <1>1, <1>2
<1>4. ASSUME NEW k \in 1..L PROVE Walks(graph', stack'[k])
  BY <1>1, <1>2 DEF IInv, Traversals
<1>5. ASSUME ~stopping', NEW k \in 1..L PROVE Complete(graph, stack[k], Executing(k))'
  <2>1. CASE k = L
    BY <1>1, <1>2, <1>5, <2>1 DEF Executing
  <2>2. CASE k < L
    <3>1. Complete(graph, stack[k], {stack[k + 1].loop})
      <4>1. Complete(graph, stack[k], Executing(k)) /\ k < L
        BY <1>1, <1>5, <2>2 DEF IInv, Traversals
      <4> QED BY <1>1, <4>1 DEF Executing
    <3>2. stack'[k] = stack[k] /\ stack'[k + 1].loop = stack[k + 1].loop
      BY <1>1, <1>2, <1>3, <2>2
    <3> QED BY <1>1, <1>2, <2>2, <3>1, <3>2 DEF Executing
  <2> QED BY <1>1, <2>1, <2>2
<1>6. ASSUME NEW k \in 2..L PROVE InLoop(graph', stack'[k])
  BY <1>1, <1>2 DEF IInv, Traversals
<1>7. Main'
  <2>1. Main
    BY DEF IInv, Traversals
  <2>2. stack'[1].loop = stack[1].loop /\ stack'[1].scope = stack[1].scope
    BY <1>1, <1>3
  <2>3. stack'[1].at = "walking"
    BY <1>1, <1>2, <2>1 DEF Main
  <2> QED BY <2>1, <2>2, <2>3 DEF Main
<1>8. Nested'
  <2>1. \A k \in 2..L : stack'[k - 1] = stack[k - 1]
    BY <1>1, <1>2
  <2>2. \A k \in 2..L : k \in 1..L
    BY <1>1
  <2> QED BY <1>1, <1>2, <1>3, <2>1, <2>2 DEF IInv, Traversals, Nested
<1>9. Loops' = Loops
  <2>1. \A k \in 2..L : k \in 1..L
    BY <1>1
  <2> QED BY <1>1, <1>2, <1>3, <2>1 DEF Loops
<1> QED BY <1>1, <1>2, <1>4, <1>5, <1>6, <1>7, <1>8, <1>9 DEF Traversals

(* A loop begins: n is the node, f the traversal it is a node of.          *)
LEMMA StackGrows ==
  ASSUME IInv, NEW f, NEW h, NEW n, UNCHANGED <<graph, test>>,
         Len(stack') = Len(stack) + 1, Stay(Len(stack)),
         stack'[Len(stack)] = f, stack'[Len(stack) + 1] = h,
         ~stopping, cur' = Idle, Same(Top, f), h.loop = n,
         Walks(graph, f), Len(stack) > 1 => InLoop(graph, f),
         n \in f.settled, Complete(graph, f, {n}),
         Walks(graph, h), InLoop(graph, h), Complete(graph, h, {}),
         Len(stack) > 1 => n \in After(graph, Top.loop)
  PROVE  Traversals' /\ Loops' = Loops \cup {n}
<1>1. PICK L \in Nat \ {0} : L = Len(stack)
  BY Frame1
<1>2. /\ Top = stack[L] /\ Len(stack') = L + 1 /\ stack'[L] = f /\ stack'[L + 1] = h
      /\ \A k \in 1..(L - 1) : stack'[k] = stack[k]
  BY <1>1 DEF Top, Stay
<1>3. \A k \in 1..L : stack'[k].loop = stack[k].loop
  BY <1>1, <1>2 DEF Same
<1>4. ASSUME NEW k \in 1..(L + 1) PROVE Walks(graph', stack'[k])
  BY <1>1, <1>2 DEF IInv, Traversals
<1>5. ASSUME NEW k \in 1..(L + 1) PROVE Complete(graph, stack[k], Executing(k))'
  <2>1. CASE k = L + 1
    <3>1. Executing(k)' = {}
      BY <1>1, <1>2, <2>1 DEF Executing
    <3> QED BY <1>2, <2>1, <3>1
  <2>2. CASE k = L
    <3>1. Executing(k)' = {n}
      BY <1>1, <1>2, <2>2 DEF Executing
    <3> QED BY <1>2, <2>2, <3>1
  <2>3. CASE k < L
    <3>1. Complete(graph, stack[k], {stack[k + 1].loop})
      <4>1. Complete(graph, stack[k], Executing(k)) /\ k \in 1..L
        BY <1>1, <2>3 DEF IInv, Traversals
      <4> QED BY <1>1, <2>3, <4>1 DEF Executing
    <3>2. stack'[k] = stack[k] /\ stack'[k + 1].loop = stack[k + 1].loop
      BY <1>1, <1>2, <1>3, <2>3
    <3>3. k < L + 1
      BY <1>1, <2>3
    <3> QED BY <1>1, <1>2, <3>1, <3>2, <3>3 DEF Executing
  <2> QED BY <1>1, <2>1, <2>2, <2>3
<1>6. ASSUME NEW k \in 2..(L + 1) PROVE InLoop(graph', stack'[k])
  <2>1. CASE k = L + 1
    BY <1>2, <2>1
  <2>2. CASE k = L
    BY <1>1, <1>2, <2>2
  <2>3. CASE k < L
    BY <1>1, <1>2, <2>3 DEF IInv, Traversals
  <2> QED BY <1>1, <2>1, <2>2, <2>3
<1>7. Main'
  <2>1. Main
    BY DEF IInv, Traversals
  <2>2. /\ stack'[1].loop = stack[1].loop /\ stack'[1].scope = stack[1].scope
        /\ stack'[1].at = stack[1].at
    BY <1>1, <1>2 DEF Same
  <2> QED BY <2>1, <2>2 DEF Main
<1>8. Nested'
  <2>1. ASSUME NEW k \in 2..(L + 1) PROVE stack'[k].loop \in stack'[k - 1].settled
    <3>1. CASE k = L + 1
      BY <1>1, <1>2, <3>1
    <3>2. CASE k \in 2..L
      <4>1. stack'[k - 1] = stack[k - 1] /\ stack'[k].loop = stack[k].loop
        BY <1>1, <1>2, <1>3, <3>2
      <4> QED BY <1>1, <3>2, <4>1 DEF IInv, Traversals, Nested
    <3> QED BY <1>1, <3>1, <3>2
  <2>2. ASSUME NEW i \in 2..(L + 1), NEW j \in 2..(L + 1), i < j
        PROVE  stack'[j].loop \in After(graph, stack'[i].loop)
    <3>1. i \in 2..L /\ stack'[i].loop = stack[i].loop
      BY <1>1, <1>3, <2>2
    <3>2. CASE j \in 2..L
      <4>1. stack'[j].loop = stack[j].loop
        BY <1>1, <1>3, <3>2
      <4> QED BY <1>1, <2>2, <3>1, <3>2, <4>1 DEF IInv, Traversals, Nested
    <3>3. CASE j = L + 1 /\ i = L
      BY <1>1, <1>2, <3>1, <3>3
    <3>4. CASE j = L + 1 /\ i < L
      <4>1. stack[L].loop \in After(graph, stack[i].loop)
        BY <1>1, <3>1, <3>4 DEF IInv, Traversals, Nested
      <4>2. n \in After(graph, stack[L].loop)
        BY <1>1, <1>2, <3>1
      <4>3. graph \in Graphs /\ stack[i].loop \in graph.nodes
        <5>1. InLoop(graph, stack[i]) /\ graph \in Graphs
          BY <1>1, <3>1 DEF IInv, Traversals, Types
        <5> QED BY <5>1, BodyFacts DEF InLoop
      <4> QED BY <1>2, <3>1, <3>4, <4>1, <4>2, <4>3, AfterAfter
    <3> QED BY <1>1, <2>2, <3>1, <3>2, <3>3, <3>4
  <2> QED BY <1>1, <1>2, <2>1, <2>2 DEF Nested
<1>9. Loops' = Loops \cup {n}
  <2>1. \A k \in 2..L : k \in 1..L /\ k \in 2..(L + 1)
    BY <1>1
  <2>2. \A k \in 2..(L + 1) : k \in 2..L \/ k = L + 1
    BY <1>1
  <2>3. L + 1 \in 2..(L + 1) /\ stack'[L + 1].loop = n
    BY <1>1, <1>2
  <2>4. Loops = {stack[k].loop : k \in 2..L} /\ Loops' = {stack'[k].loop : k \in 2..(L + 1)}
    BY <1>1, <1>2 DEF Loops
  <2> QED BY <1>3, <2>1, <2>2, <2>3, <2>4
<1> QED BY <1>1, <1>2, <1>4, <1>5, <1>6, <1>7, <1>8, <1>9 DEF Traversals

(* No loop is in progress twice.                                           *)
LEMMA LoopsDiffer ==
  ASSUME IInv, NEW i \in 2..Len(stack), NEW j \in 2..Len(stack), i < j
  PROVE  stack[i].loop # stack[j].loop
<1>1. stack[j].loop \in After(graph, stack[i].loop)
  BY DEF IInv, Traversals, Nested
<1>2. InLoop(graph, stack[i]) /\ graph \in Graphs
  BY DEF IInv, Traversals, Types
<1>3. stack[i].loop \in graph.nodes
  BY <1>2, BodyFacts DEF InLoop
<1> QED BY <1>1, <1>2, <1>3, AfterFacts

(* A loop ends or is left: f is the traversal it is a node of, h what that *)
(* becomes.                                                                *)
LEMMA StackShrinks ==
  ASSUME IInv, NEW f, NEW h, UNCHANGED <<graph, test>>,
         Len(stack) > 1, f = stack[Len(stack) - 1],
         Len(stack') = Len(stack) - 1, Stay(Len(stack) - 1),
         stack'[Len(stack) - 1] = h, Same(f, h),
         Walks(graph, h), Len(stack) > 2 => InLoop(graph, h),
         ~stopping' => ~stopping /\ cur' = Idle /\ Complete(graph, h, {})
  PROVE  Traversals' /\ Loops' = Loops \ {Top.loop}
<1>1. PICK L \in Nat \ {0} : L = Len(stack)
  BY Frame1
<1>2. /\ Top = stack[L] /\ Len(stack') = L - 1 /\ stack'[L - 1] = h /\ L - 1 \in Nat \ {0}
      /\ \A k \in 1..(L - 2) : stack'[k] = stack[k]
  BY <1>1 DEF Top, Stay
<1>3. \A k \in 1..(L - 1) : /\ stack'[k].loop = stack[k].loop /\ stack'[k].at = stack[k].at
                            /\ stack'[k].scope = stack[k].scope
  BY <1>1, <1>2 DEF Same
<1>4. ASSUME NEW k \in 1..(L - 1) PROVE Walks(graph', stack'[k])
  BY <1>1, <1>2 DEF IInv, Traversals
<1>5. ASSUME ~stopping', NEW k \in 1..(L - 1)
      PROVE  Complete(graph, stack[k], Executing(k))'
  <2>1. CASE k = L - 1
    BY <1>1, <1>2, <1>5, <2>1 DEF Executing
  <2>2. CASE k < L - 1
    <3>1. Complete(graph, stack[k], {stack[k + 1].loop})
      <4>1. Complete(graph, stack[k], Executing(k)) /\ k < L
        BY <1>1, <1>5, <2>2 DEF IInv, Traversals
      <4> QED BY <1>1, <4>1 DEF Executing
    <3>2. stack'[k] = stack[k] /\ stack'[k + 1].loop = stack[k + 1].loop
      BY <1>1, <1>2, <1>3, <2>2
    <3> QED BY <1>1, <1>2, <2>2, <3>1, <3>2 DEF Executing
  <2> QED BY <1>1, <1>2, <2>1, <2>2
<1>6. ASSUME NEW k \in 2..(L - 1) PROVE InLoop(graph', stack'[k])
  BY <1>1, <1>2 DEF IInv, Traversals
<1>7. Main'
  <2>1. 1 \in 1..(L - 1)
    BY <1>2
  <2> QED BY <1>3, <2>1 DEF IInv, Traversals, Main
<1>8. Nested'
  <2>1. \A k \in 2..(L - 1) : k \in 1..(L - 1) /\ k \in 2..L /\ stack'[k - 1] = stack[k - 1]
    BY <1>1, <1>2
  <2> QED BY <1>1, <1>2, <1>3, <2>1 DEF IInv, Traversals, Nested
<1>9. Loops' = Loops \ {Top.loop}
  <2>1. \A k \in 2..(L - 1) : k \in 1..(L - 1) /\ k \in 2..L /\ k < L
    BY <1>1, <1>2
  <2>2. \A k \in 2..L : k \in 2..(L - 1) \/ k = L
    BY <1>1
  <2>3. \A k \in 2..(L - 1) : stack[k].loop # stack[L].loop
    <3>1. L \in 2..L
      BY <1>1
    <3> QED BY <1>1, <2>1, <3>1, LoopsDiffer
  <2>4. Loops = {stack[k].loop : k \in 2..L} /\ Loops' = {stack'[k].loop : k \in 2..(L - 1)}
    BY <1>1, <1>2 DEF Loops
  <2>5. \A k \in 2..(L - 1) : stack'[k].loop = stack[k].loop
    BY <1>3, <2>1
  <2>6. Loops' \subseteq Loops \ {Top.loop}
    BY <1>2, <2>1, <2>3, <2>4, <2>5
  <2>7. Loops \ {Top.loop} \subseteq Loops'
    BY <1>2, <2>2, <2>4, <2>5
  <2> QED BY <2>6, <2>7
<1> QED BY <1>1, <1>2, <1>4, <1>5, <1>6, <1>7, <1>8, <1>9 DEF Traversals
-----------------------------------------------------------------------------
(* What holds whenever the runner takes a step.                            *)

LEMMA MayRunStays ==
  ASSUME UNCHANGED <<graph, test>>
  PROVE  MayRun' = MayRun
<1>1. missingUpstream' = missingUpstream
  BY DEF missingUpstream, Incoming
<1> QED BY <1>1 DEF MayRun

(* Only a loop decides whether to go on, and nothing executes meanwhile.   *)
LEMMA DecidingFacts ==
  ASSUME IInv, Deciding
  PROVE  Len(stack) > 1 /\ cur = Idle /\ MayRun /\ status = "running"
<1>1. PICK L \in Nat \ {0} : L = Len(stack) /\ Top = stack[L]
  BY Frame1
<1>2. stack[1].at = "walking"
  BY DEF IInv, Traversals, Main
<1>3. Top.at = "deciding" /\ status = "running"
  BY DEF Deciding
<1>4. L # 1
  BY <1>1, <1>2, <1>3
<1>5. cur = Idle
  BY <1>3 DEF IInv, Current
<1>6. Len(stack) > 1
  BY <1>1, <1>4
<1> QED BY <1>3, <1>5, <1>6 DEF IInv, Current

(* The scopes are of the graph, and those of the loops are not the main    *)
(* traversal's.                                                            *)
LEMMA Scopes ==
  ASSUME IInv, MayRun, NEW k \in 1..Len(stack)
  PROVE  /\ stack[k].scope \subseteq graph.nodes
         /\ stack[k].settled \subseteq graph.nodes
         /\ k > 1 /\ test = NoTest => stack[k].scope \cap stack[1].scope = {}
<1>1. graph \in Graphs /\ Len(stack) \in Nat
  BY Frame1
<1>2. stack[1].scope = IF test = NoTest THEN mainScope(graph) ELSE {test.node}
  BY DEF IInv, Traversals, Main
<1>3. CASE k = 1
  BY <1>2, <1>3 DEF mainScope, MayRun, IInv, Traversals, Walks, Closed
<1>4. CASE k > 1
  <2>1. InLoop(graph, stack[k])
    BY <1>1, <1>4 DEF IInv, Traversals
  <2>2. stack[k].scope \subseteq graph.nodes /\ stack[k].scope \subseteq BodyNodes(graph)
    BY <1>1, <2>1, BodyFacts DEF InLoop
  <2>3. stack[k].settled \subseteq stack[k].scope
    BY DEF IInv, Traversals, Walks, Closed
  <2> QED BY <1>2, <2>2, <2>3 DEF mainScope
<1> QED BY <1>1, <1>3, <1>4

(* Which traversal is the top one, and how far it is.                      *)
LEMMA TopFacts ==
  ASSUME IInv
  PROVE  /\ MayRun => Top.scope \subseteq graph.nodes
         /\ Top.loop = None <=> Len(stack) = 1
         /\ ~stopping => Complete(graph, Top, IF cur = Idle THEN {} ELSE {cur.node})
         /\ Dated(graph, Top, order, outputs)
         /\ cur # Idle => Top.began < order
<1>1. PICK L \in Nat \ {0} : L = Len(stack)
  BY Frame1
<1>2. Top = stack[L] /\ L \in 1..L
  BY <1>1, Frame1
<1>3. MayRun => Top.scope \subseteq graph.nodes
  BY <1>1, <1>2, Scopes
<1>4. Top.loop = None <=> Len(stack) = 1
  <2>1. CASE L = 1
    BY <1>1, <1>2, <2>1 DEF IInv, Traversals, Main
  <2>2. CASE L > 1
    <3>1. InLoop(graph, Top) /\ graph \in Graphs
      BY <1>1, <2>2, Frame1
    <3>2. Top.loop # None
      BY <3>1, BodyFacts DEF InLoop
    <3> QED BY <1>1, <2>2, <3>2
  <2> QED BY <1>1, <2>1, <2>2
<1>5. ~stopping => Complete(graph, Top, IF cur = Idle THEN {} ELSE {cur.node})
  <2>1. Executing(L) = IF cur = Idle THEN {} ELSE {cur.node}
    BY <1>1 DEF Executing
  <2>2. ~stopping => Complete(graph, stack[L], Executing(L))
    BY <1>1, <1>2 DEF IInv, Traversals
  <2> QED BY <1>2, <2>1, <2>2
<1>6. /\ Dated(graph, stack[L], order, outputs)
      /\ cur # Idle => stack[L].began < order
  BY <1>1, <1>2 DEF IInv, Times
<1> QED BY <1>2, <1>3, <1>4, <1>5, <1>6

(* What is live in a body comes after its loop.                            *)
LEMMA LiveAfter ==
  ASSUME IInv, Len(stack) > 1, NEW n, Live(Top, n)
  PROVE  n \in After(graph, Top.loop)
<1>1. InLoop(graph, Top)
  BY Frame1
<1> QED BY <1>1 DEF InLoop, Live, IncomingInScope, Incoming

(* The head of the queue, when it runs.                                    *)
LEMMA RunsFacts ==
  ASSUME IInv, NEW n, Runs(n)
  PROVE  /\ Walking /\ n \in Top.scope /\ n \notin Top.settled /\ n \in graph.nodes
         /\ n \in Nat /\ Into(graph, Top, n) \subseteq Top.decided
         /\ Len(stack) > 1 => n \in After(graph, Top.loop)
         /\ visited' = visited \cup {n}
<1>1. /\ Walking /\ n \in Top.scope /\ n \notin Top.settled /\ Decidable(Top, n)
      /\ Live(Top, n) /\ visited' = visited \cup {n}
  BY DEF Runs
<1>2. MayRun
  BY <1>1 DEF Walking
<1>3. n \in graph.nodes /\ n \in Nat
  BY <1>1, <1>2, TopFacts, Frame1
<1>4. Into(graph, Top, n) \subseteq Top.decided
  BY <1>1, EdgesOf DEF Decidable
<1> QED BY <1>1, <1>3, <1>4, LiveAfter
-----------------------------------------------------------------------------
(* What is remembered stays of its time.                                   *)
Later ==
  /\ order' \in Nat /\ order <= order'
  /\ outputs' \in [graph.nodes -> Nat]
  /\ \A m \in graph.nodes : outputs[m] <= outputs'[m] /\ outputs'[m] <= order'

LEMMA TimesKept ==
  ASSUME IInv, graph' = graph, Later, FreshResult',
         \A k \in 1..Len(stack') :
           \/ k \in 1..(Len(stack) - 1) /\ stack'[k] = stack[k]
           \/ /\ Dated(graph, stack'[k], order', outputs')
              /\ k < Len(stack') \/ cur' # Idle => stack'[k].began < order'
  PROVE  Times'
<1>1. PICK L \in Nat \ {0} : L = Len(stack) /\ \A k \in 1..L : stack[k] \in Frames(graph)
  BY Frame1
<1>2. order \in Nat /\ outputs \in [graph.nodes -> Nat]
  BY DEF IInv, Types
<1>3. ASSUME NEW k \in 1..(L - 1), stack'[k] = stack[k]
      PROVE  Dated(graph, stack'[k], order', outputs') /\ stack'[k].began < order'
  <2>1. Dated(graph, stack[k], order, outputs) /\ stack[k].began < order
    BY <1>1 DEF IInv, Times
  <2>2. stack[k].began \in Nat
    BY <1>1 DEF Frames
  <2>3. PICK f : f = stack[k]
    OBVIOUS
  <2>4. /\ f.began <= order' /\ f.began < order'
        /\ f.last # None => f.last \in graph.nodes /\ outputs'[f.last] > f.began
    BY <1>2, <2>1, <2>2, <2>3 DEF Dated, Later
  <2> QED BY <1>3, <2>3, <2>4 DEF Dated
<1>4. ASSUME NEW k \in 1..Len(stack')
      PROVE  /\ Dated(graph, stack'[k], order', outputs')
             /\ k < Len(stack') \/ cur' # Idle => stack'[k].began < order'
  BY <1>1, <1>3
<1> QED BY <1>4 DEF Times, Later

(* The top of a time before is of its time still.                          *)
LEMMA TopDated ==
  ASSUME IInv, Later, NEW f \in Frames(graph), f.began = Top.began, f.last = Top.last
  PROVE  Dated(graph, f, order', outputs') /\ (cur # Idle => f.began < order')
<1>1. Dated(graph, Top, order, outputs) /\ (cur # Idle => Top.began < order)
  BY TopFacts
<1>2. order \in Nat /\ outputs \in [graph.nodes -> Nat] /\ f.began \in Nat
  BY DEF IInv, Types, Frames
<1> QED BY <1>1, <1>2 DEF Dated, Later

(* Nothing is numbered or set.                                             *)
LEMMA LaterSame ==
  ASSUME IInv, graph' = graph, order' \in Nat, order <= order', UNCHANGED outputs
  PROVE  Later
<1>1. order \in Nat /\ outputs \in [graph.nodes -> Nat]
  BY DEF IInv, Types
<1>2. \A m \in graph.nodes : outputs[m] <= order
  BY DEF IInv, Times
<1> QED BY <1>1, <1>2 DEF Later

(* The output of n is set.                                                 *)
LEMMA LaterSet ==
  ASSUME IInv, graph' = graph, UNCHANGED order, NEW n \in graph.nodes,
         outputs' = [outputs EXCEPT ![n] = order]
  PROVE  Later /\ outputs'[n] = order
<1>1. order \in Nat /\ outputs \in [graph.nodes -> Nat]
  BY DEF IInv, Types
<1>2. \A m \in graph.nodes : outputs[m] <= order
  BY DEF IInv, Times
<1> QED BY <1>1, <1>2 DEF Later

LEMMA FreshStays ==
  ASSUME IInv, UNCHANGED result
  PROVE  FreshResult'
  BY DEF IInv, Times, FreshResult
-----------------------------------------------------------------------------
(* The steps that change the top traversal to f.                           *)
LEMMA TopStep ==
  ASSUME IInv, NEW f \in Frames(graph), stack' = WithTop(f), UNCHANGED <<graph, test>>,
         f.loop = Top.loop, f.scope = Top.scope, Len(stack) = 1 => f.at = "walking",
         Walks(graph, f), Len(stack) > 1 => InLoop(graph, f),
         ~stopping' => /\ ~stopping
                       /\ Complete(graph, f, IF cur' = Idle THEN {} ELSE {cur'.node}),
         Later, FreshResult', Dated(graph, f, order', outputs'),
         cur' # Idle => f.began < order'
  PROVE  /\ stack' \in Seq(Frames(graph')) /\ stack' # <<>>
         /\ Traversals' /\ Times' /\ Loops' = Loops
         /\ Len(stack') = Len(stack) /\ Top' = f
         /\ stack'[1] = IF Len(stack) = 1 THEN f ELSE stack[1]
<1>1. PICK L \in Nat \ {0} : L = Len(stack)
  BY Frame1
<1>2. stack \in Seq(Frames(graph)) /\ stack # <<>>
  BY DEF IInv, Types
<1>3. /\ WithTop(f) \in Seq(Frames(graph)) /\ WithTop(f) # <<>>
      /\ stack' = WithTop(f) => TopBecomes(f)
  BY <1>2, TopSet
<1>4. TopBecomes(f) /\ stack' \in Seq(Frames(graph')) /\ stack' # <<>>
  BY <1>3
<1>5. Traversals' /\ Loops' = Loops
  BY <1>4, TopChanges
<1>6. Len(stack') = L /\ stack'[L] = f /\ \A k \in 1..(L - 1) : stack'[k] = stack[k]
  BY <1>1, <1>4 DEF TopBecomes, Stay
<1>7. \A k \in 1..L : k \in 1..(L - 1) \/ k = L
  BY <1>1
<1>8. \A k \in 1..Len(stack') :
        \/ k \in 1..(Len(stack) - 1) /\ stack'[k] = stack[k]
        \/ /\ Dated(graph, stack'[k], order', outputs')
           /\ k < Len(stack') \/ cur' # Idle => stack'[k].began < order'
  <2> TAKE k \in 1..Len(stack')
  <2>1. (k \in 1..(Len(stack) - 1) /\ stack'[k] = stack[k]) \/ k = L
    BY <1>1, <1>6, <1>7
  <2>2. CASE k = L
    <3>1. stack'[k] = f /\ ~(k < Len(stack'))
      BY <1>6, <2>2
    <3> QED BY <3>1
  <2> QED BY <2>1, <2>2
<1>9. Times'
  <2>1. graph' = graph /\ Later /\ FreshResult'
    OBVIOUS
  <2> QED BY <1>8, <2>1, TimesKept
<1>10. Top' = f
  <2>1. Top' = stack'[Len(stack')]
    BY DEF Top
  <2>2. Len(stack') = L /\ stack'[L] = f
    BY <1>6
  <2> QED BY <2>1, <2>2
<1>11. stack'[1] = IF L = 1 THEN f ELSE stack[1]
  BY <1>1, <1>6
<1> QED BY <1>1, <1>4, <1>5, <1>6, <1>9, <1>10, <1>11

(* What has run and what was skipped, when no node is logged.              *)
LEMMA LoggedKept ==
  ASSUME IInv, UNCHANGED <<graph, test, visited, skipped, status>>,
         stack'[1].scope = stack[1].scope,
         stack[1].settled \subseteq stack'[1].settled
  PROVE  Logged'
  BY DEF IInv, Logged

LEMMA LoggedRuns ==
  ASSUME IInv, NEW n, Runs(n), UNCHANGED <<graph, test, skipped, status>>,
         stack'[1].scope = stack[1].scope,
         stack'[1].settled = IF Len(stack) = 1 THEN stack[1].settled \cup {n}
                             ELSE stack[1].settled
  PROVE  Logged'
<1> SUFFICES ASSUME test = NoTest PROVE Logged'
  BY DEF Logged
<1>1. PICK L \in Nat \ {0} : L = Len(stack) /\ Top = stack[L]
  BY Frame1
<1>2. /\ n \in stack[L].scope /\ n \notin stack[L].settled /\ visited' = visited \cup {n}
      /\ MayRun /\ status = "running"
  BY <1>1, RunsFacts DEF Walking
<1>3. skipped \subseteq stack[1].settled
  BY <1>2 DEF IInv, Logged
<1>4. CASE L = 1
  BY <1>1, <1>2, <1>3, <1>4 DEF IInv, Logged
<1>5. CASE L > 1
  <2>1. stack[L].scope \cap stack[1].scope = {}
    BY <1>1, <1>2, <1>5, Scopes
  <2>2. stack[1].settled \subseteq stack[1].scope
    BY <1>1 DEF IInv, Traversals, Walks, Closed
  <2>3. n \notin stack[1].scope /\ n \notin skipped
    BY <1>2, <1>3, <2>1, <2>2
  <2> QED BY <1>1, <1>2, <1>5, <2>3 DEF IInv, Logged
<1> QED BY <1>1, <1>4, <1>5

LEMMA Dropped ==
  ASSUME IInv, NEW n, Drop(n)
  PROVE  IInv'
<1> DEFINE f == [Top EXCEPT !.waiting = @ \ {n}]
<1>1. /\ Walking /\ stack' = WithTop(f)
      /\ UNCHANGED <<graph, test, cur, stopping, order, open, outputs, result,
                     visited, skipped, status, failures>>
  BY DEF Drop
<1>2. /\ MayRun /\ ~stopping /\ cur = Idle /\ status = "running" /\ Top.at = "walking"
  BY <1>1 DEF Walking
<1>3. /\ Top \in Frames(graph) /\ graph \in Graphs /\ Walks(graph, Top)
      /\ Len(stack) > 1 => InLoop(graph, Top)
  BY Frame1
<1>4. /\ f \in Frames(graph) /\ Same(Top, f) /\ f.waiting = Top.waiting \ {n}
      /\ f.settled = Top.settled /\ f.active = Top.active /\ f.decided = Top.decided
      /\ f.last = Top.last
  BY <1>3 DEF Frames, Same
<1>5. n \notin Top.scope \/ n \in Top.settled \/ ~(Into(graph, Top, n) \subseteq Top.decided)
  BY EdgesOf DEF Drop, Decidable
<1> HIDE DEF f
<1>6. \A m : Into(graph, f, m) = Into(graph, Top, m) /\ OutOf(graph, f, m) = OutOf(graph, Top, m)
  BY <1>4 DEF Into, OutOf, Same
<1>7. Walks(graph, f)
  <2>1. Closed(graph, f)
    BY <1>3, <1>4, <1>6 DEF Walks, Closed, Same
  <2>2. Queued(graph, f)
    BY <1>3, <1>4, <1>5, <1>6 DEF Walks, Queued, Same
  <2> QED BY <2>1, <2>2 DEF Walks
<1>8. Len(stack) > 1 => InLoop(graph, f)
  BY <1>3, <1>4, InLoopSame
<1>9. Complete(graph, f, {})
  <2>1. Complete(graph, Top, {})
    BY <1>2, TopFacts
  <2> QED BY <1>4, <1>6, <2>1 DEF Complete
<1>10. Later /\ FreshResult'
  <2>1. order \in Nat
    BY DEF IInv, Types
  <2> QED BY <1>1, <2>1, LaterSame, FreshStays
<1>11. Dated(graph, f, order', outputs')
  BY <1>4, <1>10, TopDated DEF Same
<1>12. /\ stack' \in Seq(Frames(graph')) /\ stack' # <<>>
       /\ Traversals' /\ Times' /\ Loops' = Loops
       /\ Len(stack') = Len(stack) /\ Top' = f
       /\ stack'[1] = IF Len(stack) = 1 THEN f ELSE stack[1]
  BY <1>1, <1>2, <1>4, <1>7, <1>8, <1>9, <1>10, <1>11, TopStep DEF Same
<1>13. Types'
  BY <1>1, <1>12 DEF IInv, Types
<1>14. Current'
  BY <1>1, <1>2, MayRunStays DEF Current
<1>15. Rows'
  BY <1>1, <1>2, <1>12 DEF IInv, Rows
<1>16. Logged'
  <2>1. Len(stack) = 1 => stack[1] = Top
    BY DEF Top
  <2> QED BY <1>1, <1>4, <1>12, <2>1, LoggedKept DEF Same
<1> QED BY <1>12, <1>13, <1>14, <1>15, <1>16 DEF IInv

(* The head of the queue is settled, and decides at once.                  *)
LEMMA Taken ==
  ASSUME IInv, Walking, NEW n \in Top.scope, Into(graph, Top, n) \subseteq Top.decided
  PROVE  /\ Takes(Top, n) \in Frames(graph) /\ Same(Top, Takes(Top, n))
         /\ Takes(Top, n).settled = Top.settled \cup {n}
         /\ Takes(Top, n).active = Top.active /\ Takes(Top, n).last = Top.last
         /\ Walks(graph, Takes(Top, n)) /\ Complete(graph, Takes(Top, n), {n})
         /\ Len(stack) > 1 => InLoop(graph, Takes(Top, n))
<1>1. /\ Top \in Frames(graph) /\ Walks(graph, Top) /\ n \in Nat
      /\ Len(stack) > 1 => InLoop(graph, Top)
  BY Frame1
<1>2. PICK f : f = Takes(Top, n)
  OBVIOUS
<1>3. /\ f \in Frames(graph) /\ Same(Top, f) /\ f.waiting = Top.waiting \ {n}
      /\ f.settled = Top.settled \cup {n} /\ f.active = Top.active
      /\ f.decided = Top.decided /\ f.last = Top.last
  BY <1>1, <1>2, TakesFacts
<1>4. Walks(graph, f)
  BY <1>1, <1>3, WalksTakes
<1>5. Complete(graph, f, {n})
  <2>1. Complete(graph, Top, {})
    BY TopFacts DEF Walking
  <2> QED BY <1>3, <2>1, CompleteTakes
<1>6. Len(stack) > 1 => InLoop(graph, f)
  BY <1>1, <1>3, InLoopSame
<1> QED BY <1>2, <1>3, <1>4, <1>5, <1>6

LEMMA TakenDecided ==
  ASSUME IInv, Walking, NEW n \in Top.scope, Into(graph, Top, n) \subseteq Top.decided,
         NEW handles,
         handles = {} \/ (Len(stack) > 1 => n \in After(graph, Top.loop)),
         NEW h, h = Decides(Takes(Top, n), n, handles)
  PROVE  /\ h \in Frames(graph) /\ Same(Top, h) /\ h.last = Top.last
         /\ h.settled = Top.settled \cup {n}
         /\ Walks(graph, h) /\ Complete(graph, h, {})
         /\ Len(stack) > 1 => InLoop(graph, h)
<1>1. PICK f : f = Takes(Top, n)
  OBVIOUS
<1>2. /\ f \in Frames(graph) /\ Same(Top, f) /\ f.settled = Top.settled \cup {n}
      /\ f.last = Top.last /\ Walks(graph, f) /\ Complete(graph, f, {n})
      /\ Len(stack) > 1 => InLoop(graph, f)
  BY <1>1, Taken
<1>3. graph \in Graphs
  BY Frame1
<1>4. /\ h \in Frames(graph) /\ Same(f, h)
      /\ h.waiting = f.waiting \cup Targets(OutOf(graph, f, n))
      /\ h.settled = f.settled /\ h.decided = f.decided \cup OutOf(graph, f, n)
      /\ h.active \subseteq f.active \cup OutOf(graph, f, n)
      /\ handles = {} => h.active = f.active
      /\ h.last = f.last
  BY <1>1, <1>2, <1>3, DecidesFacts
<1>5. Walks(graph, h)
  BY <1>2, <1>4, WalksDecides
<1>6. Complete(graph, h, {})
  BY <1>2, <1>4, CompleteDecides
<1>7. ASSUME Len(stack) > 1 PROVE InLoop(graph, h)
  <2>1. InLoop(graph, f) /\ f.loop = Top.loop
    BY <1>2, <1>7 DEF Same
  <2>2. CASE handles = {}
    BY <1>4, <2>1, <2>2, InLoopSame
  <2>3. CASE n \in After(graph, Top.loop)
    BY <1>3, <1>4, <2>1, <2>3, InLoopDecides
  <2> QED BY <1>7, <2>2, <2>3
<1>8. Same(Top, h) /\ h.last = Top.last /\ h.settled = Top.settled \cup {n}
  BY <1>2, <1>4 DEF Same
<1> QED BY <1>4, <1>5, <1>6, <1>7, <1>8

LEMMA Skipped ==
  ASSUME IInv, NEW n, Skip(n)
  PROVE  IInv'
<1>1. PICK f : f = Decides(Takes(Top, n), n, {})
  OBVIOUS
<1>2. /\ Walking /\ n \in Top.scope /\ n \notin Top.settled /\ stack' = WithTop(f)
      /\ Into(graph, Top, n) \subseteq Top.decided
      /\ UNCHANGED <<graph, test, cur, stopping, open, outputs, result, visited, status>>
  BY <1>1, EdgesOf DEF Skip, Decidable
<1>3. IF Top.loop = None /\ n # Trigger
        THEN skipped' = skipped \cup {n} /\ order' = order + 1
        ELSE UNCHANGED <<skipped, order>>
  BY DEF Skip
<1>4. /\ MayRun /\ ~stopping /\ cur = Idle /\ status = "running" /\ Top.at = "walking"
  BY <1>2 DEF Walking
<1>5. /\ f \in Frames(graph) /\ Same(Top, f) /\ f.last = Top.last
      /\ f.settled = Top.settled \cup {n}
      /\ Walks(graph, f) /\ Complete(graph, f, {})
      /\ Len(stack) > 1 => InLoop(graph, f)
  BY <1>1, <1>2, TakenDecided
<1>6. Later /\ FreshResult'
  <2>1. order \in Nat
    BY DEF IInv, Types
  <2> QED BY <1>2, <1>3, <2>1, LaterSame, FreshStays
<1>7. Dated(graph, f, order', outputs')
  BY <1>5, <1>6, TopDated DEF Same
<1>8. /\ stack' \in Seq(Frames(graph')) /\ stack' # <<>>
      /\ Traversals' /\ Times' /\ Loops' = Loops
      /\ Len(stack') = Len(stack) /\ Top' = f
      /\ stack'[1] = IF Len(stack) = 1 THEN f ELSE stack[1]
  BY <1>2, <1>4, <1>5, <1>6, <1>7, TopStep DEF Same
<1>9. n \in graph.nodes
  BY <1>2, <1>4, TopFacts
<1>10. Types'
  BY <1>2, <1>3, <1>6, <1>8, <1>9 DEF IInv, Types, Later
<1>11. Current'
  BY <1>2, <1>4, MayRunStays DEF Current
<1>12. Rows'
  BY <1>2, <1>4, <1>8 DEF IInv, Rows
<1>13. Logged'
  <2>1. Len(stack) = 1 => stack[1] = Top
    BY DEF Top
  <2>2. /\ stack'[1].scope = stack[1].scope
        /\ stack[1].settled \subseteq stack'[1].settled
    BY <1>5, <1>8, <2>1 DEF Same
  <2>3. CASE skipped' = skipped
    BY <1>2, <2>2, <2>3, LoggedKept
  <2>4. CASE Top.loop = None /\ skipped' = skipped \cup {n}
    <3>1. Len(stack) = 1
      BY <2>4, TopFacts
    <3>2. n \in stack[1].scope /\ n \notin stack[1].settled /\ n \in stack'[1].settled
      BY <1>2, <1>5, <1>8, <2>1, <3>1
    <3> QED BY <1>2, <1>4, <2>2, <2>4, <3>2 DEF IInv, Logged
  <2> QED BY <1>3, <2>3, <2>4
<1> QED BY <1>8, <1>10, <1>11, <1>12, <1>13 DEF IInv

LEMMA TriggerRun ==
  ASSUME IInv, NEW n, RunTrigger(n)
  PROVE  IInv'
<1>1. PICK f : f = Decides(Takes(Top, n), n, {"out"})
  OBVIOUS
<1>2. /\ Runs(n) /\ stack' = WithTop(f)
      /\ UNCHANGED <<graph, test, cur, stopping, order, open, outputs, result,
                     skipped, status>>
  BY <1>1 DEF RunTrigger
<1>3. /\ Walking /\ n \in Top.scope /\ n \notin Top.settled /\ n \in graph.nodes
      /\ Into(graph, Top, n) \subseteq Top.decided
      /\ Len(stack) > 1 => n \in After(graph, Top.loop)
      /\ visited' = visited \cup {n}
  BY <1>2, RunsFacts
<1>4. /\ MayRun /\ ~stopping /\ cur = Idle /\ status = "running" /\ Top.at = "walking"
  BY <1>3 DEF Walking
<1>5. /\ f \in Frames(graph) /\ Same(Top, f) /\ f.last = Top.last
      /\ f.settled = Top.settled \cup {n}
      /\ Walks(graph, f) /\ Complete(graph, f, {})
      /\ Len(stack) > 1 => InLoop(graph, f)
  BY <1>1, <1>3, TakenDecided
<1>6. Later /\ FreshResult'
  <2>1. order \in Nat
    BY DEF IInv, Types
  <2> QED BY <1>2, <2>1, LaterSame, FreshStays
<1>7. Dated(graph, f, order', outputs')
  BY <1>5, <1>6, TopDated DEF Same
<1>8. /\ stack' \in Seq(Frames(graph')) /\ stack' # <<>>
      /\ Traversals' /\ Times' /\ Loops' = Loops
      /\ Len(stack') = Len(stack) /\ Top' = f
      /\ stack'[1] = IF Len(stack) = 1 THEN f ELSE stack[1]
  BY <1>2, <1>4, <1>5, <1>6, <1>7, TopStep DEF Same
<1>9. Types'
  BY <1>2, <1>3, <1>8 DEF IInv, Types
<1>10. Current'
  BY <1>2, <1>4, MayRunStays DEF Current
<1>11. Rows'
  BY <1>2, <1>4, <1>8 DEF IInv, Rows
<1>12. Logged'
  <2>1. Len(stack) = 1 => stack[1] = Top
    BY DEF Top
  <2> QED BY <1>2, <1>5, <1>8, <2>1, LoggedRuns DEF Same
<1> QED BY <1>8, <1>9, <1>10, <1>11, <1>12 DEF IInv

LEMMA StepStarted ==
  ASSUME IInv, NEW n, StartStep(n)
  PROVE  IInv'
<1>1. PICK f : f = Takes(Top, n)
  OBVIOUS
<1>2. /\ Runs(n) /\ stack' = WithTop(f) /\ graph.type[n] \in {"agent", "condition"}
      /\ cur' = [node |-> n, attempt |-> 1] /\ order' = order + 1
      /\ open' = open \cup {n}
      /\ UNCHANGED <<graph, test, stopping, outputs, result, skipped, status>>
  BY <1>1 DEF StartStep
<1>3. /\ Walking /\ n \in Top.scope /\ n \notin Top.settled /\ n \in graph.nodes /\ n \in Nat
      /\ Into(graph, Top, n) \subseteq Top.decided
      /\ Len(stack) > 1 => n \in After(graph, Top.loop)
      /\ visited' = visited \cup {n}
  BY <1>2, RunsFacts
<1>4. /\ MayRun /\ ~stopping /\ cur = Idle /\ status = "running" /\ Top.at = "walking"
  BY <1>3 DEF Walking
<1>5. /\ f \in Frames(graph) /\ Same(Top, f) /\ f.last = Top.last
      /\ f.settled = Top.settled \cup {n}
      /\ Walks(graph, f) /\ Complete(graph, f, {n})
      /\ Len(stack) > 1 => InLoop(graph, f)
  BY <1>1, <1>3, Taken
<1>6. Later /\ FreshResult' /\ order \in Nat
  <2>1. order \in Nat
    BY DEF IInv, Types
  <2> QED BY <1>2, <2>1, LaterSame, FreshStays
<1>7. Dated(graph, f, order', outputs') /\ f.began < order'
  <2>1. f.began <= order
    BY <1>5, TopFacts DEF Same, Dated
  <2>2. f.began \in Nat
    BY <1>5 DEF Frames
  <2> QED BY <1>2, <1>5, <1>6, <2>1, <2>2, TopDated DEF Same
<1>8. cur' # Idle /\ cur'.node = n
  BY <1>2 DEF Idle
<1>9. /\ stack' \in Seq(Frames(graph')) /\ stack' # <<>>
      /\ Traversals' /\ Times' /\ Loops' = Loops
      /\ Len(stack') = Len(stack) /\ Top' = f
      /\ stack'[1] = IF Len(stack) = 1 THEN f ELSE stack[1]
  BY <1>2, <1>4, <1>5, <1>6, <1>7, <1>8, TopStep DEF Same
<1>10. Types'
  BY <1>2, <1>3, <1>6, <1>9 DEF IInv, Types
<1>11. Current'
  BY <1>2, <1>3, <1>4, <1>5, <1>8, <1>9, MayRunStays DEF Current, Same
<1>12. Rows'
  BY <1>2, <1>4, <1>8, <1>9 DEF IInv, Rows
<1>13. Logged'
  <2>1. Len(stack) = 1 => stack[1] = Top
    BY DEF Top
  <2> QED BY <1>2, <1>5, <1>9, <2>1, LoggedRuns DEF Same
<1> QED BY <1>9, <1>10, <1>11, <1>12, <1>13 DEF IInv

(* A step or a condition returns, or continues after a failure.            *)
LEMMA Returns ==
  ASSUME IInv, cur # Idle, status = "running", NEW handles, Closes(cur.node, handles),
         UNCHANGED <<graph, test, stopping, order, result, visited, skipped, status>>
  PROVE  IInv'
<1>1. PICK n : n = cur.node
  OBVIOUS
<1>2. PICK f : f = Executed(Top, n, handles)
  OBVIOUS
<1>3. /\ cur' = Idle /\ open' = open \ {n} /\ outputs' = [outputs EXCEPT ![n] = order]
      /\ stack' = WithTop(f)
  BY <1>1, <1>2 DEF Closes
<1>4. /\ MayRun /\ ~stopping /\ Top.at = "walking" /\ n \in Top.settled
      /\ graph.type[n] \in {"agent", "condition"}
      /\ Len(stack) > 1 => n \in After(graph, Top.loop)
  BY <1>1 DEF IInv, Current
<1>5. /\ Top \in Frames(graph) /\ graph \in Graphs /\ Walks(graph, Top)
      /\ Len(stack) > 1 => InLoop(graph, Top)
  BY Frame1
<1>6. n \in graph.nodes /\ n \in Nat
  <2>1. n \in Top.scope
    BY <1>4, <1>5 DEF Walks, Closed
  <2> QED BY <1>4, <1>5, <2>1, TopFacts, GraphFacts
<1>7. /\ f \in Frames(graph) /\ Same(Top, f)
      /\ f.waiting = Top.waiting \cup Targets(OutOf(graph, Top, n))
      /\ f.settled = Top.settled
      /\ f.decided = Top.decided \cup OutOf(graph, Top, n)
      /\ f.active \subseteq Top.active \cup OutOf(graph, Top, n)
      /\ f.last = n
  BY <1>2, <1>5, <1>6, ExecutedFacts
<1>8. Walks(graph, f)
  BY <1>4, <1>5, <1>7, WalksDecides
<1>9. Complete(graph, f, {})
  <2>1. Complete(graph, Top, {n})
    BY <1>1, <1>4, TopFacts
  <2> QED BY <1>7, <2>1, CompleteDecides
<1>10. Len(stack) > 1 => InLoop(graph, f)
  BY <1>4, <1>5, <1>7, InLoopDecides
<1>11. Later /\ outputs'[n] = order /\ FreshResult'
  BY <1>3, <1>6, LaterSet, FreshStays
<1>12. Dated(graph, f, order', outputs')
  <2>1. Top.began < order /\ f.began = Top.began
    BY <1>7, TopFacts DEF Same
  <2>2. order \in Nat /\ Top.began \in Nat
    BY <1>5 DEF IInv, Types, Frames
  <2> QED BY <1>6, <1>7, <1>11, <2>1, <2>2 DEF Dated
<1>13. /\ stack' \in Seq(Frames(graph')) /\ stack' # <<>>
       /\ Traversals' /\ Times' /\ Loops' = Loops
       /\ Len(stack') = Len(stack) /\ Top' = f
       /\ stack'[1] = IF Len(stack) = 1 THEN f ELSE stack[1]
  BY <1>3, <1>4, <1>7, <1>8, <1>9, <1>10, <1>11, <1>12, TopStep DEF Same
<1>14. Types'
  BY <1>3, <1>11, <1>13 DEF IInv, Types, Idle, None, Trigger, Later
<1>15. Current'
  BY <1>3, <1>4, MayRunStays DEF Current
<1>16. Rows'
  <2>1. n \notin Loops
    <3>1. \A k \in 2..Len(stack) : stack[k].loop \in OfType(graph, "loop")
      BY DEF IInv, Traversals, InLoop
    <3> QED BY <1>4, <3>1 DEF Loops, OfType
  <2> QED BY <1>1, <1>3, <1>13, <2>1 DEF IInv, Rows
<1>17. Logged'
  <2>1. Len(stack) = 1 => stack[1] = Top
    BY DEF Top
  <2> QED BY <1>7, <1>13, <2>1, LoggedKept DEF Same
<1> QED BY <1>13, <1>14, <1>15, <1>16, <1>17 DEF IInv

LEMMA Succeeded == ASSUME IInv, StepSucceeds PROVE IInv'
<1>1. PICK handles \in Branches(cur.node) : Closes(cur.node, handles)
  BY DEF StepSucceeds
<1> QED BY <1>1, Returns DEF StepSucceeds

LEMMA Continued == ASSUME IInv, StepContinues PROVE IInv'
  BY Returns DEF StepContinues, AttemptThrows
-----------------------------------------------------------------------------
(* Iterations.                                                             *)

LEMMA Began ==
  ASSUME IInv, IterationBegins
  PROVE  IInv'
<1> DEFINE f == [Top EXCEPT !.at = "walking", !.waiting = Top.entries,
                            !.settled = {}, !.active = {}, !.decided = {},
                            !.last = None, !.began = order]
<1>1. /\ Deciding /\ stack' = WithTop(f)
      /\ UNCHANGED <<graph, test, cur, stopping, order, open, outputs, result,
                     visited, skipped, status>>
  BY DEF IterationBegins
<1>2. /\ Len(stack) > 1 /\ cur = Idle /\ MayRun /\ status = "running" /\ ~stopping
  BY <1>1, DecidingFacts DEF Deciding
<1>3. /\ Top \in Frames(graph) /\ graph \in Graphs /\ InLoop(graph, Top)
  BY <1>2, Frame1
<1>4. order \in Nat
  BY DEF IInv, Types
<1>5. /\ f \in Frames(graph) /\ f.loop = Top.loop /\ f.entries = Top.entries
      /\ f.scope = Top.scope /\ f.waiting = f.entries
      /\ f.settled = {} /\ f.active = {} /\ f.decided = {}
      /\ f.last = None /\ f.began = order /\ f.at = "walking"
  BY <1>3, <1>4 DEF Frames, None, Trigger
<1> HIDE DEF f
<1>6. Walks(graph, f)
  BY <1>5 DEF Walks, Closed, Queued
<1>7. Complete(graph, f, {}) /\ InLoop(graph, f)
  BY <1>3, <1>5 DEF Complete, InLoop
<1>8. Later /\ FreshResult'
  BY <1>1, <1>4, LaterSame, FreshStays
<1>9. Dated(graph, f, order', outputs')
  BY <1>1, <1>4, <1>5 DEF Dated
<1>10. /\ stack' \in Seq(Frames(graph')) /\ stack' # <<>>
       /\ Traversals' /\ Times' /\ Loops' = Loops
       /\ Len(stack') = Len(stack) /\ Top' = f
       /\ stack'[1] = IF Len(stack) = 1 THEN f ELSE stack[1]
  BY <1>1, <1>2, <1>5, <1>6, <1>7, <1>8, <1>9, TopStep
<1>11. Types'
  BY <1>1, <1>10 DEF IInv, Types
<1>12. Current'
  BY <1>1, <1>2, MayRunStays DEF Current
<1>13. Rows'
  BY <1>1, <1>2, <1>10 DEF IInv, Rows
<1>14. Logged'
  <2>1. stack'[1] = stack[1]
    BY <1>2, <1>10
  <2> QED BY <1>1, <2>1, LoggedKept
<1> QED BY <1>10, <1>11, <1>12, <1>13, <1>14 DEF IInv

LEMMA Ended ==
  ASSUME IInv, IterationEnds
  PROVE  IInv'
<1> DEFINE f == [Top EXCEPT !.at = "deciding", !.iteration = @ + 1]
<1>1. /\ Walking /\ Top.loop # None /\ stack' = WithTop(f)
      /\ result' = IF Top.last = None THEN result
                   ELSE [node |-> Top.last, at |-> outputs[Top.last], began |-> Top.began]
      /\ UNCHANGED <<graph, test, cur, stopping, order, open, outputs, visited,
                     skipped, status>>
  BY DEF IterationEnds, Terminal
<1>2. /\ Len(stack) # 1 /\ cur = Idle /\ MayRun /\ status = "running" /\ ~stopping
  BY <1>1, TopFacts DEF Walking
<1>3. /\ Top \in Frames(graph) /\ graph \in Graphs /\ Walks(graph, Top)
      /\ Len(stack) > 1 => InLoop(graph, Top)
  BY Frame1
<1>4. order \in Nat /\ outputs \in [graph.nodes -> Nat]
  BY DEF IInv, Types
<1>5. /\ f \in Frames(graph) /\ f.loop = Top.loop /\ f.entries = Top.entries
      /\ f.scope = Top.scope /\ f.waiting = Top.waiting
      /\ f.settled = Top.settled /\ f.active = Top.active /\ f.decided = Top.decided
      /\ f.last = Top.last /\ f.began = Top.began
  <2>1. PICK i : i = Top.iteration + 1
    OBVIOUS
  <2>2. i \in Nat
    BY <1>3, <2>1 DEF Frames
  <2>3. f = [Top EXCEPT !.at = "deciding", !.iteration = i]
    BY <1>3, <2>1 DEF Frames
  <2> HIDE DEF f
  <2> QED BY <1>3, <2>2, <2>3 DEF Frames
<1> HIDE DEF f
<1>6. \A m : Into(graph, f, m) = Into(graph, Top, m) /\ OutOf(graph, f, m) = OutOf(graph, Top, m)
  BY <1>5 DEF Into, OutOf
<1>7. Walks(graph, f)
  BY <1>3, <1>5, <1>6 DEF Walks, Closed, Queued
<1>8. Complete(graph, f, {})
  <2>1. Complete(graph, Top, {})
    BY <1>2, TopFacts
  <2> QED BY <1>5, <1>6, <2>1 DEF Complete
<1>9. Len(stack) > 1 => InLoop(graph, f)
  BY <1>3, <1>5 DEF InLoop
<1>10. Dated(graph, Top, order, outputs)
  BY TopFacts
<1>11. Later /\ FreshResult' /\ result' \in [node : Nat, at : Nat, began : Nat]
  <2>1. Later
    BY <1>1, <1>4, LaterSame
  <2>2. CASE Top.last = None
    BY <1>1, <2>1, <2>2, FreshStays DEF IInv, Types
  <2>3. CASE Top.last # None
    <3>1. Top.last \in graph.nodes /\ outputs[Top.last] > Top.began
      BY <1>10, <2>3 DEF Dated
    <3>2. Top.last \in Nat /\ Top.began \in Nat /\ outputs[Top.last] \in Nat
      BY <1>3, <1>4, <3>1 DEF Frames
    <3>3. result' = [node |-> Top.last, at |-> outputs[Top.last], began |-> Top.began]
      BY <1>1, <2>3
    <3> QED BY <2>1, <3>1, <3>2, <3>3 DEF FreshResult
  <2> QED BY <2>2, <2>3
<1>12. Dated(graph, f, order', outputs')
  BY <1>5, <1>11, TopDated
<1>13. /\ stack' \in Seq(Frames(graph')) /\ stack' # <<>>
       /\ Traversals' /\ Times' /\ Loops' = Loops
       /\ Len(stack') = Len(stack) /\ Top' = f
       /\ stack'[1] = IF Len(stack) = 1 THEN f ELSE stack[1]
  BY <1>1, <1>2, <1>5, <1>7, <1>8, <1>9, <1>11, <1>12, TopStep
<1>14. Types'
  BY <1>1, <1>11, <1>13 DEF IInv, Types
<1>15. Current'
  BY <1>1, <1>2, MayRunStays DEF Current
<1>16. Rows'
  BY <1>1, <1>2, <1>13 DEF IInv, Rows
<1>17. Logged'
  <2>1. stack'[1] = stack[1]
    BY <1>2, <1>13
  <2> QED BY <1>1, <2>1, LoggedKept
<1> QED BY <1>13, <1>14, <1>15, <1>16, <1>17 DEF IInv

LEMMA LoopStarted ==
  ASSUME IInv, NEW n, StartLoop(n)
  PROVE  IInv'
<1> DEFINE entries == bodyEntry(n)
           body == collectBodySubgraph(graph, n)
<1>1. PICK mode \in {"forEach", "while"}, limit \in 0..MaxIterations :
        stack' = WithTop(Takes(Top, n)) \o <<Traversal(n, entries, body, mode, limit)>>
  BY DEF StartLoop
<1>2. PICK f, h : f = Takes(Top, n) /\ h = Traversal(n, entries, body, mode, limit)
  OBVIOUS
<1>3. /\ Runs(n) /\ graph.type[n] = "loop" /\ stack' = WithTop(f) \o <<h>>
      /\ order' = order + 1 /\ open' = open \cup {n}
      /\ UNCHANGED <<graph, test, cur, stopping, outputs, result, skipped, status>>
  BY <1>1, <1>2 DEF StartLoop
<1>4. /\ Walking /\ n \in Top.scope /\ n \notin Top.settled /\ n \in graph.nodes /\ n \in Nat
      /\ Into(graph, Top, n) \subseteq Top.decided
      /\ Len(stack) > 1 => n \in After(graph, Top.loop)
      /\ visited' = visited \cup {n}
  BY <1>3, RunsFacts
<1>5. /\ MayRun /\ ~stopping /\ cur = Idle /\ status = "running"
  BY <1>4 DEF Walking
<1>6. /\ f \in Frames(graph) /\ Same(Top, f) /\ f.last = Top.last
      /\ f.settled = Top.settled \cup {n}
      /\ Walks(graph, f) /\ Complete(graph, f, {n})
      /\ Len(stack) > 1 => InLoop(graph, f)
  BY <1>2, <1>4, Taken
<1>7. graph \in Graphs /\ n \in OfType(graph, "loop") /\ graph.nodes \subseteq Nat
  BY <1>3, <1>4, Frame1, GraphFacts DEF OfType
<1>8. n # None /\ body \subseteq graph.nodes
  BY <1>7, BodyFacts
<1>9. entries \subseteq body /\ entries \subseteq After(graph, n)
  <2>1. \A e \in Forward(graph) : e.source = n => e.target \in After(graph, n)
    BY <1>4, <1>7, AfterFacts
  <2> QED BY <2>1 DEF bodyEntry, Targets, Outgoing, Forward
<1> HIDE DEF entries
<1>10. /\ h \in Frames(graph) /\ h.loop = n /\ h.entries = entries /\ h.waiting = entries
       /\ h.scope = collectBodySubgraph(graph, n) /\ h.settled = {} /\ h.active = {}
       /\ h.decided = {} /\ h.last = None /\ h.began = 0
  <2>1. limit \in Nat /\ entries \in SUBSET Nat /\ body \in SUBSET Nat
    BY <1>7, <1>8, <1>9, RunnerAssumption
  <2>2. h = [loop |-> n, entries |-> entries, scope |-> body, waiting |-> entries,
             settled |-> {}, active |-> {}, decided |-> {}, last |-> None,
             mode |-> mode, limit |-> limit, iteration |-> 0, began |-> 0,
             at |-> "deciding"]
    BY <1>2, <1>8 DEF Traversal
  <2> HIDE DEF body
  <2>3. h \in Frames(graph)
    BY <1>4, <2>1, <2>2 DEF Frames, None, Trigger
  <2> QED BY <2>2, <2>3 DEF body
<1>11. Walks(graph, h) /\ Complete(graph, h, {}) /\ InLoop(graph, h)
  BY <1>7, <1>9, <1>10 DEF Walks, Closed, Queued, Complete, InLoop
<1>12. PICK L \in Nat \ {0} : L = Len(stack) /\ Top = stack[L]
  BY Frame1
<1>13. /\ stack' \in Seq(Frames(graph')) /\ stack' # <<>>
       /\ Len(stack') = L + 1 /\ Stay(L) /\ stack'[L] = f /\ stack'[L + 1] = h
  <2>1. stack \in Seq(Frames(graph)) /\ stack # <<>>
    BY DEF IInv, Types
  <2>2. /\ WithTop(f) \o <<h>> \in Seq(Frames(graph)) /\ WithTop(f) \o <<h>> # <<>>
        /\ stack' = WithTop(f) \o <<h>> =>
             /\ Len(stack') = Len(stack) + 1 /\ Stay(Len(stack))
             /\ stack'[Len(stack)] = f /\ stack'[Len(stack) + 1] = h
    <3>1. f \in Frames(graph) /\ h \in Frames(graph)
      BY <1>6, <1>10
    <3> QED BY <2>1, <3>1, Pushed
  <2>3. graph' = graph
    BY <1>3
  <2> QED BY <1>3, <1>12, <2>2, <2>3
<1>14. Traversals' /\ Loops' = Loops \cup {n}
  BY <1>3, <1>4, <1>5, <1>6, <1>10, <1>11, <1>12, <1>13, StackGrows
<1>15. Later /\ FreshResult' /\ order \in Nat
  <2>1. order \in Nat
    BY DEF IInv, Types
  <2> QED BY <1>3, <2>1, LaterSame, FreshStays
<1>16. Times'
  <2>1. Dated(graph, f, order', outputs') /\ f.began < order'
    <3>1. f.began <= order
      BY <1>6, TopFacts DEF Same, Dated
    <3>2. f.began \in Nat
      BY <1>6 DEF Frames
    <3> QED BY <1>3, <1>6, <1>15, <3>1, <3>2, TopDated DEF Same
  <2>2. Dated(graph, h, order', outputs')
    BY <1>3, <1>10, <1>15 DEF Dated
  <2>3. \A k \in 1..(L + 1) : k \in 1..(L - 1) \/ k = L \/ k = L + 1
    BY <1>12
  <2>4. \A k \in 1..Len(stack') :
          \/ k \in 1..(Len(stack) - 1) /\ stack'[k] = stack[k]
          \/ /\ Dated(graph, stack'[k], order', outputs')
             /\ k < Len(stack') \/ cur' # Idle => stack'[k].began < order'
    BY <1>3, <1>5, <1>12, <1>13, <2>1, <2>2, <2>3 DEF Stay
  <2> QED BY <1>3, <1>15, <2>4, TimesKept
<1>17. Types'
  BY <1>3, <1>4, <1>13, <1>15 DEF IInv, Types
<1>18. Current'
  BY <1>3, <1>5, MayRunStays DEF Current
<1>19. Rows'
  BY <1>3, <1>5, <1>14 DEF IInv, Rows
<1>20. Logged'
  <2>1. L = 1 => stack'[1] = f /\ stack[1] = Top
    BY <1>12, <1>13
  <2>2. L # 1 => stack'[1] = stack[1]
    BY <1>12, <1>13 DEF Stay
  <2> QED BY <1>3, <1>6, <1>12, <2>1, <2>2, LoggedRuns DEF Same
<1> QED BY <1>14, <1>16, <1>17, <1>18, <1>19, <1>20 DEF IInv
-----------------------------------------------------------------------------
(* The end of a loop.                                                      *)

(* The traversal a loop is a node of.                                      *)
LEMMA OuterFacts ==
  ASSUME IInv, Len(stack) > 1
  PROVE  LET f == stack[Len(stack) - 1]
         IN  /\ f \in Frames(graph) /\ Walks(graph, f)
             /\ Len(stack) > 2 => InLoop(graph, f)
             /\ Top.loop \in f.settled /\ Top.loop \in graph.nodes
             /\ Len(stack) > 2 => Top.loop \in After(graph, f.loop)
             /\ ~stopping => Complete(graph, f, {Top.loop})
             /\ f.began < order
<1>1. PICK L \in Nat \ {0, 1} : L = Len(stack) /\ Top = stack[L]
  BY Frame1
<1>2. PICK f : f = stack[L - 1]
  OBVIOUS
<1>3. L - 1 \in 1..L /\ L - 1 < L /\ L \in 2..L /\ (L - 1) + 1 = L /\ (L > 2 => L - 1 \in 2..L)
  BY <1>1
<1>4. f \in Frames(graph) /\ Walks(graph, f)
  BY <1>1, <1>2, <1>3, Frame1 DEF IInv, Traversals
<1>5. (L > 2 => InLoop(graph, f)) /\ Top.loop \in f.settled
  BY <1>1, <1>2, <1>3 DEF IInv, Traversals, Nested
<1>6. L > 2 => Top.loop \in After(graph, f.loop)
  BY <1>1, <1>2, <1>3 DEF IInv, Traversals, Nested
<1>7. ~stopping => Complete(graph, f, {Top.loop})
  <2>1. Executing(L - 1) = {Top.loop}
    BY <1>1, <1>3 DEF Executing
  <2>2. ~stopping => Complete(graph, f, Executing(L - 1))
    BY <1>1, <1>2, <1>3 DEF IInv, Traversals
  <2> QED BY <2>1, <2>2
<1>8. f.began < order
  BY <1>1, <1>2, <1>3 DEF IInv, Times
<1>9. Top.loop \in graph.nodes
  <2>1. InLoop(graph, Top) /\ graph \in Graphs
    BY Frame1
  <2> QED BY <2>1, BodyFacts DEF InLoop
<1> QED BY <1>1, <1>2, <1>4, <1>5, <1>6, <1>7, <1>8, <1>9

LEMMA Finished ==
  ASSUME IInv, LoopEnds
  PROVE  IInv'
<1>1. PICK L \in Nat \ {0} : L = Len(stack) /\ Top = stack[L]
  BY Frame1
<1>2. Deciding /\ L > 1 /\ cur = Idle /\ MayRun /\ status = "running" /\ ~stopping
  BY <1>1, DecidingFacts DEF LoopEnds, Deciding
<1>3. PICK f, n : f = stack[L - 1] /\ n = Top.loop
  OBVIOUS
<1>4. PICK h : h = Executed(f, n, {"done"})
  OBVIOUS
<1>5. stack \in Seq(Frames(graph)) /\ stack # <<>> /\ graph \in Graphs
  BY Frame1 DEF IInv, Types
<1>6. /\ f \in Frames(graph) /\ Walks(graph, f) /\ (L > 2 => InLoop(graph, f))
      /\ n \in f.settled /\ n \in graph.nodes /\ (L > 2 => n \in After(graph, f.loop))
      /\ Complete(graph, f, {n}) /\ f.began < order
  BY <1>1, <1>2, <1>3, OuterFacts
<1>7. n \in Nat
  BY <1>5, <1>6, GraphFacts
<1>8. /\ h \in Frames(graph) /\ Same(f, h)
      /\ h.waiting = f.waiting \cup Targets(OutOf(graph, f, n))
      /\ h.settled = f.settled
      /\ h.decided = f.decided \cup OutOf(graph, f, n)
      /\ h.active \subseteq f.active \cup OutOf(graph, f, n)
      /\ h.last = n
  BY <1>4, <1>5, <1>6, <1>7, ExecutedFacts
<1>9. Walks(graph, h)
  BY <1>6, <1>8, WalksDecides
<1>10. Complete(graph, h, {})
  BY <1>6, <1>8, CompleteDecides
<1>11. L > 2 => InLoop(graph, h)
  BY <1>5, <1>6, <1>8, InLoopDecides
<1>12. Below[Len(Below)] = f
  BY <1>1, <1>2, <1>3, <1>5, <1>6, Returned
<1>13. /\ stack' = Front(Below) \o <<h>>
       /\ outputs' = [outputs EXCEPT ![n] = order] /\ open' = open \ {n}
       /\ UNCHANGED <<graph, test, cur, stopping, order, result, visited, skipped, status>>
  BY <1>3, <1>4, <1>12 DEF LoopEnds, Front
<1>14. /\ stack' \in Seq(Frames(graph')) /\ stack' # <<>>
       /\ Len(stack') = L - 1 /\ Stay(L - 1) /\ stack'[L - 1] = h
  BY <1>1, <1>2, <1>5, <1>8, <1>13, Returned
<1>15. Traversals' /\ Loops' = Loops \ {n}
  BY <1>1, <1>2, <1>3, <1>8, <1>9, <1>10, <1>11, <1>13, <1>14, StackShrinks
<1>16. Later /\ outputs'[n] = order /\ FreshResult' /\ order \in Nat
  BY <1>6, <1>13, LaterSet, FreshStays DEF IInv, Types
<1>17. Dated(graph, h, order', outputs')
  <2>1. h.began = f.began /\ f.began \in Nat
    BY <1>6, <1>8 DEF Same, Frames
  <2> QED BY <1>6, <1>8, <1>13, <1>16, <2>1 DEF Dated
<1>18. Times'
  <2>1. \A k \in 1..(L - 1) : /\ k \in 1..(L - 2) \/ k = L - 1
                              /\ k \in 1..(L - 2) => k \in 1..(L - 1)
    BY <1>1
  <2>2. \A k \in 1..(L - 2) : stack'[k] = stack[k]
    BY <1>1, <1>14 DEF Stay
  <2>3. ~(L - 1 < L - 1)
    BY <1>1
  <2>4. \A k \in 1..Len(stack') :
          \/ k \in 1..(Len(stack) - 1) /\ stack'[k] = stack[k]
          \/ /\ Dated(graph, stack'[k], order', outputs')
             /\ k < Len(stack') \/ cur' # Idle => stack'[k].began < order'
    BY <1>1, <1>2, <1>13, <1>14, <1>17, <2>1, <2>2, <2>3
  <2> QED BY <1>13, <1>16, <2>4, TimesKept
<1>19. Types'
  BY <1>13, <1>14, <1>16 DEF IInv, Types, Later
<1>20. Current'
  BY <1>2, <1>13, MayRunStays DEF Current
<1>21. Rows'
  BY <1>2, <1>13, <1>15 DEF IInv, Rows
<1>22. Logged'
  <2>1. L = 2 => stack'[1] = h /\ stack[1] = f
    BY <1>3, <1>14
  <2>2. L # 2 => stack'[1] = stack[1]
    BY <1>1, <1>2, <1>14 DEF Stay
  <2> QED BY <1>8, <1>13, <2>1, <2>2, LoggedKept DEF Same
<1> QED BY <1>15, <1>18, <1>19, <1>20, <1>21, <1>22 DEF IInv

(* A loop is left because a node stopped the run.                          *)
LEMMA Left ==
  ASSUME IInv, Len(stack) > 1, cur = Idle, status = "running", stack' = Below, stopping',
         stopping' \in BOOLEAN, open' = open \ {Top.loop},
         UNCHANGED <<graph, test, cur, order, outputs, result, visited, skipped, status>>
  PROVE  IInv'
<1>1. PICK L \in Nat \ {0} : L = Len(stack) /\ Top = stack[L] /\ L > 1
  BY Frame1
<1>2. PICK f : f = stack[L - 1]
  OBVIOUS
<1>3. stack \in Seq(Frames(graph)) /\ stack # <<>>
  BY DEF IInv, Types
<1>4. Walks(graph, f) /\ (L > 2 => InLoop(graph, f))
  BY <1>1, <1>2, OuterFacts
<1>5. /\ stack' \in Seq(Frames(graph')) /\ stack' # <<>>
      /\ Len(stack') = L - 1 /\ \A k \in 1..(L - 1) : stack'[k] = stack[k]
  BY <1>1, <1>3, Popped DEF Stay
<1>6. Stay(L - 1) /\ stack'[L - 1] = f
  BY <1>1, <1>2, <1>5 DEF Stay
<1>7. Traversals' /\ Loops' = Loops \ {Top.loop}
  <2>1. Same(f, f)
    BY DEF Same
  <2> QED BY <1>1, <1>2, <1>4, <1>5, <1>6, <2>1, StackShrinks
<1>8. Later /\ FreshResult'
  BY LaterSame, FreshStays DEF IInv, Types
<1>9. Times'
  BY <1>1, <1>5, <1>8, TimesKept
<1>10. Types'
  BY <1>5 DEF IInv, Types
<1>11. Current'
  <2>1. MayRun
    BY <1>1 DEF IInv, Current
  <2> QED BY <2>1, MayRunStays DEF Current
<1>12. Rows'
  BY <1>7 DEF IInv, Rows
<1>13. Logged'
  <2>1. stack'[1] = stack[1]
    BY <1>1, <1>5
  <2> QED BY <2>1, LoggedKept
<1> QED BY <1>7, <1>9, <1>10, <1>11, <1>12, <1>13 DEF IInv

LEMMA Failed == ASSUME IInv, WhileFails PROVE IInv'
<1>1. Len(stack) > 1 /\ cur = Idle /\ status = "running"
  BY DecidingFacts DEF WhileFails
<1> QED BY <1>1, Left DEF WhileFails

LEMMA Unwound == ASSUME IInv, Unwind PROVE IInv'
<1>1. cur = Idle
  BY DEF Unwind, IInv, Current
<1> QED BY <1>1, Left DEF Unwind, IInv, Types
-----------------------------------------------------------------------------
(* The steps that leave the stack alone.                                   *)

LEMMA StackSame ==
  ASSUME IInv, UNCHANGED <<graph, test, stack>>,
         ~stopping' => /\ ~stopping
                       /\ cur'.node = cur.node /\ (cur' = Idle <=> cur = Idle)
  PROVE  Traversals' /\ Loops' = Loops
<1>1. PICK L \in Nat \ {0} : L = Len(stack)
  BY Frame1
<1>2. Len(stack') = L /\ \A k : stack'[k] = stack[k]
  BY <1>1
<1>3. ASSUME NEW k \in 1..L PROVE Walks(graph', stack'[k])
  BY <1>1, <1>2 DEF IInv, Traversals
<1>4. ASSUME ~stopping', NEW k \in 1..L PROVE Complete(graph, stack[k], Executing(k))'
  <2>1. Complete(graph, stack[k], Executing(k))
    BY <1>1, <1>4 DEF IInv, Traversals
  <2>2. Executing(k)' = Executing(k)
    BY <1>4 DEF Executing
  <2> QED BY <1>2, <2>1, <2>2
<1>5. ASSUME NEW k \in 2..L PROVE InLoop(graph', stack'[k])
  BY <1>1, <1>2 DEF IInv, Traversals
<1>6. Main' /\ Nested'
  BY DEF IInv, Traversals, Main, Nested
<1>7. Loops' = Loops
  BY DEF Loops
<1> QED BY <1>1, <1>2, <1>3, <1>4, <1>5, <1>6, <1>7 DEF Traversals

LEMMA TimesSame ==
  ASSUME IInv, UNCHANGED <<graph, stack, outputs, result>>, order' \in Nat,
         order <= order', cur' # Idle => cur # Idle
  PROVE  Times'
<1>1. PICK L \in Nat \ {0} : L = Len(stack) /\ \A k \in 1..L : stack[k] \in Frames(graph)
  BY Frame1
<1>2. order \in Nat /\ Later /\ FreshResult'
  BY LaterSame, FreshStays DEF IInv, Types
<1>3. ASSUME NEW k \in 1..L
      PROVE  /\ Dated(graph, stack[k], order', outputs)
             /\ k < L \/ cur' # Idle => stack[k].began < order'
  <2>1. /\ Dated(graph, stack[k], order, outputs)
        /\ k < L \/ cur # Idle => stack[k].began < order
    BY <1>1 DEF IInv, Times
  <2>2. stack[k].began \in Nat
    BY <1>1 DEF Frames
  <2> QED BY <1>2, <2>1, <2>2 DEF Dated
<1> QED BY <1>1, <1>2, <1>3, TimesKept

LEMMA Unmoved == ASSUME IInv, UNCHANGED vars PROVE IInv'
<1>1. UNCHANGED <<graph, test, stack, cur, stopping, order, open, outputs, result,
                  visited, skipped, status>>
  BY DEF vars
<1>2. Traversals' /\ Loops' = Loops
  BY <1>1, StackSame
<1>3. Times'
  <2>1. order \in Nat
    BY DEF IInv, Types
  <2> QED BY <1>1, <2>1, TimesSame
<1>4. Types'
  BY <1>1 DEF IInv, Types
<1>5. Current'
  BY <1>1, MayRunStays DEF IInv, Current, Top
<1>6. Rows' /\ Logged'
  BY <1>1, <1>2 DEF IInv, Rows, Logged
<1> QED BY <1>2, <1>3, <1>4, <1>5, <1>6 DEF IInv

LEMMA Retried == ASSUME IInv, StepRetries PROVE IInv'
<1>1. /\ cur # Idle /\ status = "running" /\ cur' = [cur EXCEPT !.attempt = @ + 1]
      /\ UNCHANGED <<graph, test, stack, stopping, order, open, outputs, result,
                     visited, skipped, status>>
  BY DEF StepRetries, AttemptThrows
<1>2. cur \in [node : Nat, attempt : Nat]
  BY DEF IInv, Types
<1>3. /\ cur' \in [node : Nat, attempt : Nat] /\ cur'.node = cur.node
      /\ cur'.attempt = cur.attempt + 1
  BY <1>1, <1>2
<1>4. cur' # Idle
  BY <1>2, <1>3 DEF Idle
<1>5. Traversals' /\ Loops' = Loops
  BY <1>1, <1>3, <1>4, StackSame
<1>6. Times'
  <2>1. order \in Nat
    BY DEF IInv, Types
  <2> QED BY <1>1, <2>1, TimesSame
<1>7. Types'
  BY <1>1, <1>3 DEF IInv, Types
<1>8. Current'
  BY <1>1, <1>3, <1>4, MayRunStays DEF IInv, Current, Top
<1>9. Rows' /\ Logged'
  BY <1>1, <1>3, <1>4, <1>5 DEF IInv, Rows, Logged
<1> QED BY <1>5, <1>6, <1>7, <1>8, <1>9 DEF IInv

LEMMA Stopped == ASSUME IInv, StepStops PROVE IInv'
<1>1. /\ cur # Idle /\ status = "running" /\ cur' = Idle /\ stopping' = TRUE
      /\ open' = open \ {cur.node}
      /\ UNCHANGED <<graph, test, stack, order, outputs, result, visited, skipped, status>>
  BY DEF StepStops, AttemptThrows
<1>2. Traversals' /\ Loops' = Loops
  BY <1>1, StackSame
<1>3. Times'
  <2>1. order \in Nat
    BY DEF IInv, Types
  <2> QED BY <1>1, <2>1, TimesSame
<1>4. Types'
  BY <1>1 DEF IInv, Types, Idle, None, Trigger
<1>5. Current'
  <2>1. MayRun
    BY <1>1 DEF IInv, Current
  <2> QED BY <1>1, <2>1, MayRunStays DEF Current
<1>6. Rows'
  <2>1. cur.node \notin Loops
    <3>1. \A k \in 2..Len(stack) : stack[k].loop \in OfType(graph, "loop")
      BY DEF IInv, Traversals, InLoop
    <3>2. graph.type[cur.node] \in {"agent", "condition"}
      BY <1>1 DEF IInv, Current
    <3> QED BY <3>1, <3>2 DEF Loops, OfType
  <2> QED BY <1>1, <1>2, <2>1 DEF IInv, Rows
<1>7. Logged'
  BY <1>1 DEF IInv, Logged
<1> QED BY <1>2, <1>3, <1>4, <1>5, <1>6, <1>7 DEF IInv
-----------------------------------------------------------------------------
(* The end of a run.                                                       *)

LEMMA RunOver ==
  ASSUME IInv, Len(stack) = 1, cur = Idle, status' # "running", order' \in Nat,
         order <= order', skipped' \subseteq graph.nodes \ {Trigger}, Logged',
         UNCHANGED <<graph, test, stack, cur, stopping, open, outputs, result, visited>>
  PROVE  IInv'
<1>1. Traversals' /\ Loops' = Loops
  BY StackSame
<1>2. Times'
  BY TimesSame
<1>3. Types'
  BY DEF IInv, Types
<1>4. Current'
  BY MayRunStays DEF IInv, Current, Top
<1>5. Rows'
  BY <1>1 DEF IInv, Rows
<1> QED BY <1>1, <1>2, <1>3, <1>4, <1>5 DEF IInv

LEMMA Refused == ASSUME IInv, TestRefused PROVE IInv'
<1>1. /\ ~MayRun /\ status' = "error"
      /\ order' = IF test.node \in graph.nodes THEN order + 1 ELSE order
      /\ UNCHANGED <<graph, test, stack, cur, stopping, open, outputs, result,
                     visited, skipped>>
  BY DEF TestRefused
<1>2. PICK L \in Nat \ {0} : L = Len(stack)
  BY Frame1
<1>3. L = 1 /\ cur = Idle
  BY <1>1, <1>2 DEF IInv, Current
<1>4. order \in Nat /\ skipped \subseteq graph.nodes \ {Trigger}
  BY DEF IInv, Types
<1>5. Logged'
  BY <1>1 DEF Logged, MayRun
<1> QED BY <1>1, <1>2, <1>3, <1>4, <1>5, RunOver

LEMMA EndsRun ==
  ASSUME IInv, status = "running", Len(stack) = 1, cur = Idle,
         NEW s, s # "running", Ends(s)
  PROVE  IInv'
<1>1. /\ status' = s
      /\ UNCHANGED <<graph, test, stack, cur, stopping, open, outputs, result, visited>>
      /\ IF test = NoTest
           THEN /\ skipped' = skipped \cup (graph.nodes \ (visited \cup {Trigger}))
                /\ order' = order + Cardinality(skipped' \ skipped)
           ELSE UNCHANGED <<skipped, order>>
  BY DEF Ends, sweepSkipped
<1>2. order \in Nat /\ skipped \subseteq graph.nodes \ {Trigger} /\ graph \in Graphs
  BY DEF IInv, Types
<1>3. skipped' \subseteq graph.nodes \ {Trigger}
  BY <1>1, <1>2
<1>4. Cardinality(skipped' \ skipped) \in Nat
  <2>1. IsFiniteSet(graph.nodes)
    BY <1>2, GraphFacts
  <2>2. skipped' \ skipped \subseteq graph.nodes
    BY <1>3
  <2> QED BY <2>1, <2>2, FS_Subset, FS_CardinalityType
<1>5. order' \in Nat /\ order <= order'
  BY <1>1, <1>2, <1>4
<1>6. Logged'
  BY <1>1 DEF IInv, Logged
<1> QED BY <1>1, <1>3, <1>5, <1>6, RunOver

LEMMA Completed == ASSUME IInv, RunCompletes PROVE IInv'
  BY EndsRun DEF RunCompletes, Walking

LEMMA RunFailed == ASSUME IInv, RunFails PROVE IInv'
<1>1. cur = Idle
  BY DEF RunFails, IInv, Current
<1> QED BY <1>1, EndsRun DEF RunFails
-----------------------------------------------------------------------------
(* The invariant holds when a run starts, and every step keeps it.         *)

LEMMA InitIInv == ASSUME Init PROVE IInv
<1>1. PICK f : f = FirstTraversal(graph, test)
  OBVIOUS
<1>2. /\ graph \in Graphs /\ test \in {NoTest} \cup Tests /\ stack = <<f>>
      /\ cur = Idle /\ stopping = FALSE /\ order = 0 /\ open = {}
      /\ outputs = [n \in graph.nodes |-> 0]
      /\ result = [node |-> None, at |-> 1, began |-> 0]
      /\ visited = {} /\ skipped = {} /\ status = "running"
  BY <1>1 DEF Init
<1>3. PICK entries, scope : /\ f = Traversal(None, entries, scope, "main", 0)
                            /\ scope = IF test = NoTest THEN mainScope(graph) ELSE {test.node}
                            /\ entries = IF test = NoTest THEN {Trigger} ELSE {test.node}
  BY <1>1 DEF FirstTraversal
<1>4. entries \in SUBSET Nat /\ scope \in SUBSET Nat
  <2>1. mainScope(graph) \subseteq Nat
    BY <1>2, GraphFacts DEF mainScope
  <2>2. test # NoTest => test.node \in Nat
    BY <1>2, RunnerAssumption
  <2> QED BY <1>3, <2>1, <2>2 DEF Trigger
<1>5. f = [loop |-> 0, entries |-> entries, scope |-> scope, waiting |-> entries,
           settled |-> {}, active |-> {}, decided |-> {}, last |-> 0,
           mode |-> "main", limit |-> 0, iteration |-> 0, began |-> 0, at |-> "walking"]
  BY <1>3 DEF Traversal, None, Trigger
<1>6. f \in Frames(graph)
  BY <1>4, <1>5 DEF Frames
<1>7. /\ stack \in Seq(Frames(graph)) /\ stack # <<>> /\ Len(stack) = 1 /\ stack[1] = f
      /\ Top = f
  BY <1>2, <1>6 DEF Top
<1>8. Types
  BY <1>2, <1>7 DEF Types, Idle, None, Trigger
<1>9. Traversals
  <2>1. Walks(graph, f) /\ \A X : Complete(graph, f, X)
    BY <1>5 DEF Walks, Closed, Queued, Complete
  <2>2. Main
    BY <1>3, <1>5, <1>7 DEF Main, None, Trigger
  <2>3. Nested
    BY <1>7 DEF Nested
  <2> QED BY <1>7, <2>1, <2>2, <2>3 DEF Traversals
<1>10. Current
  BY <1>2, <1>7 DEF Current
<1>11. Times
  <2>1. Dated(graph, f, order, outputs)
    BY <1>2, <1>5 DEF Dated, None, Trigger
  <2>2. \A k \in 1..Len(stack) : ~(k < Len(stack)) /\ stack[k] = f
    BY <1>7
  <2>3. FreshResult
    BY <1>2 DEF FreshResult
  <2> QED BY <1>2, <2>1, <2>2, <2>3 DEF Times
<1>12. Rows /\ Logged
  BY <1>2, <1>7 DEF Rows, Loops, Logged
<1> QED BY <1>8, <1>9, <1>10, <1>11, <1>12 DEF IInv

LEMMA NextIInv == ASSUME IInv, [Next]_vars PROVE IInv'
<1>1. ASSUME NEW n, Drop(n) \/ Skip(n) \/ RunTrigger(n) \/ StartStep(n) \/ StartLoop(n)
      PROVE  IInv'
  BY <1>1, Dropped, Skipped, TriggerRun, StepStarted, LoopStarted
<1>2. CASE StepSucceeds \/ StepRetries \/ StepContinues \/ StepStops
  BY <1>2, Succeeded, Retried, Continued, Stopped
<1>3. CASE IterationBegins \/ IterationEnds \/ LoopEnds \/ WhileFails \/ Unwind
  BY <1>3, Began, Ended, Finished, Failed, Unwound
<1>4. CASE TestRefused \/ RunCompletes \/ RunFails
  BY <1>4, Refused, Completed, RunFailed
<1>5. CASE UNCHANGED vars
  BY <1>5, Unmoved
<1> QED BY <1>1, <1>2, <1>3, <1>4, <1>5 DEF Next

(* Whatever the graphs, the tests and the bounds: the invariant holds.     *)
LEMMA Invariance == Spec => []IInv
<1>1. Init => IInv
  BY InitIInv
<1>2. IInv /\ [Next]_vars => IInv'
  BY NextIInv
<1> QED BY <1>1, <1>2, PTL DEF Spec
-----------------------------------------------------------------------------
(* What lies before a node in its traversal.                               *)

Inside(f) == {e \in Forward(graph) : {e.source, e.target} \subseteq f.scope}
From(f, m) == Targets(OutOf(graph, f, m))

LEMMA InsideFacts ==
  ASSUME graph \in Graphs, NEW f, NEW m
  PROVE  /\ IsFiniteSet(graph.nodes) /\ Cardinality(graph.nodes) \in Nat
         /\ From(f, m) \subseteq graph.nodes /\ \A e \in Inside(f) : e.target \in graph.nodes
         /\ m \in f.scope => From(f, m) = Targets({e \in Inside(f) : e.source = m})
<1>1. IsFiniteSet(graph.nodes) /\ Cardinality(graph.nodes) \in Nat
  BY GraphFacts
<1>2. \A e \in Forward(graph) : e.target \in graph.nodes
  BY GraphFacts
<1>3. OutOf(graph, f, m) = {e \in Forward(graph) : e.source = m /\ e.target \in f.scope}
  BY DEF OutOf, Outgoing, Forward
<1>4. From(f, m) \subseteq graph.nodes /\ \A e \in Inside(f) : e.target \in graph.nodes
  BY <1>2, <1>3 DEF From, Targets, Inside
<1>5. m \in f.scope => OutOf(graph, f, m) = {e \in Inside(f) : e.source = m}
  BY <1>3 DEF Inside
<1> QED BY <1>1, <1>4, <1>5 DEF From

LEMMA Before ==
  ASSUME NEW f, NEW n
  PROVE  Ancestors(f, n) = {m \in f.scope : n \in Reached(graph, From(f, m), Inside(f))}
<1>1. \A m : From(f, m) = Targets(OutgoingInScope(f, m))
  BY EdgesOf DEF From
<1> QED BY <1>1 DEF Ancestors, Inside

LEMMA JustBefore ==
  ASSUME NEW f, NEW m
  PROVE  /\ Into(graph, f, m) = {e \in Forward(graph) : e.source \in f.scope /\ e.target = m}
         /\ m \in f.scope => Into(graph, f, m) = {e \in Inside(f) : e.target = m}
<1>1. Into(graph, f, m) = {e \in Forward(graph) : e.source \in f.scope /\ e.target = m}
  BY DEF Into, Incoming, Forward
<1> QED BY <1>1 DEF Inside

(* A set that no edge from outside it leads into holds all that lies       *)
(* before its nodes.                                                       *)
LEMMA BeforeWithin ==
  ASSUME graph \in Graphs, NEW f, NEW A,
         \A e \in Inside(f) : e.target \in A => e.source \in A,
         NEW n \in A
  PROVE  Ancestors(f, n) \subseteq A
<1> SUFFICES ASSUME NEW m \in Ancestors(f, n), m \notin A PROVE FALSE
  OBVIOUS
<1>1. m \in f.scope /\ n \in Reached(graph, From(f, m), Inside(f))
  BY Before
<1> DEFINE C == graph.nodes \ A
<1>2. \A e \in Inside(f) : e.target \in graph.nodes
  BY InsideFacts
<1>3. From(f, m) \subseteq C
  <2>1. From(f, m) = Targets({e \in Inside(f) : e.source = m})
    BY <1>1, InsideFacts
  <2> QED BY <1>2, <2>1 DEF Targets
<1>4. \A e \in Inside(f) : e.source \in C => e.target \in C
  BY <1>2
<1>5. Cardinality(graph.nodes) \in Nat
  BY InsideFacts
<1> HIDE DEF C
<1>6. Reached(graph, From(f, m), Inside(f)) \subseteq C
  BY <1>3, <1>4, <1>5, ReachedWithin
<1> QED BY <1>1, <1>6 DEF C

(* The predecessors of a node lie before it, and before all it lies before.*)
LEMMA BeforeBefore ==
  ASSUME graph \in Graphs, NEW f, NEW n, NEW e \in Inside(f),
         e.target \in Ancestors(f, n) \cup {n}
  PROVE  e.source \in Ancestors(f, n)
<1> DEFINE R == Reached(graph, From(f, e.source), Inside(f))
<1>1. e.source \in f.scope /\ e.target \in From(f, e.source)
  <2>1. e.source \in f.scope
    BY DEF Inside
  <2>2. From(f, e.source) = Targets({d \in Inside(f) : d.source = e.source})
    BY <2>1, InsideFacts
  <2> QED BY <2>1, <2>2 DEF Targets
<1>2. /\ From(f, e.source) \subseteq R
      /\ \A d \in Inside(f) : d.source \in R => d.target \in R
  BY InsideFacts, ReachedClosed
<1> HIDE DEF R
<1>3. n \in R
  <2>1. CASE e.target = n
    BY <1>1, <1>2, <2>1
  <2>2. CASE e.target \in Ancestors(f, n)
    <3>1. e.target \in f.scope /\ n \in Reached(graph, From(f, e.target), Inside(f))
      BY <2>2, Before
    <3>2. From(f, e.target) = Targets({d \in Inside(f) : d.source = e.target})
      BY <3>1, InsideFacts
    <3>3. From(f, e.target) \subseteq R
      BY <1>1, <1>2, <3>2 DEF Targets
    <3>4. Cardinality(graph.nodes) \in Nat
      BY InsideFacts
    <3>5. Reached(graph, From(f, e.target), Inside(f)) \subseteq R
      BY <1>2, <3>3, <3>4, ReachedWithin
    <3> QED BY <3>1, <3>5
  <2> QED BY <2>1, <2>2
<1> QED BY <1>1, <1>3, Before DEF R

(* Every path to a node ends with an edge: what lies before it leads to it *)
(* or to another node before it.                                           *)
LEMMA BeforeLeads ==
  ASSUME graph \in Graphs, NEW f, NEW n, NEW m \in Ancestors(f, n)
  PROVE  \E e \in Inside(f) : e.source = m /\ e.target \in Ancestors(f, n) \cup {n}
<1> DEFINE A == Ancestors(f, n) \cup {n}
           C == graph.nodes \ A
<1> SUFFICES ASSUME \A e \in Inside(f) : e.source = m => e.target \notin A PROVE FALSE
  OBVIOUS
<1>1. m \in f.scope /\ n \in Reached(graph, From(f, m), Inside(f))
  BY Before
<1>2. \A e \in Inside(f) : e.target \in graph.nodes
  BY InsideFacts
<1>3. \A e \in Inside(f) : e.target \in A => e.source \in A
  BY BeforeBefore
<1> HIDE DEF A
<1>4. From(f, m) \subseteq C
  <2>1. From(f, m) = Targets({e \in Inside(f) : e.source = m})
    BY <1>1, InsideFacts
  <2> QED BY <1>2, <2>1 DEF Targets
<1>5. \A e \in Inside(f) : e.source \in C => e.target \in C
  BY <1>2, <1>3
<1>6. Cardinality(graph.nodes) \in Nat
  BY InsideFacts
<1> HIDE DEF C
<1>7. Reached(graph, From(f, m), Inside(f)) \subseteq C
  BY <1>4, <1>5, <1>6, ReachedWithin
<1> QED BY <1>1, <1>7 DEF A, C
-----------------------------------------------------------------------------
LEMMA SettledInOrder == ASSUME IInv PROVE AncestorsSettled
<1>1. PICK L \in Nat \ {0} : L = Len(stack)
  BY Frame1
<1>2. DOMAIN stack = 1..L /\ graph \in Graphs
  <2>1. stack \in Seq(Frames(graph)) /\ graph \in Graphs
    BY DEF IInv, Types
  <2> QED BY <1>1, <2>1
<1>3. ASSUME NEW k \in 1..L, NEW n \in stack[k].settled
      PROVE  Ancestors(stack[k], n) \subseteq stack[k].settled
  <2>1. PICK f : f = stack[k]
    OBVIOUS
  <2>2. Closed(graph, f)
    BY <1>1, <2>1 DEF IInv, Traversals, Walks
  <2>3. ASSUME NEW e \in Inside(f), e.target \in f.settled PROVE e.source \in f.settled
    <3>1. e \in Into(graph, f, e.target)
      BY JustBefore DEF Inside
    <3> QED BY <2>2, <2>3, <3>1 DEF Closed
  <2> QED BY <1>2, <1>3, <2>1, <2>3, BeforeWithin
<1> QED BY <1>2, <1>3 DEF AncestorsSettled

(* The first unsettled node before n, or n itself, has its predecessors    *)
(* settled, so it is in the queue unless nothing leads to it; then what it *)
(* leads to waits for a node that no entry reaches.                        *)
LEMMA QueueHoldsTheRest ==
  ASSUME IInv, Walking, Top.waiting = {}, NEW n \in Top.scope,
         n \in Top.entries \/ Into(graph, Top, n) \cap Top.active # {},
         n \notin Top.settled
  PROVE  n \in Stalled(Top)
<1>1. PICK f : f = Top
  OBVIOUS
<1>2. /\ graph \in Graphs /\ f \in Frames(graph) /\ Walks(graph, f) /\ f.waiting = {}
      /\ f.scope \subseteq graph.nodes /\ Complete(graph, f, {}) /\ n \in f.scope
      /\ n \notin f.settled /\ (n \in f.entries \/ Into(graph, f, n) \cap f.active # {})
  BY <1>1, Frame1, TopFacts DEF Walking
<1> DEFINE A == Ancestors(f, n) \cup {n}
           U == A \ f.settled
<1>3. A \subseteq f.scope
  BY <1>2, Before
<1>4. U \subseteq graph.nodes /\ U # {}
  BY <1>2, <1>3
<1> HIDE DEF U
<1>5. PICK m \in U : \A e \in Forward(graph) : e.target = m => e.source \notin U
  BY <1>2, <1>4, FirstOfSome
<1>6. m \in A /\ m \notin f.settled /\ m \in f.scope
  BY <1>3, <1>5 DEF U
<1>7. Into(graph, f, m) = {e \in Inside(f) : e.target = m}
  BY <1>6, JustBefore
<1>8. ASSUME NEW e \in Into(graph, f, m) PROVE e \in f.decided
  <2>1. e \in Inside(f) /\ e.target = m /\ e \in Forward(graph) /\ e.source \in f.scope
    BY <1>7 DEF Inside
  <2>2. e.source \in Ancestors(f, n)
    BY <1>2, <1>6, <2>1, BeforeBefore
  <2>3. e.source \in f.settled
    BY <1>5, <2>1, <2>2 DEF U
  <2>4. e \in OutOf(graph, f, e.source)
    BY <1>6, <2>1 DEF OutOf, Outgoing, Forward
  <2> QED BY <1>2, <2>3, <2>4 DEF Complete
<1>9. m \notin f.entries /\ Into(graph, f, m) = {}
  BY <1>2, <1>6, <1>8 DEF Walks, Queued
<1>10. m # n
  BY <1>2, <1>9
<1>11. PICK e \in Inside(f) : e.source = m /\ e.target \in A
  BY <1>2, <1>6, <1>10, BeforeLeads
<1>12. Ancestors(f, m) = {}
  <2> SUFFICES ASSUME NEW x \in Ancestors(f, m) PROVE FALSE
    OBVIOUS
  <2>1. \A d \in Inside(f) : d.target # m
    BY <1>7, <1>9
  <2>2. Ancestors(f, m) \subseteq {m}
    BY <1>2, <2>1, BeforeWithin
  <2>3. PICK d \in Inside(f) : d.source = x /\ d.target \in Ancestors(f, m) \cup {m}
    BY <1>2, BeforeLeads
  <2> QED BY <2>1, <2>2, <2>3
<1>13. e \in IncomingInScope(f, e.target) /\ e.source \notin f.entries
       /\ Ancestors(f, e.source) \cap f.entries = {}
  BY <1>9, <1>11, <1>12 DEF Inside, IncomingInScope, Incoming, Forward
<1> QED BY <1>1, <1>2, <1>11, <1>13 DEF Stalled
-----------------------------------------------------------------------------
(* runSubgraph settles a node, to run it or to skip it, only after all     *)
(* that lies before it in its traversal, so that a merge sees the outputs  *)
(* of every branch that was taken.                                         *)
THEOREM MergesWait == Spec => []AncestorsSettled
<1>1. IInv => AncestorsSettled
  BY SettledInOrder
<1> QED BY <1>1, Invariance, PTL

(* When the queue of runSubgraph is empty, what is an entry or is led to   *)
(* by an active edge was settled, unless it waits for a node that no entry *)
(* leads to.                                                               *)
THEOREM QueueSuffices == Spec => []NothingLeftBehind
<1>1. ASSUME IInv PROVE NothingLeftBehind
  <2> SUFFICES ASSUME Walking, Top.waiting = {}, NEW n \in Top.scope,
                      n \in Top.entries \/ IncomingInScope(Top, n) \cap Top.active # {},
                      n \notin Top.settled
               PROVE  n \in Stalled(Top)
    BY DEF NothingLeftBehind
  <2>1. IncomingInScope(Top, n) = Into(graph, Top, n)
    BY EdgesOf
  <2> QED BY <1>1, <2>1, QueueHoldsTheRest
<1> QED BY <1>1, Invariance, PTL

(* A node of a loop's body is executed by a traversal of a loop it belongs *)
(* to, also when the body has a way out of the loop.                       *)
THEOREM BodiesInLoops == Spec => []InsideItsLoop
<1>1. ASSUME IInv PROVE InsideItsLoop
  <2> SUFFICES ASSUME cur # Idle, cur.node \in BodyNodes(graph), test = NoTest
               PROVE  \E k \in DOMAIN stack :
                        /\ stack[k].loop # None
                        /\ cur.node \in collectBodySubgraph(graph, stack[k].loop)
    BY DEF InsideItsLoop
  <2>1. PICK L \in Nat \ {0} : L = Len(stack) /\ Top = stack[L]
    BY <1>1, Frame1
  <2>2. DOMAIN stack = 1..L
    <3>1. stack \in Seq(Frames(graph))
      BY <1>1 DEF IInv, Types
    <3> QED BY <2>1, <3>1
  <2>3. cur.node \in stack[L].scope
    <3>1. cur.node \in Top.settled
      BY <1>1 DEF IInv, Current
    <3>2. Walks(graph, Top)
      BY <1>1, Frame1
    <3> QED BY <2>1, <3>1, <3>2 DEF Walks, Closed
  <2>4. L # 1
    <3>1. stack[1].scope = mainScope(graph)
      BY <1>1 DEF IInv, Traversals, Main
    <3> QED BY <2>3, <3>1 DEF mainScope
  <2>5. stack[L].loop # None
    BY <1>1, <2>1, <2>4, TopFacts
  <2>6. stack[L].scope = collectBodySubgraph(graph, stack[L].loop)
    BY <1>1, <2>1, <2>4 DEF IInv, Traversals, InLoop
  <2> QED BY <2>1, <2>2, <2>3, <2>5, <2>6
<1> QED BY <1>1, Invariance, PTL

(* When a run ends, each node ran or was logged as skipped and never both, *)
(* and no row is left at 'running', however deep in loops it failed.       *)
THEOREM NodesAccounted == Spec => []EveryNodeAccounted
<1>1. ASSUME IInv PROVE EveryNodeAccounted
  <2> SUFFICES ASSUME status # "running"
               PROVE  /\ open = {}
                      /\ test = NoTest =>
                           /\ graph.nodes \ {Trigger} \subseteq visited \cup skipped
                           /\ visited \cap skipped = {}
    BY DEF EveryNodeAccounted
  <2>1. open = {}
    <3>1. Len(stack) = 1 /\ cur = Idle /\ open = Loops \cup {}
      BY <1>1 DEF IInv, Rows
    <3> QED BY <3>1 DEF Loops
  <2> QED BY <1>1, <2>1 DEF IInv, Logged
<1> QED BY <1>1, Invariance, PTL

(* A loop pushes what its iteration produced, never an earlier output.     *)
THEOREM ResultsFresh == Spec => []FreshResult
<1>1. IInv => FreshResult
  BY DEF IInv, Times
<1> QED BY <1>1, Invariance, PTL
=============================================================================
