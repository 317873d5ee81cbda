---------------------------- MODULE WorkflowGraph ----------------------------
(***************************************************************************)
(* packages/utils/src/workflow: the graph a workflow is stored as, what a  *)
(* save accepts, and the conversions from an agent's specification and to  *)
(* the legacy list of steps.                                               *)
(*                                                                         *)
(* A node is a number, in the order the nodes are declared in; 0 is the    *)
(* trigger.  An edge keeps its source handle and whether it closes a loop  *)
(* (targetHandle 'loopBack').                                              *)
(***************************************************************************)
EXTENDS Naturals, FiniteSets, SequencesExt

Trigger == 0
NoKey == 0           \* an absent reference of a specification

Link(a, handle, b) == [source |-> a, handle |-> handle, target |-> b, back |-> FALSE]
BackLink(a, b) == [source |-> a, handle |-> "out", target |-> b, back |-> TRUE]

isLoopBackEdge(e) == e.back
Forward(g) == {e \in g.edges : ~isLoopBackEdge(e)}
Outgoing(g, n) == {e \in g.edges : e.source = n}
Incoming(g, n) == {e \in g.edges : e.target = n}
Targets(E) == {e.target : e \in E}
OfType(g, t) == {n \in g.nodes : g.type[n] = t}

(* What the edges E lead to from S: along one more edge, along k of them,  *)
(* along any number.                                                       *)
Further(R, E) == R \cup Targets({e \in E : e.source \in R})
Spread(g, S, E) ==
  LET step[k \in 0..Cardinality(g.nodes)] ==
        IF k = 0 THEN S ELSE Further(step[k - 1], E)
  IN  step
Reached(g, S, E) == Spread(g, S, E)[Cardinality(g.nodes)]

hasCycle(g) ==
  \E n \in g.nodes :
    n \in Reached(g, Targets({e \in Forward(g) : e.source = n}), Forward(g))

(* refineGraph.  Identifiers are unique because nodes is a set.            *)
Accepted(g) ==
  /\ Cardinality(OfType(g, "trigger")) = 1
  /\ OfType(g, "agent") # {}
  /\ \A e \in g.edges : e.source \in g.nodes /\ e.target \in g.nodes
  /\ ~hasCycle(g)

(* The nodes a loop runs: from its 'loop' handle, never back through an    *)
(* edge that closes a loop and never into the body of a nested loop.       *)
collectBodySubgraph(g, loop) ==
  LET inner == {e \in Forward(g) :
                  /\ e.target # loop
                  /\ ~(g.type[e.source] = "loop" /\ e.handle = "loop")}
      start == Targets({e \in Outgoing(g, loop) : e.handle = "loop"}) \ {loop}
  IN  Reached(g, start, inner)

BodyNodes(g) == UNION {collectBodySubgraph(g, n) : n \in OfType(g, "loop")}

-----------------------------------------------------------------------------
(* topoOrder: Kahn's algorithm.  A step of the loop takes the head of the  *)
(* queue and queues the successors it was the last to wait for; what a     *)
(* cycle keeps out of the queue is appended in the order of declaration.   *)

Ordered(S) == SetToSortSeq(S, LAMBDA m, n : m < n)     \* declaration order

Sorted(g, E) ==
  LET Free(before) ==
        {n \in g.nodes : {e.source : e \in {d \in E : d.target = n}} \subseteq before}
      queue[k \in 0..Cardinality(g.nodes)] ==
        IF k = 0 THEN Ordered(Free({}))
        ELSE LET q == queue[k - 1]
             IN  IF k > Len(q) THEN q
                 ELSE q \o Ordered((Free({q[i] : i \in 1..k}) \ ToSet(q))
                                     \cap Targets({e \in E : e.source = q[k]}))
      sorted == queue[Cardinality(g.nodes)]
  IN  sorted \o Ordered(g.nodes \ ToSet(sorted))

topoOrder(g) == Sorted(g, Forward(g))

(* The legacy projection: the agent nodes in that order.                   *)
graphToSteps(g) == SelectSeq(topoOrder(g), LAMBDA n : g.type[n] = "agent")

(* graph.ts 65-80, 311-342: the legacy steps are every agent node once, in *)
(* an order the edges between nodes allow, whatever loops the graph has.   *)
StepsInOrder(g) ==
  LET steps == graphToSteps(g)
  IN  /\ ToSet(steps) = OfType(g, "agent")
      /\ Len(steps) = Cardinality(ToSet(steps))
      /\ \A i, j \in DOMAIN steps :
           steps[j] \in Reached(g, Targets({e \in Forward(g) : e.source = steps[i]}),
                                Forward(g)) => i < j

(* A list of n steps as a graph: the trigger and a chain.                  *)
stepsToGraph(n) ==
  [nodes |-> 0..n,
   type  |-> [k \in 0..n |-> IF k = Trigger THEN "trigger" ELSE "agent"],
   edges |-> {Link(k - 1, "out", k) : k \in 1..n}]

-----------------------------------------------------------------------------
(* specToGraph.  A specification gives an entry and, by key, nodes with    *)
(* next, ifTrue, ifFalse and a loop's body (a sequence of keys).           *)

Keys(spec) == DOMAIN spec.node

InABody(spec) ==
  UNION {ToSet(spec.node[k].body) : k \in {j \in Keys(spec) : spec.node[j].type = "loop"}}

LinkIf(a, handle, b) == IF b = NoKey THEN {} ELSE {Link(a, handle, b)}

LinksOf(spec, k) ==
  LET n == spec.node[k]
      body == n.body
  IN  CASE n.type = "condition" ->
             LinkIf(k, "true", n.ifTrue) \cup LinkIf(k, "false", n.ifFalse)
        [] n.type = "loop" ->
             LinkIf(k, "done", n.next) \cup
             (IF body = <<>> THEN {}
              ELSE {Link(k, "loop", body[1]), BackLink(body[Len(body)], k)} \cup
                   {Link(body[i], "out", body[i + 1]) : i \in 1..(Len(body) - 1)})
        [] OTHER -> IF k \in InABody(spec) THEN {} ELSE LinkIf(k, "out", n.next)

(* It throws unless the entry and every reference are keys.                *)
SpecAccepted(spec) ==
  /\ spec.entry \in Keys(spec)
  /\ \A k \in Keys(spec) :
       {e.target : e \in LinksOf(spec, k)} \subseteq Keys(spec)

specToGraph(spec) ==
  [nodes |-> {Trigger} \cup Keys(spec),
   type  |-> [k \in {Trigger} \cup Keys(spec) |->
                IF k = Trigger THEN "trigger" ELSE spec.node[k].type],
   edges |-> {Link(Trigger, "out", spec.entry)} \cup
             UNION {LinksOf(spec, k) : k \in Keys(spec)}]
=============================================================================
