-------------------------- MODULE MCWorkflowRunner --------------------------
(***************************************************************************)
(* Small instances of WorkflowRunner for TLC.                              *)
(***************************************************************************)
EXTENDS WorkflowRunner

Types == {"agent", "condition", "loop"}
Handles(t) == CASE t = "condition" -> {"true", "false"}
                [] t = "loop" -> {"loop", "done"}
                [] OTHER -> {"out"}

(* The graphs with the nodes 1..n that a save accepts, up to the numbering *)
(* of the nodes: the edges are acyclic, so they may be taken to go up.     *)
GraphsOf(n) ==
  UNION {LET type == [k \in 0..n |-> IF k = 0 THEN "trigger" ELSE ty[k]]
             up == UNION {{Link(a, h, b) : h \in Handles(type[a])} :
                            a \in 0..n, b \in 1..n}
         IN  {[nodes |-> 0..n, type |-> type, edges |-> E] :
                E \in SUBSET {e \in up : e.source < e.target}} :
           ty \in [1..n -> Types]}

MCGraphs2 == {g \in GraphsOf(2) : Accepted(g)}
MCGraphs3 == {g \in GraphsOf(3) : Cardinality(g.edges) <= 4 /\ Accepted(g)}

Agent(next) == [type |-> "agent", next |-> next, ifTrue |-> NoKey,
                ifFalse |-> NoKey, body |-> <<>>]
Condition(t, f) == [type |-> "condition", next |-> NoKey, ifTrue |-> t,
                    ifFalse |-> f, body |-> <<>>]
Loop(body, next) == [type |-> "loop", next |-> next, ifTrue |-> NoKey,
                     ifFalse |-> NoKey, body |-> body]

(* A diamond; a loop in a loop; a branching body whose way out skips the   *)
(* rest; a branch that leaves the body for the node after the loop.        *)
MCSpecs ==
  {[entry |-> 1, node |-> <<Condition(2, 3), Agent(4), Agent(4), Agent(NoKey)>>],
   [entry |-> 5, node |-> <<Agent(NoKey), Agent(NoKey), Agent(NoKey),
                            Loop(<<1>>, NoKey), Loop(<<2, 4>>, 3)>>],
   [entry |-> 1, node |-> <<Loop(<<2>>, 5), Condition(3, 4), Agent(NoKey),
                            Agent(NoKey), Agent(NoKey)>>],
   [entry |-> 1, node |-> <<Loop(<<2>>, 4), Condition(3, 4), Agent(NoKey),
                            Agent(NoKey)>>]}

ASSUME \A spec \in MCSpecs : SpecAccepted(spec)

MCGraphs == MCGraphs2 \cup MCGraphs3 \cup {specToGraph(spec) : spec \in MCSpecs} \cup {stepsToGraph(3)}

(* A reference definition: checked for every graph before the runs are.    *)
ASSUME OrderOfSteps == \A g \in MCGraphs : StepsInOrder(g)

(* A test of node 3 after node 1 has run: refused where 3 also follows 2,  *)
(* and where there is no node 3.                                           *)
MCTests == {[node |-> 3, seeded |-> {1}, refs |-> {1}]}
=============================================================================
