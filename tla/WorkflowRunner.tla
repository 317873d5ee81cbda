---------------------------- MODULE WorkflowRunner ----------------------------
(***************************************************************************)
(* agent-runtime/src/workflow-runner.ts: one run of a workflow in its      *)
(* container.  The runner walks the graph from the trigger; a loop node    *)
(* walks its body once per iteration, so traversals nest and are kept on a *)
(* stack.  Each step is a piece of the runner between calls to the backend *)
(* and the model; a process that dies takes no further step.  What a step  *)
(* answers, which branch a condition takes, how often a loop goes round    *)
(* and what a node's errorHandling says are free; the order of the edges   *)
(* array is free as well, so the queue is a set.                           *)
(***************************************************************************)
EXTENDS WorkflowGraph

CONSTANTS
  Graphs,        \* the stored graphs to run
  LastNode,      \* bound: their nodes are among 0..LastNode
  Tests,         \* "run only this step": node, seeded outputs, template refs
  MaxIterations, \* bound: iterations of a loop
  MaxRetries,    \* maxRetries of every node that retries
  MaxFailures    \* bound: failing attempts in a run

NoTest == [node |-> Trigger, seeded |-> {}, refs |-> {}]

ASSUME RunnerAssumption ==
  /\ LastNode \in Nat
  /\ \A g \in Graphs :
       /\ g.nodes \subseteq 0..LastNode
       /\ g.type \in [g.nodes -> {"trigger", "agent", "condition", "loop"}]
       /\ Accepted(g) /\ Trigger \in OfType(g, "trigger")
  /\ \A t \in Tests : t.node \in Nat \ {Trigger}
  /\ MaxIterations \in Nat
  /\ MaxRetries \in Nat
  /\ MaxFailures \in Nat

VARIABLES
  graph,     \* the workflow's nodes and edges
  test,      \* workflow.testNode, or NoTest
  stack,     \* the traversals in progress, the innermost last
  cur,       \* the step or condition being executed, and its attempt
  stopping,  \* a node returned 'stop'
  order,     \* nextOrder
  open,      \* nodes with a step log row at 'running'
  outputs,   \* outputsByNode: the order at which each output was set
  result,    \* the last entry a loop pushed to its results
  visited, skipped,
  status,    \* workflow_runs.status
  failures

vars == <<graph, test, stack, cur, stopping, order, open, outputs, result,
          visited, skipped, status, failures>>

None == Trigger            \* no node
Idle == [node |-> None, attempt |-> 0]

(* A traversal of runSubgraph, with the frame of the loop it belongs to.   *)
Traversal(loop, entries, scope, mode, limit) ==
  [loop |-> loop, entries |-> entries, scope |-> scope, waiting |-> entries,
   settled |-> {}, active |-> {}, decided |-> {}, last |-> None,
   mode |-> mode, limit |-> limit, iteration |-> 0, began |-> 0,
   at |-> IF loop = None THEN "walking" ELSE "deciding"]

(* Loop bodies are left to their loops.                                    *)
WholeGraph(g) == g.nodes                         \* mutant of mainScope
mainScope(g) == g.nodes \ BodyNodes(g)

(* executeNode alone is a traversal of that node.                          *)
FirstTraversal(g, t) ==
  IF t = NoTest THEN Traversal(None, {Trigger}, mainScope(g), "main", 0)
  ELSE Traversal(None, {t.node}, {t.node}, "main", 0)

Init ==
  /\ graph \in Graphs
  /\ test \in {NoTest} \cup Tests
  /\ stack = <<FirstTraversal(graph, test)>>
  /\ cur = Idle
  /\ stopping = FALSE
  /\ order = 0
  /\ open = {}
  /\ outputs = [n \in graph.nodes |-> 0]
  /\ result = [node |-> None, at |-> 1, began |-> 0]
  /\ visited = {}
  /\ skipped = {}
  /\ status = "running"
  /\ failures = 0

TypeOK ==
  /\ visited = {} => graph \in Graphs
  /\ test \in {NoTest} \cup Tests
  /\ \A k \in DOMAIN stack :
       LET f == stack[k]
       IN  /\ f.loop \in graph.nodes
           /\ f.at \in {"walking", "deciding"}
           /\ f.last \in graph.nodes
           /\ f.active \subseteq f.decided
           /\ f.decided \subseteq graph.edges
           /\ f.iteration \in 0..f.limit
  /\ cur.node \in graph.nodes
  /\ cur.attempt \in 0..(MaxRetries + 1)
  /\ stopping \in BOOLEAN
  /\ order \in Nat
  /\ open \subseteq graph.nodes
  /\ outputs \in [graph.nodes -> Nat]
  /\ visited \subseteq graph.nodes
  /\ skipped \subseteq graph.nodes
  /\ status \in {"running", "completed", "error"}
  /\ failures \in 0..MaxFailures

-----------------------------------------------------------------------------
(* runSubgraph: deciding edges, and what is settled and run.               *)

Top == stack[Len(stack)]
Below == SubSeq(stack, 1, Len(stack) - 1)
WithTop(f) == Below \o <<f>>

IncomingInScope(f, n) ==
  {e \in Incoming(graph, n) : ~isLoopBackEdge(e) /\ e.source \in f.scope}
OutgoingInScope(f, n) ==
  {e \in Outgoing(graph, n) : ~isLoopBackEdge(e) /\ e.target \in f.scope}

AnyDecided(f, n) ==                              \* mutant of Decidable
  IncomingInScope(f, n) = {} \/ IncomingInScope(f, n) \cap f.decided # {}
Decidable(f, n) == IncomingInScope(f, n) \subseteq f.decided
Live(f, n) == n \in f.entries \/ IncomingInScope(f, n) \cap f.active # {}

Takes(f, n) == [f EXCEPT !.waiting = @ \ {n}, !.settled = @ \cup {n}]

ForgetsQueue(f, n, handles) ==                   \* mutant of Decides
  [f EXCEPT !.active = @ \cup {e \in OutgoingInScope(f, n) : e.handle \in handles},
            !.decided = @ \cup OutgoingInScope(f, n),
            !.waiting = @ \cup Targets({e \in OutgoingInScope(f, n) :
                                          e.handle \in handles})]
Decides(f, n, handles) ==
  [f EXCEPT !.active = @ \cup {e \in OutgoingInScope(f, n) : e.handle \in handles},
            !.decided = @ \cup OutgoingInScope(f, n),
            !.waiting = @ \cup Targets(OutgoingInScope(f, n))]

Executed(f, n, handles) == [Decides(f, n, handles) EXCEPT !.last = n]

missingUpstream ==
  ({e.source : e \in {d \in Incoming(graph, test.node) : ~isLoopBackEdge(d)}}
     \cup (test.refs \cap graph.nodes)) \ (test.seeded \cup {Trigger})

MayRun == test = NoTest \/ (test.node \in graph.nodes /\ missingUpstream = {})

Walking ==
  /\ status = "running"
  /\ MayRun
  /\ ~stopping
  /\ cur = Idle
  /\ Top.at = "walking"

(* The head of the queue, when it can be settled and is to run.            *)
Runs(n) ==
  /\ Walking
  /\ n \in Top.waiting \cap Top.scope
  /\ n \notin Top.settled
  /\ Decidable(Top, n)
  /\ Live(Top, n)
  /\ visited' = visited \cup {n}

(* It comes back when its last predecessor is decided.                     *)
Drop(n) ==
  /\ Walking
  /\ n \in Top.waiting
  /\ \/ n \notin Top.scope
     \/ n \in Top.settled
     \/ ~Decidable(Top, n)
  /\ stack' = WithTop([Top EXCEPT !.waiting = @ \ {n}])
  /\ UNCHANGED <<graph, test, cur, stopping, order, open, outputs, result,
                 visited, skipped, status, failures>>

(* Bodies do not log what an iteration skips.                              *)
Skip(n) ==
  /\ Walking
  /\ n \in Top.waiting \cap Top.scope
  /\ n \notin Top.settled
  /\ Decidable(Top, n)
  /\ ~Live(Top, n)
  /\ stack' = WithTop(Decides(Takes(Top, n), n, {}))
  /\ IF Top.loop = None /\ n # Trigger
     THEN /\ skipped' = skipped \cup {n}
          /\ order' = order + 1
     ELSE UNCHANGED <<skipped, order>>
  /\ UNCHANGED <<graph, test, cur, stopping, open, outputs, result, visited,
                 status, failures>>

RunTrigger(n) ==
  /\ Runs(n)
  /\ graph.type[n] = "trigger"
  /\ stack' = WithTop(Decides(Takes(Top, n), n, {"out"}))
  /\ UNCHANGED <<graph, test, cur, stopping, order, open, outputs, result,
                 skipped, status, failures>>

-----------------------------------------------------------------------------
(* runAgentNode and runConditionNode: a step log row per attempt.          *)

StartStep(n) ==
  /\ Runs(n)
  /\ graph.type[n] \in {"agent", "condition"}
  /\ stack' = WithTop(Takes(Top, n))
  /\ cur' = [node |-> n, attempt |-> 1]
  /\ order' = order + 1
  /\ open' = open \cup {n}
  /\ UNCHANGED <<graph, test, stopping, outputs, result, skipped, status,
                 failures>>

Closes(n, handles) ==
  /\ cur' = Idle
  /\ open' = open \ {n}
  /\ outputs' = [outputs EXCEPT ![n] = order]
  /\ stack' = WithTop(Executed(Top, n, handles))

Branches(n) == IF graph.type[n] = "agent" THEN {{"out"}} ELSE {{"true"}, {"false"}}

StepSucceeds ==
  /\ status = "running"
  /\ cur # Idle
  /\ \E handles \in Branches(cur.node) : Closes(cur.node, handles)
  /\ UNCHANGED <<graph, test, stopping, order, result, visited, skipped,
                 status, failures>>

(* executeStep and the evaluation of a condition return a result or throw. *)
AttemptThrows ==
  /\ status = "running"
  /\ cur # Idle
  /\ failures < MaxFailures
  /\ failures' = failures + 1

(* The failed row is closed and a new one opened.                          *)
StepRetries ==
  /\ AttemptThrows
  /\ cur.attempt <= MaxRetries
  /\ cur' = [cur EXCEPT !.attempt = @ + 1]
  /\ UNCHANGED <<graph, test, stack, stopping, order, open, outputs, result,
                 visited, skipped, status>>

(* Only a step can go on after a failure: a condition has no branch to     *)
(* take.                                                                   *)
StepContinues ==
  /\ AttemptThrows
  /\ graph.type[cur.node] = "agent"
  /\ Closes(cur.node, {"out"})
  /\ UNCHANGED <<graph, test, stopping, order, result, visited, skipped,
                 status>>

StepStops ==
  /\ AttemptThrows
  /\ stopping' = TRUE
  /\ cur' = Idle
  /\ open' = open \ {cur.node}
  /\ UNCHANGED <<graph, test, stack, order, outputs, result, visited,
                 skipped, status>>

-----------------------------------------------------------------------------
(* runLoopNode.  A forEach goes round once per item, a while for as long   *)
(* as its condition holds, both at most maxIterations times.               *)

bodyEntry(n) ==
  Targets({e \in Outgoing(graph, n) : e.handle = "loop" /\ ~isLoopBackEdge(e)})
    \cap collectBodySubgraph(graph, n)

StartLoop(n) ==
  /\ Runs(n)
  /\ graph.type[n] = "loop"
  /\ \E mode \in {"forEach", "while"}, limit \in 0..MaxIterations :
       /\ mode = "while" => limit > 0
       /\ stack' = WithTop(Takes(Top, n)) \o
            <<Traversal(n, bodyEntry(n), collectBodySubgraph(graph, n), mode, limit)>>
  /\ order' = order + 1
  /\ open' = open \cup {n}
  /\ UNCHANGED <<graph, test, cur, stopping, outputs, result, skipped, status,
                 failures>>

Deciding ==
  /\ status = "running"
  /\ ~stopping
  /\ Top.at = "deciding"

IterationBegins ==
  /\ Deciding
  /\ Top.iteration < Top.limit
  /\ stack' = WithTop([Top EXCEPT !.at = "walking", !.waiting = Top.entries,
                         !.settled = {}, !.active = {}, !.decided = {},
                         !.last = None, !.began = order])
  /\ UNCHANGED <<graph, test, cur, stopping, order, open, outputs, result,
                 visited, skipped, status, failures>>

(* The result of an iteration is that of the last node it executed.        *)
LastOfBody ==                                    \* mutant of Terminal
  IF Top.last = None THEN None
  ELSE CHOOSE n \in Top.scope : \A m \in Top.scope : m <= n
Terminal == Top.last

CountsResults ==                                 \* mutant of IterationEnds
  /\ Walking
  /\ Top.loop # None
  /\ Top.waiting = {}
  /\ result' = IF Terminal = None THEN result
               ELSE [node |-> Terminal, at |-> outputs[Terminal], began |-> Top.began]
  /\ stack' = WithTop([Top EXCEPT !.at = "deciding",
                        !.iteration = IF Terminal = None THEN @ ELSE @ + 1])
  /\ UNCHANGED <<graph, test, cur, stopping, order, open, outputs, visited,
                 skipped, status, failures>>
IterationEnds ==
  /\ Walking
  /\ Top.loop # None
  /\ Top.waiting = {}
  /\ result' = IF Terminal = None THEN result
               ELSE [node |-> Terminal, at |-> outputs[Terminal], began |-> Top.began]
  /\ stack' = WithTop([Top EXCEPT !.at = "deciding", !.iteration = @ + 1])
  /\ UNCHANGED <<graph, test, cur, stopping, order, open, outputs, visited,
                 skipped, status, failures>>

LoopEnds ==
  /\ Deciding
  /\ Top.iteration = Top.limit \/ Top.mode = "while"
  /\ LET outer == Below[Len(Below)]
     IN  stack' = SubSeq(Below, 1, Len(Below) - 1) \o
                    <<Executed(outer, Top.loop, {"done"})>>
  /\ outputs' = [outputs EXCEPT ![Top.loop] = order]
  /\ open' = open \ {Top.loop}
  /\ UNCHANGED <<graph, test, cur, stopping, order, result, visited, skipped,
                 status, failures>>

(* The condition of a while loop throws.                                   *)
WhileFails ==
  /\ Deciding
  /\ Top.mode = "while"
  /\ Top.iteration < Top.limit
  /\ failures < MaxFailures
  /\ failures' = failures + 1
  /\ stopping' = TRUE
  /\ stack' = Below
  /\ open' = open \ {Top.loop}
  /\ UNCHANGED <<graph, test, cur, order, outputs, result, visited, skipped,
                 status>>

(* A stop inside a body closes the row of each loop around it.             *)
Unwind ==
  /\ status = "running"
  /\ stopping
  /\ Len(stack) > 1
  /\ stack' = Below
  /\ open' = open \ {Top.loop}
  /\ UNCHANGED <<graph, test, cur, stopping, order, outputs, result, visited,
                 skipped, status, failures>>

-----------------------------------------------------------------------------
(* runWorkflow: a test of one node that cannot run, and the ends of a run. *)

TestRefused ==
  /\ status = "running"
  /\ ~MayRun
  /\ status' = "error"
  /\ order' = IF test.node \in graph.nodes THEN order + 1 ELSE order
  /\ UNCHANGED <<graph, test, stack, cur, stopping, open, outputs, result,
                 visited, skipped, failures>>

(* Every node that neither ran nor was skipped is logged as skipped.       *)
SweepSettled ==                                  \* mutant of sweepSkipped
  skipped' = skipped \cup (Top.settled \ (visited \cup {Trigger}))
sweepSkipped ==
  skipped' = skipped \cup (graph.nodes \ (visited \cup {Trigger}))

Ends(s) ==
  /\ status' = s
  /\ IF test = NoTest
     THEN /\ sweepSkipped
          /\ order' = order + Cardinality(skipped' \ skipped)
     ELSE UNCHANGED <<skipped, order>>
  /\ UNCHANGED <<graph, test, stack, cur, stopping, open, outputs, result,
                 visited, failures>>

RunCompletes == Walking /\ Len(stack) = 1 /\ Top.waiting = {} /\ Ends("completed")
RunFails == status = "running" /\ stopping /\ Len(stack) = 1 /\ Ends("error")

Next ==
  \/ \E n \in 0..LastNode :
       Drop(n) \/ Skip(n) \/ RunTrigger(n) \/ StartStep(n) \/ StartLoop(n)
  \/ StepSucceeds \/ StepRetries \/ StepContinues \/ StepStops
  \/ IterationBegins \/ IterationEnds \/ LoopEnds \/ WhileFails \/ Unwind
  \/ TestRefused \/ RunCompletes \/ RunFails

Spec == Init /\ [][Next]_vars
FairSpec == Spec /\ WF_vars(Next)
-----------------------------------------------------------------------------
(* What lies before n in the scope of a traversal.                         *)
Ancestors(f, n) ==
  {m \in f.scope :
     n \in Reached(graph, Targets(OutgoingInScope(f, m)),
                   {e \in Forward(graph) : {e.source, e.target} \subseteq f.scope})}

(* workflow-runner.ts 1171-1194: a node that is settled, to run or to be   *)
(* skipped, has everything before it in its traversal settled: a merge     *)
(* sees the outputs of every branch that was taken.                        *)
AncestorsSettled ==
  \A k \in DOMAIN stack : \A n \in stack[k].settled :
    Ancestors(stack[k], n) \subseteq stack[k].settled

(* workflow-runner.ts 1179-1213: when the queue runs empty, every entry    *)
(* and every node an active edge leads to has been settled; only a node    *)
(* with a predecessor no path from the entries reaches is left behind.     *)
Stalled(f) ==
  {n \in f.scope :
     \E m \in Ancestors(f, n) \cup {n} :
       \E e \in IncomingInScope(f, m) :
         e.source \notin f.entries /\ Ancestors(f, e.source) \cap f.entries = {}}
NothingLeftBehind ==
  Walking /\ Top.waiting = {} =>
    \A n \in Top.scope :
      n \in Top.entries \/ IncomingInScope(Top, n) \cap Top.active # {}
        => n \in Top.settled \cup Stalled(Top)

(* workflow-runner.ts 1435-1441: a node of a loop's body runs only as part *)
(* of a loop around it, also when the body has a way out of the loop.      *)
InsideItsLoop ==
  cur # Idle /\ cur.node \in BodyNodes(graph) /\ test = NoTest =>
    \E k \in DOMAIN stack :
      /\ stack[k].loop # None
      /\ cur.node \in collectBodySubgraph(graph, stack[k].loop)

(* workflow-runner.ts 953-960, 1201, 1216-1221: in a run that ended, each  *)
(* node ran or was logged as skipped, and never both, and no row of a node *)
(* is left at 'running', however many loops the failure was in.            *)
EveryNodeAccounted ==
  status \in {"completed", "error"} =>
    /\ open = {}
    /\ test = NoTest =>
         /\ graph.nodes \ {Trigger} \subseteq visited \cup skipped
         /\ visited \cap skipped = {}

(* workflow-runner.ts 962-967: a loop's results hold what the iteration    *)
(* produced, never the output of an earlier one.                           *)
FreshResult == result.at > result.began

(* workflow-runner.ts 901, 924: every run whose process lives ends: loops  *)
(* are bounded, also empty ones, and no node waits for ever.               *)
RunEnds == <>(status # "running")
=============================================================================
