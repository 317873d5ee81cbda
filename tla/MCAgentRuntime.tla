--------------------------- MODULE MCAgentRuntime ---------------------------
(***************************************************************************)
(* Small instances of AgentRuntime for TLC.                                *)
(***************************************************************************)
EXTENDS AgentRuntime, TLC
CONSTANTS t1, t2, c1, a1, m1, w1

MCKindOf ==
  (c1 :> "chat") @@ (a1 :> "ask") @@ (m1 :> "mission") @@ (w1 :> "workflow")

(* A workflow run, a chat turn and an ask on one thread: the owner and     *)
(* another agent come back to the thread a trigger created.                *)
OneThreadRuns == {c1, a1, w1}
OneThreadOf == (c1 :> t1) @@ (a1 :> t1) @@ (w1 :> t1)
OneThreadKindOf == [r \in OneThreadRuns |-> MCKindOf[r]]

(* A thread begun by a trigger or by a mission wake, to which an ask comes *)
(* (m1 and w1 exclude each other: each creates its thread).                *)
BegunRuns == {a1, m1, w1}
BegunOf == (a1 :> t1) @@ (m1 :> t1) @@ (w1 :> t1)
BegunKindOf == [r \in BegunRuns |-> MCKindOf[r]]

(* A workflow run and an ask on threads of their own: with a cap of one    *)
(* they compete for it.                                                    *)
TwoThreadRuns == {a1, w1}
TwoThreadOf == (a1 :> t1) @@ (w1 :> t2)
TwoThreadKindOf == [r \in TwoThreadRuns |-> MCKindOf[r]]
=============================================================================
