----------------------------- MODULE TurnSlots -----------------------------
(***************************************************************************)
(* What the agent runtime promises its callers, without how it does it: a  *)
(* thread has one slot, a turn runs its container only while it holds the  *)
(* slot, and gives the slot up only when the container is gone.  A crash   *)
(* of the backend frees every slot; before the service opens again it has  *)
(* tried to remove every container that was left, and those it could not   *)
(* remove are the only ones that ever run without a slot.                  *)
(***************************************************************************)
CONSTANTS Threads, Runs, ThreadOf

VARIABLES
  holders,     \* the turns holding each thread's slot
  containers,  \* the turns whose container runs
  strays,      \* those left over from before the service last opened
  open         \* whether the service takes turns

vars == <<holders, containers, strays, open>>

Free(t) == holders[t] = {}

Init ==
  /\ holders = [t \in Threads |-> {}]
  /\ containers = {}
  /\ strays = {}
  /\ open = TRUE

Acquire(r) ==
  /\ open
  /\ Free(ThreadOf[r])
  /\ holders' = [holders EXCEPT ![ThreadOf[r]] = {r}]
  /\ UNCHANGED <<containers, strays, open>>

Start(r) ==
  /\ r \in holders[ThreadOf[r]]
  /\ containers' = containers \cup {r}
  /\ UNCHANGED <<holders, strays, open>>

Stop(r) ==
  /\ r \in containers
  /\ containers' = containers \ {r}
  /\ strays' = strays \ {r}
  /\ UNCHANGED <<holders, open>>

Release(r) ==
  /\ r \in holders[ThreadOf[r]]
  /\ r \notin containers
  /\ holders' = [holders EXCEPT ![ThreadOf[r]] = {}]
  /\ UNCHANGED <<containers, strays, open>>

Fail ==
  /\ open
  /\ open' = FALSE
  /\ holders' = [t \in Threads |-> {}]
  /\ UNCHANGED <<containers, strays>>

Recover ==
  /\ ~open
  /\ open' = TRUE
  /\ \E left \in SUBSET containers : containers' = left /\ strays' = left
  /\ UNCHANGED holders

Next ==
  \/ \E r \in Runs : Acquire(r) \/ Start(r) \/ Stop(r) \/ Release(r)
  \/ Fail
  \/ Recover

Spec == Init /\ [][Next]_vars
=============================================================================
