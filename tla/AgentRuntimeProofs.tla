------------------------- MODULE AgentRuntimeProofs -------------------------
(***************************************************************************)
(* Theorems about AgentRuntime, for any set of threads and runs, any cap   *)
(* and any number of crashes.                                              *)
(*                                                                         *)
(* The invariants are stacked: SlotInv says who holds a thread's slot and  *)
(* is inductive with TypeOK alone; ConfigInv, WaiterInv, WorkflowInv and   *)
(* StatusInv each need it (or TypeOK) and nothing of one another.          *)
(***************************************************************************)
EXTENDS AgentRuntime, TLAPS

Holding(r) == pc[r] \in Spawning \cup {"live"}

-----------------------------------------------------------------------------
(* Types.                                                                  *)

(* A run moves, and waiters are settled, within the types.                 *)
LEMMA MoveTyped ==
  ASSUME TypeOK, NEW r \in Runs, NEW p \in Positions, Goto(r, p)
  PROVE  pc' \in [Runs -> Positions]
BY DEF TypeOK, Goto

LEMMA SettleTyped ==
  ASSUME TypeOK, NEW t \in Threads, SettleWaiters(t) \/ UNCHANGED waiters
  PROVE  waiters' \in [Threads -> SUBSET Runs]
BY DEF TypeOK, SettleWaiters

(* No step of the service, the runtime or the daemon leaves the types.     *)
LEMMA TypeStep == ASSUME TypeOK, [Next]_vars PROVE TypeOK'
<1> USE RuntimeAssumption
    DEF TypeOK, Kinds, Statuses, Positions, Spawning, Closing, Refused, vars,
        cancelVars, configVars, processVars, wfVars, upVars, Goto, SetStatus,
        EndSpawn, Kill, SettleWaiters
<1>1. CASE UNCHANGED vars
  BY <1>1
<1>2. ASSUME NEW r \in Runs, Submit(r) PROVE TypeOK'
  BY <1>2 DEF Submit
<1>3. ASSUME NEW r \in Runs, SpawnStep(r) PROVE TypeOK'
  <2>1. CASE SpawnForThread(r)
    BY <2>1 DEF SpawnForThread, AwaitThreadCompletion
  <2>2. CASE NoModel(r) \/ SpawnThrows(r)
    <3>1. pc' \in [Runs -> Positions]
      BY <2>2, MoveTyped DEF NoModel, SpawnThrows
    <3>2. waiters' \in [Threads -> SUBSET Runs]
      BY <2>2, SettleTyped DEF NoModel, SpawnThrows
    <3>3. spawningThreads' \subseteq Threads
      BY <2>2 DEF NoModel, SpawnThrows
    <3>4. UNCHANGED <<status, liveRuns, cancelVars, configVars, processVars, wfVars,
                      closing, upVars>>
      BY <2>2 DEF NoModel, SpawnThrows
    <3> QED BY <3>1, <3>2, <3>3, <3>4
  <2>3. CASE MarkRunning(r)
    <3>1. pc' \in [Runs -> Positions]
      BY <2>3, MoveTyped DEF MarkRunning
    <3>2. status' \in [Threads -> Statuses]
      BY <2>3 DEF MarkRunning
    <3>3. pendingConfigs' \in [Threads -> Runs \cup {NoRun}]
      BY <2>3 DEF MarkRunning, StoreConfig
    <3>5. config' \in [Runs -> Runs \cup {NoRun}]
      BY <2>3 DEF MarkRunning
    <3>4. UNCHANGED <<spawningThreads, liveRuns, cancelVars, waiters, processVars, wfVars,
                      closing, upVars>>
      BY <2>3 DEF MarkRunning
    <3> QED BY <3>1, <3>2, <3>3, <3>4, <3>5
  <2>4. CASE DriverSpawns(r) \/ DriverFails(r)
    BY <2>4 DEF DriverSpawns, DriverFails
  <2>5. CASE Decline(r)
    BY <2>5 DEF Decline
  <2>6. CASE GoLive(r)
    BY <2>6 DEF GoLive
  <2> QED BY <1>3, <2>1, <2>2, <2>3, <2>4, <2>5, <2>6 DEF SpawnStep
<1>4. ASSUME NEW r \in Runs, HardTimeout(r) \/ WaiterTimeout(r)
      PROVE  TypeOK'
  BY <1>4 DEF HardTimeout, WaiterTimeout
<1>5. ASSUME NEW r \in Runs, RuntimeStep(r) PROVE TypeOK'
  BY <1>5 DEF RuntimeStep, TakePendingConfig, PostRunComplete, Exit
<1>6. ASSUME NEW r \in Runs, CompleteRun(r) \/ CallerFailsRun(r)
      PROVE  TypeOK'
  BY <1>6 DEF CompleteRun, CallerFailsRun
<1>7. ASSUME NEW r \in Runs, CloseStep(r) PROVE TypeOK'
  <2>1. CASE OnClose(r)
    BY <2>1 DEF OnClose, FinalStatus
  <2>2. CASE CloseStatus(r)
    BY <2>2 DEF CloseStatus
  <2>3. CASE ReconcileRead(r)
    BY <2>3 DEF ReconcileRead
  <2>4. CASE ReconcileWrite(r)
    BY <2>4 DEF ReconcileWrite
  <2>5. CASE Settle(r)
    BY <2>5 DEF Settle
  <2> QED BY <1>7, <2>1, <2>2, <2>3, <2>4, <2>5 DEF CloseStep
<1>8. ASSUME NEW t \in Threads,
             ConfigExpires(t) \/ CancelTurn(t) \/ CancelWrite(t)
      PROVE  TypeOK'
  <2>1. CASE ConfigExpires(t)
    BY <2>1 DEF ConfigExpires
  <2>2. CASE CancelTurn(t)
    BY <2>2 DEF CancelTurn, FlagCancelled
  <2>3. CASE CancelWrite(t)
    BY <2>3 DEF CancelWrite
  <2> QED BY <1>8, <2>1, <2>2, <2>3
<1>9. CASE Crash
  <2>1. pc' \in [Runs -> Positions]
    BY <1>9 DEF Crash
  <2>2. post' \in [Runs -> {"unsent", "completed", "error", "answered", "refused"}]
    BY <1>9 DEF Crash
  <2>3. /\ liveRuns' \in [Threads -> Runs \cup {NoRun}]
        /\ cancelHandle' \in [Threads -> Runs \cup {NoRun}]
        /\ waiters' \in [Threads -> SUBSET Runs]
        /\ pendingConfigs' \in [Threads -> Runs \cup {NoRun}]
        /\ closing' \in [Runs -> Statuses]
    BY <1>9 DEF Crash
  <2>4. /\ spawningThreads' = {} /\ cancelledThreads' = {}
        /\ cancelling' = {} /\ exitOk' = {}
        /\ up' = FALSE
        /\ UNCHANGED <<status, config, processes, killed, strays, wfRun>>
    BY <1>9 DEF Crash
  <2>5. crashes' \in Nat
    BY <1>9 DEF Crash
  <2> QED BY <2>1, <2>2, <2>3, <2>4, <2>5
<1>10. CASE ReapOrphans
  BY <1>10 DEF ReapOrphans
<1> QED
  BY <1>1, <1>2, <1>3, <1>4, <1>5, <1>6, <1>7, <1>8, <1>9, <1>10 DEF Next

(* Every variable keeps its type in every reachable state.                 *)
THEOREM TypeCorrect == Spec => []TypeOK
<1>1. Init => TypeOK
  BY RuntimeAssumption
  DEF Init, TypeOK, Statuses, Positions, Spawning, Closing, Refused
<1> QED BY <1>1, TypeStep, PTL DEF Spec

-----------------------------------------------------------------------------
(* Slots: which turn holds a thread.                                       *)

OneHolder ==
  \A r, q \in Runs :
    Holding(r) /\ Holding(q) /\ ThreadOf[r] = ThreadOf[q] => r = q
SpawnHeld == \A r \in Runs : pc[r] \in Spawning => ThreadOf[r] \in spawningThreads
LiveRegistered == \A r \in Runs : pc[r] = "live" => liveRuns[ThreadOf[r]] = r
ProcessHeld ==
  /\ strays \subseteq processes
  /\ \A r \in processes :
       IF up /\ r \notin strays THEN pc[r] \in {"starting", "live"}
                              ELSE pc[r] = "lost"
DownIdle == ~up => \A r \in Runs : pc[r] \in {"new", "done", "lost"}

SlotInv ==
  /\ OneHolder
  /\ SpawnHeld
  /\ LiveRegistered
  /\ ProcessHeld
  /\ DownIdle
  /\ OneRuntimePerThread
  /\ CancelFlagHasLiveRun

(* No step of any actor breaks the slot invariant.                         *)
LEMMA SlotStep == ASSUME TypeOK, SlotInv, [Next]_vars PROVE SlotInv'
<1> USE RuntimeAssumption
    DEF SlotInv, OneHolder, SpawnHeld, LiveRegistered, ProcessHeld, DownIdle,
        OneRuntimePerThread, Owned, CancelFlagHasLiveRun, Holding, TypeOK, Positions,
        Spawning, Closing, Refused, vars, cancelVars, configVars, processVars,
        wfVars, upVars, Goto, EndSpawn
<1>1. CASE UNCHANGED vars
  BY <1>1
<1>2. ASSUME NEW r \in Runs, Submit(r) PROVE SlotInv'
  BY <1>2 DEF Submit
<1>3. ASSUME NEW r \in Runs, SpawnStep(r) PROVE SlotInv'
  <2>1. CASE SpawnForThread(r) /\ Busy(ThreadOf[r])
    <3>1. /\ pc' = [pc EXCEPT ![r] = "rejected"] /\ pc[r] = "checked"
          /\ UNCHANGED <<spawningThreads, liveRuns, cancelVars, processVars, upVars>>
      BY <2>1 DEF SpawnForThread
    <3> QED BY <3>1
  <2>9. CASE SpawnForThread(r) /\ ~Busy(ThreadOf[r])
    <3>1. /\ \E p \in {"declining", "preparing"} : pc' = [pc EXCEPT ![r] = p]
          /\ pc[r] = "checked"
          /\ spawningThreads' = spawningThreads \cup {ThreadOf[r]}
          /\ UNCHANGED <<liveRuns, cancelVars, processVars, upVars>>
      BY <2>9 DEF SpawnForThread
    <3>2. liveRuns[ThreadOf[r]] = NoRun /\ ThreadOf[r] \notin spawningThreads
      BY <2>9 DEF Busy
    <3> QED BY <3>1, <3>2
  <2>2. CASE NoModel(r)
    BY <2>2 DEF NoModel
  <2>3. CASE SpawnThrows(r)
    BY <2>3 DEF SpawnThrows
  <2>4. CASE MarkRunning(r)
    BY <2>4 DEF MarkRunning
  <2>5. CASE DriverSpawns(r)
    BY <2>5 DEF DriverSpawns
  <2>6. CASE DriverFails(r)
    BY <2>6 DEF DriverFails
  <2>7. CASE Decline(r)
    BY <2>7 DEF Decline
  <2>8. CASE GoLive(r)
    BY <2>8 DEF GoLive
  <2> QED
    BY <1>3, <2>1, <2>9, <2>2, <2>3, <2>4, <2>5, <2>6, <2>7, <2>8 DEF SpawnStep
<1>4. ASSUME NEW r \in Runs,
             \/ HardTimeout(r) \/ WaiterTimeout(r)
             \/ CompleteRun(r) \/ CallerFailsRun(r)
      PROVE  SlotInv'
  BY <1>4 DEF HardTimeout, WaiterTimeout, CompleteRun, CallerFailsRun
<1>5. ASSUME NEW r \in Runs, RuntimeStep(r) PROVE SlotInv'
  BY <1>5 DEF RuntimeStep, TakePendingConfig, PostRunComplete, Exit
<1>6. ASSUME NEW r \in Runs, CloseStep(r) PROVE SlotInv'
  <2>1. CASE OnClose(r)
    BY <2>1 DEF OnClose
  <2>2. CASE CloseStatus(r)
    BY <2>2 DEF CloseStatus
  <2>3. CASE ReconcileRead(r)
    BY <2>3 DEF ReconcileRead
  <2>4. CASE ReconcileWrite(r)
    BY <2>4 DEF ReconcileWrite
  <2>5. CASE Settle(r)
    BY <2>5 DEF Settle
  <2> QED BY <1>6, <2>1, <2>2, <2>3, <2>4, <2>5 DEF CloseStep
<1>7. ASSUME NEW t \in Threads,
             ConfigExpires(t) \/ CancelTurn(t) \/ CancelWrite(t)
      PROVE  SlotInv'
  BY <1>7 DEF ConfigExpires, CancelTurn, FlagCancelled, CancelWrite
<1>8. CASE Crash
  BY <1>8 DEF Crash
<1>9. CASE ReapOrphans
  BY <1>9 DEF ReapOrphans
<1> QED
  BY <1>1, <1>2, <1>3, <1>4, <1>5, <1>6, <1>7, <1>8, <1>9 DEF Next

(* It holds when the backend starts.                                       *)
LEMMA SlotInit == Init => SlotInv
BY RuntimeAssumption
DEF Init, SlotInv, OneHolder, SpawnHeld, LiveRegistered, ProcessHeld, DownIdle,
    OneRuntimePerThread, Owned, CancelFlagHasLiveRun, Holding, Spawning

(* Hence it always holds, together with the types.                         *)
LEMMA SlotInvariant == Spec => [](TypeOK /\ SlotInv)
<1>1. Spec => []TypeOK
  BY TypeCorrect
<1>2. TypeOK /\ SlotInv /\ [Next]_vars => SlotInv'
  BY SlotStep
<1> QED BY <1>1, <1>2, SlotInit, PTL DEF Spec

(* No interleaving of spawns, closes, stops, crashes and restarts gives a  *)
(* thread two containers, but for those that boot failed to remove.        *)
THEOREM NoSecondRuntime == Spec => []OneRuntimePerThread
<1>1. SlotInv => OneRuntimePerThread
  BY DEF SlotInv
<1> QED BY <1>1, SlotInvariant, PTL

(* A container can always be found through liveRuns once its spawn ended.  *)
THEOREM RuntimesReachable == Spec => []LiveRunReachable
<1>1. TypeOK /\ SlotInv => LiveRunReachable
  BY RuntimeAssumption
  DEF TypeOK, SlotInv, ProcessHeld, LiveRegistered, LiveRunReachable, Owned
<1> QED BY <1>1, SlotInvariant, PTL

(* A stop flag is never left for a later turn.                             *)
THEOREM NoStaleCancelFlag == Spec => []CancelFlagHasLiveRun
<1>1. SlotInv => CancelFlagHasLiveRun
  BY DEF SlotInv
<1> QED BY <1>1, SlotInvariant, PTL

-----------------------------------------------------------------------------
(* Configs: a runtime that has yet to fetch its config finds its own.      *)

Fetching(r) == pc[r] = "driving" \/ r \in Owned

ConfigInv ==
  \A r \in Runs :
    /\ r \notin strays => config[r] \in {r, NoRun}
    /\ Fetching(r) /\ config[r] = NoRun
         => pendingConfigs[ThreadOf[r]] \in {r, NoRun}

(* A config changes hands only inside one turn's hold of the thread.       *)
LEMMA ConfigStep ==
  ASSUME TypeOK, SlotInv, ConfigInv, [Next]_vars PROVE ConfigInv'
<1> USE RuntimeAssumption
    DEF ConfigInv, Fetching, Owned, TypeOK, vars, cancelVars, configVars,
        processVars, wfVars, upVars, Goto
<1>1. CASE UNCHANGED vars
  BY <1>1
<1>2. ASSUME NEW r \in Runs, SpawnStep(r) PROVE ConfigInv'
  <2>1. CASE MarkRunning(r)
    <3>1. \A q \in Runs \ {r} : ThreadOf[q] = ThreadOf[r] => ~Fetching(q)
      BY <2>1 DEF MarkRunning, SlotInv, OneHolder, ProcessHeld, DownIdle,
                  Holding, Spawning
    <3> QED BY <2>1, <3>1 DEF MarkRunning, StoreConfig
  <2>2. CASE DriverSpawns(r)
    BY <2>2 DEF DriverSpawns
  <2>3. CASE DriverFails(r)
    BY <2>3 DEF DriverFails
  <2>4. CASE \/ SpawnForThread(r) \/ NoModel(r) \/ SpawnThrows(r)
             \/ Decline(r) \/ GoLive(r)
    BY <2>4 DEF SpawnForThread, NoModel, SpawnThrows, Decline, GoLive
  <2> QED BY <1>2, <2>1, <2>2, <2>3, <2>4 DEF SpawnStep
<1>3. ASSUME NEW r \in Runs, RuntimeStep(r) PROVE ConfigInv'
  <2>1. CASE TakePendingConfig(r)
    BY <2>1 DEF TakePendingConfig
  <2>2. CASE PostRunComplete(r)
    BY <2>2 DEF PostRunComplete
  <2>3. CASE Exit(r)
    <3>1. pc[r] # "driving"
      BY <2>3 DEF Exit, SlotInv, ProcessHeld, DownIdle
    <3> QED BY <2>3, <3>1 DEF Exit
  <2> QED BY <1>3, <2>1, <2>2, <2>3 DEF RuntimeStep
<1>4. ASSUME NEW r \in Runs,
             \/ Submit(r) \/ HardTimeout(r) \/ WaiterTimeout(r)
             \/ CompleteRun(r) \/ CallerFailsRun(r)
      PROVE  ConfigInv'
  BY <1>4 DEF Submit, HardTimeout, WaiterTimeout, CompleteRun, CallerFailsRun
<1>5. ASSUME NEW r \in Runs, CloseStep(r) PROVE ConfigInv'
  BY <1>5 DEF CloseStep, OnClose, CloseStatus, ReconcileRead, ReconcileWrite,
              Settle
<1>6. ASSUME NEW t \in Threads,
             ConfigExpires(t) \/ CancelTurn(t) \/ CancelWrite(t)
      PROVE  ConfigInv'
  BY <1>6 DEF ConfigExpires, CancelTurn, CancelWrite
<1>7. CASE Crash
  BY <1>7 DEF Crash
<1>8. CASE ReapOrphans
  <2>1. \A r \in Runs : pc[r] # "driving"
    BY <1>8 DEF ReapOrphans, SlotInv, DownIdle
  <2> QED BY <1>8, <2>1 DEF ReapOrphans
<1> QED BY <1>1, <1>2, <1>3, <1>4, <1>5, <1>6, <1>7, <1>8 DEF Next

(* No runtime ever works from the config of another turn.                  *)
THEOREM ConfigsNotMixed == Spec => []ConfigIsOwn
<1>1. Init => ConfigInv
  BY DEF Init, ConfigInv, Fetching, Owned
<1>2. TypeOK /\ SlotInv /\ ConfigInv /\ [Next]_vars => ConfigInv'
  BY ConfigStep
<1>3. TypeOK /\ ConfigInv => ConfigIsOwn
  BY DEF TypeOK, ConfigInv, ConfigIsOwn, Owned
<1> QED BY <1>1, <1>2, <1>3, SlotInvariant, PTL DEF Spec

-----------------------------------------------------------------------------
(* Waiters: every terminal path releases them.                             *)

WaiterInv ==
  \A r \in Runs : r \in waiters[ThreadOf[r]] =>
    /\ Waits(r)
    /\ \/ InBackend(r)
       \/ pc[r] = "rejected"
       \/ pc[r] = "threw" /\ KindOf[r] = "mission"

(* Every way out of a turn releases the waiters of its thread.             *)
LEMMA WaiterStep == ASSUME TypeOK, WaiterInv, [Next]_vars PROVE WaiterInv'
<1> USE RuntimeAssumption
    DEF WaiterInv, Waits, InBackend, Refused, Kinds, TypeOK, vars, cancelVars,
        configVars, processVars, wfVars, upVars, Goto, SettleWaiters
<1>1. CASE UNCHANGED vars
  BY <1>1
<1>2. ASSUME NEW r \in Runs, SpawnStep(r) PROVE WaiterInv'
  <2>1. CASE SpawnForThread(r)
    BY <2>1 DEF SpawnForThread, AwaitThreadCompletion
  <2>2. CASE SpawnThrows(r)
    BY <2>2 DEF SpawnThrows
  <2>3. CASE Decline(r)
    BY <2>3 DEF Decline
  <2>4. CASE \/ NoModel(r) \/ MarkRunning(r) \/ DriverSpawns(r)
             \/ DriverFails(r) \/ GoLive(r)
    BY <2>4 DEF NoModel, MarkRunning, DriverSpawns, DriverFails, GoLive
  <2> QED BY <1>2, <2>1, <2>2, <2>3, <2>4 DEF SpawnStep
<1>3. ASSUME NEW r \in Runs,
             \/ Submit(r) \/ HardTimeout(r) \/ RuntimeStep(r)
             \/ CompleteRun(r) \/ CallerFailsRun(r)
      PROVE  WaiterInv'
  BY <1>3 DEF Submit, HardTimeout, RuntimeStep, TakePendingConfig,
              PostRunComplete, Exit, CompleteRun, CallerFailsRun
<1>4. ASSUME NEW r \in Runs, WaiterTimeout(r) PROVE WaiterInv'
  BY <1>4 DEF WaiterTimeout
<1>5. ASSUME NEW r \in Runs, CloseStep(r) PROVE WaiterInv'
  <2>1. CASE Settle(r)
    BY <2>1 DEF Settle
  <2>2. CASE \/ OnClose(r) \/ CloseStatus(r) \/ ReconcileRead(r)
             \/ ReconcileWrite(r)
    BY <2>2 DEF OnClose, CloseStatus, ReconcileRead, ReconcileWrite
  <2> QED BY <1>5, <2>1, <2>2 DEF CloseStep
<1>6. ASSUME NEW t \in Threads,
             ConfigExpires(t) \/ CancelTurn(t) \/ CancelWrite(t)
      PROVE  WaiterInv'
  BY <1>6 DEF ConfigExpires, CancelTurn, CancelWrite
<1>7. CASE Crash
  BY <1>7 DEF Crash
<1>8. CASE ReapOrphans
  BY <1>8 DEF ReapOrphans
<1> QED BY <1>1, <1>2, <1>3, <1>4, <1>5, <1>6, <1>7, <1>8 DEF Next

(* A caller waits only for a turn in progress, but for the two exceptions  *)
(* that WaiterHasRun names.                                                *)
THEOREM WaitersHaveRuns == Spec => []WaiterHasRun
<1>1. Init => WaiterInv
  BY RuntimeAssumption DEF Init, WaiterInv
<1>2. TypeOK /\ WaiterInv /\ [Next]_vars => WaiterInv'
  BY WaiterStep
<1>3. WaiterInv => WaiterHasRun
  BY DEF WaiterInv, WaiterHasRun
<1> QED BY <1>1, <1>2, <1>3, TypeCorrect, PTL DEF Spec

-----------------------------------------------------------------------------
(* Workflow runs: a turn that ended well has reported, any other is        *)
(* reconciled.                                                             *)

WorkflowInv ==
  \A r \in Runs :
    /\ pc[r] = "new" => post[r] = "unsent"
    /\ post[r] = "answered" => wfRun[r] # "running"
    /\ HasWorkflow(r) /\ r \in exitOk => post[r] = "answered"
    /\ HasWorkflow(r) /\ pc[r] = "saving" /\ closing[r] = "completed"
         => post[r] = "answered"
    /\ HasWorkflow(r) /\ pc[r] \in {"settling", "done"} /\ ~DbFails
         => wfRun[r] # "running"

(* Between a workflow turn's report, its exit and its close the run row is *)
(* always somebody's to settle.                                            *)
LEMMA WorkflowStep ==
  ASSUME TypeOK, SlotInv, WorkflowInv, [Next]_vars PROVE WorkflowInv'
<1> USE RuntimeAssumption
    DEF WorkflowInv, HasWorkflow, TypeOK, vars, cancelVars, configVars,
        processVars, wfVars, upVars, Goto
<1>1. CASE UNCHANGED vars
  BY <1>1
<1>2. ASSUME NEW r \in Runs, Submit(r) PROVE WorkflowInv'
  BY <1>2 DEF Submit
<1>3. ASSUME NEW r \in Runs, SpawnStep(r) PROVE WorkflowInv'
  BY <1>3 DEF SpawnStep, SpawnForThread, NoModel, SpawnThrows, MarkRunning,
              DriverSpawns, DriverFails, Decline, GoLive
<1>4. ASSUME NEW r \in Runs, RuntimeStep(r) PROVE WorkflowInv'
  <2>1. CASE TakePendingConfig(r)
    BY <2>1 DEF TakePendingConfig
  <2>2. CASE PostRunComplete(r)
    <3>1. pc[r] # "new"
      BY <2>2 DEF PostRunComplete, SlotInv, ProcessHeld
    <3> QED BY <2>2, <3>1 DEF PostRunComplete
  <2>3. CASE Exit(r)
    BY <2>3 DEF Exit, CanSucceed
  <2> QED BY <1>4, <2>1, <2>2, <2>3 DEF RuntimeStep
<1>5. ASSUME NEW r \in Runs, CompleteRun(r) PROVE WorkflowInv'
  BY <1>5 DEF CompleteRun
<1>6. ASSUME NEW r \in Runs,
             HardTimeout(r) \/ WaiterTimeout(r) \/ CallerFailsRun(r)
      PROVE  WorkflowInv'
  BY <1>6 DEF HardTimeout, WaiterTimeout, CallerFailsRun
<1>7. ASSUME NEW r \in Runs, CloseStep(r) PROVE WorkflowInv'
  <2>1. CASE OnClose(r)
    BY <2>1 DEF OnClose, FinalStatus
  <2>2. CASE CloseStatus(r)
    BY <2>2 DEF CloseStatus, NeedsReconcile
  <2>3. CASE ReconcileRead(r)
    BY <2>3 DEF ReconcileRead
  <2>4. CASE ReconcileWrite(r)
    BY <2>4 DEF ReconcileWrite
  <2>5. CASE Settle(r)
    BY <2>5 DEF Settle
  <2> QED BY <1>7, <2>1, <2>2, <2>3, <2>4, <2>5 DEF CloseStep
<1>8. ASSUME NEW t \in Threads,
             ConfigExpires(t) \/ CancelTurn(t) \/ CancelWrite(t)
      PROVE  WorkflowInv'
  BY <1>8 DEF ConfigExpires, CancelTurn, CancelWrite
<1>9. CASE Crash
  BY <1>9 DEF Crash
<1>10. CASE ReapOrphans
  BY <1>10 DEF ReapOrphans
<1> QED
  BY <1>1, <1>2, <1>3, <1>4, <1>5, <1>6, <1>7, <1>8, <1>9, <1>10 DEF Next

(* With a database that works, a workflow turn that has closed leaves its  *)
(* run row terminal.                                                       *)
THEOREM WorkflowRunsSettled == Spec => []WorkflowRunSettled
<1>1. Init => WorkflowInv
  BY DEF Init, WorkflowInv
<1>2. TypeOK /\ SlotInv /\ WorkflowInv /\ [Next]_vars => WorkflowInv'
  BY WorkflowStep
<1>3. WorkflowInv => WorkflowRunSettled
  BY DEF WorkflowInv, WorkflowRunSettled
<1> QED BY <1>1, <1>2, <1>3, SlotInvariant, PTL DEF Spec

-----------------------------------------------------------------------------
(* Status rows: who still has a 'running' row to write.                    *)

(* A turn that was marked running and has its thread's status yet to write *)
(* (a crash of the backend leaves it lost with the row as it is).          *)
Answers(r) ==
  pc[r] \in {"driving", "starting", "declining", "live", "saving", "lost"}
RunningHasWriter(t) ==
  status[t] = "running" => \E r \in Runs : ThreadOf[r] = t /\ Answers(r)
ClosesEnded == \A r \in Runs : pc[r] = "saving" => closing[r] # "running"
StatusInv == ~DbFails => ClosesEnded /\ \A t \in Threads : RunningHasWriter(t)

(* A step in which no turn gives up its write, and no row becomes running, *)
(* leaves every running row with the turn it had.                          *)
LEMMA WriterKept ==
  ASSUME \A t \in Threads : RunningHasWriter(t),
         \A r \in Runs : Answers(r) => Answers(r)',
         NEW t \in Threads, status'[t] = "running" => status[t] = "running"
  PROVE  RunningHasWriter(t)'
BY DEF RunningHasWriter

(* A step that ends one turn's claim writes that turn's row; the others    *)
(* keep theirs.                                                            *)
LEMMA WriterEnds ==
  ASSUME TypeOK, \A t \in Threads : RunningHasWriter(t), NEW r \in Runs,
         \A q \in Runs \ {r} : Answers(q) => Answers(q)',
         NEW s, s # "running", SetStatus(ThreadOf[r], s),
         NEW t \in Threads
  PROVE  RunningHasWriter(t)'
<1>1. CASE t = ThreadOf[r]
  BY <1>1 DEF RunningHasWriter, SetStatus, TypeOK
<1>2. CASE t # ThreadOf[r]
  BY <1>2 DEF RunningHasWriter, SetStatus, TypeOK
<1> QED BY <1>1, <1>2

LEMMA StatusStep == ASSUME TypeOK, StatusInv, [Next]_vars PROVE StatusInv'
<1> SUFFICES ASSUME ~DbFails
             PROVE  ClosesEnded' /\ \A t \in Threads : RunningHasWriter(t)'
  BY DEF StatusInv
<1>0. ClosesEnded /\ \A t \in Threads : RunningHasWriter(t)
  BY DEF StatusInv
<1> USE RuntimeAssumption DEF TypeOK, vars, cancelVars, configVars, processVars,
                              wfVars, upVars, Goto
<1>1. CASE UNCHANGED vars
  <2>1. ClosesEnded'
    BY <1>0, <1>1 DEF ClosesEnded
  <2>2. /\ \A r \in Runs : Answers(r) => Answers(r)'
        /\ UNCHANGED status
    BY <1>1 DEF Answers
  <2> QED BY <1>0, <2>1, <2>2, WriterKept
<1>2. ASSUME NEW r \in Runs,
             \/ Submit(r) \/ HardTimeout(r) \/ RuntimeStep(r) \/ CompleteRun(r)
             \/ WaiterTimeout(r) \/ CallerFailsRun(r)
      PROVE  ClosesEnded' /\ \A t \in Threads : RunningHasWriter(t)'
  <2>1. /\ \A q \in Runs : pc'[q] # pc[q] => pc[q] = "new" /\ pc'[q] = "checked"
        /\ UNCHANGED <<status, closing>>
    BY <1>2 DEF Submit, HardTimeout, RuntimeStep, TakePendingConfig,
                PostRunComplete, Exit, CompleteRun, WaiterTimeout, CallerFailsRun
  <2>2. ClosesEnded'
    BY <1>0, <2>1 DEF ClosesEnded
  <2>3. \A q \in Runs : Answers(q) => Answers(q)'
    BY <2>1 DEF Answers
  <2> QED BY <1>0, <2>1, <2>2, <2>3, WriterKept
<1>3. ASSUME NEW r \in Runs, SpawnStep(r)
      PROVE  ClosesEnded' /\ \A t \in Threads : RunningHasWriter(t)'
  <2>1. /\ \A q \in Runs \ {r} : pc'[q] = pc[q]
        /\ pc'[r] # "saving"
        /\ UNCHANGED closing
    BY <1>3 DEF SpawnStep, SpawnForThread, NoModel, SpawnThrows, MarkRunning,
                DriverSpawns, DriverFails, Decline, GoLive
  <2>2. ClosesEnded'
    BY <1>0, <2>1 DEF ClosesEnded
  <2>3. \A q \in Runs \ {r} : Answers(q) => Answers(q)'
    BY <2>1 DEF Answers
  <2>4. CASE Decline(r)
    <3>1. SetStatus(ThreadOf[r], "error")
      BY <2>4 DEF Decline
    <3> QED BY <1>0, <2>2, <2>3, <3>1, WriterEnds
  <2>5. CASE MarkRunning(r)
    <3>1. Answers(r)' /\ status' = [status EXCEPT ![ThreadOf[r]] = "running"]
      BY <2>5 DEF MarkRunning, Answers, SetStatus
    <3>2. \A q \in Runs : Answers(q) => Answers(q)'
      BY <2>3, <3>1
    <3>3. ASSUME NEW t \in Threads PROVE RunningHasWriter(t)'
      <4>1. CASE t = ThreadOf[r]
        BY <3>1, <4>1 DEF RunningHasWriter
      <4>2. CASE t # ThreadOf[r]
        <5>1. status'[t] = status[t]
          BY <3>1, <4>2
        <5> QED BY <1>0, <3>2, <5>1, WriterKept
      <4> QED BY <4>1, <4>2
    <3> QED BY <2>2, <3>3
  <2>6. CASE \/ SpawnForThread(r) \/ NoModel(r) \/ SpawnThrows(r)
             \/ DriverSpawns(r) \/ DriverFails(r) \/ GoLive(r)
    <3>1. (Answers(r) => Answers(r)') /\ UNCHANGED status
      BY <2>6 DEF SpawnForThread, NoModel, SpawnThrows, DriverSpawns,
                  DriverFails, GoLive, Answers
    <3>2. \A q \in Runs : Answers(q) => Answers(q)'
      BY <2>3, <3>1
    <3> QED BY <1>0, <2>2, <3>1, <3>2, WriterKept
  <2> QED BY <1>3, <2>4, <2>5, <2>6 DEF SpawnStep
<1>4. ASSUME NEW r \in Runs, CloseStep(r)
      PROVE  ClosesEnded' /\ \A t \in Threads : RunningHasWriter(t)'
  <2>1. \A q \in Runs \ {r} : Answers(q) => Answers(q)'
    BY <1>4 DEF CloseStep, OnClose, CloseStatus, ReconcileRead, ReconcileWrite,
                Settle, Answers
  <2>2. ClosesEnded'
    BY <1>0, <1>4 DEF ClosesEnded, CloseStep, OnClose, FinalStatus, CloseStatus,
                      ReconcileRead, ReconcileWrite, Settle
  <2>3. CASE CloseStatus(r)
    <3>1. SetStatus(ThreadOf[r], closing[r]) /\ closing[r] # "running"
      BY <1>0, <2>3 DEF CloseStatus, ClosesEnded
    <3> QED BY <1>0, <2>1, <2>2, <3>1, WriterEnds
  <2>4. CASE \/ OnClose(r) \/ ReconcileRead(r) \/ ReconcileWrite(r) \/ Settle(r)
    <3>1. (Answers(r) => Answers(r)') /\ UNCHANGED status
      BY <2>4 DEF OnClose, ReconcileRead, ReconcileWrite, Settle, Answers
    <3>2. \A q \in Runs : Answers(q) => Answers(q)'
      BY <2>1, <3>1
    <3> QED BY <1>0, <2>2, <3>1, <3>2, WriterKept
  <2> QED BY <1>4, <2>3, <2>4 DEF CloseStep
<1>5. ASSUME NEW t \in Threads,
             ConfigExpires(t) \/ CancelTurn(t) \/ CancelWrite(t)
      PROVE  ClosesEnded' /\ \A u \in Threads : RunningHasWriter(u)'
  <2>1. /\ UNCHANGED <<pc, closing>>
        /\ \A u \in Threads : status'[u] = "running" => status[u] = "running"
    BY <1>5 DEF ConfigExpires, CancelTurn, CancelWrite, SetStatus
  <2>2. ClosesEnded' /\ \A r \in Runs : Answers(r) => Answers(r)'
    BY <1>0, <2>1 DEF ClosesEnded, Answers
  <2> QED BY <1>0, <2>1, <2>2, WriterKept
<1>6. CASE Crash
  <2>1. /\ \A r \in Runs : Answers(r) => Answers(r)'
        /\ \A r \in Runs : pc'[r] # "saving"
        /\ UNCHANGED status
    BY <1>6 DEF Crash, Answers
  <2>2. ClosesEnded'
    BY <2>1 DEF ClosesEnded
  <2> QED BY <1>0, <2>1, <2>2, WriterKept
<1>7. CASE ReapOrphans
  <2>1. /\ ClosesEnded'
        /\ \A r \in Runs : Answers(r) => Answers(r)'
        /\ UNCHANGED status
    BY <1>0, <1>7 DEF ReapOrphans, ClosesEnded, Answers
  <2> QED BY <1>0, <2>1, WriterKept
<1> QED BY <1>1, <1>2, <1>3, <1>4, <1>5, <1>6, <1>7 DEF Next

(* With a database that works, a thread whose row says 'running' always    *)
(* has a turn whose next status write is still to come, or one the backend *)
(* lost in a crash: no interleaving of spawns, declines, closes and stops  *)
(* leaves the row behind.                                                  *)
THEOREM RunningRowHasTurn ==
  Spec => [](~DbFails => \A t \in Threads : RunningHasWriter(t))
<1>1. Init => StatusInv
  BY DEF Init, StatusInv, ClosesEnded, RunningHasWriter
<1>2. TypeOK /\ StatusInv /\ [Next]_vars => StatusInv'
  BY StatusStep
<1>3. StatusInv => (~DbFails => \A t \in Threads : RunningHasWriter(t))
  BY DEF StatusInv
<1> QED BY <1>1, <1>2, <1>3, TypeCorrect, PTL DEF Spec

-----------------------------------------------------------------------------
(* Refinement: the service implements TurnSlots.                           *)

(* A step that moves no turn into or out of its slot leaves Holders alone. *)
LEMMA HoldersKept ==
  ASSUME \A r \in Runs : Holding(r)' <=> Holding(r)
  PROVE  UNCHANGED Holders
BY DEF Holders, Holding

(* A step that moves one turn changes its own thread's holders only.       *)
LEMMA HoldersChanged ==
  ASSUME NEW r \in Runs, ThreadOf[r] \in Threads, NEW S,
         \A q \in Runs \ {r} : Holding(q)' <=> Holding(q),
         {q \in Runs : ThreadOf[q] = ThreadOf[r] /\ Holding(q)'} = S
  PROVE  Holders' = [Holders EXCEPT ![ThreadOf[r]] = S]
<1>1. ASSUME NEW t \in Threads, t # ThreadOf[r] PROVE Holders'[t] = Holders[t]
  BY <1>1 DEF Holders, Holding
<1>2. Holders'[ThreadOf[r]] = S
  BY DEF Holders, Holding
<1>3. DOMAIN Holders = Threads /\ DOMAIN Holders' = Threads
  BY DEF Holders
<1>4. Holders' = [t \in Threads |-> Holders'[t]]
  BY DEF Holders
<1>5. Holders = [t \in Threads |-> Holders[t]]
  BY DEF Holders
<1> QED BY <1>1, <1>2, <1>3, <1>4, <1>5

(* Every step is a step of TurnSlots or leaves its variables unchanged.    *)
LEMMA SlotsStep ==
  ASSUME TypeOK, SlotInv, [Next]_vars
  PROVE  [Slots!Next]_(Slots!vars)
<1> USE RuntimeAssumption
    DEF Slots!vars, Holding, TypeOK, Positions, Spawning, Closing, Refused,
        vars, cancelVars, configVars, processVars, wfVars, upVars, Goto
<1>1. ASSUME UNCHANGED <<processes, strays, up>>, \A r \in Runs : Holding(r)' <=> Holding(r)
      PROVE  UNCHANGED Slots!vars
  BY <1>1, HoldersKept
<1>2. ASSUME NEW r \in Runs, pc[r] \in Spawning \cup {"live"},
             r \notin processes, Goto(r, pc'[r]), ~Holding(r)',
             UNCHANGED <<processes, strays, up>>
      PROVE  Slots!Release(r)
  <2>1. Holders[ThreadOf[r]] = {r}
    BY <1>2 DEF Holders, SlotInv, OneHolder
  <2>2. Holders' = [Holders EXCEPT ![ThreadOf[r]] = {}]
    <3>1. {q \in Runs : ThreadOf[q] = ThreadOf[r] /\ Holding(q)'} = {}
      BY <1>2 DEF SlotInv, OneHolder
    <3> QED BY <1>2, <3>1, HoldersChanged
  <2> QED BY <1>2, <2>1, <2>2 DEF Slots!Release
<1>3. CASE UNCHANGED vars
  BY <1>1, <1>3
<1>4. ASSUME NEW r \in Runs, SpawnStep(r) PROVE [Slots!Next]_(Slots!vars)
  <2>0. up
    BY <1>4 DEF SpawnStep, SpawnForThread, NoModel, SpawnThrows, MarkRunning,
                DriverSpawns, DriverFails, Decline, GoLive, SlotInv, DownIdle
  <2>1. CASE SpawnForThread(r) /\ Busy(ThreadOf[r])
    BY <1>1, <2>1 DEF SpawnForThread
  <2>2. CASE SpawnForThread(r) /\ ~Busy(ThreadOf[r])
    <3>1. Holders[ThreadOf[r]] = {}
      BY <2>2 DEF Busy, Holders, SlotInv, SpawnHeld, LiveRegistered
    <3>2. Holders' = [Holders EXCEPT ![ThreadOf[r]] = {r}]
      <4>1. {q \in Runs : ThreadOf[q] = ThreadOf[r] /\ Holding(q)'} = {r}
        BY <2>2 DEF SpawnForThread, Busy, SlotInv, SpawnHeld, LiveRegistered
      <4> QED BY <2>2, <4>1, HoldersChanged DEF SpawnForThread
    <3>3. Slots!Acquire(r)
      BY <2>0, <2>2, <3>1, <3>2 DEF SpawnForThread, Slots!Acquire, Slots!Free
    <3> QED BY <3>3 DEF Slots!Next
  <2>3. CASE NoModel(r) \/ MarkRunning(r) \/ DriverFails(r) \/ GoLive(r)
    BY <1>1, <2>3 DEF NoModel, MarkRunning, DriverFails, GoLive
  <2>4. CASE SpawnThrows(r) \/ Decline(r)
    <3>1. r \notin processes
      BY <2>0, <2>4 DEF SpawnThrows, Decline, SlotInv, ProcessHeld
    <3>2. Slots!Release(r)
      BY <1>2, <2>4, <3>1 DEF SpawnThrows, Decline
    <3> QED BY <3>2 DEF Slots!Next
  <2>5. CASE DriverSpawns(r)
    <3>1. UNCHANGED Holders
      BY <2>5, HoldersKept DEF DriverSpawns
    <3>2. Slots!Start(r)
      BY <2>5, <3>1 DEF DriverSpawns, Slots!Start, Holders
    <3> QED BY <3>2 DEF Slots!Next
  <2> QED BY <1>4, <2>1, <2>2, <2>3, <2>4, <2>5 DEF SpawnStep
<1>5. ASSUME NEW r \in Runs,
             \/ Submit(r) \/ HardTimeout(r) \/ WaiterTimeout(r)
             \/ CompleteRun(r) \/ CallerFailsRun(r)
             \/ TakePendingConfig(r) \/ PostRunComplete(r)
      PROVE  UNCHANGED Slots!vars
  BY <1>1, <1>5 DEF Submit, HardTimeout, WaiterTimeout, CompleteRun,
                    CallerFailsRun, TakePendingConfig, PostRunComplete
<1>6. ASSUME NEW r \in Runs, Exit(r) PROVE Slots!Stop(r)
  <2>1. UNCHANGED Holders
    BY <1>6, HoldersKept DEF Exit
  <2> QED BY <1>6, <2>1 DEF Exit, Slots!Stop
<1>7. ASSUME NEW r \in Runs, CloseStep(r) PROVE [Slots!Next]_(Slots!vars)
  <2>1. CASE OnClose(r)
    <3>1. Slots!Release(r)
      BY <1>2, <2>1 DEF OnClose
    <3> QED BY <3>1 DEF Slots!Next
  <2>2. CASE \/ CloseStatus(r) \/ ReconcileRead(r) \/ ReconcileWrite(r)
             \/ Settle(r)
    BY <1>1, <2>2 DEF CloseStatus, ReconcileRead, ReconcileWrite, Settle
  <2> QED BY <1>7, <2>1, <2>2 DEF CloseStep
<1>8. ASSUME NEW t \in Threads,
             ConfigExpires(t) \/ CancelTurn(t) \/ CancelWrite(t)
      PROVE  UNCHANGED Slots!vars
  BY <1>1, <1>8 DEF ConfigExpires, CancelTurn, CancelWrite
<1>9. ASSUME Crash PROVE Slots!Fail
  <2>1. Holders' = [t \in Threads |-> {}]
    BY <1>9 DEF Crash, Holders
  <2> QED BY <1>9, <2>1 DEF Crash, Slots!Fail
<1>10. ASSUME ReapOrphans PROVE Slots!Recover
  <2>1. UNCHANGED Holders
    BY <1>10, HoldersKept DEF ReapOrphans
  <2> QED BY <1>10, <2>1 DEF ReapOrphans, Slots!Recover
<1> QED
  BY <1>3, <1>4, <1>5, <1>6, <1>7, <1>8, <1>9, <1>10
  DEF Next, RuntimeStep, Slots!Next

(* Every behaviour of the service is one of TurnSlots: a turn's container  *)
(* runs only inside the turn's exclusive hold of its thread.               *)
THEOREM Refinement == Spec => ImplementsTurnSlots
<1>1. Init => Slots!Init
  BY DEF Init, Slots!Init, Holders, Spawning
<1>2. TypeOK /\ SlotInv /\ [Next]_vars => [Slots!Next]_(Slots!vars)
  BY SlotsStep
<1> QED
  BY <1>1, <1>2, SlotInvariant, PTL DEF Spec, ImplementsTurnSlots, Slots!Spec
=============================================================================
