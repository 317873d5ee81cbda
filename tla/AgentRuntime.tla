---------------------------- MODULE AgentRuntime ----------------------------
(***************************************************************************)
(* services/AgentRuntimeService.ts: one isolated runtime per agent turn.   *)
(*                                                                         *)
(* A run is one invocation of spawnForThread, together with the runtime    *)
(* (container) it starts and the onClose handler that ends it.  Each       *)
(* action is the code between two awaits, so every interleaving of the     *)
(* Node event loop is a behaviour.  The maps of the service are variables  *)
(* of the same name; status and wfRun are database rows, processes is what *)
(* the Docker daemon runs.  SSE events, prompts, tokens and logs are left  *)
(* out.                                                                    *)
(***************************************************************************)
EXTENDS Naturals, FiniteSets

CONSTANTS
  Threads,        \* conversation threads
  Runs,           \* invocations of spawnForThread
  ThreadOf,       \* the thread each run is for
  KindOf,         \* who calls: "chat", "ask", "mission" or "workflow"
  LargeConfig,    \* runs whose config does not fit the environment
  MaxConcurrent,  \* AGENT_RUNTIME_MAX_CONCURRENT
  MaxCrashes,     \* bound: how often the backend may crash
  DbFails,        \* whether a write to the database may fail
  NoRun           \* no handle, no config

Kinds == {"chat", "ask", "mission", "workflow"}
Statuses == {"idle", "running", "completed", "error"}

ASSUME RuntimeAssumption ==
  /\ ThreadOf \in [Runs -> Threads]
  /\ KindOf \in [Runs -> Kinds]
  /\ LargeConfig \subseteq Runs
  /\ MaxConcurrent \in Nat \ {0}
  /\ MaxCrashes \in Nat
  /\ DbFails \in BOOLEAN
  /\ NoRun \notin Runs

VARIABLES
  pc,              \* where each run's continuation is
  status,          \* agent_threads.status (database)
  spawningThreads, \* threads between the duplicate guard and the spawn's end
  liveRuns,        \* the handle registered for a thread
  cancelledThreads,\* threads whose live run the user stopped
  cancelling,      \* threads with a cancelTurn awaiting its status write
  cancelHandle,    \* the handle that cancelTurn read before its await
  waiters,         \* completionWaiters: the runs whose caller awaits the thread
  pendingConfigs,  \* the run whose config waits to be fetched for the thread
  config,          \* the run whose config a runtime works from
  processes,       \* runs whose container exists (Docker daemon)
  killed,          \* containers that were sent a kill
  exitOk,          \* exited with code 0, not yet seen by onClose
  strays,          \* containers of an earlier boot that could not be removed
  wfRun,           \* workflow_runs.status of a run's workflow run (database)
  post,            \* the runtime's POST run-complete
  closing,         \* the final status an onClose has yet to write and settle
  up, crashes      \* backend process alive; crashes so far

cancelVars  == <<cancelledThreads, cancelling, cancelHandle>>
configVars  == <<pendingConfigs, config>>
processVars == <<processes, killed, exitOk, strays>>
wfVars      == <<wfRun, post>>
upVars      == <<up, crashes>>
vars == <<pc, status, spawningThreads, liveRuns, cancelVars, waiters,
          configVars, processVars, wfVars, closing, upVars>>

-----------------------------------------------------------------------------
(* Positions of a run.  Those in Spawning are covered by spawningThreads.  *)
Spawning == {"preparing", "driving", "starting", "declining"}
Closing  == {"saving", "reconciling", "overwriting", "settling"}
Refused  == {"rejected", "declined", "threw"}
Positions == {"new", "checked", "live", "done", "lost"}
               \cup Spawning \cup Closing \cup Refused

LiveThreads == {t \in Threads : liveRuns[t] # NoRun}
HasWorkflow(r) == KindOf[r] = "workflow"
Waits(r) == KindOf[r] \in {"ask", "mission"}

Goto(r, p) == pc' = [pc EXCEPT ![r] = p]
SetStatus(t, s) == status' = [status EXCEPT ![t] = s]
EndSpawn(r) == spawningThreads' = spawningThreads \ {ThreadOf[r]}

(* handle.kill(): nothing to do when the container is gone.                *)
KillIgnored(S) == killed' = killed                      \* mutant of Kill
Kill(S) == killed' = killed \cup (S \cap processes)

(* A turn in a position from which code still runs in the backend.         *)
InBackend(r) == pc[r] \notin {"new", "done", "lost"} \cup Refused

TypeOK ==
  /\ pc \in [Runs -> Positions]
  /\ status \in [Threads -> Statuses]
  /\ spawningThreads \subseteq Threads
  /\ liveRuns \in [Threads -> Runs \cup {NoRun}]
  /\ cancelledThreads \subseteq Threads
  /\ cancelling \subseteq Threads
  /\ cancelHandle \in [Threads -> Runs \cup {NoRun}]
  /\ waiters \in [Threads -> SUBSET Runs]
  /\ pendingConfigs \in [Threads -> Runs \cup {NoRun}]
  /\ config \in [Runs -> Runs \cup {NoRun}]
  /\ processes \subseteq Runs
  /\ killed \subseteq Runs
  /\ exitOk \subseteq Runs
  /\ strays \subseteq Runs
  /\ wfRun \in [Runs -> {"none", "running", "completed", "error"}]
  /\ post \in [Runs -> {"unsent", "completed", "error", "answered", "refused"}]
  /\ closing \in [Runs -> Statuses]
  /\ up \in BOOLEAN
  /\ crashes \in Nat

Init ==
  /\ pc = [r \in Runs |-> "new"]
  /\ status = [t \in Threads |-> "idle"]
  /\ spawningThreads = {}
  /\ liveRuns = [t \in Threads |-> NoRun]
  /\ cancelledThreads = {}
  /\ cancelling = {}
  /\ cancelHandle = [t \in Threads |-> NoRun]
  /\ waiters = [t \in Threads |-> {}]
  /\ pendingConfigs = [t \in Threads |-> NoRun]
  /\ config = [r \in Runs |-> NoRun]
  /\ processes = {}
  /\ killed = {}
  /\ exitOk = {}
  /\ strays = {}
  /\ wfRun = [r \in Runs |-> "none"]
  /\ post = [r \in Runs |-> "unsent"]
  /\ closing = [r \in Runs |-> "idle"]
  /\ up = TRUE
  /\ crashes = 0

-----------------------------------------------------------------------------
(* Callers.  A chat message or an ask reuses a thread it read as not       *)
(* running; a mission wake or a trigger creates a thread of its own, and   *)
(* a workflow run row is created running before the spawn.                 *)

FreshThread(r) ==
  \A q \in Runs \ {r} : ThreadOf[q] = ThreadOf[r] => pc[q] = "new"

Submit(r) ==
  /\ up
  /\ pc[r] = "new"
  /\ IF KindOf[r] \in {"chat", "ask"}
       THEN status[ThreadOf[r]] # "running"
       ELSE FreshThread(r)
  /\ Goto(r, "checked")
  /\ wfRun' = [wfRun EXCEPT ![r] = IF HasWorkflow(r) THEN "running" ELSE @]
  /\ UNCHANGED <<status, spawningThreads, liveRuns, cancelVars, waiters,
                 configVars, processVars, post, closing, upVars>>

(* awaitThreadCompletion, called in the same tick as spawnForThread.       *)
AwaitThreadCompletion(r) ==
  waiters' = [waiters EXCEPT ![ThreadOf[r]] =
                IF Waits(r) THEN @ \cup {r} ELSE @]

(* The timer of awaitThreadCompletion fires.                               *)
WaiterTimeout(r) ==
  /\ r \in waiters[ThreadOf[r]]
  /\ waiters' = [waiters EXCEPT ![ThreadOf[r]] = @ \ {r}]
  /\ UNCHANGED <<pc, status, spawningThreads, liveRuns, cancelVars, configVars,
                 processVars, wfVars, closing, upVars>>

SettleWaiters(t) == waiters' = [waiters EXCEPT ![t] = {}]

(* A workflow's caller marks its run failed when the spawn did not happen. *)
CallerFailsThrown(r) ==                           \* mutant of CallerFailsRun
  /\ up
  /\ pc[r] = "threw"
  /\ wfRun[r] = "running"
  /\ wfRun' = [wfRun EXCEPT ![r] = "error"]
  /\ UNCHANGED <<pc, status, spawningThreads, liveRuns, cancelVars, waiters,
                 configVars, processVars, post, closing, upVars>>

CallerFailsRun(r) ==
  /\ up
  /\ pc[r] \in Refused
  /\ wfRun[r] = "running"
  /\ wfRun' = [wfRun EXCEPT ![r] = "error"]
  /\ UNCHANGED <<pc, status, spawningThreads, liveRuns, cancelVars, waiters,
                 configVars, processVars, post, closing, upVars>>

-----------------------------------------------------------------------------
(* spawnForThread.                                                         *)

BusyIgnoresSpawning(t) == liveRuns[t] # NoRun   \* mutant of Busy
Busy(t) == liveRuns[t] # NoRun \/ t \in spawningThreads

(* The duplicate guard and the concurrency cap: one synchronous step.      *)
SpawnForThread(r) ==
  /\ pc[r] = "checked"
  /\ AwaitThreadCompletion(r)
  /\ IF Busy(ThreadOf[r])
       THEN /\ Goto(r, "rejected")
            /\ UNCHANGED spawningThreads
       ELSE /\ Goto(r, IF Cardinality(LiveThreads) >= MaxConcurrent
                         THEN "declining" ELSE "preparing")
            /\ spawningThreads' = spawningThreads \cup {ThreadOf[r]}
  /\ UNCHANGED <<status, liveRuns, cancelVars, configVars, processVars,
                 wfVars, closing, upVars>>

(* The agent has no resolvable chat model.                                 *)
NoModel(r) ==
  /\ pc[r] = "preparing"
  /\ Goto(r, "declining")
  /\ UNCHANGED <<status, spawningThreads, liveRuns, cancelVars, waiters,
                 configVars, processVars, wfVars, closing, upVars>>

(* A step before the spawn throws (agent deleted, token, files), or a      *)
(* status write does.  Only an ask's caller settles the waiters then.      *)
SpawnThrows(r) ==
  /\ \/ pc[r] = "preparing"
     \/ pc[r] = "declining" /\ DbFails
  /\ Goto(r, "threw")
  /\ EndSpawn(r)
  /\ IF KindOf[r] = "ask"
       THEN SettleWaiters(ThreadOf[r])
       ELSE UNCHANGED waiters
  /\ UNCHANGED <<status, liveRuns, cancelVars, configVars, processVars, wfVars,
                 closing, upVars>>

(* A config too large for the environment is left for /internal/config.    *)
StoreConfigOnce(r) ==                             \* mutant of StoreConfig
  pendingConfigs' = [pendingConfigs EXCEPT ![ThreadOf[r]] =
                       IF @ = NoRun THEN r ELSE @]
StoreConfig(r) == pendingConfigs' = [pendingConfigs EXCEPT ![ThreadOf[r]] = r]

(* Everything the runtime needs is ready: the thread is marked running.    *)
MarkRunning(r) ==
  /\ pc[r] = "preparing"
  /\ Goto(r, "driving")
  /\ SetStatus(ThreadOf[r], "running")
  /\ IF r \in LargeConfig
       THEN StoreConfig(r) /\ UNCHANGED config
       ELSE /\ config' = [config EXCEPT ![r] = r]
            /\ UNCHANGED pendingConfigs
  /\ UNCHANGED <<spawningThreads, liveRuns, cancelVars, waiters, processVars,
                 wfVars, closing, upVars>>

(* driver.spawn creates and starts the container.                          *)
DriverSpawns(r) ==
  /\ pc[r] = "driving"
  /\ Goto(r, "starting")
  /\ processes' = processes \cup {r}
  /\ UNCHANGED <<status, spawningThreads, liveRuns, cancelVars, waiters,
                 configVars, killed, exitOk, strays, wfVars, closing, upVars>>

DriverFails(r) ==
  /\ pc[r] = "driving"
  /\ Goto(r, "declining")
  /\ pendingConfigs' = [pendingConfigs EXCEPT ![ThreadOf[r]] = NoRun]
  /\ UNCHANGED <<status, spawningThreads, liveRuns, cancelVars, waiters,
                 config, processVars, wfVars, closing, upVars>>

(* The cap, a missing model or a failed driver: the thread ends in error   *)
(* and its waiters are released.                                           *)
DeclineKeepsWaiters(r) ==                         \* mutant of Decline
  /\ pc[r] = "declining"
  /\ Goto(r, "declined")
  /\ SetStatus(ThreadOf[r], "error")
  /\ EndSpawn(r)
  /\ UNCHANGED <<liveRuns, cancelVars, waiters, configVars, processVars, wfVars,
                 closing, upVars>>

Decline(r) ==
  /\ pc[r] = "declining"
  /\ Goto(r, "declined")
  /\ SetStatus(ThreadOf[r], "error")
  /\ SettleWaiters(ThreadOf[r])
  /\ EndSpawn(r)
  /\ UNCHANGED <<liveRuns, cancelVars, configVars, processVars, wfVars,
                 closing, upVars>>

(* The handle is registered and spawnForThread returns true.               *)
GoLive(r) ==
  /\ pc[r] = "starting"
  /\ Goto(r, "live")
  /\ liveRuns' = [liveRuns EXCEPT ![ThreadOf[r]] = r]
  /\ EndSpawn(r)
  /\ UNCHANGED <<status, cancelVars, waiters, configVars, processVars, wfVars,
                 closing, upVars>>

(* The hard timeout of a live run.                                         *)
HardTimeout(r) ==
  /\ pc[r] = "live"
  /\ Kill({r})
  /\ UNCHANGED <<pc, status, spawningThreads, liveRuns, cancelVars, waiters,
                 configVars, processes, exitOk, strays, wfVars, closing, upVars>>

-----------------------------------------------------------------------------
(* The runtime, as seen by the backend.                                    *)

(* GET /internal/config: takePendingConfig for the token's thread.         *)
TakePendingConfig(r) ==
  /\ up
  /\ r \in processes
  /\ config[r] = NoRun
  /\ pendingConfigs[ThreadOf[r]] # NoRun
  /\ config' = [config EXCEPT ![r] = pendingConfigs[ThreadOf[r]]]
  /\ pendingConfigs' = [pendingConfigs EXCEPT ![ThreadOf[r]] = NoRun]
  /\ UNCHANGED <<pc, status, spawningThreads, liveRuns, cancelVars, waiters,
                 processVars, wfVars, closing, upVars>>

(* A config not fetched within its TTL is swept.                           *)
ConfigExpires(t) ==
  /\ pendingConfigs[t] # NoRun
  /\ pendingConfigs' = [pendingConfigs EXCEPT ![t] = NoRun]
  /\ UNCHANGED <<pc, status, spawningThreads, liveRuns, cancelVars, waiters,
                 config, processVars, wfVars, closing, upVars>>

(* The workflow runner sends its outcome ...                               *)
PostRunComplete(r) ==
  /\ up
  /\ r \in processes
  /\ HasWorkflow(r)
  /\ config[r] # NoRun
  /\ post[r] = "unsent"
  /\ \E s \in {"completed", "error"} : post' = [post EXCEPT ![r] = s]
  /\ UNCHANGED <<pc, status, spawningThreads, liveRuns, cancelVars, waiters,
                 configVars, processVars, wfRun, closing, upVars>>

(* ... and the endpoint writes it, whether or not the runtime still lives. *)
CompleteRun(r) ==
  /\ up
  /\ post[r] \in {"completed", "error"}
  /\ \/ /\ wfRun' = [wfRun EXCEPT ![r] = post[r]]
        /\ post' = [post EXCEPT ![r] = "answered"]
     \/ /\ DbFails
        /\ post' = [post EXCEPT ![r] = "refused"]
        /\ UNCHANGED wfRun
  /\ UNCHANGED <<pc, status, spawningThreads, liveRuns, cancelVars, waiters,
                 configVars, processVars, closing, upVars>>

(* Exit code 0 needs a config and, for a workflow, an answered completion. *)
CanSucceed(r) == config[r] # NoRun /\ (HasWorkflow(r) => post[r] = "answered")

Exit(r) ==
  /\ r \in processes
  /\ processes' = processes \ {r}
  /\ killed' = killed \ {r}
  /\ strays' = strays \ {r}
  /\ \/ UNCHANGED exitOk
     \/ CanSucceed(r) /\ exitOk' = exitOk \cup {r}
  /\ config' = [config EXCEPT ![r] = NoRun]
  /\ UNCHANGED <<pc, status, spawningThreads, liveRuns, cancelVars, waiters,
                 pendingConfigs, wfVars, closing, upVars>>

-----------------------------------------------------------------------------
(* onClose.                                                                *)

FinalStatus(r) ==
  IF ThreadOf[r] \in cancelledThreads THEN "idle"
  ELSE IF r \in exitOk THEN "completed" ELSE "error"

OnCloseEarly(r) ==                                \* mutant of OnClose
  /\ pc[r] = "live"
  /\ Goto(r, "saving")
  /\ liveRuns' = [liveRuns EXCEPT ![ThreadOf[r]] = NoRun]
  /\ cancelledThreads' = cancelledThreads \ {ThreadOf[r]}
  /\ closing' = [closing EXCEPT ![r] = FinalStatus(r)]
  /\ exitOk' = exitOk \ {r}
  /\ UNCHANGED <<status, spawningThreads, cancelling, cancelHandle, waiters,
                 configVars, processes, killed, strays, wfVars, upVars>>

OnClose(r) ==
  /\ pc[r] = "live"
  /\ r \notin processes
  /\ Goto(r, "saving")
  /\ liveRuns' = [liveRuns EXCEPT ![ThreadOf[r]] = NoRun]
  /\ cancelledThreads' = cancelledThreads \ {ThreadOf[r]}
  /\ closing' = [closing EXCEPT ![r] = FinalStatus(r)]
  /\ exitOk' = exitOk \ {r}
  /\ UNCHANGED <<status, spawningThreads, cancelling, cancelHandle, waiters,
                 configVars, processes, killed, strays, wfVars, upVars>>

(* A workflow run whose turn did not complete is reconciled, also after a  *)
(* stop by the user.                                                       *)
NeedsReconcileOnError(r) ==                       \* mutant of NeedsReconcile
  HasWorkflow(r) /\ closing[r] = "error"
NeedsReconcile(r) == HasWorkflow(r) /\ closing[r] # "completed"

(* The browser session is saved and the status written; a failed write is  *)
(* only logged.                                                            *)
CloseStatus(r) ==
  /\ pc[r] = "saving"
  /\ Goto(r, IF NeedsReconcile(r) THEN "reconciling" ELSE "settling")
  /\ \/ SetStatus(ThreadOf[r], closing[r])
     \/ DbFails /\ UNCHANGED status
  /\ UNCHANGED <<spawningThreads, liveRuns, cancelVars, waiters, configVars,
                 processVars, wfVars, closing, upVars>>

(* reconcileOrphanedWorkflowRun reads the row, and writes it later; when   *)
(* either fails it only logs.                                              *)
ReconcileRead(r) ==
  /\ pc[r] = "reconciling"
  /\ \/ Goto(r, IF wfRun[r] = "running" THEN "overwriting" ELSE "settling")
     \/ DbFails /\ Goto(r, "settling")
  /\ UNCHANGED <<status, spawningThreads, liveRuns, cancelVars, waiters,
                 configVars, processVars, wfVars, closing, upVars>>

ReconcileWrite(r) ==
  /\ pc[r] = "overwriting"
  /\ Goto(r, "settling")
  /\ \/ wfRun' = [wfRun EXCEPT ![r] = "error"]
     \/ DbFails /\ UNCHANGED wfRun
  /\ UNCHANGED <<status, spawningThreads, liveRuns, cancelVars, waiters,
                 configVars, processVars, post, closing, upVars>>

Settle(r) ==
  /\ pc[r] = "settling"
  /\ Goto(r, "done")
  /\ SettleWaiters(ThreadOf[r])
  /\ closing' = [closing EXCEPT ![r] = "idle"]
  /\ UNCHANGED <<status, spawningThreads, liveRuns, cancelVars, configVars,
                 processVars, wfVars, upVars>>

-----------------------------------------------------------------------------
(* cancelTurn: the handle is read and flagged before the status write, and *)
(* killed after it.  At most one cancel per thread is in flight.           *)

FlagAlways(t) ==                                  \* mutant of FlagCancelled
  cancelledThreads' = cancelledThreads \cup {t}
FlagCancelled(t) ==
  cancelledThreads' = IF liveRuns[t] # NoRun
                        THEN cancelledThreads \cup {t} ELSE cancelledThreads

CancelTurn(t) ==
  /\ up
  /\ t \notin cancelling
  /\ cancelling' = cancelling \cup {t}
  /\ cancelHandle' = [cancelHandle EXCEPT ![t] = liveRuns[t]]
  /\ FlagCancelled(t)
  /\ UNCHANGED <<pc, status, spawningThreads, liveRuns, waiters, configVars,
                 processVars, wfVars, closing, upVars>>

CancelWrite(t) ==
  /\ t \in cancelling
  /\ cancelling' = cancelling \ {t}
  /\ cancelHandle' = [cancelHandle EXCEPT ![t] = NoRun]
  /\ \/ SetStatus(t, "idle")
     \/ DbFails /\ UNCHANGED status
  /\ Kill({cancelHandle[t]})
  /\ UNCHANGED <<pc, spawningThreads, liveRuns, cancelledThreads, waiters,
                 configVars, processes, exitOk, strays, wfVars, closing, upVars>>

-----------------------------------------------------------------------------
(* The backend dies: its memory is gone, the containers go on.             *)
Crash ==
  /\ up
  /\ crashes < MaxCrashes
  /\ up' = FALSE
  /\ crashes' = crashes + 1
  /\ pc' = [r \in Runs |-> IF pc[r] \in {"new", "done"} THEN pc[r] ELSE "lost"]
  /\ spawningThreads' = {}
  /\ liveRuns' = [t \in Threads |-> NoRun]
  /\ cancelledThreads' = {}
  /\ cancelling' = {}
  /\ cancelHandle' = [t \in Threads |-> NoRun]
  /\ waiters' = [t \in Threads |-> {}]
  /\ pendingConfigs' = [t \in Threads |-> NoRun]
  /\ post' = [r \in Runs |-> IF post[r] \in {"completed", "error"}
                               THEN "unsent" ELSE post[r]]
  /\ exitOk' = {}
  /\ closing' = [r \in Runs |-> "idle"]
  /\ UNCHANGED <<status, config, processes, killed, strays, wfRun>>

(* Boot: the Docker driver removes the containers a previous run left,     *)
(* before the server listens.  A removal that fails is only logged, and    *)
(* the container goes on beside whatever its thread does next.             *)
ReapOrphans ==
  /\ ~up
  /\ up' = TRUE
  /\ \E kept \in SUBSET processes :
       /\ processes' = kept
       /\ strays' = kept
       /\ killed' = killed \cap kept
       /\ config' = [r \in Runs |-> IF r \in kept THEN config[r] ELSE NoRun]
  /\ exitOk' = {}
  /\ UNCHANGED <<pc, status, spawningThreads, liveRuns, cancelVars, waiters,
                 pendingConfigs, wfVars, closing, crashes>>

-----------------------------------------------------------------------------
SpawnStep(r) ==
  \/ SpawnForThread(r) \/ NoModel(r) \/ SpawnThrows(r) \/ MarkRunning(r)
  \/ DriverSpawns(r) \/ DriverFails(r) \/ Decline(r) \/ GoLive(r)
CloseStep(r) ==
  \/ OnClose(r) \/ CloseStatus(r) \/ ReconcileRead(r) \/ ReconcileWrite(r)
  \/ Settle(r)
RuntimeStep(r) == TakePendingConfig(r) \/ PostRunComplete(r) \/ Exit(r)

Next ==
  \/ \E r \in Runs :
       \/ Submit(r) \/ SpawnStep(r) \/ HardTimeout(r) \/ RuntimeStep(r)
       \/ CompleteRun(r) \/ CloseStep(r) \/ WaiterTimeout(r)
       \/ CallerFailsRun(r)
  \/ \E t \in Threads : ConfigExpires(t) \/ CancelTurn(t) \/ CancelWrite(t)
  \/ Crash
  \/ ReapOrphans

Spec == Init /\ [][Next]_vars

(***************************************************************************)
(* Awaited calls return and the hard timeout fires; a runtime that was     *)
(* killed exits.  Nothing obliges a runtime to finish by itself, a caller  *)
(* to call or a user to stop a turn.                                       *)
(***************************************************************************)
KilledExit(r) == r \in killed /\ Exit(r)

Fairness ==
  /\ \A r \in Runs :
       /\ WF_vars(SpawnStep(r))
       /\ WF_vars(HardTimeout(r))
       /\ WF_vars(KilledExit(r))
       /\ WF_vars(CloseStep(r))
       /\ WF_vars(CompleteRun(r))
       /\ WF_vars(CallerFailsRun(r))
  /\ \A t \in Threads : WF_vars(CancelWrite(t))

FairSpec == Spec /\ Fairness

-----------------------------------------------------------------------------
(* Safety.                                                                 *)

(* The containers that this service answers for.                           *)
Owned == processes \ strays

(* "Only one run per thread is ever live" (liveRuns): no interleaving of   *)
(* chat, ask and trigger spawns, closes, stops, crashes and restarts gives *)
(* one thread two containers, unless boot failed to remove one of them.    *)
OneRuntimePerThread ==
  \A r, q \in Owned : ThreadOf[r] = ThreadOf[q] => r = q

(* Every container can be stopped: cancelTurn and the hard timeout find it *)
(* in liveRuns as soon as its spawn has returned.                          *)
LiveRunReachable ==
  up => \A r \in Owned : liveRuns[ThreadOf[r]] = r \/ pc[r] = "starting"

(* A stop flag never outlives the run it was set for; a stale one would    *)
(* turn the failure of the thread's next turn into a silent 'idle'.        *)
CancelFlagHasLiveRun == \A t \in cancelledThreads : liveRuns[t] # NoRun

(* A runtime never works from the config of another turn of its thread,    *)
(* although the config is looked up by thread and may be left over from a  *)
(* turn that never fetched it.  (A stray of an earlier boot that has yet   *)
(* to fetch its config does take that of its thread's next turn.)          *)
ConfigIsOwn == \A r \in Owned : config[r] \in {r, NoRun}

(* settleWaiters is called on every terminal path: a caller still waits    *)
(* only for a turn in progress, except one declined as a duplicate (it     *)
(* shares the outcome of the other turn) and a mission whose spawn threw.  *)
WaiterHasRun ==
  \A r \in Runs : r \in waiters[ThreadOf[r]] =>
    \/ InBackend(r)
    \/ pc[r] = "rejected"
    \/ pc[r] = "threw" /\ KindOf[r] = "mission"

(* reconcileOrphanedWorkflowRun: once a workflow turn has closed, its run  *)
(* row is not left 'running', however the runtime ended.  (A write that    *)
(* fails is not retried, so this is claimed for a database that works.)    *)
WorkflowRunSettled ==
  ~DbFails => \A r \in Runs : HasWorkflow(r) /\ pc[r] = "done"
                               => wfRun[r] # "running"

(* The turns of a thread take an exclusive slot, and give it up only when  *)
(* their container is gone (module TurnSlots); only a container that boot  *)
(* could not remove runs without one.                                      *)
Holders == [t \in Threads |->
  {r \in Runs : ThreadOf[r] = t /\ pc[r] \in Spawning \cup {"live"}}]
Slots == INSTANCE TurnSlots WITH
  holders <- Holders, containers <- processes, strays <- strays, open <- up
ImplementsTurnSlots == Slots!Spec

-----------------------------------------------------------------------------
(* Liveness.                                                               *)

(* No thread stays wedged: from any moment of a turn the thread comes to   *)
(* accept a new one, with its status no longer 'running'.                  *)
ThreadUsableAgain ==
  \A t \in Threads :
    (Busy(t) \/ status[t] = "running")
      ~> (~Busy(t) /\ status[t] # "running")

(* Every workflow run row leaves 'running': the runtime reports, onClose   *)
(* reconciles, or the caller of a spawn that did not happen fails it.      *)
WorkflowRunEnds ==
  \A r \in Runs : wfRun[r] = "running" ~> wfRun[r] # "running"

=============================================================================
