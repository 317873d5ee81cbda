# Valmis: a TLA+ model of the agent platform's core

Valmis runs AI agents. A backend (`src/apps/backend`) receives chat messages,
triggers and schedules, and for every agent turn starts one isolated runtime
container (`src/apps/agent-runtime`), which calls back to the backend over HTTP.
This directory models the parts of the system whose correctness depends on the
order in which things happen: who may start a turn, who may stop it, who is told
how it ended, what a turn reads and leaves in its thread, how a workflow's graph is
walked, how a long-running mission is woken again and again, and how mails and
chat messages from outside come in exactly once.

The backend is one Node.js process. Its code is atomic between two `await`s and
interleaves at every one of them; the database, the Docker daemon, the runtimes
and the services outside are separate processes. The modules have one action per
stretch of code between two awaits, so the schedules TLC explores are the schedules
of the event loop. Where two stretches are joined in one action, the module's
comment says why nothing can come between them.

## 1. Inventory

Paths are below `src/apps/backend/src` unless they start with `src/`. The last
column names the module, or says that there is none.

| Component | State | Operations | Hard behaviours | What makes it correct | Module |
|---|---|---|---|---|---|
| Agent runtime service `services/AgentRuntimeService.ts` | `liveRuns`, `spawningThreads`, `cancelledThreads`, `completionWaiters`, `pendingConfigs`; `agent_threads.status` | `spawnForThread`, `onClose`, `cancelTurn`, `awaitThreadCompletion`, `takePendingConfig`, reconciliation of workflow runs | a dozen awaits in a spawn; close, stop and report race; maps keyed by thread and not by run; crash | one runtime per thread; every runtime can be stopped; callers are always released; workflow runs end | `AgentRuntime`, `TurnSlots` |
| Docker driver `services/runtime/DockerDriver.ts` | containers | spawn, kill, wait, reap orphans at boot | containers outlive the backend, a removal fails | every container of this boot is known; what an old one can meet | in `AgentRuntime` |
| Process driver `services/runtime/ProcessDriver.ts` | child processes | as above, for development | children outlive the backend | as above, without reaping | none |
| Mission scheduler `services/MissionSchedulerService.ts` | `inFlight`, the sweep timer | sweep, Run now, wake, completion handler, backoff, auto-pause, boot recovery | overlapping sweeps on rows read earlier; owner and agent change the mission meanwhile; steps that fail after the wake gave up its mark | one wake at a time; an active mission is always scheduled and goes on; failure limits bite | `MissionScheduler` |
| Missions `services/MissionService.ts` | `agent_missions` rows | activate, pause, complete, set next wake, record outcomes, check budget, recover | check-then-write on rows shared with the scheduler | status and next wake agree | in `MissionScheduler` |
| Triggers `services/TriggerService.ts` | `agent_triggers` rows, `cronJobs`, failure counts | create, update, delete, fire, auto-disable | jobs in memory against rows in the database; requests before `loadAll` | a job runs exactly for an enabled cron trigger | `CronTriggers` |
| App triggers `services/triggers/` | polling cursors, timers, failure counts | poll, activate, edit, auto-disable | a second listed twice, bursts, capped lists, failures in a batch, overlapping polls, restarts | each mail starts one run | `EmailPolling` |
| Workflow graph `src/packages/utils/src/workflow/` | none (pure) | conversion, order, cycles, validation | cycles, nested loops, branches | agrees with its definition on every small graph | `WorkflowGraph` |
| Workflow runner `src/apps/agent-runtime/src/workflow-runner.ts` | traversal, node outputs, rows over HTTP | traverse, run nodes, loop, retry, test one node | merges behind branches, bodies with exits, failing nodes in nested loops | each node runs when its inputs are there; the run ends, all nodes accounted for | `WorkflowRunner` |
| Message pipeline `channels/pipeline.ts` | messages, stream subscribers | process a message, answer a prompt, start a turn | status checked, then awaits, then spawn | no thread wedges, no subscriber outlives its turn | `Conversation` |
| Human in the loop `services/AgentProxyService.ts` | `pendingHitl` | submit, supersede, resolve, time out | a prompt outlives its runtime; timers keyed by thread | an answer reaches the prompt it is for | `Conversation` |
| Agent-to-agent messaging `services/AgentMessagingService.ts` | `pendingAsks`, `inFlight` | send, ask, poll, finalize, sweep, roll back | the ask's result and the spawn's outcome arrive apart; a shared thread | an ask gets the outcome of the turn that read it | `Delegation` |
| Agent runner `src/apps/agent-runtime/src/agent-runner.ts`, `llm-stream.ts` | the loop of a turn | load history, call the model, run tools, conclude | errors, cut-off and empty replies, blocked tools, kills in any order | a completed turn has answered; a new message gets its turn | `AgentTurn` |
| LLM proxy `services/AgentLlmProxyService.ts` | streams, messages, titles, compaction | stream and store a reply, name a thread, compact it | late replies; compaction reads, asks the model and writes | no message is lost to the model | `AgentTurn` |
| Telegram `channels/telegram/` | offset, registry of pollers | poll, handle, start, stop, pair, unlink | an offset confirms and forgets; overlapping starts | every update is handled, in order | `TelegramPolling` |
| Discord `channels/discord/gateway.ts` | socket, timers | connect, heartbeat, reconnect, invalid session, stop | timers of dead connections fire into the present one | one connection; a dead one is noticed | `DiscordGateway` |
| Threads, workflows, runs `services/AgentSessionService.ts`, `WorkflowService.ts`, `WorkflowRunService.ts` | rows | CRUD, status writes | used by all of the above | as the rows those write | in the modules above |
| Browser sessions, knowledge bases, credentials, MCP, skills, users, files, delivery, web app, schema | external services, rows, UI | CRUD and I/O | idle timers (browser) | see 5 | none |

How they interact: pipeline, messaging, triggers and the mission scheduler all call
`spawnForThread` (and, for asks and missions, `awaitThreadCompletion` before it); the
runtime service calls the driver; the runtime calls `/internal/config`, the LLM
proxy, the prompt, workflow and mission endpoints of `routes/runtime.ts`; the driver
calls `onClose`, which writes the thread's status, reconciles the workflow run,
announces the end on the stream bus and settles the waiters. The shared state is the
thread's status row and its messages, the workflow run row, the mission row, the
trigger row and the services' maps.

`PROJECT.json` lists under `hazards` what is hard to test, each at its line and with
the property that covers it.

## 2. Modules

| Module | What it is | Built on |
|---|---|---|
| `AgentRuntime` | the runtime service with the Docker driver, the callers' part of a spawn and the runtime as the backend sees it | |
| `TurnSlots` | what it promises: exclusive slots per thread, given up only when the container is gone | refined by `AgentRuntime` |
| `MissionScheduler` | the scheduler with the mission rows | |
| `CronTriggers` | the cron jobs against the trigger rows | |
| `EmailPolling` | one polled app trigger: cursor, batches, failures, edits | |
| `WorkflowGraph` | graphs and their pure operators | |
| `WorkflowRunner` | one run of a workflow | `WorkflowGraph` |
| `ThreadTurns` | the turns of one thread, as those see them who start turns | |
| `Conversation` | pipeline, prompts and subscribers of one thread | `ThreadTurns` |
| `Delegation` | the requests of one agent to another | `ThreadTurns` |
| `AgentTurn` | what happens inside the turns of a thread, and to its history | |
| `TelegramPolling`, `DiscordGateway` | the two chat channels | |
| `...Proofs` | theorems about the module in the name; `ChannelsProofs` is about both chat channels, `ThreadTurnsProofs` about `Conversation` and `Delegation` | those modules |
| `MC...` | instances for TLC | |

### AgentRuntime

A *run* is one invocation of `spawnForThread` together with its container and its
close handler. `ThreadOf` and `KindOf` say for which thread and caller; several runs
may share a thread. `pc[r]` is where the run's continuation is:

| `pc` | code |
|---|---|
| `new` → `checked` | the caller checked the thread's status (chat, ask) or created a thread (mission, workflow) |
| `preparing` | past the duplicate guard and the cap, building the config |
| `driving` | status `running` written, `driver.spawn` under way |
| `starting` | the container runs, its handle is not registered yet |
| `live` | in `liveRuns` |
| `declining` → `declined` | cap, missing model or failed driver: status `error`, waiters settled |
| `rejected`, `threw` | duplicate; an exception |
| `saving`, `reconciling`, `overwriting`, `settling`, `done` | the awaits of `onClose` |
| `lost` | the backend crashed |

The other variables have the names of the service's maps, or are the rows
(`status`, `wfRun`), the daemon (`processes`, `killed`, `exitOk`) and the HTTP
request of the workflow runner (`post`). `cancelTurn` is two actions, before and
after its await. `Crash` clears memory and keeps rows and containers; `ReapOrphans`
is the boot, before which the server does not listen. A removal that fails is only
logged there, so any of the containers may be kept: they are the `strays`, which go on
calling the backend, fetch configs and exit, beside the turns that their thread takes
next. `OneRuntimePerThread`, `LiveRunReachable` and `ConfigIsOwn` are about the other
containers, those of the present boot, and hold whatever the strays do; `TurnSlots` has
the same strays, which hold no slot. With `DbFails`, each write that the code catches and
logs (or that makes it throw) may fail.

### MissionScheduler

Callers of `wakeMission` are sweeps and owners' Run now requests, `Turns` are the
detached completion handlers; each works on the rows it read (`rows`), with the
budget verdict those rows had. A wake time is in `later`, in the queue `due` (oldest
first, the order of the query) or absent (NULL). Owner and agent requests are a
read and a later write, so they race with the scheduler's own read-then-write steps.
The module takes from `AgentRuntime` only that a spawn starts, is declined or throws
and that a turn that started ends.

`WakeThrows` and `HandlerThrows` are the errors of any other await of a wake and of its
completion handler. A wake that is declined or over its budget takes its mission out of
`inFlight` and goes on; when it throws after that, the catches of `wakeMission` and of the
sweep take the mission out once more (`UnmarkAgain`), also when the next wake has put it
in again. The history variable `robbed` has the missions of which a wake lost its mark so, until
the wakes that this let in have ended. `MaxFaults` bounds the errors together with
the restarts.

### CronTriggers

| Model | Code |
|---|---|
| `row`, `workflow` | `agent_triggers.is_enabled`, `workflows.is_enabled`; `new` before the insert, `gone` after the delete |
| `cron[t].held`, `cron[t].tasks` | whether `cronJobs` has the trigger; how many of its tasks run |
| `failures` | `cronFailureCounts`, counted up to the limit, of which alone the code asks |
| `seen` | what a request read before its next await: the trigger there was, the rows read again |
| `Create`, `ScheduleCreated` | `TriggerService.create` |
| `CreateWorkflow`, `InsertTrigger`, `ScheduleNew` | `WorkflowService.create` and its route |
| `Update`, `Reread`, `SyncUpdate` | `TriggerService.update`, also the last part of an auto-disable |
| `Delete`, `DeleteRow` | `TriggerService.delete` |
| `ReadWorkflow`, `PutWrite`, `PutKind`, `PutReread...`, `PutSync` | the workflow's PUT route and `WorkflowService.update` |
| `ReadWorkflow`, `DropTriggers`, `DropWorkflow`, `DropJob` | its DELETE route and `WorkflowService.delete` |
| `Tick`, `FireSucceeds`, `FireFails`, `FireFailsForGood`, `Disable` | the callback in `scheduleCron` around `fireTrigger` |
| `Restart`, `LoadQuery`, `LoadAll` | a new process; `loadAll` before and after its await |

The server listens before `loadAll` (`index.ts:473`), so requests come in every phase of
`boot`: before the rows are read, between that and the scheduling, and after. Edits of a
trigger overlap as they like. Three history variables say what has happened. `early` has
the triggers that a request named while the backend booted: `loadAll` does not unschedule
before it schedules, so of those one task may be lost to the map. `met` has the edits that
overlapped another one of their trigger, or `loadAll`, and `tangled` the triggers that such edits may
have left with a wrong job: a delete between an update's re-read and its scheduling leaves
the job of a deleted trigger. An edit that runs alone and looks at the job takes its
trigger out of `tangled` (`Settle`), and a restart takes out all. `JobsMatchRows` is about
the triggers that are not tangled, whatever happens to the others. `MaxBusy` bounds how many
requests and fires are under way at a time.

### EmailPolling

A mail is its place in the mailbox's order of receipt; only the second of its
timestamp counts, since `emailPolling.ts` compares floored times. `Listed` is what
`listSince` of Gmail and Outlook answers: the watermark's second and later, newest first,
cut off at `MaxListIds`. The history variable `cut` has the mails that were beyond the end of a list
that a poll got, which the cursor saved by that poll may pass for good. `cursor` is the
persisted record of watermark, mails seen within its second, and overflow (`wm`,
`seen`, `pending`). A poll goes through `loading`, `listing`, `fetching` (one mail after
the other), `saving`, `firing`, or `failing` and `disabling`: the awaits of `runPoll`,
`runEmailPoll`, `fireEvents` and `recordFailure`. `timer` and `leaked` are intervals
that `pollTimers` holds or forgot: two activations that overlap leave one nobody can
clear. `edit` is the owner's save of the workflow (teardown, update, activation) or
the builder's re-check. `Undated` mails have no readable timestamp, `Deletable` ones may
vanish before they are read. `Restart` loses the polls and what they were firing.

### WorkflowGraph and WorkflowRunner

`WorkflowGraph` has the operators of `packages/utils/src/workflow` as set
operations: `Reached` for the searches, `topoOrder` (Kahn's algorithm with the
declaration order of its queue), `collectBodySubgraph`, `refineGraph` (`Accepted`),
`specToGraph`, `stepsToGraph` and `graphToSteps`.

`WorkflowRunner` walks a graph. A call of `runSubgraph` is a record on `stack`: the
queue `waiting` (a set, since the order of the `edges` array is arbitrary), what is
`settled`, the edges `decided` and `active`, and, for a loop's body, the frame of
`runLoopNode`. `Drop`, `Skip`, `RunTrigger`, `StartStep` and `StartLoop` are what the
loop over the queue does with a node; `Step...` and `AttemptThrows` are the attempts of
a step or condition; `Iteration...`, `LoopEnds`, `WhileFails` and `Unwind` are the
loop's; `RunCompletes`, `RunFails` and `TestRefused` are the ends of `runWorkflow`.
What a node answers, which branch it takes, how its `errorHandling` is set and how
many items a loop has are free.

### ThreadTurns, Conversation and Delegation

`ThreadTurns` is what those who start turns in a thread can tell apart: the status row,
whether a turn holds the slot, and the points at which its end is written (`closing`)
and announced (`closed`). It follows `AgentRuntime` step by step with the containers,
configs, workflow runs and crashes left out; that it abstracts `AgentRuntime` is by
construction and not stated as a refinement.

In `Conversation` a message is its request, the subscriber registered for it and the
turn it starts. `pending`, `timers`, `prompt` and `listening` are the entry of
`pendingHitl`, its timer, the promise, and the HTTP request of the runtime that waits.
`CheckHitl`, `StoreReply` and `ResolveReply` are the pipeline's first branch, `ReadThread`,
`Append` and `Spawn` its second. `LlmError` is the event `error` of a failing call
to the model, which removes the subscribers in the middle of a turn.

In `Delegation` a request is an ask or a send. `op` is where `prepareDelegation` and its
callers are, `inFlight` the mark of the pair of agents, `entry` the thread's `pendingAsks`
record, `waiters` and `verdict` what `awaitThreadCompletion` got. The answer of a turn is
stored by the LLM proxy (`StoreAnswer`) when the stream ends, which may be after the
turn was killed; `Response` is the text after the ask's message that the finalizer reads.

### AgentTurn

`history` is the thread's messages in the order of their creation, each with its role,
the turn it belongs to and whether it says something. `phase` and `mind` are the
runtime's loop, `streams` the replies the proxy is still reading, also for a runtime
that is gone. `Load` gives the runtime `View`, the summary and what came after it, and
`Continues` is the check of `agent.continue()` that refuses to answer an assistant.
`FailsWithError`, `Forces`, `FailsWithNote` and `Completes` are the end of the loop, in the
order of the code. `CompactChecks`, `CompactLists` and `CompactApplies` are `compactThread`
between its awaits.

### TelegramPolling and DiscordGateway

Telegram keeps what was `sent` beyond `confirmed`; `getUpdates` confirms what is below
the offset. A start that passes the check of the registry decrypts the token and then
replaces whatever was registered meanwhile. `linked` and `unlink` are the link's row and
its removal. A Discord gateway is its sockets (`up`, `closing`, `closed`) and its timers:
`reconnects`, first heartbeats (`jitters`), `intervals`, `invalidCloses`. `MCChannels` puts
the two side by side: a bot's credential is for one of them.

## 3. What is checked

| Run | States | Shows |
|---|---|---|
| `runtime_safety` | 1,400,766 | one thread, a workflow trigger, an ask and a chat, a crash and a boot that may keep old containers, no failures of the database: no container of this boot beyond the reach of a stop, no stale stop flag, no foreign config, no abandoned waiter, no workflow run left running |
| `runtime_crash` | 131,170 | an ask, a mission and a workflow, failing writes and one crash with its boot: never two containers of one boot, and a refinement of `TurnSlots` |
| `runtime_liveness` | 77,909 | two threads, cap 1: threads become usable again, workflow runs end |
| `mission_safety` | 2,629,153 | one mission, a sweep, Run now, requests of owner and agent, a restart or an error at any step |
| `mission_liveness` | 229,404 | two missions, a batch of one, a restart or an error: each goes on, every wake settles |
| `cron_safety` | 228,063 | a standalone or a workflow's trigger, two requests or fires at a time from before `loadAll` on, a restart: jobs and rows agree at rest unless edits of the trigger met, no task escapes the map but one in the boot window, a job nobody can stop any more stops itself |
| `email_polling` | 295,542 | four mails, lists of three, batches of two, two overlapping polls, two edits, a failing call, a restart: no mail starts two runs, none that a list had room for falls out of sight, each of those fires in the end |
| `workflow_runs` | 158,621 | every small graph a save accepts and the graphs of five specifications, with every branch, failure, retry and number of iterations |
| `conversation` | 1,016,277 | three messages, two prompts and a stop on one thread: it never wedges, prompts can be answered, subscribers leave |
| `delegation` | 544,516 | two requests, each an ask or a send, and a stop: answers are those of a turn that read the ask, failed requests are not carried out, asks return |
| `agent_turn` | 2,597,104 | two turns, the second of which meets what the first left, with a title and two compactions: what is reported, what the model gets to read, what may keep a turn from running |
| `channels` | 178,830 | a Telegram bot with two starts, or a Discord gateway with three connections |

Bounds. Three runs of one thread give every pair of neighbouring turns (spawn against
spawn, close against spawn, stop against either) with a third caller present; the
thread-keyed maps relate at most two turns at a time. A cap of one is reached by two
threads. One crash and boot reaches every crash point; a second starts from a state
like the first boot's, with rows left over. Two failures reach the mission's failure
limit twice over; a limit of one turn and one unit of cost makes both budgets bite.
`OwnerAsks` and `AgentAsks` name the requests a run includes, so that liveness is not
checked with an owner who pauses forever; owners who complete a mission are left to the
proofs, agents who do are in `mission_safety`. One fault is a restart or an error, and one late error
is what it takes to lose a mark. In `cron_safety` two requests, or a request and a fire, overlap at
each of their awaits and of `loadAll`'s; the constraint `Small` keeps to one trigger of either kind,
for triggers share only the agent, and to one request or fire beside `loadAll` after the restart, whose
boot window is that of the first start with rows in it. With `MaxPerPoll` 2 and `MaxListIds` 3, four mails, two
in each of two seconds, overflow a batch, a list, and split a second at the watermark; the constraint
`InTurn` takes from polls, from edits and from the mails of a second those orders that only exchange two
of a kind, and the second edit after the restart. `MaxFailures` 1 makes a single failure
disable the trigger, and `EditsMayFail` is off since a refused edit does end polling (see 6). Graphs of two nodes contain each pair of types with
each handle; the diamond, a loop in a loop and branching bodies need more nodes and
are given as specifications, as their author would write them. In `conversation` two
prompts give every superseding; the third message arrives between the ends of two
turns. In `agent_turn` three calls are enough for a reply with tools, an empty one and
the forced conclusion; `PerReply` 2 over `ToolCap` 1 makes one reply cross the cap; the
two compactions are interchangeable, hence the symmetry set, and that run has no liveness
property. In `channels` one fault and one restart meet every position of a poller;
three connections give a dead one, its timers and two successors.

Deadlock is off where the system may really come to rest: the runtime runs, conversations,
delegations and turns are finitely many, a deleted trigger has nothing left to do, a
mailbox may be disabled, a bot stopped, a workflow run ends, and a mission whose owner's request
was answered last may be paused for good. In `mission_liveness`, where nobody pauses, it is on.

Fairness. Steps of the backend are continuations of awaited calls and get weak
fairness; timers fire: the hard timeout, the mission sweep, cron ticks, polling intervals,
a prompt's and a waiter's timers, reconnects and heartbeats; a killed container exits,
and a socket that was closed reports it, because the WebSocket library destroys one
whose peer does not answer. Nothing is assumed of a runtime that is not killed, of
callers, users, agents or the model: the hang of a runtime is a behaviour, and only the
timer ends it. `ThreadTurns` has the exit of a live turn as a fair step for this reason.
For cron jobs, a fire that has to wait in the model for a free place (`Fires`, `MaxBusy`), bounds
the code does not have, gets strong fairness so that the bound does not starve it; `loadAll`
gets to its end. Errors are bounded by `MaxFaults` and so are finitely many in the liveness
properties, which say nothing of a database that never answers again.
`WorkflowRunner` needs only weak fairness of its next step: it is one sequential process,
and one that dies is `AgentRuntime`'s business.

## 4. What is proved

Every theorem is about `Spec` without fairness and for any values of the constants that
satisfy the module's assumptions: `RuntimeAssumption`, `CronAssumption`, `EmailAssumption`
(timestamps rise with the order of receipt), `LimitAssumption` and `MaxAssumption`,
`DiscordBounds`, `Sizes`, `SchedulerAssumption`, `RunnerAssumption`. The bounds of the runs are constants like any other, so
the theorems hold without them.

`AgentRuntimeProofs`: all invariants of the runtime runs, and the refinement of
`TurnSlots`. `OneRuntimePerThread` speaks of containers, but what keeps two apart is
the slot that a turn holds from its duplicate guard to its close; so `SlotInv` says that
at most one run of a thread is in a holding position (`OneHolder`), that a spawning run's
thread is in `spawningThreads` and a live run is its thread's handle (the guard reads
these two), that the run of a container is starting or live while the backend is up unless
it is a stray, and that nothing runs in a backend that is down. `ConfigInv` adds that in the
fetching phase of a holder the pending config is the holder's own, or a stray has taken it,
whatever was left behind earlier;
`WaiterInv` follows the waiters through every way out of a turn; `WorkflowInv` relates the
exit code, the answered report and the row at each step of the close; `StatusInv` says
that while the database works a 'running' row has a turn that has yet to write it, or that
a crash lost (`RunningRowHasTurn`; a failed write leaves the row behind, so the theorem
assumes none). `SlotsStep` maps each step to a step of `TurnSlots` or a stutter.

`EmailPollingProofs`: no mail with a readable time starts a second run (`NeverTwice`), and none
falls out of sight (`NothingSkipped`). Two facts carry the first: polls follow one another (`OnePoll`, since every position but `idle` holds the mark
`inFlight`), and `DonePast`: a mail that was fired or is being fired is neither queued
nor listable any more, because the cursor saved before the first run passed it or has
it in `seen`. `CursorAdvances` shows that the watermark never goes back and that
`seen` is kept while it stands still; this is where the maximum of a set of times is
needed, which `MaxExists` gets from well-foundedness. The second is an action property, and the
step that could break it is the one that saves a cursor: the watermark advances to what was
fetched. So `Memory` says that a mail which is neither queued nor held by the poll, but will be
listed later, came after all that the poll or the queue holds (`CameAfter`): mails are received in
the order of their seconds, and a batch takes everything that was listed. What a capped list
left out is in `cut` from then on and no longer `Coming`, which is all that the cap changes: a mail that was
never cut keeps its place, whatever the watermark passed elsewhere.

`ChannelsProofs`: of Telegram, `HandledInOrder`. With the updates `1..k` handled, Telegram has
forgotten at most those, every poller, leaked or registered, asks for at most `k + 1`, and
what it holds is an interval that begins at `k + 1` or before. Of Discord, the types and
`OneConnection`, from the fact that only the socket of `this.ws` is up.

`ThreadTurnsProofs`, of `Conversation`: the types, `RunningHasTurn`, `PromptAnswerable` and
`SubscribersHaveTurn`. The prompt needs `OnlyItsTimer`: every armed timer is that of the
registered prompt, or the timer of an earlier one, which deletes by thread, would
remove a later one.

Of `Delegation`: the types, `FailedUnread` and `AnswerIsItsOwn`. `OneInFlight` says that the mark of
the pair lets one request at a time between its check and its spawn; `Places` ties the service's
position with a request to its turn, its message, its waiter and its result. The rest holds until
a user stops a turn: `Alone`, that once `prepareDelegation` found the thread not running no turn but
the request's own is at work; then `Readers`, that a turn read nothing of a request that has
not started and, while it may still store an answer that counts, everything of those that have;
then `Texts`, that the answer an ask may take, or has taken, is that of such a turn. That chain is why
the properties say `Unstopped`: a stop frees the thread while the old container still runs,
which breaks `Alone`.

`AgentTurnProofs`: `SummaryCovers`, since each compaction under way knows what is
below its `base` (`KnowsBase`) and its transcript starts right above it; and `CapHolds`,
stated only there: the tools counted are at least those carried out, so that none is
carried out above the cap. No run checks it, since it follows the counter. `CompletedAnswers`
needs, of each turn, that a reply still being read belongs to a turn that listens to it or
cannot complete any more (`Listens`), that a turn before its loop has at most its user's message in
the thread (`Begins`), and that a loop that ended with a text has stored it behind all else of
its own (`Heard`). `OvertakenOnly` is an action property; `ViewEnds` is the lemma behind it: what
`/internal/messages` gives the runtime ends with the thread's last message, unless a
compaction folded all of them away.

`CronTriggersProofs`: `OneTask`. `Lost` says how many tasks of a trigger the map does not hold, and
none of the steps that unschedule first changes that (`LostJobs`). The two that do not are the request
that creates a trigger and `loadAll`. The first is alone with its trigger, unless `loadAll` has seen the row
too (`BringsNew`); before `loadAll` is done nothing is lost and nobody has been at a trigger
that is not `early` (`Untouched`), so that the two meet at most once and cost one task. And `JobsMatchRows`,
for any number of overlapping edits: of a trigger that is not tangled, either no edit is under way
and its job is `Good`, or the one that is met no other; `Midway` says, for each await of each
edit, how row and job differ there, and every step of a lone edit leads from one `Midway` to the next
or to `Good`, while fires change neither until they disable the trigger, which is an edit too. `History` is
what makes that enough: two edits of one trigger have met, and who met is of a tangled
trigger. `ReadWell` carries the same across the await of `loadAll`.

`WorkflowRunnerProofs`: all safety invariants of the runner, for every set of graphs that
a save accepts, of any size, with loops nested to any depth. Nodes are numbers and the trigger is the
node 0; `RunnerAssumption` says that, that the graphs are accepted and that the bounds are naturals, nothing else. The
invariant has a part for each of the code's data structures:

- `Traversals`: each call of `runSubgraph` settles a node only once all edges into it are decided
  (`Closed`), and has in its queue all that it can settle (`Queued`); a settled node has decided all its
  edges unless it is the one that executes (`Complete`), which for a call below the top is the
  loop it waits for. A loop's entries and active edges stay after the loop (`InLoop`), and loops
  nest along the stack (`Nested`).
- `Current` and `Times`: what executes was settled by the top call, and every output, `last` and
  `began` lies in the order in which it was written.
- `Rows` and `Logged`: the rows at 'running' are those of the loops on the stack and of what executes;
  nothing is both visited and skipped.

`AncestorsSettled` follows `Closed` backwards along paths, and `NothingLeftBehind` goes by a first node
(`FirstOfSome`) among those that should have been settled: a graph without forward cycles has one
among any of its nodes. Both need what the search `Reached` computes: `ReachedWithin`, that it stays
in every set the edges do not leave, and `ReachedClosed`, that the edges do not leave it,
because each of its rounds adds a node until one adds none. `Reached` is a recursive function, not a
RECURSIVE operator, and its equations hold because they do for every prefix (`SpreadExists`).
The library's induction theorems cannot be instantiated, but a set of naturals has a
least element, by well-foundedness, which gives the induction these lemmas need (`Induction`).

`MissionSchedulerProofs`: the types and all three safety invariants of the mission runs.
`NeverStranded` is inductive once taking a mission out of the due queue is known to keep the
others in it (`WithoutKeeps`): every step that clears a wake time also leaves `active`, every
other one sets a new time in the same write. It also makes `recoverOnBoot` a step that finds
nothing to do (`RestartKeeps`). `InFlightAccounted` needs `Placed`, that callers and turns keep
to their own positions with a mission of their own; each step then keeps, takes, hands on or
lets go one mark (`MarksKept`, `MarkTaken`, `MarkHanded`, `MarkLeft`), or takes away another's, which
makes the mission `robbed` (`MarkDropped`). `StreakPauses` follows the
one actor that has counted the last failure until it pauses the mission.

Only model-checked: liveness (out of TLAPS' reach). Every safety invariant and action property
of every run is a theorem. The pure operators of `WorkflowGraph` (conversions, order, bodies) are exercised
by `workflow_runs` through the graphs they build; proved about them is what the runner's
invariants need (`BodyFacts`, `AfterFacts`).

## 5. What is left out, and why

Prompts, the text of messages, tokens, SSE events, logs and credentials: no control depends
on them beyond what the modules keep. The assembly of a turn's config is one step that
may throw. A `wait()` of Docker that fails while the container lives, a container
created and not started, and the process driver's surviving children are failures of the
daemon that the code does not distinguish from an exit. The mission's completion waiter's
own timer needs real time. Deletion of threads and missions while a turn is live, edits of
missions, approvals and the plan document are not modelled.

In the modules: `CronTriggers` leaves out invalid schedules (not scheduled at all) and moving a
trigger to another workflow (the API's type does not offer it), and its database writes succeed.
`EmailPolling` is the polling of mails; other polled, webhook and stream providers and the renewal of
subscriptions are not modelled. `ThreadTurns`, and so `Conversation` and `Delegation`, takes the
writes of a thread's status to succeed: one of a stop or a close that fails is logged
(`AgentRuntimeService.ts:297-300`, 709-713) and leaves 'running', as `runtime_crash` has it. `WorkflowGraph`
takes the ids of edges to be unique, as the package's conversions make them; a save does not check it, and the runner
keys its decisions by id. `Delegation` has no user who writes to the delegation thread, and takes two
messages never to share their `createdAt`. `AgentTurn` lets every tool result be stored, and takes messages to be
created in the order in which their inserts commit, though `AgentSessionService.ts:427` stamps one before
its insert: for some milliseconds a reader may miss a message and yet see a later one. `DiscordGateway`
leaves out session resume (it only changes what Discord sends) and the manager; `TelegramPolling`
a `deleteWebhook` that failed, after which the poller goes on all the same (`poller.ts:68-74`); neither
channel module looks into messages or pairing codes.

Not modelled at all: browser sessions (a context per thread with idle timers and a stored
login), which no other modelled component depends on and which section 6 looks at; knowledge bases, skills, users, files and
memory, which are requests around a row or an external store; the web application and
the shared component and parser packages. Two thirds of the repository's lines are of
these kinds or generated (`models.generated.ts` alone has 24,000), which is why the share
of all lines that the map covers is small although the services that decide what runs
when are modelled.

## 6. Where code and text, or code and intention, differ

None of these is a violated property of a run; they came up while modelling, and the
properties are stated so that they are true of the code as it is.

Runtime service. The concurrency cap (`AgentRuntimeService.ts:149-150`) is compared with
`liveRuns`, which does not count runs that are spawning (465). A stop during a spawn is
answered and has no effect (288-290 against 294). The reconciler may overwrite a run
that completed between its read and its write (751-753 against 764-765). The status an
`onClose` writes may land on a newer turn's after a stop freed the thread (710). A crash
leaves a live workflow run at `running` (`TriggerService.ts:528`). A container that boot fails
to remove goes on (`DockerDriver.ts:680-684`) beside its thread's next turn, in the same workspace,
and may fetch that turn's config: "only one run per thread is ever live" is then true of
`liveRuns` and not of the daemon, and what makes reaping "safe" (665-669) is that it succeeds.

Missions. Overlapping sweeps exceed the daily limit, since the gate uses the row that was
listed (`MissionSchedulerService.ts:38-39` against 148). A decline by the cap counts as a
failure (219) although the comment at 210-211 says it does not. A declined or rejected wake
that throws after it left `inFlight` (213-220, 287-312) is taken out of it once or twice more (130, 273),
and with it the mark of the wake that a sweep or Run now has started since: a third may start beside
that one, on the same mission, though the comment on `inFlight` calls it the missions with a wake
in flight from spawn to settlement. It takes a failing write of the database; the notice to the
owner, which is sent there too, reports its errors itself and does not throw.

Triggers. Enabling a workflow that was created disabled schedules nothing; a refused edit
has already stopped the polling (`routes/workflows.ts:207`). The server listens before
`loadAll` (`index.ts:473`), and of a trigger that is created or enabled before `loadAll` has scheduled
it one task may run that `cronJobs` has lost: it ticks until the next restart, although "on
disable/delete, the task is stopped and removed" (`TriggerService.ts:123`). Edits of one trigger
that overlap may leave it with a wrong job until the next edit that runs alone; when the row is deleted there is
none, and the job of a standalone trigger fires until the next restart, since `fireTrigger` does not look at the
trigger's row. A PUT or DELETE of a workflow that found no trigger does not stop a job that is there all the same.

Mails. A list names 1000 mails (`emailPolling.ts:35`), the newest. With more, the watermark passes
the rest, which are neither fetched nor queued. Gmail and Outlook log a warning, as the comment at 30-34 asks of
them; the contract of `listSince` (63, "every message") and "no email is missed" (`docs/integrations/triggers/gmail.md:31`)
are not kept then.

Conversations. The prompt's timer is 30 minutes (`AgentProxyService.ts:16`; `docs/guide/chat.md:59`
says 35) and the runtime would wait 35 (`proxy-client.ts:53`), but a response that is held for more
than five minutes is past the default `headersTimeout` of its `fetch`, as the comments at
`AgentMessagingService.ts:127-129` and `proxy-client.ts:668-669` say of asks. The prompt then outlives
the request, as it outlives a runtime that dies, and swallows the user's next message, which nobody
continues with (against `docs/guide/chat.md:57`). Of two messages that pass the status check together, one is
stored and gets no turn. A failing call to the model removes the subscribers in the
middle of a turn. The poll of an ask may return a later ask's result.

Turns. The empty assistant message that carries a title's cost
(`AgentLlmProxyService.ts:456-457`), and the late reply of a killed turn, make
`agent.continue()` refuse the turn of a message stored before them. A compaction may fold
away a message that arrived while it asked the model. A reply that is stored but whose
token count fails leaves a tool call without result. After the cap the model may go
on asking for blocked tools until the hard timeout (`agent-runner.ts:522`). A blocked
`mission_log` counts as the summary of a wake.

Workflows. A node with a predecessor that nothing reaches stalls every merge behind it,
and the run is `completed` (`Stalled` in `WorkflowRunner`). A node in the bodies of two
loops is run by both, against the comment at `workflow-runner.ts:772-773`. Templates may
read outputs of an earlier iteration.

Channels. Starts that overlap leave a poller nobody can stop, so that updates are handled
twice; a link paired while another's removal is under way is left without one
(`routes/channels.ts:99-100`); a poller that is stopped redelivers its last batch after
the next start. A crash between consuming a pairing code and the upsert loses the code.
Heartbeat intervals of dead Discord connections run for ever, and share the flag of
acknowledgement with the present one: a healthy connection may be closed as dead, and opened again. Nothing
waits for a HELLO that never comes.

Browser sessions (read, not modelled). Two creations of one thread's session overlap and leave
a context that no map holds, above `maxSessions`; `saveOnTurnEnd` arms the idle timer of a session
that was closed while it saved; a reset that races the write of a closing session's storage
state brings the login back; a failing `newContext` leaves the shared browser without the idle
timer that `getBrowser` had cancelled.

## 7. Plan

1. Done: the modules of section 2 with their runs, and the proofs of section 4.
2. `AgentRuntime` refines `ThreadTurns`, thread by thread. `RunningRowHasTurn` is the half
   of it that `Conversation` builds on; the whole needs `AgentRuntime` to separate the status
   write of a decline from its announcement, which `ThreadTurns` keeps apart.
3. Push providers of app triggers, and browser sessions with their idle timers.
