---------------------------- MODULE CronTriggers ----------------------------
(***************************************************************************)
(* The cron jobs of services/TriggerService.ts against the trigger and     *)
(* workflow rows they stand for.  Requests (routes/runtime.ts,             *)
(* routes/workflows.ts) change a row, read it again and then change the    *)
(* job, one await after the other; a job that ticks fires its trigger and, *)
(* after too many failures in a row, stops itself and disables its row.    *)
(*                                                                         *)
(* Each action is the code between two awaits.  A trigger is standalone or *)
(* belongs to the workflow it was created with, and ids are never used     *)
(* twice.  Only cron triggers are named: one whose kind is changed is gone *)
(* from here.  All triggers belong to one agent, schedules are valid, and  *)
(* database writes succeed unless a foreign key is violated.               *)
(***************************************************************************)
EXTENDS Naturals, FiniteSets

CONSTANTS
  Triggers,
  OfWorkflow,   \* the triggers that are created with a workflow
  Requests,     \* bound: requests at a time
  Fires,        \* bound: fires at a time
  MaxFailures,  \* MAX_CONSECUTIVE_CRON_FAILURES
  MaxBusy,      \* bound: requests and fires under way at a time
  MaxRestarts,  \* bound: how often the backend restarts
  NoTrigger

ASSUME CronAssumption ==
  /\ OfWorkflow \subseteq Triggers
  /\ Requests \cap Fires = {}
  /\ MaxFailures \in Nat \ {0}
  /\ MaxBusy \in Nat \ {0}
  /\ MaxRestarts \in Nat
  /\ NoTrigger \notin Triggers

VARIABLES
  row,       \* agent_triggers: on or off by is_enabled
  workflow,  \* the workflow's row, likewise
  agentLives,
  cron,      \* per trigger: is it in cronJobs, and how many tasks run
  failures,  \* cronFailureCounts, of which only the limit is compared
  pc, on,    \* where each request or fire is, and its trigger
  seen,      \* the rows a request has read
  boot,      \* starting until loadAll reads the rows, up when it is done
  loaded,    \* the triggers loadAll has read
  restarts,
  early,     \* history: triggers that a request named before loadAll was done
  tangled,   \* history: triggers whose edits met, with no lone edit since
  met        \* history: edits that met another of their trigger, or loadAll

dbVars   == <<row, workflow, agentLives>>
bootVars == <<boot, loaded, restarts>>
callVars == <<pc, on, seen, early, tangled, met>>
vars     == <<dbVars, cron, failures, bootVars, callVars>>

Standalone == Triggers \ OfWorkflow
Workers    == Requests \cup Fires
Exists(r)  == r \in {"on", "off"}
NoJob      == [held |-> FALSE, tasks |-> 0]
Unseen     == [had |-> FALSE, workflow |-> "new", row |-> "new"]

RequestSteps == {"scheduleCron", "insertTrigger", "scheduleNew", "deleteRow",
                 "putWrite", "putKind", "putWorkflow", "putTrigger", "putSync",
                 "dropTriggers", "dropWorkflow", "dropJob"}
UpdateSteps  == {"disable", "reread", "sync"}

Init ==
  /\ row = [t \in Triggers |-> "new"]
  /\ workflow = [t \in OfWorkflow |-> "new"]
  /\ agentLives = TRUE
  /\ cron = [t \in Triggers |-> NoJob]
  /\ failures = [t \in Triggers |-> 0]
  /\ pc = [x \in Workers |-> "idle"]
  /\ on = [x \in Workers |-> NoTrigger]
  /\ seen = [x \in Workers |-> Unseen]
  /\ boot = "starting"
  /\ loaded = {}
  /\ restarts = 0
  /\ early = {} /\ tangled = {} /\ met = {}

----------------------------------------------------------------------------
(* The map of jobs.                                                        *)

\* The task is set in the map whatever was there: an old one would run on.
scheduleCron(c) == [held |-> TRUE, tasks |-> c.tasks + 1]

unscheduleCron(c) ==
  IF c.held THEN [held |-> FALSE, tasks |-> c.tasks - 1] ELSE c

scheduleFromWorkflow(c, r) ==
  IF r = "on" THEN scheduleCron(unscheduleCron(c)) ELSE c

ScheduledOver(c, r) ==
  IF r = "on" THEN scheduleCron(c) ELSE unscheduleCron(c)

JobAfterUpdate(c, r) ==
  IF r = "on" THEN scheduleCron(unscheduleCron(c)) ELSE unscheduleCron(c)

StopsTheNewJob(c, s) ==
  LET stopped == IF Exists(s.row) THEN unscheduleCron(c) ELSE c
  IN  IF s.workflow = "on" THEN scheduleFromWorkflow(stopped, s.row) ELSE stopped

\* The job of the trigger that was there before the update is stopped; that
\* of the trigger there now starts if the workflow is enabled as well.
JobAfterPut(c, s) ==
  LET stopped == IF s.had THEN unscheduleCron(c) ELSE c
  IN  IF s.workflow = "on" THEN scheduleFromWorkflow(stopped, s.row) ELSE stopped

----------------------------------------------------------------------------
(* Requests: each starts from idle and walks through its steps.            *)

Editing == {x \in Workers : pc[x] \in RequestSteps \cup UpdateSteps}

Room == Cardinality({x \in Workers : pc[x] # "idle"}) < MaxBusy

EditsOf(t) == {x \in Editing : on[x] = t}

\* An edit that begins while another of its trigger, or loadAll, is under way.
Meets(x, t) ==
  IF EditsOf(t) # {} \/ boot = "loading"
  THEN tangled' = tangled \cup {t} /\ met' = met \cup EditsOf(t) \cup {x}
  ELSE UNCHANGED <<tangled, met>>

\* Nothing keeps a request from coming before loadAll is done.
Begin(q, t, step) ==
  /\ pc[q] = "idle" /\ Room
  /\ pc' = [pc EXCEPT ![q] = step]
  /\ on' = [on EXCEPT ![q] = t]
  /\ early' = IF boot = "up" THEN early ELSE early \cup {t}
  /\ Meets(q, t)

At(x, step) == pc[x] = step

Goto(x, step) ==
  /\ pc' = [pc EXCEPT ![x] = step]
  /\ UNCHANGED <<on, early, tangled, met>>

Leave(x) ==
  /\ pc' = [pc EXCEPT ![x] = "idle"]
  /\ on' = [on EXCEPT ![x] = NoTrigger]
  /\ seen' = [seen EXCEPT ![x] = Unseen]
  /\ met' = met \ {x}
  /\ UNCHANGED early

Return(x) == Leave(x) /\ UNCHANGED tangled

\* An edit that met no other and has looked at the job puts its trigger right.
Settle(x) ==
  /\ Leave(x)
  /\ tangled' = IF x \in met THEN tangled ELSE tangled \ {on[x]}

SetJob(t, c) == cron' = [cron EXCEPT ![t] = c]

\* POST triggers: insert the row, then schedule it.
Create(q, t) ==
  /\ t \in Standalone /\ row[t] = "new" /\ agentLives
  /\ Begin(q, t, "scheduleCron")
  /\ row' = [row EXCEPT ![t] = "on"]
  /\ UNCHANGED <<workflow, agentLives, cron, failures, seen, bootVars>>

ScheduleCreated(q) ==
  /\ At(q, "scheduleCron")
  /\ SetJob(on[q], scheduleCron(cron[on[q]]))
  /\ Return(q)
  /\ UNCHANGED <<dbVars, failures, bootVars>>

\* POST workflows: insert the workflow, insert its trigger, schedule that
\* whether or not the workflow is enabled.
CreateWorkflow(q, t, enabled) ==
  /\ t \in OfWorkflow /\ workflow[t] = "new" /\ agentLives
  /\ Begin(q, t, "insertTrigger")
  /\ workflow' = [workflow EXCEPT ![t] = enabled]
  /\ UNCHANGED <<row, agentLives, cron, failures, seen, bootVars>>

InsertTrigger(q) ==
  /\ At(q, "insertTrigger")
  /\ IF Exists(workflow[on[q]])
     THEN /\ row' = [row EXCEPT ![on[q]] = "on"]
          /\ Goto(q, "scheduleNew")
          /\ UNCHANGED seen
     ELSE Return(q) /\ UNCHANGED row
  /\ UNCHANGED <<workflow, agentLives, cron, failures, bootVars>>

ScheduleNew(q) ==
  /\ At(q, "scheduleNew")
  /\ SetJob(on[q], scheduleFromWorkflow(cron[on[q]], "on"))
  /\ Return(q)
  /\ UNCHANGED <<dbVars, failures, bootVars>>

\* Clients name a trigger once its creation has answered.
Known(t) == \A q \in Requests : on[q] = t => pc[q] \notin {"scheduleCron", "scheduleNew"}

\* PUT trigger, and the auto-disable of a fire: write, read again, sync.
WriteEnabled(t, enabled) ==
  row' = [row EXCEPT ![t] = IF Exists(@) THEN enabled ELSE @]

Update(q, t, enabled) ==
  /\ Exists(row[t]) /\ Known(t)
  /\ Begin(q, t, "reread")
  /\ WriteEnabled(t, enabled)
  /\ UNCHANGED <<workflow, agentLives, cron, failures, seen, bootVars>>

Reread(x) ==
  /\ At(x, "reread")
  /\ IF Exists(row[on[x]])
     THEN /\ seen' = [seen EXCEPT ![x].row = row[on[x]]]
          /\ Goto(x, "sync")
     ELSE Return(x)
  /\ UNCHANGED <<dbVars, cron, failures, bootVars>>

SyncUpdate(x) ==
  /\ At(x, "sync")
  /\ SetJob(on[x], JobAfterUpdate(cron[on[x]], seen[x].row))
  /\ Settle(x)
  /\ UNCHANGED <<dbVars, failures, bootVars>>

\* DELETE trigger: stop the job, then delete the row.
Delete(q, t) ==
  /\ Exists(row[t]) /\ Known(t)
  /\ Begin(q, t, "deleteRow")
  /\ SetJob(t, unscheduleCron(cron[t]))
  /\ UNCHANGED <<dbVars, failures, seen, bootVars>>

Drop(t) == row' = [row EXCEPT ![t] = IF Exists(@) THEN "gone" ELSE @]

DeleteRow(q) ==
  /\ At(q, "deleteRow")
  /\ Drop(on[q])
  /\ Settle(q)
  /\ UNCHANGED <<workflow, agentLives, cron, failures, bootVars>>

\* PUT and DELETE workflow: both first look up the trigger there is.
ReadWorkflow(q, t, step) ==
  /\ t \in OfWorkflow /\ Exists(workflow[t]) /\ Known(t)
  /\ Begin(q, t, step)
  /\ seen' = [seen EXCEPT ![q].had = Exists(row[t])]
  /\ UNCHANGED <<dbVars, cron, failures, bootVars>>

\* The update may also change the kind of the trigger.
PutWrite(q, enabled, step) ==
  /\ At(q, "putWrite")
  /\ IF Exists(workflow[on[q]])
     THEN /\ workflow' = [workflow EXCEPT ![on[q]] = enabled]
          /\ Goto(q, step)
          /\ UNCHANGED seen
     ELSE Return(q) /\ UNCHANGED workflow
  /\ UNCHANGED <<row, agentLives, cron, failures, bootVars>>

\* The row is replaced by one of another kind; the insert needs the workflow.
PutKind(q) ==
  /\ At(q, "putKind")
  /\ Drop(on[q])
  /\ IF Exists(workflow[on[q]])
     THEN Goto(q, "putWorkflow") /\ UNCHANGED seen
     ELSE Return(q)
  /\ UNCHANGED <<workflow, agentLives, cron, failures, bootVars>>

PutRereadWorkflow(q) ==
  /\ At(q, "putWorkflow")
  /\ IF Exists(workflow[on[q]])
     THEN /\ seen' = [seen EXCEPT ![q].workflow = workflow[on[q]]]
          /\ Goto(q, "putTrigger")
     ELSE Return(q)
  /\ UNCHANGED <<dbVars, cron, failures, bootVars>>

PutRereadTrigger(q) ==
  /\ At(q, "putTrigger")
  /\ seen' = [seen EXCEPT ![q].row = row[on[q]]]
  /\ Goto(q, "putSync")
  /\ UNCHANGED <<dbVars, cron, failures, bootVars>>

PutSync(q) ==
  /\ At(q, "putSync")
  /\ SetJob(on[q], JobAfterPut(cron[on[q]], seen[q]))
  /\ IF seen[q].had THEN Settle(q) ELSE Return(q)
  /\ UNCHANGED <<dbVars, failures, bootVars>>

DropTriggers(q) ==
  /\ At(q, "dropTriggers")
  /\ Drop(on[q])
  /\ Goto(q, "dropWorkflow")
  /\ UNCHANGED <<workflow, agentLives, cron, failures, seen, bootVars>>

\* Answered with 404 when another request was first.
DropWorkflow(q) ==
  /\ At(q, "dropWorkflow")
  /\ IF Exists(workflow[on[q]])
     THEN /\ workflow' = [workflow EXCEPT ![on[q]] = "gone"]
          /\ Goto(q, "dropJob")
          /\ UNCHANGED seen
     ELSE Return(q) /\ UNCHANGED workflow
  /\ UNCHANGED <<row, agentLives, cron, failures, bootVars>>

DropJob(q) ==
  /\ At(q, "dropJob")
  /\ IF seen[q].had
     THEN SetJob(on[q], unscheduleCron(cron[on[q]])) /\ Settle(q)
     ELSE Return(q) /\ UNCHANGED cron
  /\ UNCHANGED <<dbVars, failures, bootVars>>

\* The rows of the agent go with it; its cron jobs are not looked at.
DeleteAgent ==
  /\ agentLives
  /\ agentLives' = FALSE
  /\ row' = [t \in Triggers |-> IF Exists(row[t]) THEN "gone" ELSE row[t]]
  /\ workflow' = [t \in OfWorkflow |-> IF Exists(workflow[t]) THEN "gone" ELSE workflow[t]]
  /\ UNCHANGED <<cron, failures, callVars, bootVars>>

----------------------------------------------------------------------------
(* Fires: the callback of a task that runs, with the trigger it was        *)
(* scheduled for.                                                          *)

CanRunDisabled(t) ==
  IF t \in OfWorkflow THEN workflow[t] # "gone" ELSE agentLives

\* fireTrigger looks at the workflow and not at the trigger's row; without a
\* workflow it inserts a thread, which needs the agent.
CanRun(t) ==
  IF t \in OfWorkflow THEN workflow[t] = "on" ELSE agentLives

Tick(f, t) ==
  /\ cron[t].tasks > 0
  /\ At(f, "idle") /\ Room
  /\ pc' = [pc EXCEPT ![f] = IF CanRun(t) THEN "running" ELSE "failing"]
  /\ on' = [on EXCEPT ![f] = t]
  /\ UNCHANGED <<dbVars, cron, failures, seen, bootVars, early, tangled, met>>

FireSucceeds(f) ==
  /\ At(f, "running")
  /\ failures' = [failures EXCEPT ![on[f]] = 0]
  /\ Return(f)
  /\ UNCHANGED <<dbVars, cron, bootVars>>

LastFailure(t) == failures[t] + 1 >= MaxFailures

FireFails(f) ==
  /\ pc[f] \in {"running", "failing"} /\ ~LastFailure(on[f])
  /\ failures' = [failures EXCEPT ![on[f]] = @ + 1]
  /\ Return(f)
  /\ UNCHANGED <<dbVars, cron, bootVars>>

\* The count stays: after it is enabled again one failure is enough.
FireFailsForGood(f) ==
  /\ pc[f] \in {"running", "failing"} /\ LastFailure(on[f])
  /\ failures' = [failures EXCEPT ![on[f]] = MaxFailures]
  /\ SetJob(on[f], unscheduleCron(cron[on[f]]))
  /\ pc' = [pc EXCEPT ![f] = "disable"]
  /\ Meets(f, on[f])
  /\ UNCHANGED <<dbVars, on, seen, bootVars, early>>

Disable(f) ==
  /\ At(f, "disable")
  /\ WriteEnabled(on[f], "off")
  /\ Goto(f, "reread")
  /\ UNCHANGED <<workflow, agentLives, cron, failures, seen, bootVars>>

----------------------------------------------------------------------------
(* The backend stops and starts.                                           *)

Restart ==
  /\ restarts < MaxRestarts
  /\ restarts' = restarts + 1
  /\ boot' = "starting"
  /\ loaded' = {}
  /\ cron' = [t \in Triggers |-> NoJob]
  /\ failures' = [t \in Triggers |-> 0]
  /\ pc' = [x \in Workers |-> "idle"]
  /\ on' = [x \in Workers |-> NoTrigger]
  /\ seen' = [x \in Workers |-> Unseen]
  /\ early' = {} /\ tangled' = {} /\ met' = {}
  /\ UNCHANGED dbVars

Loadable(t) == row[t] = "on" /\ (t \in OfWorkflow => workflow[t] = "on")

\* The rows are read while requests are served already: the edits under way
\* meet loadAll.
LoadQuery ==
  /\ boot = "starting"
  /\ boot' = "loading"
  /\ loaded' = {t \in Triggers : Loadable(t)}
  /\ tangled' = tangled \cup {on[x] : x \in Editing}
  /\ met' = met \cup Editing
  /\ UNCHANGED <<dbVars, cron, failures, restarts, pc, on, seen, early>>

\* Scheduled without a look at what a request has scheduled since.
LoadAll ==
  /\ boot = "loading"
  /\ boot' = "up"
  /\ loaded' = {}
  /\ cron' = [t \in Triggers |-> IF t \in loaded THEN scheduleCron(cron[t]) ELSE cron[t]]
  /\ UNCHANGED <<dbVars, failures, callVars, restarts>>

----------------------------------------------------------------------------
RequestStep(q) ==
  \/ ScheduleCreated(q) \/ InsertTrigger(q) \/ ScheduleNew(q)
  \/ DeleteRow(q)
  \/ \E e \in {"on", "off"}, s \in {"putKind", "putWorkflow"} : PutWrite(q, e, s)
  \/ PutKind(q) \/ PutRereadWorkflow(q) \/ PutRereadTrigger(q) \/ PutSync(q)
  \/ DropTriggers(q) \/ DropWorkflow(q) \/ DropJob(q)

UpdateStep(x) == Reread(x) \/ SyncUpdate(x)

NewRequest(q, t) ==
  \/ Create(q, t)
  \/ \E e \in {"on", "off"} : CreateWorkflow(q, t, e) \/ Update(q, t, e)
  \/ Delete(q, t)
  \/ \E s \in {"putWrite", "dropTriggers"} : ReadWorkflow(q, t, s)

FireStep(f) == FireSucceeds(f) \/ FireFails(f) \/ FireFailsForGood(f) \/ Disable(f)

Next ==
  \/ \E q \in Requests : RequestStep(q) \/ \E t \in Triggers : NewRequest(q, t)
  \/ \E x \in Workers : UpdateStep(x)
  \/ \E f \in Fires : FireStep(f) \/ \E t \in Triggers : Tick(f, t)
  \/ DeleteAgent \/ Restart \/ LoadQuery \/ LoadAll

Spec == Init /\ [][Next]_vars

(* Awaited calls return and the timers of the jobs tick.  What is under    *)
(* way is bounded only in the model, so a tick must not starve while it    *)
(* waits for room: strong fairness there.                                  *)
Fairness ==
  /\ WF_vars(LoadQuery \/ LoadAll)
  /\ \A q \in Requests : WF_vars(RequestStep(q) \/ UpdateStep(q))
  /\ \A f \in Fires : WF_vars(FireStep(f) \/ UpdateStep(f))
  /\ \A t \in Triggers : SF_vars(\E f \in Fires : Tick(f, t))

FairSpec == Spec /\ Fairness

----------------------------------------------------------------------------
(* Properties.                                                             *)

\* Every variable keeps its type; a job is never stopped twice.
TypeOK ==
  /\ row \in [Triggers -> {"new", "on", "off", "gone"}]
  /\ workflow \in [OfWorkflow -> {"new", "on", "off", "gone"}]
  /\ agentLives \in BOOLEAN
  /\ cron \in [Triggers -> [held : BOOLEAN, tasks : Nat]]
  /\ failures \in [Triggers -> 0..MaxFailures]
  /\ pc \in [Workers -> {"idle", "running", "failing"} \cup RequestSteps \cup UpdateSteps]
  /\ on \in [Workers -> Triggers \cup {NoTrigger}]
  /\ seen \in [Workers -> [had : BOOLEAN,
                           workflow : {"new", "on", "off", "gone"},
                           row : {"new", "on", "off", "gone"}]]
  /\ boot \in {"starting", "loading", "up"}
  /\ loaded \subseteq Triggers
  /\ restarts \in 0..MaxRestarts
  /\ early \subseteq Triggers /\ tangled \subseteq Triggers
  /\ met \subseteq Editing

TheJob(t) == IF cron[t].held THEN 1 ELSE 0

\* Every task that runs is the one the map holds: a task that the map has lost
\* ticks on whatever a request does.  Only where a request met loadAll, for a
\* trigger it named before loadAll was done, may a task be lost: one, however
\* many edits, restarts aside, come after.
OneTask ==
  \A t \in Triggers :
    \/ cron[t].tasks = TheJob(t)
    \/ t \in early /\ cron[t].tasks = TheJob(t) + 1

AtRest(t) == boot = "up" /\ agentLives /\ EditsOf(t) = {}

\* When no edit of a trigger is under way it has its job if it is enabled and
\* so is its workflow, and it has none when it is disabled or deleted, whatever
\* creations, edits, deletions, auto-disables and restarts went before and
\* whatever other triggers go through.  Edits of one trigger that overlap may
\* break that; the next one that runs alone mends it, unless there is no row
\* left to find: then the next restart does.
JobsMatchRows ==
  \A t \in Triggers \ tangled :
    AtRest(t) => /\ Loadable(t) => cron[t].held
                 /\ row[t] # "on" => ~cron[t].held

Doomed(t) ==
  boot = "up" /\ IF t \in OfWorkflow THEN workflow[t] \in {"off", "gone"} ELSE ~agentLives

\* The job of a disabled or deleted workflow, or of a deleted agent, does not
\* tick forever: its failures stop it, unless the workflow is enabled first.
OrphanStops ==
  \A t \in Triggers : (cron[t].held /\ Doomed(t)) ~> (~cron[t].held \/ ~Doomed(t))
=============================================================================
