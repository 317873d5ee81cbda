------------------------- MODULE CronTriggersProofs -------------------------
(***************************************************************************)
(* What holds of the cron jobs for any number of triggers, requests, fires *)
(* and restarts: every task that runs is the one the map holds, but for    *)
(* one that loadAll may lose, and the job of a trigger is the one its row  *)
(* asks for unless edits of it met.                                        *)
(***************************************************************************)
EXTENDS CronTriggers, TLAPS

Steps == {"idle", "running", "failing"} \cup RequestSteps \cup UpdateSteps
Rows == {"new", "on", "off", "gone"}
Jobs == [held : BOOLEAN, tasks : Nat]

Types ==
  /\ row \in [Triggers -> Rows]
  /\ cron \in [Triggers -> Jobs]
  /\ pc \in [Workers -> Steps]
  /\ on \in [Workers -> Triggers \cup {NoTrigger}]
  /\ loaded \subseteq Triggers

(* A job of which n tasks run that the map does not hold.                  *)
Lost(c, n) == c \in Jobs /\ n \in Nat /\ c.tasks = n + IF c.held THEN 1 ELSE 0

(* Nobody is at a trigger and it has no job.                               *)
Untouched(t) == cron[t] = NoJob /\ \A x \in Workers : on[x] # t

Alone(q) == cron[on[q]] = NoJob /\ \A x \in Workers \ {q} : on[x] # on[q]

(* The one request that creates a trigger is alone with it until the job   *)
(* is scheduled, unless loadAll has found the row and was first.  That is  *)
(* what scheduleCron relies on when it forgets about an old task.          *)
BringsNew(q) ==
  pc[q] = "scheduleCron" =>
    /\ q \in Requests
    /\ on[q] \in Standalone
    /\ Lost(cron[on[q]], 0)
    /\ row[on[q]] # "new"
    /\ boot # "up" \/ on[q] \notin early => Alone(q)
    /\ \A x \in Workers \ {q} : pc[x] = "scheduleCron" => on[x] # on[q]

IInv ==
  /\ Types
  /\ \A t \in Triggers : Lost(cron[t], 0) \/ (t \in early /\ Lost(cron[t], 1))
  /\ \A t \in Standalone : row[t] = "new" => Untouched(t)
  /\ \A t \in loaded : row[t] # "new"
  /\ \A x \in Workers : BringsNew(x)
  /\ \A x \in Workers : pc[x] = "idle" <=> on[x] = NoTrigger
  /\ boot # "up" => \A t \in Triggers : /\ Lost(cron[t], 0)
                                        /\ t \in early \/ Untouched(t)

(* Rows are never taken back to 'new'.                                     *)
RowsGoOn ==
  /\ row' \in [Triggers -> Rows]
  /\ \A t \in Triggers : row'[t] = "new" => row[t] = "new"

(* What may have happened to a job without a task getting lost.            *)
LosesNone(c, d) == d \in Jobs /\ \A n : Lost(c, n) => Lost(d, n)
JobKept(t) ==
  UNCHANGED cron \/ \E c : LosesNone(cron[t], c) /\ cron' = [cron EXCEPT ![t] = c]
-----------------------------------------------------------------------------
LEMMA LostJobs ==
  ASSUME NEW c \in Jobs, NEW n, Lost(c, n)
  PROVE  /\ LosesNone(c, unscheduleCron(c))
         /\ \A r : LosesNone(c, scheduleFromWorkflow(c, r))
         /\ \A r : LosesNone(c, JobAfterUpdate(c, r))
         /\ \A s : LosesNone(c, JobAfterPut(c, s))
<1>1. ASSUME NEW d, NEW m, Lost(d, m)
      PROVE  /\ Lost(unscheduleCron(d), m)
             /\ Lost(scheduleCron(unscheduleCron(d)), m)
  BY <1>1 DEF Lost, Jobs, unscheduleCron, scheduleCron
<1>2. ASSUME NEW d, NEW m, Lost(d, m), NEW r PROVE Lost(scheduleFromWorkflow(d, r), m)
  BY <1>1, <1>2 DEF scheduleFromWorkflow
<1>3. ASSUME NEW m, Lost(c, m), NEW r PROVE Lost(JobAfterUpdate(c, r), m)
  BY <1>1, <1>3 DEF JobAfterUpdate
<1>4. ASSUME NEW m, Lost(c, m), NEW s PROVE Lost(JobAfterPut(c, s), m)
  <2> DEFINE stopped == IF s.had THEN unscheduleCron(c) ELSE c
  <2>1. Lost(stopped, m)
    BY <1>1, <1>4
  <2>2. Lost(scheduleFromWorkflow(stopped, s.row), m)
    BY <1>2, <2>1
  <2> HIDE DEF stopped
  <2>3. JobAfterPut(c, s) = IF s.workflow = "on" THEN scheduleFromWorkflow(stopped, s.row)
                            ELSE stopped
    BY DEF JobAfterPut, stopped
  <2> QED BY <2>1, <2>2, <2>3
<1>5. \A d, m : Lost(d, m) => d \in Jobs
  BY DEF Lost
<1> QED BY <1>1, <1>2, <1>3, <1>4, <1>5 DEF LosesNone

LEMMA RowChanges ==
  ASSUME Types, NEW t \in Triggers,
         Drop(t) \/ WriteEnabled(t, "on") \/ WriteEnabled(t, "off")
         \/ row' = [row EXCEPT ![t] = "on"] \/ UNCHANGED row
  PROVE  RowsGoOn
BY DEF Types, RowsGoOn, Rows, Drop, WriteEnabled, Exists

LEMMA NoJobLost == Lost(NoJob, 0) /\ NoJob \in Jobs
BY DEF Lost, Jobs, NoJob

LEMMA InitIInv == Init => IInv
<1> SUFFICES ASSUME Init PROVE IInv
  OBVIOUS
<1>1. Types
  BY NoJobLost DEF Init, Types, Rows, Steps, Workers
<1>2. \A t \in Triggers : Lost(cron[t], 0) /\ Untouched(t)
  BY CronAssumption, NoJobLost DEF Init, Untouched
<1>3. \A x \in Workers : BringsNew(x) /\ (pc[x] = "idle" <=> on[x] = NoTrigger)
  BY DEF Init, BringsNew
<1>4. loaded = {}
  BY DEF Init
<1> QED BY <1>1, <1>2, <1>3, <1>4 DEF IInv, Standalone
-----------------------------------------------------------------------------
(* A worker goes on with its trigger, or is done with it.                  *)
LEMMA GoesOn ==
  ASSUME IInv, NEW x \in Workers, pc[x] \notin {"idle", "scheduleCron"},
         \/ UNCHANGED on /\ \E p \in Steps \ {"idle", "scheduleCron"} :
                              pc' = [pc EXCEPT ![x] = p]
         \/ /\ on' = [on EXCEPT ![x] = NoTrigger]
            /\ pc' = [pc EXCEPT ![x] = "idle"],
         RowsGoOn, JobKept(on[x]), UNCHANGED <<boot, loaded, early>>
  PROVE  IInv'
<1>1. on[x] \in Triggers
  BY DEF IInv, Types
<1>2. /\ cron' \in [Triggers -> Jobs]
      /\ \A t \in Triggers : \A n : Lost(cron[t], n) => Lost(cron'[t], n)
      /\ \A t \in Triggers \ {on[x]} : cron'[t] = cron[t]
  BY <1>1 DEF IInv, Types, JobKept, LosesNone
<1>3. /\ pc' \in [Workers -> Steps] /\ on' \in [Workers -> Triggers \cup {NoTrigger}]
      /\ \A y \in Workers : pc'[y] = "idle" <=> on'[y] = NoTrigger
      /\ \A y \in Workers \ {x} : pc'[y] = pc[y] /\ on'[y] = on[y]
      /\ pc'[x] # "scheduleCron" /\ on'[x] \in {on[x], NoTrigger}
  BY <1>1, CronAssumption DEF IInv, Types, Steps
<1>4. Types'
  BY <1>2, <1>3 DEF IInv, Types, RowsGoOn
<1>5. ASSUME NEW t \in Triggers, Untouched(t) PROVE Untouched(t)'
  <2>1. t # on[x] /\ t # NoTrigger
    BY <1>5, CronAssumption DEF Untouched
  <2> QED BY <1>2, <1>3, <1>5, <2>1 DEF Untouched
<1>6. ASSUME NEW y \in Workers PROVE BringsNew(y)'
  <2> SUFFICES ASSUME pc'[y] = "scheduleCron" PROVE BringsNew(y)'
    BY DEF BringsNew
  <2>1. /\ y # x /\ pc[y] = "scheduleCron" /\ on'[y] = on[y] /\ on[y] \in Standalone
        /\ on[y] \in Triggers /\ on[y] # NoTrigger
    BY <1>3, CronAssumption DEF IInv, BringsNew, Standalone
  <2>2. BringsNew(y)
    BY DEF IInv
  <2>3. Lost(cron'[on[y]], 0) /\ row'[on[y]] # "new"
    BY <1>2, <2>1, <2>2 DEF BringsNew, RowsGoOn
  <2>4. Alone(y) => Alone(y)'
    BY <1>2, <1>3, <2>1 DEF Alone
  <2>5. \A z \in Workers \ {y} : pc'[z] = "scheduleCron" => on'[z] # on[y]
    BY <1>3, <2>1, <2>2 DEF BringsNew
  <2> QED BY <2>1, <2>2, <2>3, <2>4, <2>5 DEF BringsNew
<1>7. \A t \in loaded' : row'[t] # "new"
  BY DEF IInv, RowsGoOn, Types
<1> QED BY <1>2, <1>3, <1>4, <1>5, <1>6, <1>7 DEF IInv, RowsGoOn, Standalone

(* A worker takes up a trigger that exists, or existed, or is one of a     *)
(* workflow.                                                               *)
LEMMA TakesUp ==
  ASSUME IInv, NEW x \in Workers, NEW t \in Triggers, pc[x] = "idle",
         t \in OfWorkflow \/ row[t] # "new",
         \A q \in Requests : on[q] = t /\ pc[q] = "scheduleCron" =>
                             boot = "up" /\ t \in early,
         \E p \in Steps \ {"idle", "scheduleCron"} : pc' = [pc EXCEPT ![x] = p],
         on' = [on EXCEPT ![x] = t],
         RowsGoOn, JobKept(t), UNCHANGED <<boot, loaded>>,
         early \subseteq early', boot = "up" \/ t \in early'
  PROVE  IInv'
<1>1. /\ cron' \in [Triggers -> Jobs]
      /\ \A u \in Triggers : \A n : Lost(cron[u], n) => Lost(cron'[u], n)
      /\ \A u \in Triggers \ {t} : cron'[u] = cron[u]
  BY DEF IInv, Types, JobKept, LosesNone
<1>2. /\ pc' \in [Workers -> Steps] /\ on' \in [Workers -> Triggers \cup {NoTrigger}]
      /\ \A y \in Workers : pc'[y] = "idle" <=> on'[y] = NoTrigger
      /\ \A y \in Workers \ {x} : pc'[y] = pc[y] /\ on'[y] = on[y]
      /\ pc'[x] # "scheduleCron" /\ on'[x] = t
  BY CronAssumption DEF IInv, Types, Steps
<1>3. Types'
  BY <1>1, <1>2 DEF IInv, Types, RowsGoOn
<1>4. ASSUME NEW u \in Triggers, Untouched(u), u # t PROVE Untouched(u)'
  BY <1>1, <1>2, <1>4 DEF Untouched
<1>5. ASSUME NEW y \in Workers PROVE BringsNew(y)'
  <2> SUFFICES ASSUME pc'[y] = "scheduleCron" PROVE BringsNew(y)'
    BY DEF BringsNew
  <2>1. /\ y # x /\ pc[y] = "scheduleCron" /\ on'[y] = on[y] /\ on[y] \in Standalone
        /\ on[y] \in Triggers /\ y \in Requests
    BY <1>2 DEF IInv, BringsNew, Standalone
  <2>2. BringsNew(y)
    BY DEF IInv
  <2>3. Lost(cron'[on[y]], 0) /\ row'[on[y]] # "new"
    BY <1>1, <2>1, <2>2 DEF BringsNew, RowsGoOn
  <2>4. boot' # "up" \/ on[y] \notin early' => Alone(y)'
    BY <1>1, <1>2, <2>1, <2>2 DEF Alone, BringsNew
  <2>5. \A z \in Workers \ {y} : pc'[z] = "scheduleCron" => on'[z] # on[y]
    BY <1>2, <2>1, <2>2 DEF BringsNew
  <2> QED BY <2>1, <2>2, <2>3, <2>4, <2>5 DEF BringsNew
<1>6. \A u \in loaded' : row'[u] # "new"
  BY DEF IInv, RowsGoOn, Types
<1>7. \A u \in Standalone : row'[u] = "new" => Untouched(u)'
  BY <1>4 DEF IInv, RowsGoOn, Standalone
<1> QED BY <1>1, <1>2, <1>3, <1>4, <1>5, <1>6, <1>7 DEF IInv
-----------------------------------------------------------------------------
LEMMA CreateKeeps ==
  ASSUME IInv, NEW q \in Requests, NEW t \in Triggers, Create(q, t)
  PROVE  IInv'
<1> USE DEF Create, Begin, bootVars
<1>1. q \in Workers /\ t \in Standalone /\ Untouched(t) /\ t # NoTrigger
  BY CronAssumption DEF IInv, Workers, Standalone
<1>2. /\ pc' \in [Workers -> Steps] /\ on' \in [Workers -> Triggers \cup {NoTrigger}]
      /\ \A y \in Workers : pc'[y] = "idle" <=> on'[y] = NoTrigger
      /\ \A y \in Workers \ {q} : pc'[y] = pc[y] /\ on'[y] = on[y]
      /\ pc'[q] = "scheduleCron" /\ on'[q] = t
  BY <1>1 DEF IInv, Types, Steps, RequestSteps
<1>3. /\ row' \in [Triggers -> Rows] /\ row'[t] = "on"
      /\ \A u \in Triggers \ {t} : row'[u] = row[u]
  BY DEF IInv, Types, Rows
<1>4. Types' /\ UNCHANGED <<cron, boot, loaded>>
  BY <1>2, <1>3 DEF IInv, Types
<1>5. ASSUME NEW u \in Triggers, Untouched(u), u # t PROVE Untouched(u)'
  BY <1>2, <1>4, <1>5 DEF Untouched
<1>6. ASSUME NEW y \in Workers PROVE BringsNew(y)'
  <2>1. CASE y = q
    BY <1>1, <1>2, <1>3, <1>4, <2>1, NoJobLost DEF Untouched, BringsNew, Alone
  <2>2. CASE y # q /\ pc[y] = "scheduleCron"
    <3>1. BringsNew(y) /\ on[y] # t
      BY <1>1 DEF Untouched, IInv
    <3>2. on'[y] = on[y] /\ row'[on[y]] = row[on[y]]
      BY <1>2, <1>3, <2>2, <3>1 DEF BringsNew, Standalone
    <3> QED BY <1>1, <1>2, <1>4, <2>2, <3>1, <3>2 DEF BringsNew, Alone
  <2>3. CASE y # q /\ pc[y] # "scheduleCron"
    BY <1>2, <2>3 DEF BringsNew
  <2> QED BY <2>1, <2>2, <2>3
<1>7. early \subseteq early' /\ (boot # "up" => t \in early')
  OBVIOUS
<1>8. \A u \in Standalone : row'[u] = "new" => Untouched(u)'
  BY <1>3, <1>5 DEF IInv, Standalone
<1>9. \A u \in loaded' : row'[u] # "new"
  BY <1>3, <1>4 DEF IInv, Types
<1> QED BY <1>2, <1>4, <1>5, <1>6, <1>7, <1>8, <1>9 DEF IInv

(* The new job: an old one is not stopped, and there is one only if        *)
(* loadAll was first.                                                      *)
LEMMA ScheduleCreatedKeeps ==
  ASSUME IInv, NEW q \in Requests, ScheduleCreated(q)
  PROVE  IInv'
<1> USE DEF ScheduleCreated, At
<1>1. /\ q \in Workers /\ on[q] \in Standalone /\ on[q] \in Triggers
      /\ Lost(cron[on[q]], 0) /\ row[on[q]] # "new"
      /\ boot # "up" \/ on[q] \notin early => cron[on[q]] = NoJob
      /\ \A x \in Workers \ {q} : pc[x] = "scheduleCron" => on[x] # on[q]
      /\ on[q] # NoTrigger
  BY CronAssumption DEF IInv, BringsNew, Alone, Workers, Standalone
<1>2. UNCHANGED <<row, boot, loaded, early>>
  BY DEF dbVars, bootVars, Return, Leave
<1>3. /\ cron' \in [Triggers -> Jobs]
      /\ Lost(cron'[on[q]], 0) \/ (cron[on[q]].held /\ Lost(cron'[on[q]], 1))
      /\ \A u \in Triggers \ {on[q]} : cron'[u] = cron[u]
  <2>1. scheduleCron(cron[on[q]]) \in Jobs
    BY <1>1 DEF Lost, Jobs, scheduleCron
  <2>2. \/ Lost(scheduleCron(cron[on[q]]), 0)
        \/ cron[on[q]].held /\ Lost(scheduleCron(cron[on[q]]), 1)
    BY <1>1 DEF Lost, Jobs, scheduleCron
  <2> QED BY <1>1, <2>1, <2>2 DEF SetJob, IInv, Types
<1>4. /\ pc' \in [Workers -> Steps] /\ on' \in [Workers -> Triggers \cup {NoTrigger}]
      /\ \A y \in Workers : pc'[y] = "idle" <=> on'[y] = NoTrigger
      /\ \A y \in Workers \ {q} : pc'[y] = pc[y] /\ on'[y] = on[y]
      /\ pc'[q] = "idle" /\ on'[q] = NoTrigger
  BY <1>1 DEF IInv, Types, Steps, Return, Leave
<1>5. Types'
  BY <1>2, <1>3, <1>4 DEF IInv, Types
<1>6. ASSUME NEW u \in Triggers, Untouched(u) PROVE Untouched(u)'
  <2>1. u # on[q] /\ u # NoTrigger
    BY <1>1, <1>6, CronAssumption DEF Untouched
  <2> QED BY <1>3, <1>4, <1>6, <2>1 DEF Untouched
<1>7. ASSUME NEW y \in Workers PROVE BringsNew(y)'
  <2>1. CASE y = q \/ pc[y] # "scheduleCron"
    BY <1>4, <2>1 DEF BringsNew
  <2>2. CASE y # q /\ pc[y] = "scheduleCron"
    <3>1. BringsNew(y) /\ on[y] # on[q] /\ on[y] # NoTrigger /\ on[y] \in Triggers
      BY <1>1, <2>2, CronAssumption DEF IInv, BringsNew, Standalone
    <3>2. on'[y] = on[y] /\ cron'[on[y]] = cron[on[y]]
      BY <1>3, <1>4, <2>2, <3>1
    <3> QED BY <1>2, <1>4, <2>2, <3>1, <3>2 DEF BringsNew, Alone
  <2> QED BY <2>1, <2>2
<1>8. /\ Lost(cron'[on[q]], 0) \/ (on[q] \in early /\ Lost(cron'[on[q]], 1))
      /\ boot # "up" => Lost(cron'[on[q]], 0)
  BY <1>1, <1>3 DEF NoJob
<1>9. \A u \in Triggers : u \in early \/ Untouched(u) => u \in early' \/ Untouched(u)'
  BY <1>2, <1>6
<1>10. \A u \in Standalone : row'[u] = "new" => Untouched(u)'
  BY <1>2, <1>6 DEF IInv, Standalone
<1>11. \A u \in Triggers : /\ Lost(cron'[u], 0) \/ (u \in early' /\ Lost(cron'[u], 1))
                           /\ boot' # "up" => Lost(cron'[u], 0)
  BY <1>1, <1>2, <1>3, <1>8 DEF IInv
<1> QED BY <1>2, <1>4, <1>5, <1>7, <1>9, <1>10, <1>11 DEF IInv

LEMMA RestartKeeps == IInv /\ Restart => IInv'
<1> SUFFICES ASSUME IInv, Restart PROVE IInv'
  OBVIOUS
<1> USE DEF Restart
<1>1. Types' /\ loaded' = {}
  BY NoJobLost DEF IInv, Types, Steps, dbVars
<1>2. \A t \in Triggers : Lost(cron'[t], 0) /\ Untouched(t)'
  BY CronAssumption, NoJobLost DEF Untouched
<1>3. \A x \in Workers : BringsNew(x)' /\ (pc'[x] = "idle" <=> on'[x] = NoTrigger)
  BY DEF BringsNew
<1> QED BY <1>1, <1>2, <1>3 DEF IInv, Standalone

LEMMA LoadQueryKeeps == IInv /\ LoadQuery => IInv'
<1> SUFFICES ASSUME IInv, LoadQuery PROVE IInv'
  OBVIOUS
<1>1. /\ UNCHANGED <<row, cron, pc, on, early>> /\ boot # "up" /\ boot' # "up"
      /\ loaded' \subseteq Triggers /\ \A t \in loaded' : row[t] # "new"
  BY DEF LoadQuery, dbVars, Loadable
<1>2. \A t \in Triggers : Untouched(t)' <=> Untouched(t)
  BY <1>1 DEF Untouched
<1>3. \A x \in Workers : BringsNew(x)' <=> BringsNew(x)
  BY <1>1 DEF BringsNew, Alone
<1> QED BY <1>1, <1>2, <1>3 DEF IInv, Types, Standalone

(* A trigger that has its job already has been named by a request.         *)
LEMMA LoadAllKeeps == IInv /\ LoadAll => IInv'
<1> SUFFICES ASSUME IInv, LoadAll PROVE IInv'
  OBVIOUS
<1>1. /\ UNCHANGED <<row, pc, on, early>> /\ boot # "up" /\ boot' = "up" /\ loaded' = {}
      /\ \A t \in Triggers : Lost(cron[t], 0) /\ (t \in early \/ Untouched(t))
  BY DEF LoadAll, dbVars, callVars, IInv
<1>2. \A t \in Triggers :
        cron'[t] = IF t \in loaded THEN scheduleCron(cron[t]) ELSE cron[t]
  BY DEF LoadAll
<1>3. ASSUME NEW t \in Triggers
      PROVE  /\ Lost(cron'[t], 0) \/ (t \in early /\ Lost(cron'[t], 1))
             /\ cron[t] = NoJob => Lost(cron'[t], 0)
  <2>1. Lost(cron[t], 0) /\ (cron[t].held => t \in early)
    BY <1>1 DEF Untouched, NoJob
  <2>2. /\ ~cron[t].held => Lost(scheduleCron(cron[t]), 0)
        /\ cron[t].held => Lost(scheduleCron(cron[t]), 1)
    BY <2>1 DEF Lost, Jobs, scheduleCron
  <2> QED BY <1>2, <2>1, <2>2 DEF NoJob
<1>4. Types'
  <2>1. \A t \in Triggers : cron'[t] \in Jobs
    BY <1>3 DEF Lost
  <2>2. cron' = [t \in Triggers |-> cron'[t]]
    BY DEF LoadAll
  <2>3. cron' \in [Triggers -> Jobs]
    BY <2>1, <2>2
  <2> QED BY <1>1, <2>3 DEF IInv, Types
<1>5. \A t \in Standalone : row'[t] = "new" => Untouched(t)'
  <2>1. \A t \in Standalone : row[t] = "new" => t \notin loaded
    BY DEF IInv
  <2> QED BY <1>1, <1>2, <2>1 DEF IInv, Untouched, Standalone
<1>6. ASSUME NEW x \in Workers PROVE BringsNew(x)'
  <2> SUFFICES ASSUME pc[x] = "scheduleCron" PROVE BringsNew(x)'
    BY <1>1 DEF BringsNew
  <2>1. BringsNew(x) /\ on[x] \in Triggers
    BY DEF IInv, BringsNew, Standalone
  <2>2. cron[on[x]] = NoJob /\ on[x] \in early
    BY <1>1, <2>1 DEF BringsNew, Alone, Untouched
  <2>3. Lost(cron'[on[x]], 0)
    BY <1>3, <2>1, <2>2
  <2> QED BY <1>1, <2>1, <2>2, <2>3 DEF BringsNew
<1> QED BY <1>1, <1>3, <1>4, <1>5, <1>6 DEF IInv

(* The rows of the agent go; its jobs stay.                                *)
LEMMA DeleteAgentKeeps == IInv /\ DeleteAgent => IInv'
<1> SUFFICES ASSUME IInv, DeleteAgent PROVE IInv'
  OBVIOUS
<1>1. /\ UNCHANGED <<cron, pc, on, boot, loaded, early>>
      /\ row' \in [Triggers -> Rows]
      /\ \A t \in Triggers : row'[t] = "new" <=> row[t] = "new"
  BY DEF DeleteAgent, callVars, bootVars, IInv, Types, Rows, Exists
<1>2. \A t \in Triggers : Untouched(t)' <=> Untouched(t)
  BY <1>1 DEF Untouched
<1>3. \A x \in Workers : BringsNew(x) => BringsNew(x)'
  BY <1>1 DEF BringsNew, Alone, Standalone
<1> QED BY <1>1, <1>2, <1>3 DEF IInv, Types, Standalone
-----------------------------------------------------------------------------
LEMMA RequestKeeps ==
  ASSUME IInv, NEW q \in Requests, RequestStep(q)
  PROVE  IInv'
<1> USE DEF At, Goto, Return, Settle, Leave, dbVars, bootVars
<1>0. q \in Workers
  BY DEF Workers
<1>1. CASE ScheduleCreated(q)
  BY <1>1, ScheduleCreatedKeeps
<1>2. CASE ~ScheduleCreated(q)
  <2>1. /\ pc[q] \notin {"idle", "scheduleCron"} /\ on[q] \in Triggers
        /\ UNCHANGED <<boot, loaded, early>>
    <3>1. /\ pc[q] \notin {"idle", "scheduleCron"}
          /\ UNCHANGED <<boot, loaded, early>>
      BY <1>2 DEF RequestStep, InsertTrigger, ScheduleNew, DeleteRow, PutWrite, PutKind,
                  PutRereadWorkflow, PutRereadTrigger, PutSync, DropTriggers,
                  DropWorkflow, DropJob
    <3> QED BY <1>0, <3>1 DEF IInv, Types
  <2>2. RowsGoOn
    <3>1. Drop(on[q]) \/ row' = [row EXCEPT ![on[q]] = "on"] \/ UNCHANGED row
      BY <1>2 DEF RequestStep, InsertTrigger, ScheduleNew, DeleteRow, PutWrite, PutKind,
                  PutRereadWorkflow, PutRereadTrigger, PutSync, DropTriggers,
                  DropWorkflow, DropJob
    <3> QED BY <2>1, <3>1, RowChanges DEF IInv
  <2>3. JobKept(on[q])
    <3>1. cron[on[q]] \in Jobs /\ \E n : Lost(cron[on[q]], n)
      BY <2>1 DEF IInv, Types
    <3>2. \/ UNCHANGED cron
          \/ SetJob(on[q], unscheduleCron(cron[on[q]]))
          \/ SetJob(on[q], scheduleFromWorkflow(cron[on[q]], "on"))
          \/ SetJob(on[q], JobAfterPut(cron[on[q]], seen[q]))
      BY <1>2 DEF RequestStep, InsertTrigger, ScheduleNew, DeleteRow, PutWrite, PutKind,
                  PutRereadWorkflow, PutRereadTrigger, PutSync, DropTriggers,
                  DropWorkflow, DropJob
    <3>3. \A c : LosesNone(cron[on[q]], c) /\ SetJob(on[q], c) => JobKept(on[q])
      BY DEF JobKept, SetJob
    <3> QED BY <3>1, <3>2, <3>3, LostJobs DEF JobKept
  <2>4. \/ UNCHANGED on /\ \E p \in Steps \ {"idle", "scheduleCron"} :
                              pc' = [pc EXCEPT ![q] = p]
        \/ /\ on' = [on EXCEPT ![q] = NoTrigger]
           /\ pc' = [pc EXCEPT ![q] = "idle"]
    BY <1>2 DEF Steps, RequestSteps, UpdateSteps, RequestStep, InsertTrigger, ScheduleNew,
                DeleteRow, PutWrite, PutKind, PutRereadWorkflow, PutRereadTrigger,
                PutSync, DropTriggers, DropWorkflow, DropJob
  <2> QED BY <1>0, <2>1, <2>2, <2>3, <2>4, GoesOn
<1> QED BY <1>1, <1>2

LEMMA WorkerKeeps ==
  ASSUME IInv, NEW x \in Workers, UpdateStep(x) \/ FireStep(x)
  PROVE  IInv'
<1> USE DEF At, Goto, Return, Settle, Leave, dbVars, bootVars, UpdateStep, FireStep
<1>1. /\ pc[x] \notin {"idle", "scheduleCron"} /\ on[x] \in Triggers
      /\ UNCHANGED <<boot, loaded, early>>
  <2>1. /\ pc[x] \notin {"idle", "scheduleCron"}
        /\ UNCHANGED <<boot, loaded, early>>
    BY DEF Reread, SyncUpdate, FireSucceeds, FireFails, FireFailsForGood, Disable
  <2> QED BY <2>1 DEF IInv, Types
<1>2. RowsGoOn
  <2>1. WriteEnabled(on[x], "off") \/ UNCHANGED row
    BY DEF Reread, SyncUpdate, FireSucceeds, FireFails, FireFailsForGood, Disable
  <2> QED BY <1>1, <2>1, RowChanges DEF IInv
<1>3. JobKept(on[x])
  <2>1. cron[on[x]] \in Jobs /\ \E n : Lost(cron[on[x]], n)
    BY <1>1 DEF IInv, Types
  <2>2. \/ UNCHANGED cron
        \/ SetJob(on[x], unscheduleCron(cron[on[x]]))
        \/ SetJob(on[x], JobAfterUpdate(cron[on[x]], seen[x].row))
    BY DEF Reread, SyncUpdate, FireSucceeds, FireFails, FireFailsForGood, Disable
  <2>3. \A c : LosesNone(cron[on[x]], c) /\ SetJob(on[x], c) => JobKept(on[x])
    BY DEF JobKept, SetJob
  <2> QED BY <2>1, <2>2, <2>3, LostJobs DEF JobKept
<1>4. \/ UNCHANGED on /\ \E p \in Steps \ {"idle", "scheduleCron"} :
                            pc' = [pc EXCEPT ![x] = p]
      \/ /\ on' = [on EXCEPT ![x] = NoTrigger]
         /\ pc' = [pc EXCEPT ![x] = "idle"]
  BY DEF Steps, RequestSteps, UpdateSteps, Reread, SyncUpdate, FireSucceeds, FireFails,
         FireFailsForGood, Disable
<1> QED BY <1>1, <1>2, <1>3, <1>4, GoesOn

(* What a request or a fire begins with.                                   *)
LEMMA BeginsKeeps ==
  ASSUME IInv, NEW x \in Workers, NEW t \in Triggers,
         \/ x \in Requests /\ NewRequest(x, t) /\ ~Create(x, t)
         \/ x \in Fires /\ Tick(x, t)
  PROVE  IInv'
<1> USE DEF At, Begin, dbVars, bootVars, NewRequest
<1>1. /\ pc[x] = "idle" /\ on' = [on EXCEPT ![x] = t] /\ UNCHANGED <<boot, loaded>>
      /\ \E p \in Steps \ {"idle", "scheduleCron"} : pc' = [pc EXCEPT ![x] = p]
      /\ early \subseteq early'
  BY DEF CreateWorkflow, Update, Delete, ReadWorkflow, Tick, Steps, RequestSteps,
         UpdateSteps
<1>2. RowsGoOn
  <2>1. WriteEnabled(t, "on") \/ WriteEnabled(t, "off") \/ UNCHANGED row
    BY DEF CreateWorkflow, Update, Delete, ReadWorkflow, Tick
  <2> QED BY <2>1, RowChanges DEF IInv
<1>3. JobKept(t)
  <2>1. cron[t] \in Jobs /\ \E n : Lost(cron[t], n)
    BY DEF IInv, Types
  <2>2. UNCHANGED cron \/ SetJob(t, unscheduleCron(cron[t]))
    BY DEF CreateWorkflow, Update, Delete, ReadWorkflow, Tick
  <2> QED BY <2>1, <2>2, LostJobs DEF JobKept, SetJob
<1>4. CASE Tick(x, t)
  <2>1. cron[t] # NoJob /\ UNCHANGED early
    BY <1>4 DEF Tick, NoJob
  <2>2. /\ boot = "up" \/ t \in early
        /\ t \in OfWorkflow \/ row[t] # "new"
    BY <2>1 DEF IInv, Untouched, Standalone
  <2>3. \A q \in Requests : on[q] = t /\ pc[q] = "scheduleCron" =>
                            boot = "up" /\ t \in early
    BY <2>1 DEF IInv, BringsNew, Alone, Workers
  <2> QED BY <1>1, <1>2, <1>3, <2>1, <2>2, <2>3, TakesUp
<1>5. CASE ~Tick(x, t)
  <2>1. /\ boot = "up" \/ t \in early'
        /\ t \in OfWorkflow \/ row[t] # "new"
    BY <1>5 DEF CreateWorkflow, Update, Delete, ReadWorkflow, Exists
  <2>2. \A q \in Requests : on[q] = t => pc[q] # "scheduleCron"
    <3>1. CASE Known(t)
      BY <3>1 DEF Known
    <3>2. CASE t \in OfWorkflow
      BY <3>2 DEF IInv, BringsNew, Workers, Standalone
    <3> QED BY <1>5, <3>1, <3>2 DEF CreateWorkflow, Update, Delete, ReadWorkflow
  <2> QED BY <1>1, <1>2, <1>3, <2>1, <2>2, TakesUp
<1> QED BY <1>4, <1>5

LEMMA NextIInv == IInv /\ [Next]_vars => IInv'
<1> SUFFICES ASSUME IInv, [Next]_vars PROVE IInv'
  OBVIOUS
<1>1. ASSUME NEW q \in Requests, RequestStep(q) PROVE IInv'
  BY <1>1, RequestKeeps
<1>2. ASSUME NEW q \in Requests, NEW t \in Triggers, NewRequest(q, t) PROVE IInv'
  BY <1>2, CreateKeeps, BeginsKeeps DEF Workers
<1>3. ASSUME NEW x \in Workers, UpdateStep(x) PROVE IInv'
  BY <1>3, WorkerKeeps
<1>4. ASSUME NEW f \in Fires, FireStep(f) PROVE IInv'
  BY <1>4, WorkerKeeps DEF Workers
<1>5. ASSUME NEW f \in Fires, NEW t \in Triggers, Tick(f, t) PROVE IInv'
  BY <1>5, BeginsKeeps DEF Workers
<1>6. CASE DeleteAgent \/ Restart \/ LoadQuery \/ LoadAll
  BY <1>6, DeleteAgentKeeps, RestartKeeps, LoadQueryKeeps, LoadAllKeeps
<1>7. CASE UNCHANGED vars
  <2>1. UNCHANGED <<row, cron, pc, on, boot, loaded, early>>
    BY <1>7 DEF vars, dbVars, bootVars, callVars
  <2> QED BY <2>1 DEF IInv, Types, BringsNew, Alone, Untouched
<1> QED BY <1>1, <1>2, <1>3, <1>4, <1>5, <1>6, <1>7 DEF Next

LEMMA Invariance == Spec => []IInv
<1> QED BY InitIInv, NextIInv, PTL DEF Spec
-----------------------------------------------------------------------------
(* TriggerService.ts 630-692: for any number of triggers, requests, fires  *)
(* and restarts, every task that runs is the one the map holds, but for    *)
(* one task of a trigger that a request named before loadAll was done.     *)
THEOREM NoLostTask == Spec => []OneTask
<1>1. IInv => OneTask
  <2> SUFFICES ASSUME IInv, NEW t \in Triggers
               PROVE  \/ cron[t].tasks = TheJob(t)
                      \/ t \in early /\ cron[t].tasks = TheJob(t) + 1
    BY DEF OneTask
  <2>1. TheJob(t) \in {0, 1}
    BY DEF TheJob
  <2> QED BY <2>1 DEF IInv, Lost, TheJob
<1> QED BY Invariance, <1>1, PTL
-----------------------------------------------------------------------------
(* Jobs against rows.  What JobsMatchRows says of a trigger, and what      *)
(* holds of it at each step of the edit that has it alone.                 *)
Good(t) ==
  /\ boot = "up" /\ Loadable(t) => cron[t].held
  /\ row[t] # "on" => ~cron[t].held

PutSteps == {"putWrite", "putKind", "putWorkflow", "putTrigger", "putSync"}
DropSteps == {"dropTriggers", "dropWorkflow", "dropJob"}
EditSteps == RequestSteps \cup UpdateSteps

Midway(x, t) ==
  /\ pc[x] = "scheduleCron" => row[t] = "on"
  /\ pc[x] = "insertTrigger" =>
       t \in OfWorkflow /\ row[t] = "new" /\ (t \in tangled \/ ~cron[t].held)
  /\ pc[x] = "scheduleNew" => t \in OfWorkflow /\ row[t] = "on"
  /\ pc[x] = "reread" => Exists(row[t]) \/ ~cron[t].held
  /\ pc[x] = "sync" => Exists(row[t]) /\ seen[x].row = row[t]
  /\ pc[x] \in {"disable", "deleteRow"} => ~cron[t].held
  /\ pc[x] \in PutSteps \cup DropSteps =>
       t \in OfWorkflow /\ (cron[t].held => seen[x].had \/ t \in tangled)
  /\ pc[x] \in {"putWrite", "dropTriggers"} => t \in tangled \/ Good(t)
  /\ pc[x] \in (PutSteps \ {"putWrite"}) \cup (DropSteps \ {"dropJob"}) =>
       Exists(workflow[t])
  /\ pc[x] \in {"putTrigger", "putSync"} => seen[x].workflow = workflow[t]
  /\ pc[x] = "putSync" => seen[x].row = row[t]
  /\ pc[x] \in {"dropWorkflow", "dropJob"} => row[t] # "on"

MoreTypes ==
  /\ workflow \in [OfWorkflow -> Rows]
  /\ seen \in [Workers -> [had : BOOLEAN, workflow : Rows, row : Rows]]
NewOnes == \A t \in OfWorkflow : workflow[t] = "new" => row[t] = "new"

(* What the history says of the edits under way.                           *)
History ==
  /\ met \subseteq Editing
  /\ \A x \in met : on[x] \in tangled
  /\ \A x, y \in Editing : x # y /\ on[x] = on[y] => x \in met
  /\ boot = "loading" => Editing \subseteq met

(* What loadAll has read of a trigger stays true unless an edit meets it.  *)
ReadWell ==
  boot = "loading" => \A t \in Triggers \ tangled : t \in loaded <=> Loadable(t)

Matches ==
  /\ \A t \in Triggers \ tangled : EditsOf(t) = {} => Good(t)
  /\ \A x \in Editing \ met : Midway(x, on[x])

MInv == MoreTypes /\ NewOnes /\ History /\ (agentLives => Matches /\ ReadWell)

(* What is left to show of a step: it does not change the types.           *)
Stands == History' /\ (agentLives' => Matches' /\ ReadWell')

(* A step of the edit x of the trigger t: the first, one midway, the last. *)
First(x, t) == x \notin Editing /\ pc'[x] \in EditSteps /\ Meets(x, t)
Goes(x) == x \in Editing /\ pc'[x] \in EditSteps /\ UNCHANGED <<tangled, met>>
Last(x, t) ==
  /\ x \in Editing /\ pc'[x] \notin EditSteps
  /\ met' = met \ {x}
  /\ UNCHANGED tangled \/ (x \notin met /\ tangled' = tangled \ {t})

Edits(x, t) ==
  /\ First(x, t) \/ Goes(x) \/ Last(x, t)
  /\ x \in Editing => on[x] = t
  /\ UNCHANGED <<agentLives, boot, loaded>>
  /\ \A y \in Workers \ {x} : UNCHANGED <<pc[y], on[y], seen[y]>>
  /\ \A u \in Triggers \ {t} : UNCHANGED <<row[u], cron[u]>>
  /\ \A u \in OfWorkflow \ {t} : UNCHANGED workflow[u]
  /\ pc'[x] \in EditSteps => on'[x] = t

(* Where a step of an edit that is alone leads to: the next one, or rest.  *)
Lands(x, t) ==
  IF pc'[x] \in EditSteps THEN Midway(x, t)' ELSE t \in tangled' \/ Good(t)'

LEMMA StaysTrue ==
  ASSUME NEW u \in Triggers, UNCHANGED <<row[u], cron[u], boot>>,
         u \in OfWorkflow => UNCHANGED workflow[u],
         u \in tangled' <=> u \in tangled
  PROVE  /\ Good(u)' <=> Good(u)
         /\ Loadable(u)' <=> Loadable(u)
         /\ \A y : UNCHANGED <<pc[y], seen[y]>> /\ Midway(y, u) => Midway(y, u)'
<1>1. (Good(u)' <=> Good(u)) /\ (Loadable(u)' <=> Loadable(u))
  BY DEF Good, Loadable
<1>2. ASSUME NEW y, UNCHANGED <<pc[y], seen[y]>>, Midway(y, u) PROVE Midway(y, u)'
  BY <1>1, <1>2 DEF Midway, PutSteps, DropSteps
<1> QED BY <1>1, <1>2

(* A step of an edit that has met another needs nothing more; one of an    *)
(* edit that is alone must lead to what holds of its next step.            *)
LEMMA EditKeeps ==
  ASSUME IInv, MInv, NEW x \in Workers, NEW t \in Triggers, Edits(x, t),
         agentLives /\ x \notin met /\ x \notin met' => Lands(x, t)
  PROVE  Stands
<1> USE DEF Edits, MInv
<1>1. /\ \A y \in Workers \ {x} : y \in Editing' <=> y \in Editing
      /\ x \in Editing' <=> pc'[x] \in EditSteps
      /\ Editing \subseteq Workers /\ Editing' \subseteq Workers
      /\ \A y \in Editing : on[y] \in Triggers
  BY DEF Editing, EditSteps, RequestSteps, UpdateSteps, IInv, Types
<1>2. /\ \A u \in Triggers \ {t} : u \in tangled' <=> u \in tangled
      /\ \A y \in Editing' \ met' : y # x => y \in Editing \ met /\ on[y] # t
      /\ x \in Editing' \ met' => x \notin met
      /\ x \notin Editing' => x \notin met' /\ (x \in met => t \in tangled')
      /\ boot = "loading" => t \in tangled'
      /\ History'
  <2>1. CASE First(x, t)
    <3>1. x \notin met /\ x \in Editing'
      BY <1>1, <2>1 DEF First, History
    <3>2. CASE EditsOf(t) # {} \/ boot = "loading"
      <4>1. tangled' = tangled \cup {t} /\ met' = met \cup EditsOf(t) \cup {x}
        BY <2>1, <3>2 DEF First, Meets
      <4> QED BY <1>1, <3>1, <4>1 DEF History, EditsOf
    <3>3. CASE EditsOf(t) = {} /\ boot # "loading"
      <4>1. UNCHANGED <<tangled, met>>
        BY <2>1, <3>3 DEF First, Meets
      <4> QED BY <1>1, <3>1, <3>3, <4>1 DEF History, EditsOf
    <3> QED BY <3>2, <3>3
  <2>2. CASE Goes(x)
    BY <1>1, <2>2 DEF Goes, History
  <2>3. CASE Last(x, t)
    BY <1>1, <2>3 DEF Last, History
  <2> QED BY <2>1, <2>2, <2>3
<1>3. ASSUME agentLives PROVE ReadWell'
  <2> SUFFICES ASSUME boot = "loading", NEW u \in Triggers \ tangled'
               PROVE  u \in loaded <=> Loadable(u)'
    BY DEF ReadWell
  <2>1. u # t /\ u \notin tangled
    BY <1>2
  <2> QED BY <1>2, <1>3, <2>1, StaysTrue DEF ReadWell
<1>4. ASSUME agentLives, NEW u \in Triggers \ tangled', EditsOf(u)' = {}
      PROVE  Good(u)'
  <2>1. CASE u = t
    <3>1. x \notin Editing'
      BY <1>1, <1>4, <2>1 DEF EditsOf
    <3> QED BY <1>1, <1>2, <1>4, <2>1, <3>1 DEF Lands
  <2>2. CASE u # t
    <3>1. u \notin tangled /\ EditsOf(u) = {}
      BY <1>1, <1>2, <1>4, <2>2 DEF EditsOf
    <3>2. Good(u)
      BY <1>4, <3>1 DEF Matches
    <3> QED BY <1>2, <2>2, <3>2, StaysTrue
  <2> QED BY <2>1, <2>2
<1>5. ASSUME agentLives, NEW y \in Editing' \ met' PROVE Midway(y, on[y])'
  <2>1. CASE y = x
    BY <1>1, <1>2, <1>5, <2>1 DEF Lands
  <2>2. CASE y # x
    <3>1. y \in Editing \ met /\ on[y] # t /\ on[y] \in Triggers
      BY <1>1, <1>2, <1>5, <2>2
    <3>2. Midway(y, on[y]) /\ UNCHANGED <<pc[y], on[y], seen[y]>>
      BY <1>1, <1>5, <2>2, <3>1 DEF Matches
    <3>3. PICK u \in Triggers : u = on[y]
      BY <3>1
    <3>4. Midway(y, u)'
      BY <1>2, <3>1, <3>2, <3>3, StaysTrue
    <3> QED BY <3>2, <3>3, <3>4
  <2> QED BY <2>1, <2>2
<1> QED BY <1>2, <1>3, <1>4, <1>5 DEF Stands, Matches

(* A step of a fire that edits nothing.                                    *)
LEMMA FireKeepsMatch ==
  ASSUME IInv, MInv, NEW f \in Workers,
         f \notin Editing, f \notin Editing',
         UNCHANGED <<dbVars, cron, bootVars, tangled>>, met' = met \ {f},
         \A y \in Workers \ {f} : UNCHANGED <<pc[y], on[y], seen[y]>>
  PROVE  Stands
<1> USE DEF MInv, dbVars, bootVars
<1>1. /\ Editing' = Editing /\ \A y \in Editing : y \in Workers \ {f}
      /\ met' = met
      /\ \A u : EditsOf(u)' = EditsOf(u)
      /\ \A y \in Editing : on[y] \in Triggers
  <2>1. /\ Editing' = Editing /\ \A y \in Editing : y \in Workers \ {f}
        /\ \A y \in Editing : on[y] \in Triggers
    BY DEF Editing, RequestSteps, UpdateSteps, IInv, Types
  <2> QED BY <2>1 DEF History, EditsOf
<1>2. \A u \in Triggers : /\ Good(u)' <=> Good(u)
                          /\ Loadable(u)' <=> Loadable(u)
                          /\ \A y \in Editing : Midway(y, u) => Midway(y, u)'
  BY <1>1, StaysTrue
<1>3. agentLives => Matches'
  <2> SUFFICES ASSUME agentLives, NEW y \in Editing \ met PROVE Midway(y, on[y])'
    BY <1>1, <1>2 DEF Matches
  <2>1. PICK u \in Triggers : u = on[y] /\ u = on'[y]
    BY <1>1
  <2>2. Midway(y, u)'
    BY <1>2, <2>1 DEF Matches
  <2> QED BY <2>1, <2>2
<1>4. History' /\ (agentLives => ReadWell')
  BY <1>1, <1>2 DEF History, ReadWell
<1> QED BY <1>3, <1>4 DEF Stands
-----------------------------------------------------------------------------
(* The jobs that scheduling and stopping leave behind.                     *)
LEMMA JobsHeld ==
  ASSUME NEW c \in Jobs
  PROVE  /\ scheduleCron(c).held /\ ~unscheduleCron(c).held
         /\ \A r : JobAfterUpdate(c, r).held <=> r = "on"
         /\ \A r : r = "on" => scheduleFromWorkflow(c, r).held
         /\ \A s : (c.held => s.had) =>
              (JobAfterPut(c, s).held <=> s.workflow = "on" /\ s.row = "on")
<1>1. \A d : scheduleCron(d).held
  BY DEF scheduleCron
<1>2. \A d : ~unscheduleCron(d).held
  BY DEF unscheduleCron
<1> QED BY <1>1, <1>2 DEF JobAfterUpdate, scheduleFromWorkflow, JobAfterPut

(* The next step of the request that has a trigger.                        *)
LEMMA RequestMatches ==
  ASSUME IInv, MInv, NEW q \in Requests, RequestStep(q)
  PROVE  Stands
<1>1. /\ q \in Workers /\ pc[q] \in RequestSteps /\ pc[q] # "idle" /\ q \in Editing
  BY DEF Workers, RequestSteps, RequestStep, ScheduleCreated, InsertTrigger, ScheduleNew,
         DeleteRow, PutWrite, PutKind, PutRereadWorkflow, PutRereadTrigger, PutSync,
         DropTriggers, DropWorkflow, DropJob, At, Editing
<1>2. on[q] \in Triggers
  BY <1>1 DEF IInv, Types
<1>3. PICK t \in Triggers : t = on[q]
  BY <1>2
<1>4. t = on[q] /\ t # NoTrigger /\ cron[t] \in Jobs /\ Types /\ MoreTypes
  BY <1>3, CronAssumption DEF IInv, Types, MInv
<1>5. Edits(q, t)
  <2>1. UNCHANGED <<agentLives, boot, loaded>>
    BY DEF RequestStep, ScheduleCreated, InsertTrigger, ScheduleNew, DeleteRow, PutWrite,
           PutKind, PutRereadWorkflow, PutRereadTrigger, PutSync, DropTriggers,
           DropWorkflow, DropJob, dbVars, bootVars
  <2>2. /\ \A y \in Workers \ {q} : UNCHANGED <<pc[y], on[y], seen[y]>>
        /\ pc'[q] \in EditSteps => on'[q] = t
    BY <1>4
       DEF Types, MoreTypes, RequestStep, ScheduleCreated, InsertTrigger, ScheduleNew,
           DeleteRow, PutWrite, PutKind, PutRereadWorkflow, PutRereadTrigger, PutSync,
           DropTriggers, DropWorkflow, DropJob, Goto, Return, Settle, Leave, EditSteps,
           RequestSteps, UpdateSteps
  <2>3. /\ \A u \in Triggers \ {t} : UNCHANGED <<row[u], cron[u]>>
        /\ \A u \in OfWorkflow \ {t} : UNCHANGED workflow[u]
    BY <1>4
       DEF Types, MoreTypes, RequestStep, ScheduleCreated, InsertTrigger, ScheduleNew,
           DeleteRow, PutWrite, PutKind, PutRereadWorkflow, PutRereadTrigger, PutSync,
           DropTriggers, DropWorkflow, DropJob, Drop, SetJob, dbVars
  <2>4. \/ pc'[q] \in EditSteps /\ UNCHANGED <<tangled, met>>
        \/ pc'[q] = "idle" /\ Return(q)
        \/ pc'[q] = "idle" /\ Settle(q)
    BY <1>1, <1>4
       DEF Types, RequestStep, ScheduleCreated, InsertTrigger, ScheduleNew, DeleteRow,
           PutWrite, PutKind, PutRereadWorkflow, PutRereadTrigger, PutSync, DropTriggers,
           DropWorkflow, DropJob, Goto, Return, Settle, Leave, EditSteps, RequestSteps,
           UpdateSteps
  <2>5. Goes(q) \/ Last(q, t)
    BY <1>1, <1>4, <2>4
       DEF Goes, Last, Return, Settle, Leave, EditSteps, RequestSteps, UpdateSteps
  <2> QED BY <1>1, <1>4, <2>1, <2>2, <2>3, <2>5 DEF Edits
<1>6. "idle" \notin EditSteps /\ \A p \in RequestSteps : p \in EditSteps
  BY DEF EditSteps, RequestSteps, UpdateSteps
<1>7. ASSUME agentLives, q \notin met PROVE Lands(q, t)
  <2> USE DEF Goto, Return, Settle, Leave, SetJob, dbVars
  <2>1. Midway(q, t)
    BY <1>1, <1>4, <1>7 DEF MInv, Matches
  <2>2. CASE ScheduleCreated(q) \/ ScheduleNew(q)
    <3>1. /\ pc'[q] = "idle" /\ UNCHANGED <<row, workflow>>
          /\ \/ cron'[t] = scheduleCron(cron[t])
             \/ cron'[t] = scheduleFromWorkflow(cron[t], "on")
      BY <1>1, <1>4, <2>2 DEF ScheduleCreated, ScheduleNew, Types
    <3>2. row[t] = "on"
      BY <1>4, <2>1, <2>2 DEF ScheduleCreated, ScheduleNew, At, Midway
    <3> QED BY <1>4, <1>6, <3>1, <3>2, JobsHeld DEF Lands, Good
  <2>3. CASE InsertTrigger(q)
    <3>1. t \in OfWorkflow /\ row[t] = "new" /\ (t \in tangled \/ ~cron[t].held)
      BY <1>4, <2>1, <2>3 DEF InsertTrigger, At, Midway
    <3>2. /\ UNCHANGED <<cron, tangled>>
          /\ \/ pc'[q] = "scheduleNew" /\ row'[t] = "on"
             \/ pc'[q] = "idle" /\ row'[t] = "new"
      BY <1>1, <1>4, <2>3, <3>1 DEF InsertTrigger, Types
    <3> QED BY <1>4, <1>6, <3>1, <3>2
            DEF Lands, Good, Loadable, Midway, RequestSteps, PutSteps, DropSteps
  <2>4. CASE DeleteRow(q)
    <3>1. pc'[q] = "idle" /\ ~cron[t].held /\ UNCHANGED cron /\ row'[t] # "on"
      BY <1>1, <1>4, <2>1, <2>4 DEF DeleteRow, Drop, Exists, At, Midway, Types
    <3> QED BY <1>4, <1>6, <3>1 DEF Lands, Good, Loadable
  <2>5. ASSUME NEW e \in {"on", "off"}, NEW s \in {"putKind", "putWorkflow"},
               PutWrite(q, e, s)
        PROVE  Lands(q, t)
    <3>1. /\ t \in OfWorkflow /\ (cron[t].held => seen[q].had \/ t \in tangled)
          /\ t \in tangled \/ Good(t)
      BY <1>4, <2>1, <2>5 DEF PutWrite, At, Midway, PutSteps
    <3>2. UNCHANGED <<row, cron, tangled, boot>>
      BY <2>5 DEF PutWrite, bootVars
    <3>3. CASE pc'[q] = s /\ workflow'[t] = e /\ seen'[q] = seen[q]
      BY <1>4, <1>6, <3>1, <3>2, <3>3 
            DEF Lands, Midway, PutSteps, DropSteps, Exists, RequestSteps
    <3>4. CASE pc'[q] = "idle" /\ workflow'[t] = workflow[t]
      BY <1>4, <1>6, <3>1, <3>2, <3>4 DEF Lands, Good, Loadable
    <3> QED BY <1>1, <1>4, <2>5, <3>1, <3>3, <3>4 DEF PutWrite, Types, MoreTypes
  <2>6. CASE PutKind(q)
    <3>1. /\ t \in OfWorkflow /\ Exists(workflow[t])
          /\ cron[t].held => seen[q].had \/ t \in tangled
      BY <1>4, <2>1, <2>6 DEF PutKind, At, Midway, PutSteps
    <3>2. pc'[q] = "putWorkflow" /\ UNCHANGED <<seen, cron, workflow, tangled>>
      BY <1>1, <1>4, <2>6, <3>1 DEF PutKind, Types
    <3> QED BY <3>1, <3>2 DEF Lands, Midway, EditSteps, RequestSteps, PutSteps, DropSteps
  <2>7. CASE PutRereadWorkflow(q)
    <3>1. /\ t \in OfWorkflow /\ Exists(workflow[t])
          /\ cron[t].held => seen[q].had \/ t \in tangled
      BY <1>4, <2>1, <2>7 DEF PutRereadWorkflow, At, Midway, PutSteps
    <3>2. /\ pc'[q] = "putTrigger" /\ UNCHANGED <<cron, workflow, tangled>>
          /\ seen'[q].had = seen[q].had /\ seen'[q].workflow = workflow[t]
      BY <1>1, <1>4, <2>7, <3>1 DEF PutRereadWorkflow, Types, MoreTypes
    <3> QED BY <3>1, <3>2 DEF Lands, Midway, EditSteps, RequestSteps, PutSteps, DropSteps
  <2>8. CASE PutRereadTrigger(q)
    <3>1. /\ t \in OfWorkflow /\ Exists(workflow[t])
          /\ cron[t].held => seen[q].had \/ t \in tangled
          /\ seen[q].workflow = workflow[t]
      BY <1>4, <2>1, <2>8 DEF PutRereadTrigger, At, Midway, PutSteps
    <3>2. /\ pc'[q] = "putSync" /\ UNCHANGED <<row, cron, workflow, tangled>>
          /\ seen'[q].had = seen[q].had /\ seen'[q].workflow = seen[q].workflow
          /\ seen'[q].row = row[t]
      BY <1>1, <1>4, <2>8, <3>1 DEF PutRereadTrigger, Types, MoreTypes
    <3> QED BY <3>1, <3>2 DEF Lands, Midway, EditSteps, RequestSteps, PutSteps, DropSteps
  <2>9. CASE PutSync(q)
    <3>1. /\ t \in OfWorkflow /\ (cron[t].held => seen[q].had \/ t \in tangled)
          /\ seen[q].workflow = workflow[t] /\ seen[q].row = row[t]
      BY <1>4, <2>1, <2>9 DEF PutSync, At, Midway, PutSteps
    <3>2. /\ pc'[q] = "idle" /\ UNCHANGED <<row, workflow>>
          /\ cron'[t] = JobAfterPut(cron[t], seen[q])
          /\ ~seen[q].had => UNCHANGED tangled
      BY <1>1, <1>4, <2>9 DEF PutSync, Types
    <3>3. CASE cron[t].held => seen[q].had
      <4>1. cron'[t].held <=> workflow[t] = "on" /\ row[t] = "on"
        BY <1>4, <3>1, <3>2, <3>3, JobsHeld
      <4> QED BY <1>4, <1>6, <3>1, <3>2, <4>1 DEF Lands, Good, Loadable
    <3>4. CASE ~seen[q].had /\ t \in tangled
      BY <1>6, <3>2, <3>4 DEF Lands
    <3> QED BY <3>1, <3>3, <3>4
  <2>10. CASE DropTriggers(q)
    <3>1. /\ t \in OfWorkflow /\ Exists(workflow[t])
          /\ cron[t].held => seen[q].had \/ t \in tangled
      BY <1>4, <2>1, <2>10 DEF DropTriggers, At, Midway, PutSteps, DropSteps
    <3>2. /\ pc'[q] = "dropWorkflow" /\ row'[t] # "on"
          /\ UNCHANGED <<seen, cron, workflow, tangled>>
      BY <1>1, <1>4, <2>10 DEF DropTriggers, Drop, Exists, Types
    <3> QED BY <3>1, <3>2 DEF Lands, Midway, EditSteps, RequestSteps, PutSteps, DropSteps
  <2>11. CASE DropWorkflow(q)
    <3>1. /\ t \in OfWorkflow /\ Exists(workflow[t])
          /\ cron[t].held => seen[q].had \/ t \in tangled
          /\ row[t] # "on"
      BY <1>4, <2>1, <2>11 DEF DropWorkflow, At, Midway, PutSteps, DropSteps
    <3>2. pc'[q] = "dropJob" /\ UNCHANGED <<seen, cron, row, tangled>>
      BY <1>1, <1>4, <2>11, <3>1 DEF DropWorkflow, Types
    <3> QED BY <3>1, <3>2 DEF Lands, Midway, EditSteps, RequestSteps, PutSteps, DropSteps
  <2>12. CASE DropJob(q)
    <3>1. (cron[t].held => seen[q].had \/ t \in tangled) /\ row[t] # "on"
      BY <1>4, <2>1, <2>12 DEF DropJob, At, Midway, PutSteps, DropSteps
    <3>2. /\ pc'[q] = "idle" /\ UNCHANGED row
          /\ cron'[t] = IF seen[q].had THEN unscheduleCron(cron[t]) ELSE cron[t]
          /\ ~seen[q].had => UNCHANGED tangled
      BY <1>1, <1>4, <2>12 DEF DropJob, Types
    <3> QED BY <1>4, <1>6, <3>1, <3>2, JobsHeld DEF Lands, Good, Loadable
  <2> QED BY <2>2, <2>3, <2>4, <2>5, <2>6, <2>7, <2>8, <2>9, <2>10, <2>11, <2>12
          DEF RequestStep
<1> QED BY <1>1, <1>4, <1>5, <1>7, EditKeeps

(* An update reads again what it wrote, and a fire that failed too often   *)
(* disables its trigger like an update would.                              *)
LEMMA UpdateMatches ==
  ASSUME IInv, MInv, NEW x \in Workers,
         UpdateStep(x) \/ FireFailsForGood(x) \/ Disable(x)
  PROVE  Stands
<1> USE DEF Goto, Settle, Return, Leave, SetJob, At, dbVars, bootVars
<1>1. /\ pc[x] # "idle" /\ (FireFailsForGood(x) <=> x \notin Editing)
      /\ x \in Editing => pc[x] \in UpdateSteps
  BY DEF UpdateStep, Reread, SyncUpdate, Disable, FireFailsForGood, Editing, UpdateSteps,
         RequestSteps
<1>2. on[x] \in Triggers
  BY <1>1 DEF IInv, Types
<1>3. PICK t \in Triggers : t = on[x]
  BY <1>2
<1>4. t = on[x] /\ t # NoTrigger /\ cron[t] \in Jobs /\ Types /\ MoreTypes
  BY <1>3, CronAssumption DEF IInv, Types, MInv
<1>5. Edits(x, t)
  <2>1. UNCHANGED <<agentLives, boot, loaded, workflow>>
    BY DEF UpdateStep, Reread, SyncUpdate, FireFailsForGood, Disable
  <2>2. /\ \A y \in Workers \ {x} : UNCHANGED <<pc[y], on[y], seen[y]>>
        /\ pc'[x] \in EditSteps => on'[x] = t
    BY <1>4 DEF Types, MoreTypes, UpdateStep, Reread, SyncUpdate, FireFailsForGood,
                Disable, EditSteps, RequestSteps, UpdateSteps
  <2>3. \A u \in Triggers \ {t} : UNCHANGED <<row[u], cron[u]>>
    BY <1>4 DEF Types, UpdateStep, Reread, SyncUpdate, FireFailsForGood, Disable,
                WriteEnabled
  <2>4. "idle" \notin EditSteps /\ \A p \in UpdateSteps : p \in EditSteps
    BY DEF EditSteps, RequestSteps, UpdateSteps
  <2>5. First(x, t) \/ Goes(x) \/ Last(x, t)
    <3>1. CASE FireFailsForGood(x)
      <4>1. pc'[x] = "disable" /\ Meets(x, t)
        BY <1>4, <3>1 DEF FireFailsForGood, Types
      <4> QED BY <1>1, <2>4, <3>1, <4>1 DEF First, UpdateSteps
    <3>2. CASE Disable(x)
      <4>1. pc'[x] = "reread" /\ UNCHANGED <<tangled, met>>
        BY <1>4, <3>2 DEF Disable, Types
      <4> QED BY <2>4, <3>2, <4>1 DEF Goes, Disable, Editing, UpdateSteps
    <3>3. CASE Reread(x)
      <4>1. \/ pc'[x] = "sync" /\ UNCHANGED <<tangled, met>>
            \/ pc'[x] = "idle" /\ met' = met \ {x} /\ UNCHANGED tangled
        BY <1>4, <3>3 DEF Reread, Types
      <4> QED BY <2>4, <3>3, <4>1 DEF Goes, Last, Reread, Editing, UpdateSteps
    <3>4. CASE SyncUpdate(x)
      <4>1. /\ pc'[x] = "idle" /\ met' = met \ {x}
            /\ UNCHANGED tangled \/ (x \notin met /\ tangled' = tangled \ {t})
        BY <1>4, <3>4 DEF SyncUpdate, Types
      <4> QED BY <2>4, <3>4, <4>1 DEF Last, SyncUpdate, Editing, UpdateSteps
    <3> QED BY <3>1, <3>2, <3>3, <3>4 DEF UpdateStep
  <2> QED BY <1>1, <1>4, <2>1, <2>2, <2>3, <2>5 DEF Edits
<1>6. "idle" \notin EditSteps /\ \A p \in UpdateSteps : p \in EditSteps
  BY DEF EditSteps, RequestSteps, UpdateSteps
<1>7. ASSUME agentLives, x \notin met PROVE Lands(x, t)
  <2>1. CASE FireFailsForGood(x)
    <3>1. pc'[x] = "disable" /\ cron'[t] = unscheduleCron(cron[t])
      BY <1>4, <2>1 DEF FireFailsForGood, Types
    <3>2. ~cron'[t].held
      BY <1>4, <3>1, JobsHeld
    <3> QED BY <1>6, <3>1, <3>2 DEF Lands, Midway, UpdateSteps, PutSteps, DropSteps
  <2>2. ASSUME pc[x] \in UpdateSteps PROVE Midway(x, t)
    BY <1>4, <1>7, <2>2 DEF MInv, Matches, Editing
  <2>3. CASE Disable(x)
    <3>1. ~cron[t].held
      BY <2>2, <2>3 DEF Disable, UpdateSteps, Midway
    <3>2. pc'[x] = "reread" /\ UNCHANGED cron
      BY <1>4, <2>3 DEF Disable, Types
    <3> QED BY <1>6, <3>1, <3>2 DEF Lands, Midway, UpdateSteps, PutSteps, DropSteps
  <2>4. CASE Reread(x)
    <3>1. Exists(row[t]) \/ ~cron[t].held
      BY <2>2, <2>4 DEF Reread, UpdateSteps, Midway
    <3>2. /\ UNCHANGED <<row, cron>>
          /\ IF Exists(row[t]) THEN pc'[x] = "sync" /\ seen'[x].row = row[t]
             ELSE pc'[x] = "idle"
      BY <1>4, <2>4 DEF Reread, Types, MoreTypes
    <3> QED BY <1>6, <3>1, <3>2
            DEF Lands, Good, Loadable, Exists, Midway, UpdateSteps, PutSteps, DropSteps
  <2>5. CASE SyncUpdate(x)
    <3>1. Exists(row[t]) /\ seen[x].row = row[t]
      BY <2>2, <2>5 DEF SyncUpdate, UpdateSteps, Midway
    <3>2. /\ pc'[x] = "idle" /\ UNCHANGED row
          /\ cron'[t] = JobAfterUpdate(cron[t], seen[x].row)
      BY <1>4, <2>5 DEF SyncUpdate, Types
    <3>3. cron'[t].held <=> row[t] = "on"
      BY <1>4, <3>1, <3>2, JobsHeld
    <3> QED BY <1>6, <3>2, <3>3 DEF Lands, Good, Loadable
  <2> QED BY <2>1, <2>3, <2>4, <2>5 DEF UpdateStep
<1> QED BY <1>4, <1>5, <1>7, EditKeeps

(* A request begins: if nobody edits its trigger, that matches its job.    *)
LEMMA BeginMatches ==
  ASSUME IInv, MInv, NEW q \in Requests, NEW t \in Triggers, NewRequest(q, t)
  PROVE  Stands
<1> USE DEF Begin, dbVars, bootVars, SetJob
<1>1. /\ q \in Workers /\ pc[q] = "idle" /\ q \notin Editing /\ Meets(q, t)
      /\ Types /\ MoreTypes /\ cron[t] \in Jobs
  BY DEF Workers, NewRequest, Create, CreateWorkflow, Update, Delete, ReadWorkflow, IInv,
         Types, MInv, Editing, RequestSteps, UpdateSteps
<1>2. \A p \in RequestSteps \cup UpdateSteps : p \in EditSteps
  BY DEF EditSteps
<1>3. Edits(q, t)
  <2>1. UNCHANGED <<agentLives, boot, loaded>>
    BY DEF NewRequest, Create, CreateWorkflow, Update, Delete, ReadWorkflow
  <2>2. /\ \A y \in Workers \ {q} : UNCHANGED <<pc[y], on[y], seen[y]>>
        /\ on'[q] = t /\ pc'[q] \in RequestSteps \cup UpdateSteps
    BY <1>1 DEF Types, MoreTypes, NewRequest, Create, CreateWorkflow, Update, Delete,
                ReadWorkflow, RequestSteps, UpdateSteps
  <2>3. /\ \A u \in Triggers \ {t} : UNCHANGED <<row[u], cron[u]>>
        /\ \A u \in OfWorkflow \ {t} : UNCHANGED workflow[u]
    BY <1>1 DEF Types, MoreTypes, NewRequest, Create, CreateWorkflow, Update, Delete,
                ReadWorkflow, WriteEnabled
  <2> QED BY <1>1, <1>2, <2>1, <2>2, <2>3 DEF Edits, First
<1>4. ASSUME agentLives, q \notin met' PROVE Lands(q, t)
  <2>1. (t \in tangled \/ Good(t)) /\ UNCHANGED tangled
    <3>1. EditsOf(t) = {} /\ UNCHANGED tangled
      BY <1>1, <1>4 DEF Meets
    <3> QED BY <1>4, <3>1 DEF MInv, Matches
  <2> USE DEF Lands, Midway, RequestSteps, UpdateSteps, PutSteps, DropSteps
  <2>2. CASE Create(q, t)
    <3>1. pc'[q] = "scheduleCron" /\ row'[t] = "on"
      BY <1>1, <2>2 DEF Create, Types
    <3> QED BY <1>2, <3>1
  <2>3. ASSUME NEW e \in {"on", "off"}, CreateWorkflow(q, t, e) PROVE Lands(q, t)
    <3>1. pc'[q] = "insertTrigger" /\ t \in OfWorkflow /\ UNCHANGED <<row, cron>>
      BY <1>1, <2>3 DEF CreateWorkflow, Types
    <3>2. row[t] = "new"
      BY <2>3, <3>1 DEF CreateWorkflow, MInv, NewOnes
    <3> QED BY <1>2, <2>1, <3>1, <3>2 DEF Good
  <2>4. ASSUME NEW e \in {"on", "off"}, Update(q, t, e) PROVE Lands(q, t)
    <3>1. pc'[q] = "reread" /\ row'[t] = e
      BY <1>1, <2>4 DEF Update, WriteEnabled, Types
    <3> QED BY <1>2, <3>1 DEF Exists
  <2>5. CASE Delete(q, t)
    <3>1. pc'[q] = "deleteRow" /\ cron'[t] = unscheduleCron(cron[t])
      BY <1>1, <2>5 DEF Delete, Types
    <3>2. ~cron'[t].held
      BY <1>1, <3>1, JobsHeld
    <3> QED BY <1>2, <3>1, <3>2
  <2>6. ASSUME NEW s \in {"putWrite", "dropTriggers"}, ReadWorkflow(q, t, s)
        PROVE  Lands(q, t)
    <3>1. /\ pc'[q] = s /\ t \in OfWorkflow /\ Exists(workflow[t])
          /\ UNCHANGED <<row, workflow, cron, boot>>
          /\ seen'[q].had = Exists(row[t])
      BY <1>1, <2>6 DEF ReadWorkflow, Types, MoreTypes
    <3>2. cron[t].held => seen'[q].had \/ t \in tangled
      BY <2>1, <3>1 DEF Good, Exists
    <3> QED BY <1>2, <2>1, <3>1, <3>2 DEF Good, Loadable
  <2> QED BY <2>2, <2>3, <2>4, <2>5, <2>6 DEF NewRequest
<1> QED BY <1>1, <1>3, <1>4, EditKeeps
-----------------------------------------------------------------------------
(* The rows of workflows, and what is read of them.                        *)
Seen == [had : BOOLEAN, workflow : Rows, row : Rows]

LEMMA SeenStep == IInv /\ MoreTypes /\ [Next]_vars => seen' \in [Workers -> Seen]
<1> SUFFICES ASSUME IInv, MoreTypes, [Next]_vars PROVE seen' \in [Workers -> Seen]
  OBVIOUS
<1> USE DEF MoreTypes, Seen
<1>1. Unseen \in Seen
  BY DEF Unseen, Rows
<1>2. ASSUME NEW x \in Workers,
             \/ x \in Requests /\ \/ RequestStep(x)
                                  \/ \E t \in Triggers : NewRequest(x, t)
             \/ UpdateStep(x)
             \/ x \in Fires /\ (FireStep(x) \/ \E t \in Triggers : Tick(x, t))
      PROVE  \/ UNCHANGED seen
             \/ \E r \in Seen : seen' = [seen EXCEPT ![x] = r]
  <2> USE DEF Begin, At, Return, Settle
  <2>1. CASE Leave(x)
    BY <1>1, <2>1 DEF Leave
  <2>2. ASSUME NEW t \in Triggers, NewRequest(x, t) PROVE UNCHANGED seen \/
               \E b \in BOOLEAN : seen' = [seen EXCEPT ![x].had = b]
    <3>1. CASE \E s \in {"putWrite", "dropTriggers"} : ReadWorkflow(x, t, s)
      <4>1. seen' = [seen EXCEPT ![x].had = Exists(row[t])]
        BY <3>1 DEF ReadWorkflow
      <4>2. Exists(row[t]) \in BOOLEAN
        BY DEF Exists
      <4> QED BY <4>1, <4>2
    <3>2. CASE ~\E s \in {"putWrite", "dropTriggers"} : ReadWorkflow(x, t, s)
      BY <2>2, <3>2 DEF NewRequest, Create, CreateWorkflow, Update, Delete
    <3> QED BY <3>1, <3>2
  <2>3. ASSUME PutRereadWorkflow(x) PROVE Leave(x) \/
               \E r \in Rows : seen' = [seen EXCEPT ![x].workflow = r]
    BY <2>3 DEF PutRereadWorkflow, Exists, Rows
  <2>4. ASSUME PutRereadTrigger(x) \/ Reread(x) PROVE Leave(x) \/
               \E r \in Rows : seen' = [seen EXCEPT ![x].row = r]
    <3>1. on[x] \in Triggers
      BY <2>4 DEF PutRereadTrigger, Reread, IInv, Types
    <3>2. row[on[x]] \in Rows
      BY <3>1 DEF IInv, Types
    <3> QED BY <2>4, <3>2 DEF PutRereadTrigger, Reread
  <2>5. ASSUME RequestStep(x), ~PutRereadWorkflow(x), ~PutRereadTrigger(x)
        PROVE  UNCHANGED seen \/ Leave(x)
    BY <2>5 DEF RequestStep, ScheduleCreated, InsertTrigger, ScheduleNew, DeleteRow,
                PutWrite, PutKind, PutSync, DropTriggers, DropWorkflow, DropJob
  <2>6. ASSUME \/ SyncUpdate(x) \/ FireStep(x) \/ \E t \in Triggers : Tick(x, t)
        PROVE  UNCHANGED seen \/ Leave(x)
    BY <2>6 DEF SyncUpdate, FireStep, FireSucceeds, FireFails, FireFailsForGood, Disable,
                Tick
  <2>7. seen[x] \in Seen
    OBVIOUS
  <2>8. /\ \A b \in BOOLEAN : [seen[x] EXCEPT !.had = b] \in Seen
        /\ \A r \in Rows : [seen[x] EXCEPT !.workflow = r] \in Seen
        /\ \A r \in Rows : [seen[x] EXCEPT !.row = r] \in Seen
    BY <2>7
  <2> QED BY <1>2, <2>1, <2>2, <2>3, <2>4, <2>5, <2>6, <2>8 DEF UpdateStep
<1>3. CASE DeleteAgent \/ Restart \/ LoadQuery \/ LoadAll \/ UNCHANGED vars
  BY <1>1, <1>3 DEF DeleteAgent, Restart, LoadQuery, LoadAll, vars, callVars
<1> HIDE DEF Seen
<1>4. CASE \E x \in Workers : \/ UNCHANGED seen
                              \/ \E r \in Seen : seen' = [seen EXCEPT ![x] = r]
  BY <1>4 DEF Seen
<1> QED BY <1>2, <1>3, <1>4 DEF Next, Workers

(* Workflows are never taken back to 'new', and one that was never created *)
(* has no trigger.                                                         *)
LEMMA WorkflowsStep ==
  Types /\ MoreTypes /\ NewOnes /\ [Next]_vars =>
    workflow' \in [OfWorkflow -> Rows] /\ NewOnes'
<1> SUFFICES ASSUME Types, MoreTypes, NewOnes, [Next]_vars
             PROVE  workflow' \in [OfWorkflow -> Rows] /\ NewOnes'
  OBVIOUS
<1> DEFINE Kept == workflow' \in [OfWorkflow -> Rows] /\ NewOnes'
           StaysNew == \A u \in OfWorkflow : row[u] = "new" => row'[u] = "new"
<1> USE DEF Types
<1>1. workflow \in [OfWorkflow -> Rows] /\ OfWorkflow \subseteq Triggers
  BY CronAssumption DEF MoreTypes
<1>2. ASSUME UNCHANGED workflow, StaysNew PROVE Kept
  BY <1>1, <1>2 DEF NewOnes
<1>3. ASSUME UNCHANGED row, NEW t, NEW v \in Rows \ {"new"},
             workflow' = [workflow EXCEPT ![t] = v]
      PROVE  Kept
  <2>1. /\ workflow' \in [OfWorkflow -> Rows]
        /\ \A u \in OfWorkflow : workflow'[u] = "new" => workflow[u] = "new"
    BY <1>1, <1>3
  <2> QED BY <1>3, <2>1 DEF NewOnes
<1>4. ASSUME NEW q \in Requests, NEW t \in Triggers, NewRequest(q, t) PROVE Kept
  <2>1. CASE Create(q, t)
    <3>1. UNCHANGED workflow /\ StaysNew
      BY <2>1 DEF Create, Standalone
    <3> QED BY <1>2, <3>1
  <2>2. ASSUME NEW e \in {"on", "off"}, CreateWorkflow(q, t, e) PROVE Kept
    <3>1. UNCHANGED row /\ workflow' = [workflow EXCEPT ![t] = e] /\ e \in Rows \ {"new"}
      BY <2>2 DEF CreateWorkflow, Rows
    <3> QED BY <1>3, <3>1
  <2>3. ASSUME NEW e \in {"on", "off"}, Update(q, t, e) PROVE Kept
    <3>1. UNCHANGED workflow /\ StaysNew
      BY <2>3 DEF Update, WriteEnabled, Exists
    <3> QED BY <1>2, <3>1
  <2>4. ASSUME \/ Delete(q, t)
               \/ \E s \in {"putWrite", "dropTriggers"} : ReadWorkflow(q, t, s)
        PROVE  Kept
    <3>1. UNCHANGED <<row, workflow>>
      BY <2>4 DEF Delete, ReadWorkflow, dbVars
    <3> QED BY <1>2, <3>1
  <2> QED BY <1>4, <2>1, <2>2, <2>3, <2>4 DEF NewRequest
<1>5. ASSUME NEW q \in Requests, RequestStep(q) PROVE Kept
  <2>1. CASE InsertTrigger(q)
    <3>1. CASE Exists(workflow[on[q]])
      <4>1. /\ UNCHANGED workflow /\ workflow[on[q]] # "new"
            /\ row' = [row EXCEPT ![on[q]] = "on"]
        BY <2>1, <3>1 DEF InsertTrigger, Exists
      <4>2. \A u \in OfWorkflow : workflow[u] = "new" => row'[u] = row[u]
        BY <1>1, <4>1
      <4> QED BY <1>1, <4>1, <4>2 DEF NewOnes
    <3>2. CASE ~Exists(workflow[on[q]])
      <4>1. UNCHANGED <<row, workflow>>
        BY <2>1, <3>2 DEF InsertTrigger
      <4> QED BY <1>2, <4>1
    <3> QED BY <3>1, <3>2
  <2>2. ASSUME NEW e \in {"on", "off"}, NEW s \in {"putKind", "putWorkflow"},
               PutWrite(q, e, s)
        PROVE  Kept
    <3>1. /\ UNCHANGED row
          /\ UNCHANGED workflow \/ workflow' = [workflow EXCEPT ![on[q]] = e]
      BY <2>2 DEF PutWrite
    <3>2. e \in Rows \ {"new"}
      BY DEF Rows
    <3> QED BY <1>2, <1>3, <3>1, <3>2
  <2>3. CASE DropWorkflow(q)
    <3>1. /\ UNCHANGED row
          /\ UNCHANGED workflow \/ workflow' = [workflow EXCEPT ![on[q]] = "gone"]
      BY <2>3 DEF DropWorkflow
    <3>2. "gone" \in Rows \ {"new"}
      BY DEF Rows
    <3> QED BY <1>2, <1>3, <3>1, <3>2
  <2>4. CASE DeleteRow(q) \/ PutKind(q) \/ DropTriggers(q)
    <3>1. UNCHANGED workflow /\ Drop(on[q])
      BY <2>4 DEF DeleteRow, PutKind, DropTriggers
    <3>2. StaysNew
      BY <1>1, <3>1 DEF Drop, Exists
    <3> QED BY <1>2, <3>1, <3>2
  <2>5. CASE \/ ScheduleCreated(q) \/ ScheduleNew(q) \/ PutSync(q) \/ DropJob(q)
             \/ PutRereadWorkflow(q) \/ PutRereadTrigger(q)
    <3>1. UNCHANGED <<row, workflow>>
      BY <2>5 DEF ScheduleCreated, ScheduleNew, PutSync, DropJob, PutRereadWorkflow,
                  PutRereadTrigger, dbVars
    <3> QED BY <1>2, <3>1
  <2> QED BY <1>5, <2>1, <2>2, <2>3, <2>4, <2>5 DEF RequestStep
<1>6. ASSUME NEW x, \/ UpdateStep(x) \/ FireStep(x) \/ \E t \in Triggers : Tick(x, t)
      PROVE  Kept
  <2>1. CASE Disable(x)
    <3>1. UNCHANGED workflow /\ WriteEnabled(on[x], "off")
      BY <2>1 DEF Disable
    <3>2. StaysNew
      BY <1>1, <3>1 DEF WriteEnabled, Exists
    <3> QED BY <1>2, <3>1, <3>2
  <2>2. CASE ~Disable(x)
    <3>1. UNCHANGED <<row, workflow>>
      BY <1>6, <2>2 DEF UpdateStep, Reread, SyncUpdate, FireStep, FireSucceeds, FireFails,
                        FireFailsForGood, Tick, dbVars
    <3> QED BY <1>2, <3>1
  <2> QED BY <2>1, <2>2
<1>7. CASE DeleteAgent
  <2>1. workflow' \in [OfWorkflow -> Rows]
    BY <1>1, <1>7 DEF DeleteAgent, Rows
  <2>2. \A u \in OfWorkflow : /\ workflow'[u] = "new" => workflow[u] = "new"
                              /\ row[u] = "new" => row'[u] = "new"
    <3> SUFFICES ASSUME NEW u \in OfWorkflow
                 PROVE  /\ workflow'[u] = "new" => workflow[u] = "new"
                        /\ row[u] = "new" => row'[u] = "new"
      OBVIOUS
    <3>1. /\ workflow'[u] = IF Exists(workflow[u]) THEN "gone" ELSE workflow[u]
          /\ row'[u] = IF Exists(row[u]) THEN "gone" ELSE row[u]
      BY <1>1, <1>7 DEF DeleteAgent
    <3> QED BY <3>1 DEF Exists
  <2> QED BY <2>1, <2>2 DEF NewOnes
<1>8. CASE Restart \/ LoadQuery \/ LoadAll \/ UNCHANGED vars
  <2>1. UNCHANGED <<row, workflow>>
    BY <1>8 DEF Restart, LoadQuery, LoadAll, vars, dbVars
  <2> QED BY <1>2, <2>1
<1> QED BY <1>4, <1>5, <1>6, <1>7, <1>8 DEF Next

(* loadAll: the edits under way meet it, and of the other triggers it      *)
(* schedules those whose rows ask for it.                                  *)
LEMMA LoadMatches == IInv /\ MInv /\ (LoadQuery \/ LoadAll) => Stands
<1> SUFFICES ASSUME IInv, MInv, LoadQuery \/ LoadAll PROVE Stands
  OBVIOUS
<1> USE DEF MInv, dbVars, callVars
<1>1. /\ Editing' = Editing /\ \A t : EditsOf(t)' = EditsOf(t)
      /\ UNCHANGED <<row, workflow, agentLives, pc, on, seen>>
  BY DEF LoadQuery, LoadAll, Editing, EditsOf
<1>2. CASE LoadQuery
  <2>1. /\ boot = "starting" /\ boot' = "loading" /\ UNCHANGED cron
        /\ tangled' = tangled \cup {on[x] : x \in Editing} /\ met' = met \cup Editing
        /\ loaded' = {t \in Triggers : Loadable(t)}
    BY <1>2 DEF LoadQuery
  <2>2. History'
    BY <1>1, <2>1 DEF History
  <2>3. ReadWell'
    BY <1>1, <2>1 DEF ReadWell, Loadable
  <2>4. ASSUME agentLives, NEW t \in Triggers \ tangled', EditsOf(t)' = {}
        PROVE  Good(t)'
    <3>1. Good(t)
      BY <1>1, <2>1, <2>4 DEF Matches
    <3> QED BY <1>1, <2>1, <3>1 DEF Good
  <2>5. \A x \in Editing' : x \in met'
    BY <1>1, <2>1
  <2> QED BY <1>1, <2>2, <2>3, <2>4, <2>5 DEF Stands, Matches
<1>3. CASE LoadAll
  <2>1. boot = "loading" /\ boot' = "up" /\ UNCHANGED <<tangled, met>>
    BY <1>3 DEF LoadAll
  <2>2. History' /\ Editing \subseteq met
    BY <1>1, <2>1 DEF History
  <2>3. ASSUME agentLives, NEW t \in Triggers \ tangled', EditsOf(t)' = {}
        PROVE  Good(t)'
    <3>1. Good(t) /\ (t \in loaded <=> Loadable(t))
      BY <1>1, <2>1, <2>3 DEF Matches, ReadWell
    <3>2. cron'[t] = IF t \in loaded THEN scheduleCron(cron[t]) ELSE cron[t]
      BY <1>3 DEF LoadAll
    <3> QED BY <1>1, <2>1, <3>1, <3>2 DEF Good, Loadable, scheduleCron
  <2> QED BY <1>1, <2>1, <2>2, <2>3 DEF Stands, Matches, ReadWell
<1> QED BY <1>2, <1>3

LEMMA RestartMatches == IInv /\ Restart => Stands
<1> SUFFICES ASSUME IInv, Restart PROVE Stands
  OBVIOUS
<1>1. /\ Editing' = {} /\ met' = {} /\ boot' = "starting"
      /\ \A t \in Triggers : ~cron'[t].held
  BY DEF Restart, Editing, RequestSteps, UpdateSteps, NoJob
<1> QED BY <1>1 DEF Stands, History, Matches, ReadWell, Good

LEMMA NextMInv == IInv /\ MInv /\ [Next]_vars => MInv'
<1> SUFFICES ASSUME IInv, MInv, [Next]_vars PROVE MInv'
  OBVIOUS
<1>1. Types /\ MoreTypes'
  BY SeenStep, WorkflowsStep DEF IInv, MInv, MoreTypes, Seen
<1>2. NewOnes'
  BY <1>1, WorkflowsStep DEF MInv
<1> SUFFICES Stands
  BY <1>1, <1>2 DEF MInv, Stands
<1>3. ASSUME NEW q \in Requests, RequestStep(q) \/ \E t \in Triggers : NewRequest(q, t)
      PROVE  Stands
  BY <1>3, RequestMatches, BeginMatches
<1>4. ASSUME NEW x \in Workers, UpdateStep(x) \/ FireFailsForGood(x) \/ Disable(x)
      PROVE  Stands
  BY <1>4, UpdateMatches
<1>5. ASSUME NEW f \in Fires,
             FireSucceeds(f) \/ FireFails(f) \/ \E t \in Triggers : Tick(f, t)
      PROVE  Stands
  <2> USE DEF At, Return, Leave
  <2>1. f \in Workers /\ pc[f] \in {"idle", "running", "failing"}
    BY <1>5 DEF Workers, FireSucceeds, FireFails, Tick
  <2>2. pc'[f] \in {"idle", "running", "failing"}
    BY <1>1, <1>5, <2>1 DEF Types, FireSucceeds, FireFails, Tick
  <2>3. f \notin Editing /\ f \notin Editing'
    BY <2>1, <2>2 DEF Editing, RequestSteps, UpdateSteps
  <2>4. f \notin met
    BY <2>3 DEF MInv, History
  <2>5. UNCHANGED <<dbVars, cron, bootVars, tangled>> /\ met' = met \ {f}
    BY <1>5, <2>4 DEF FireSucceeds, FireFails, Tick
  <2>6. \A y \in Workers \ {f} : UNCHANGED <<pc[y], on[y], seen[y]>>
    BY <1>1, <1>5 DEF Types, MInv, MoreTypes, FireSucceeds, FireFails, Tick
  <2> QED BY <2>1, <2>3, <2>5, <2>6, FireKeepsMatch
<1>6. CASE DeleteAgent
  BY <1>6 DEF DeleteAgent, callVars, bootVars, MInv, History, Editing, Stands
<1>7. CASE Restart
  BY <1>7, RestartMatches
<1>8. CASE LoadQuery \/ LoadAll
  BY <1>8, LoadMatches
<1>9. CASE UNCHANGED vars
  <2> USE DEF vars, dbVars, bootVars, callVars
  <2>1. /\ Editing' = Editing /\ \A t : EditsOf(t)' = EditsOf(t)
        /\ UNCHANGED <<agentLives, boot, loaded, tangled, met, on>>
    BY <1>9 DEF Editing, EditsOf
  <2>2. \A t \in Triggers : (Good(t)' <=> Good(t)) /\ (Loadable(t)' <=> Loadable(t))
    BY <1>9 DEF Good, Loadable
  <2>3. \A x, t : Midway(x, t)' <=> Midway(x, t)
    BY <1>9 DEF Midway, Good, Loadable
  <2>4. History' /\ (agentLives => Matches' /\ ReadWell')
    BY <2>1, <2>2, <2>3 DEF MInv, History, Matches, ReadWell
  <2> QED BY <2>1, <2>4 DEF Stands
<1> QED BY <1>3, <1>4, <1>5, <1>6, <1>7, <1>8, <1>9 DEF Next, FireStep, Workers

LEMMA InitMInv == Init => MInv
<1> SUFFICES ASSUME Init PROVE MInv
  OBVIOUS
<1>1. MoreTypes /\ Editing = {}
  BY DEF Init, MoreTypes, Rows, Unseen, Editing, RequestSteps, UpdateSteps
<1>2. \A t \in Triggers : Good(t)
  BY DEF Init, Good, NoJob
<1> QED BY <1>1, <1>2, CronAssumption
        DEF Init, MInv, NewOnes, History, Matches, ReadWell
-----------------------------------------------------------------------------
(* TriggerService.ts 630-692: for any number of triggers, requests, fires  *)
(* and restarts, what is scheduled of a trigger is what its row says when  *)
(* no edit of it is under way, unless edits of it met and none ran alone   *)
(* since.                                                                  *)
THEOREM JobsFollowRows == Spec => []JobsMatchRows
<1>1. IInv /\ MInv => JobsMatchRows
  BY DEF MInv, Matches, Good, JobsMatchRows, AtRest
<1> QED BY InitMInv, NextMInv, Invariance, <1>1, PTL DEF Spec
=============================================================================
