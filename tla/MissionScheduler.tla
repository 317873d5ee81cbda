-------------------------- MODULE MissionScheduler --------------------------
(***************************************************************************)
(* services/MissionSchedulerService.ts and the mission rows it works on    *)
(* (services/MissionService.ts): a sweep wakes the missions that are due,  *)
(* each wake is gated by the budget, claimed by a fallback wake time and   *)
(* run as a turn, whose outcome is counted when it has settled.            *)
(*                                                                         *)
(* The timer starts a sweep whether or not the last one has ended, so a    *)
(* caller of wakeMission is one of several sweeps or an owner's "Run now"; *)
(* a turn is the detached completion handler of a wake.  Each action is    *)
(* the code between two awaits.  A wake time is in the future (later),     *)
(* passed (due, the oldest first) or NULL (neither).  The runtime is what  *)
(* AgentRuntime shows it to be: a spawn starts, is declined or throws, and *)
(* a turn that started ends.  Any other await of a wake or of a completion *)
(* handler may throw, a bounded number of times.                           *)
(***************************************************************************)
EXTENDS Naturals, Sequences, FiniteSets

CONSTANTS
  Missions,
  Sweeps,          \* sweeps that may overlap
  Owners,          \* "Run now" requests that may overlap
  Turns,           \* bound: turns at a time
  WakeBatch,       \* MISSION_WAKE_BATCH
  MaxFailures,     \* MAX_CONSECUTIVE_FAILURES
  MaxTurnsPerDay,  \* the missions' daily turn limit
  MaxCostTotal,    \* their total budget, in units of cost
  OwnerAsks,       \* bound: the statuses that owners' requests may write
  AgentAsks,       \* bound: the requests that agents make
  MaxFaults,       \* bound: restarts of the backend, and database calls of
                   \* a wake that throw
  NoMission

ASSUME SchedulerAssumption ==
  /\ Sweeps \cap Owners = {} /\ Turns \cap (Sweeps \cup Owners) = {}
  /\ WakeBatch \in Nat \ {0}
  /\ MaxFailures \in Nat \ {0}
  /\ MaxTurnsPerDay \in Nat \ {0}
  /\ MaxCostTotal \in Nat \ {0}
  /\ OwnerAsks \subseteq {"active", "paused", "completed"}
  /\ AgentAsks \subseteq {"schedule", "complete"}
  /\ MaxFaults \in Nat
  /\ NoMission \notin Missions

VARIABLES
  status,      \* agent_missions.status
  later, due,  \* next_wake_at: in the future; passed
  failures,    \* consecutive_failures
  turnsToday,  \* turns_today, which counts for none once its date has passed
  costTotal,   \* cost_total
  threads,     \* missions with a thread: their turns act for the mission
  inFlight,    \* missions with a wake in flight
  rows,        \* the rows a caller has read and not yet woken
  pc, mission, \* where each caller and turn is, and its mission
  owner,       \* the status an owner's request on a mission will write
  agent,       \* what the agent's request on its mission will write
  faults,      \* restarts and thrown calls so far
  robbed       \* history: missions of which a running wake lost its mark to
               \* the late failure of an earlier one

wakeVars  == <<later, due>>
countVars == <<failures, turnsToday, costTotal, threads>>
callVars  == <<rows, pc, mission>>
userVars  == <<owner, agent>>
vars == <<status, wakeVars, countVars, inFlight, robbed, callVars, userVars,
          faults>>

Callers == Sweeps \cup Owners
Actors == Callers \cup Turns

Statuses == {"draft", "active", "paused", "completed"}
Positions ==
  {"idle", "waking", "exhausted", "overDaily", "claiming", "recording",
   "spawning", "declined", "running", "completed", "counting", "backoff",
   "judging", "pausing", "reporting", "closing"}
Budgets == {"ok", "total", "daily"}

Goto(a, p) == pc' = [pc EXCEPT ![a] = p]
Due(m) == \E i \in DOMAIN due : due[i] = m
Place(m) == CHOOSE i \in DOMAIN due : due[i] = m
Without(m) ==
  IF Due(m)
    THEN [i \in 1..(Len(due) - 1) |-> due[IF i < Place(m) THEN i ELSE i + 1]]
    ELSE due
HasWake(m) == m \in later \/ Due(m)

(* The next wake time is set to a time to come, or cleared.                *)
SetNextWake(m) == later' = later \cup {m} /\ due' = Without(m)
ClearWake(m) == later' = later \ {m} /\ due' = Without(m)

(* setStatus to anything but 'active' also clears the wake time.           *)
SetStatus(m, s) == status' = [status EXCEPT ![m] = s] /\ ClearWake(m)

TypeOK ==
  /\ status \in [Missions -> Statuses]
  /\ later \subseteq Missions
  /\ due \in Seq(Missions)
  /\ failures \in [Missions -> Nat]
  /\ turnsToday \in [Missions -> Nat]
  /\ costTotal \in [Missions -> 0..MaxCostTotal]
  /\ threads \subseteq Missions
  /\ inFlight \subseteq Missions
  /\ rows \in [Callers -> Seq([mission : Missions, budget : Budgets])]
  /\ pc \in [Actors -> Positions]
  /\ mission \in [Actors -> Missions \cup {NoMission}]
  /\ owner \in [Missions -> OwnerAsks \cup {"none"}]
  /\ agent \in [Missions -> AgentAsks \cup {"none"}]
  /\ faults \in Nat
  /\ robbed \subseteq Missions

Init ==
  /\ status = [m \in Missions |-> "draft"]
  /\ later = {}
  /\ due = <<>>
  /\ failures = [m \in Missions |-> 0]
  /\ turnsToday = [m \in Missions |-> 0]
  /\ costTotal = [m \in Missions |-> 0]
  /\ threads = {}
  /\ inFlight = {}
  /\ rows = [p \in Callers |-> <<>>]
  /\ pc = [a \in Actors |-> "idle"]
  /\ mission = [a \in Actors |-> NoMission]
  /\ owner = [m \in Missions |-> "none"]
  /\ agent = [m \in Missions |-> "none"]
  /\ faults = 0
  /\ robbed = {}

-----------------------------------------------------------------------------
(* Reading the missions to wake.                                           *)

(* What checkBudget will say of a row read now (until the day ends).       *)
Budget(m) ==
  IF costTotal[m] >= MaxCostTotal THEN "total"
  ELSE IF turnsToday[m] >= MaxTurnsPerDay THEN "daily"
  ELSE "ok"

Row(m) == [mission |-> m, budget |-> Budget(m)]

(* listDueMissions: active, due and not in flight, the oldest first.       *)
Wakeable == {m \in Missions : Due(m) /\ status[m] = "active" /\ m \notin inFlight}
NewerThan(m, n) == Place(m) > Place(n)            \* mutant of OlderThan
OlderThan(m, n) == Place(m) < Place(n)
DueBatch(batch) ==
  LET listed == {batch[i] : i \in DOMAIN batch}
  IN  /\ listed \subseteq Wakeable
      /\ \A i, j \in DOMAIN batch : i < j => OlderThan(batch[i], batch[j])
      /\ Wakeable \subseteq listed \/ Len(batch) = WakeBatch
      /\ \A m \in listed, n \in Wakeable \ listed : OlderThan(m, n)

(* The timer fires again long after a query: no sweep has a row just read. *)
Sweep(p) ==
  /\ pc[p] = "idle"
  /\ \A q \in Sweeps : pc[q] # "waking"
  /\ \E n \in 1..WakeBatch : \E batch \in [1..n -> Missions] :
       /\ DueBatch(batch)
       /\ rows' = [rows EXCEPT ![p] = [i \in 1..n |-> Row(batch[i])]]
  /\ Goto(p, "waking")
  /\ UNCHANGED <<status, wakeVars, countVars, inFlight, robbed, mission,
                 userVars, faults>>

WakeNow(p, m) ==
  /\ pc[p] = "idle"
  /\ status[m] = "active"
  /\ Goto(p, "waking")
  /\ rows' = [rows EXCEPT ![p] = <<Row(m)>>]
  /\ UNCHANGED <<status, wakeVars, countVars, inFlight, robbed, mission,
                 userVars, faults>>

-----------------------------------------------------------------------------
(* wakeMission, for the rows of a caller one after the other.              *)

(* The wakes that the mark of their mission in inFlight stands for.        *)
Accounts(a) ==
  pc[a] \in IF a \in Turns THEN Positions \ {"idle"}
                           ELSE {"claiming", "recording", "spawning"}
Shared(a) ==
  \E b \in Actors \ {a} : Accounts(b) /\ mission[b] = mission[a]

(* inFlight.delete by the wake that holds the mark ...                     *)
Unmark(a) ==
  /\ inFlight' = inFlight \ {mission[a]}
  /\ robbed' = IF Shared(a) THEN robbed ELSE robbed \ {mission[a]}

(* ... and by one that gave it up before: another may hold it by now.      *)
UnmarkAgain(a) ==
  /\ inFlight' = inFlight \ {mission[a]}
  /\ robbed' = IF Shared(a) THEN robbed \cup {mission[a]}
                            ELSE robbed \ {mission[a]}

GuardIgnored(m) == FALSE                          \* mutant of InFlightGuard
InFlightGuard(m) == m \in inFlight

(* The guard and the budget gate.  A rejected wake leaves inFlight again   *)
(* in the same step.                                                       *)
WakeMission(p) ==
  /\ pc[p] = "waking"
  /\ rows[p] # <<>>
  /\ rows' = [rows EXCEPT ![p] = Tail(@)]
  /\ LET row == Head(rows[p])
         m == row.mission
     IN  IF InFlightGuard(m)
           THEN UNCHANGED <<inFlight, pc, mission>>
           ELSE /\ mission' = [mission EXCEPT ![p] = m]
                /\ Goto(p, CASE row.budget = "ok" -> "claiming"
                             [] row.budget = "total" -> "exhausted"
                             [] row.budget = "daily" -> "overDaily")
                /\ inFlight' = IF row.budget = "ok" THEN inFlight \cup {m}
                                                    ELSE inFlight
  /\ UNCHANGED <<status, wakeVars, countVars, robbed, userVars, faults>>

(* All rows are done.                                                      *)
CallerEnds(p) ==
  /\ pc[p] = "waking"
  /\ rows[p] = <<>>
  /\ Goto(p, "idle")
  /\ mission' = [mission EXCEPT ![p] = NoMission]
  /\ UNCHANGED <<status, wakeVars, countVars, inFlight, robbed, rows, userVars,
                 faults>>

(* handleBudgetRejection: the mission is paused, or deferred to midnight.  *)
BudgetExhausted(p) ==
  /\ pc[p] = "exhausted"
  /\ Goto(p, "reporting")
  /\ SetStatus(mission[p], "paused")
  /\ UNCHANGED <<countVars, inFlight, robbed, rows, mission, userVars, faults>>

DeferToMidnight(p) ==
  /\ pc[p] = "overDaily"
  /\ Goto(p, "reporting")
  /\ SetNextWake(mission[p])
  /\ UNCHANGED <<status, countVars, inFlight, robbed, rows, mission, userVars,
                 faults>>

(* The journal entry and the owner's notice have been written.             *)
Reported(p) ==
  /\ pc[p] = "reporting"
  /\ Goto(p, "waking")
  /\ UNCHANGED <<status, wakeVars, countVars, inFlight, robbed, rows, mission,
                 userVars, faults>>

(* The provisional claim.                                                  *)
Claim(p) ==
  /\ pc[p] = "claiming"
  /\ Goto(p, "recording")
  /\ SetNextWake(mission[p])
  /\ UNCHANGED <<status, countVars, inFlight, robbed, rows, mission, userVars,
                 faults>>

(* createThread and recordWakeStart, with the daily rollover.              *)
RecordWakeStart(p) ==
  LET m == mission[p] IN
  /\ pc[p] = "recording"
  /\ Goto(p, "spawning")
  /\ turnsToday' = [turnsToday EXCEPT ![m] = @ + 1]
  /\ threads' = threads \cup {m}
  /\ UNCHANGED <<status, wakeVars, failures, costTotal, inFlight, robbed, rows,
                 mission, userVars, faults>>

(* spawnForThread returned true: the completion handler takes over.        *)
Spawned(p, x) ==
  /\ pc[p] = "spawning"
  /\ pc[x] = "idle"
  /\ pc' = [pc EXCEPT ![p] = "waking", ![x] = "running"]
  /\ mission' = [mission EXCEPT ![x] = mission[p]]
  /\ UNCHANGED <<status, wakeVars, countVars, inFlight, robbed, rows, userVars,
                 faults>>

(* It returned false, or threw: the mission leaves inFlight.               *)
DeclineHolds(p) ==                                \* mutant of SpawnDeclined
  /\ pc[p] = "spawning"
  /\ Goto(p, "declined")
  /\ UNCHANGED <<status, wakeVars, countVars, inFlight, robbed, rows, mission,
                 userVars, faults>>
SpawnDeclined(p) ==
  /\ pc[p] = "spawning"
  /\ Goto(p, "declined")
  /\ Unmark(p)
  /\ UNCHANGED <<status, wakeVars, countVars, rows, mission, userVars,
                 faults>>

SpawnThrew(p) ==
  /\ pc[p] = "spawning"
  /\ Goto(p, "waking")
  /\ Unmark(p)
  /\ UNCHANGED <<status, wakeVars, countVars, rows, mission, userVars,
                 faults>>

(* A declined wake is put off by two minutes, then counted as a failure.   *)
DeferDeclined(p) ==
  /\ pc[p] = "declined"
  /\ Goto(p, "counting")
  /\ SetNextWake(mission[p])
  /\ UNCHANGED <<status, countVars, inFlight, robbed, rows, mission, userVars,
                 faults>>

(* An await of wakeMission throws: its catch, and then the sweep's, take   *)
(* the mission out of inFlight, whether or not the wake has done so        *)
(* before.                                                                 *)
GaveUpMark == {"exhausted", "overDaily", "declined", "counting", "judging",
               "pausing", "reporting"}
WakeThrows(p) ==
  /\ faults < MaxFaults
  /\ faults' = faults + 1
  /\ Goto(p, "waking")
  /\ \/ pc[p] \in {"claiming", "recording"} /\ Unmark(p)
     \/ pc[p] \in GaveUpMark /\ UnmarkAgain(p)
  /\ UNCHANGED <<status, wakeVars, countVars, rows, mission, userVars>>

-----------------------------------------------------------------------------
(* The outcome of a wake.                                                  *)

(* The turn ends: completed, in error, or stopped by the owner ('idle').   *)
TurnEnds(x) ==
  /\ pc[x] = "running"
  /\ \E p \in {"completed", "counting", "closing"} : Goto(x, p)
  /\ UNCHANGED <<status, wakeVars, countVars, inFlight, robbed, rows, mission,
                 userVars, faults>>

(* recordTurnResult.                                                       *)
RecordSuccess(x) ==
  /\ pc[x] = "completed"
  /\ Goto(x, "closing")
  /\ failures' = [failures EXCEPT ![mission[x]] = 0]
  /\ UNCHANGED <<status, wakeVars, turnsToday, costTotal, threads,
                 inFlight, robbed, rows, mission, userVars, faults>>

RecordFailure(a) ==
  /\ pc[a] = "counting"
  /\ Goto(a, IF a \in Turns THEN "backoff" ELSE "judging")
  /\ failures' = [failures EXCEPT ![mission[a]] = @ + 1]
  /\ UNCHANGED <<status, wakeVars, turnsToday, costTotal, threads,
                 inFlight, robbed, rows, mission, userVars, faults>>

ApplyFailureBackoff(x) ==
  /\ pc[x] = "backoff"
  /\ Goto(x, "judging")
  /\ SetNextWake(mission[x])
  /\ UNCHANGED <<status, countVars, inFlight, robbed, rows, mission, userVars,
                 faults>>

(* maybeAutoPause reads the row, and pauses the mission later.             *)
After(a) == IF a \in Turns THEN "closing" ELSE "waking"
Noticed(a) == IF a \in Turns THEN "closing" ELSE "reporting"

MaybeAutoPauseLate(a) ==                                   \* mutant of MaybeAutoPause
  /\ pc[a] = "judging"
  /\ Goto(a, IF /\ status[mission[a]] = "active"
                /\ failures[mission[a]] > MaxFailures
               THEN "pausing" ELSE After(a))
  /\ UNCHANGED <<status, wakeVars, countVars, inFlight, robbed, rows, mission,
                 userVars, faults>>
MaybeAutoPause(a) ==
  /\ pc[a] = "judging"
  /\ Goto(a, IF /\ status[mission[a]] = "active"
                /\ failures[mission[a]] >= MaxFailures
               THEN "pausing" ELSE After(a))
  /\ UNCHANGED <<status, wakeVars, countVars, inFlight, robbed, rows, mission,
                 userVars, faults>>

AutoPause(a) ==
  /\ pc[a] = "pausing"
  /\ Goto(a, Noticed(a))
  /\ SetStatus(mission[a], "paused")
  /\ UNCHANGED <<countVars, inFlight, robbed, rows, mission, userVars, faults>>

(* The handler's catch only logs.                                          *)
HandlerThrows(x) ==
  /\ faults < MaxFaults
  /\ faults' = faults + 1
  /\ pc[x] \in {"completed", "counting", "backoff", "judging", "pausing"}
  /\ Goto(x, "closing")
  /\ UNCHANGED <<status, wakeVars, countVars, inFlight, robbed, rows, mission,
                 userVars>>

(* The handler's finally.                                                  *)
Release(x) ==
  /\ pc[x] = "closing"
  /\ Goto(x, "idle")
  /\ Unmark(x)
  /\ mission' = [mission EXCEPT ![x] = NoMission]
  /\ UNCHANGED <<status, wakeVars, countVars, rows, userVars, faults>>

-----------------------------------------------------------------------------
(* Requests of the owner and of the agent, each a read and then a write.   *)
(* At most one of each per mission is under way.                           *)

CanRequest(m, s) ==
  CASE s = "active"    -> status[m] \in {"draft", "paused"}
    [] s = "paused"    -> status[m] = "active"
    [] s = "completed" -> TRUE

OwnerRequests(m) ==
  /\ owner[m] = "none"
  /\ \E s \in OwnerAsks :
       CanRequest(m, s) /\ owner' = [owner EXCEPT ![m] = s]
  /\ UNCHANGED <<status, wakeVars, countVars, inFlight, robbed, callVars, agent,
                 faults>>

ActivateNoWake(m) ==                              \* mutant of Activate
  /\ owner[m] = "active"
  /\ owner' = [owner EXCEPT ![m] = "none"]
  /\ status' = [status EXCEPT ![m] = "active"]
  /\ failures' = [failures EXCEPT ![m] = 0]
  /\ UNCHANGED <<wakeVars, turnsToday, costTotal, threads,
                 inFlight, robbed, callVars, agent, faults>>
Activate(m) ==
  /\ owner[m] = "active"
  /\ owner' = [owner EXCEPT ![m] = "none"]
  /\ status' = [status EXCEPT ![m] = "active"]
  /\ later' = later \ {m}
  /\ due' = Append(Without(m), m)
  /\ failures' = [failures EXCEPT ![m] = 0]
  /\ UNCHANGED <<turnsToday, costTotal, threads, inFlight, robbed,
                 callVars, agent, faults>>

PauseOrComplete(m) ==
  /\ owner[m] \in {"paused", "completed"}
  /\ owner' = [owner EXCEPT ![m] = "none"]
  /\ SetStatus(m, owner[m])
  /\ UNCHANGED <<countVars, inFlight, robbed, callVars, agent, faults>>

(* schedule_next_wake and mission_complete need an active mission.  They   *)
(* are called by a wake's turn, or by the owner's chat in its thread.      *)
AgentRequests(m) ==
  /\ m \in threads
  /\ status[m] = "active"
  /\ agent[m] = "none"
  /\ \E s \in AgentAsks : agent' = [agent EXCEPT ![m] = s]
  /\ UNCHANGED <<status, wakeVars, countVars, inFlight, robbed, callVars, owner,
                 faults>>

ScheduleNextWake(m) ==
  /\ agent[m] = "schedule"
  /\ agent' = [agent EXCEPT ![m] = "none"]
  /\ SetNextWake(m)
  /\ UNCHANGED <<status, countVars, inFlight, robbed, callVars, owner, faults>>

CompleteFromAgent(m) ==
  /\ agent[m] = "complete"
  /\ agent' = [agent EXCEPT ![m] = "none"]
  /\ SetStatus(m, "completed")
  /\ UNCHANGED <<countVars, inFlight, robbed, callVars, owner, faults>>

(* The LLM proxy adds a call's cost.                                       *)
AccumulateCost(m) ==
  /\ m \in threads
  /\ costTotal[m] < MaxCostTotal
  /\ costTotal' = [costTotal EXCEPT ![m] = @ + 1]
  /\ UNCHANGED <<status, wakeVars, failures, turnsToday, threads, inFlight,
                 robbed, callVars, userVars, faults>>

-----------------------------------------------------------------------------
(* Time and restarts.                                                      *)

WakeTimePasses(m) ==
  /\ m \in later
  /\ later' = later \ {m}
  /\ due' = Append(due, m)
  /\ UNCHANGED <<status, countVars, inFlight, robbed, callVars, userVars,
                 faults>>

(* Midnight: the day's turns count no longer, nor do those of a row that   *)
(* was read before.                                                        *)
NewDay ==
  /\ \E m \in Missions : turnsToday[m] > 0
  /\ turnsToday' = [m \in Missions |-> 0]
  /\ rows' = [p \in Callers |-> [i \in DOMAIN rows[p] |->
               [rows[p][i] EXCEPT !.budget = IF @ = "daily" THEN "ok" ELSE @]]]
  /\ UNCHANGED <<status, wakeVars, failures, costTotal, threads, inFlight,
                 robbed, pc, mission, userVars, faults>>

(* The backend dies and boots: memory and turns are gone, and              *)
(* recoverOnBoot wakes the active missions that have no wake time.         *)
Restart ==
  /\ faults < MaxFaults
  /\ faults' = faults + 1
  /\ inFlight' = {}
  /\ robbed' = {}
  /\ rows' = [p \in Callers |-> <<>>]
  /\ pc' = [a \in Actors |-> "idle"]
  /\ mission' = [a \in Actors |-> NoMission]
  /\ owner' = [m \in Missions |-> "none"]
  /\ agent' = [m \in Missions |-> "none"]
  /\ LET stalled == {m \in Missions : status[m] = "active" /\ ~HasWake(m)}
     IN  \E s \in [1..Cardinality(stalled) -> stalled] :
           /\ \A m \in stalled : \E i \in DOMAIN s : s[i] = m
           /\ due' = due \o s
  /\ UNCHANGED <<status, later, countVars>>

-----------------------------------------------------------------------------
WakeStep(p) ==
  \/ WakeMission(p) \/ CallerEnds(p) \/ BudgetExhausted(p)
  \/ DeferToMidnight(p) \/ Reported(p) \/ Claim(p) \/ RecordWakeStart(p)
  \/ (\E x \in Turns : Spawned(p, x)) \/ SpawnDeclined(p) \/ SpawnThrew(p)
  \/ DeferDeclined(p) \/ WakeThrows(p)
OutcomeStep(a) == RecordFailure(a) \/ MaybeAutoPause(a) \/ AutoPause(a)
TurnStep(x) ==
  \/ TurnEnds(x) \/ RecordSuccess(x) \/ ApplyFailureBackoff(x)
  \/ HandlerThrows(x) \/ Release(x)
UserStep(m) ==
  \/ OwnerRequests(m) \/ Activate(m) \/ PauseOrComplete(m) \/ AgentRequests(m)
  \/ ScheduleNextWake(m) \/ CompleteFromAgent(m) \/ AccumulateCost(m)

Next ==
  \/ \E p \in Sweeps : Sweep(p)
  \/ \E p \in Owners, m \in Missions : WakeNow(p, m)
  \/ \E p \in Callers : WakeStep(p)
  \/ \E a \in Actors : OutcomeStep(a)
  \/ \E x \in Turns : TurnStep(x)
  \/ \E m \in Missions : UserStep(m) \/ WakeTimePasses(m)
  \/ NewDay
  \/ Restart

Spec == Init /\ [][Next]_vars

(***************************************************************************)
(* The timer fires, time passes, awaited calls return, and a turn ends     *)
(* because the runtime has a hard timeout.                                 *)
(***************************************************************************)
Fairness ==
  /\ \A p \in Sweeps : WF_vars(Sweep(p))
  /\ \A p \in Callers : WF_vars(WakeStep(p))
  /\ \A a \in Actors : WF_vars(OutcomeStep(a))
  /\ \A x \in Turns : WF_vars(TurnStep(x))
  /\ \A m \in Missions : WF_vars(WakeTimePasses(m))

FairSpec == Spec /\ Fairness

-----------------------------------------------------------------------------
(* Safety.                                                                 *)

(* An active mission always has a wake time, through every race of the     *)
(* owner, the agent, the scheduler and a restart: the schedule in the      *)
(* database alone revives it, and recoverOnBoot is never needed.           *)
NeverStranded == \A m \in Missions : status[m] = "active" => HasWake(m)

(* The mark in inFlight, which keeps a mission to one wake at a time: no   *)
(* declined, rejected or failed wake leaks it, and no wake, up to the last *)
(* step of its completion handler, goes without it or shares its mission   *)
(* with another, but where the late failure of an earlier wake deleted it  *)
(* - until the wakes that this let in have ended.                          *)
InFlightAccounted ==
  /\ inFlight \subseteq {mission[a] : a \in {b \in Actors : Accounts(b)}}
  /\ \A a \in Actors : Accounts(a) => mission[a] \in inFlight \cup robbed
  /\ \A a, b \in Actors :
       Accounts(a) /\ Accounts(b) /\ mission[a] = mission[b] /\ a # b
         => mission[a] \in robbed

(* A mission whose failures have reached the limit is active only while    *)
(* somebody is about to pause it, or after a restart or an error lost that *)
(* step.                                                                   *)
StreakPauses ==
  faults = 0 =>
    \A m \in Missions :
      status[m] = "active" /\ failures[m] >= MaxFailures =>
        \E a \in Actors :
          mission[a] = m /\ pc[a] \in {"backoff", "judging", "pausing"}

-----------------------------------------------------------------------------
(* Liveness.                                                               *)

(* Every active mission is taken up by the scheduler again and again, also *)
(* when it waits behind a full batch, and whatever became of its last wake.*)
TakenUp(m) ==
  \E p \in Callers : mission[p] = m /\ pc[p] \notin {"idle", "waking"}
MissionGoesOn ==
  \A m \in Missions : status[m] = "active" ~> TakenUp(m) \/ status[m] # "active"

(* Every wake settles and makes room for the next.                         *)
WakeSettles == \A m \in Missions : m \in inFlight ~> m \notin inFlight

=============================================================================
