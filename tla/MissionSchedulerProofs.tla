----------------------- MODULE MissionSchedulerProofs -----------------------
(***************************************************************************)
(* What holds of the mission scheduler for any missions, sweeps, owners,   *)
(* limits, restarts and errors: an active mission always has a wake time,  *)
(* its mark in inFlight is exact but for those that a late failure took,   *)
(* and a streak of failures meets its auto-pause.                          *)
(***************************************************************************)
EXTENDS MissionScheduler, SequenceTheorems, FiniteSetTheorems, TLAPS

Rows == [mission : Missions, budget : Budgets]

CallerAt == {"idle", "waking", "exhausted", "overDaily", "claiming", "recording",
             "spawning", "declined", "counting", "judging", "pausing", "reporting"}
TurnAt == {"idle", "running", "completed", "counting", "backoff", "judging",
           "pausing", "closing"}

(* Callers and turns keep to their own positions, at a mission of theirs.  *)
Placed ==
  /\ \A p \in Callers : pc[p] \in CallerAt
  /\ \A x \in Turns : pc[x] \in TurnAt
  /\ \A a \in Actors : pc[a] \notin {"idle", "waking"} => mission[a] \in Missions

Schedule == NeverStranded /\ StreakPauses
IInv == TypeOK /\ Placed /\ InFlightAccounted /\ Schedule

LEMMA Apart == Turns \cap Callers = {} /\ Callers \subseteq Actors /\ Turns \subseteq Actors
BY SchedulerAssumption DEF Callers, Actors
-----------------------------------------------------------------------------
(* Taking a mission out of the due queue keeps the others in it.           *)
LEMMA WithoutKeeps ==
  ASSUME due \in Seq(Missions), NEW m
  PROVE  /\ Without(m) \in Seq(Missions)
         /\ \A n : n # m /\ Due(n) => \E i \in DOMAIN Without(m) : Without(m)[i] = n
<1>1. CASE ~Due(m)
  BY <1>1 DEF Without, Due
<1>2. CASE Due(m)
  <2> DEFINE W == [i \in 1..(Len(due) - 1) |-> due[IF i < Place(m) THEN i ELSE i + 1]]
  <2>1. Without(m) = W
    BY <1>2 DEF Without
  <2>2. Place(m) \in 1..Len(due) /\ due[Place(m)] = m
    BY <1>2 DEF Due, Place
  <2>3. Len(due) \in Nat /\ DOMAIN due = 1..Len(due) /\ \A i \in 1..Len(due) : due[i] \in Missions
    OBVIOUS
  <2>4. Len(due) - 1 \in Nat
    BY <2>2, <2>3
  <2>5. W \in [1..(Len(due) - 1) -> Missions]
    BY <2>2, <2>3
  <2>6. W \in Seq(Missions)
    BY <2>4, <2>5, SeqDef
  <2>7. ASSUME NEW n, n # m, Due(n)
        PROVE  \E i \in DOMAIN W : W[i] = n
    <3>1. PICK k \in 1..Len(due) : due[k] = n
      BY <2>7, <2>3 DEF Due
    <3>2. k # Place(m)
      BY <3>1, <2>2, <2>7
    <3>3. CASE k < Place(m)
      BY <3>1, <3>3, <2>2, <2>3
    <3>4. CASE k > Place(m)
      <4>1. k - 1 \in 1..(Len(due) - 1) /\ ~(k - 1 < Place(m)) /\ (k - 1) + 1 = k
        BY <3>1, <3>4, <2>2, <2>3
      <4> QED BY <4>1, <3>1
    <3> QED BY <3>2, <3>3, <3>4, <3>1, <2>2, <2>3
  <2> HIDE DEF W
  <2> QED BY <2>1, <2>6, <2>7
<1> QED BY <1>1, <1>2
LEMMA NextWakeSet ==
  ASSUME TypeOK, NeverStranded, NEW m \in Missions, SetNextWake(m), UNCHANGED status
  PROVE  later' \subseteq Missions /\ due' \in Seq(Missions) /\ NeverStranded'
<1>1. Without(m) \in Seq(Missions)
      /\ \A n : n # m /\ Due(n) => \E i \in DOMAIN Without(m) : Without(m)[i] = n
  BY WithoutKeeps DEF TypeOK
<1> QED BY <1>1 DEF TypeOK, SetNextWake, NeverStranded, HasWake, Due

LEMMA WakeCleared ==
  ASSUME TypeOK, NeverStranded, NEW m \in Missions, NEW s \in Statuses \ {"active"},
         SetStatus(m, s)
  PROVE  /\ status' \in [Missions -> Statuses] /\ later' \subseteq Missions
         /\ due' \in Seq(Missions) /\ NeverStranded'
         /\ \A n \in Missions : status'[n] = "active" => n # m /\ status[n] = "active"
<1>1. Without(m) \in Seq(Missions)
      /\ \A n : n # m /\ Due(n) => \E i \in DOMAIN Without(m) : Without(m)[i] = n
  BY WithoutKeeps DEF TypeOK
<1>2. /\ status' \in [Missions -> Statuses]
      /\ \A n \in Missions : status'[n] = "active" => n # m /\ status[n] = "active"
  BY DEF TypeOK, SetStatus, Statuses
<1> QED BY <1>1, <1>2 DEF TypeOK, SetStatus, ClearWake, NeverStranded, HasWake, Due

LEMMA WakesUnchanged ==
  ASSUME NeverStranded, UNCHANGED <<status, later, due>>
  PROVE  NeverStranded'
BY DEF NeverStranded, HasWake, Due
-----------------------------------------------------------------------------
(* What a step of one actor does to the marks in inFlight.                 *)
OnlyMoves(a) ==
  \A b \in Actors \ {a} : pc'[b] = pc[b] /\ mission'[b] = mission[b]

LEMMA MarksKept ==
  ASSUME InFlightAccounted, NEW a \in Actors, OnlyMoves(a), UNCHANGED <<inFlight, robbed>>,
         Accounts(a)' <=> Accounts(a), Accounts(a) => mission'[a] = mission[a]
  PROVE  InFlightAccounted'
<1>1. \A b \in Actors : (Accounts(b)' <=> Accounts(b))
                          /\ (Accounts(b) => mission'[b] = mission[b])
  BY DEF OnlyMoves, Accounts
<1> QED BY <1>1 DEF InFlightAccounted

LEMMA MarkLeft ==
  ASSUME InFlightAccounted, NEW a \in Actors, OnlyMoves(a), Accounts(a), ~Accounts(a)',
         Unmark(a)
  PROVE  InFlightAccounted'
<1>1. \A b \in Actors : (Accounts(b)' <=> b # a /\ Accounts(b))
                          /\ (b # a => mission'[b] = mission[b])
  BY DEF OnlyMoves, Accounts
<1>2. \A b \in Actors : b # a /\ Accounts(b) /\ mission[b] = mission[a]
                           => mission[a] \in robbed'
  BY DEF InFlightAccounted, Unmark, Shared
<1>3. \A n : n # mission[a] => (n \in inFlight' <=> n \in inFlight)
                                /\ (n \in robbed' <=> n \in robbed)
  BY DEF Unmark
<1>4. mission[a] \notin inFlight'
  BY DEF Unmark
<1> QED BY <1>1, <1>2, <1>3, <1>4 DEF InFlightAccounted

(* A deletion by a wake that no longer holds the mark is put down to those *)
(* that do.                                                                *)
LEMMA MarkDropped ==
  ASSUME InFlightAccounted, NEW a \in Actors, OnlyMoves(a), ~Accounts(a), ~Accounts(a)',
         UnmarkAgain(a)
  PROVE  InFlightAccounted'
<1>1. \A b \in Actors : (Accounts(b)' <=> Accounts(b))
                          /\ (Accounts(b) => b # a /\ mission'[b] = mission[b])
  BY DEF OnlyMoves, Accounts
<1>2. \A b \in Actors : Accounts(b) /\ mission[b] = mission[a]
                           => mission[a] \in robbed'
  BY <1>1 DEF UnmarkAgain, Shared
<1>3. \A n : n # mission[a] => (n \in inFlight' <=> n \in inFlight)
                                /\ (n \in robbed' <=> n \in robbed)
  BY DEF UnmarkAgain
<1>4. mission[a] \notin inFlight'
  BY DEF UnmarkAgain
<1> QED BY <1>1, <1>2, <1>3, <1>4 DEF InFlightAccounted

LEMMA MarkTaken ==
  ASSUME InFlightAccounted, NEW a \in Actors, OnlyMoves(a), ~Accounts(a), Accounts(a)',
         mission'[a] \notin inFlight, inFlight' = inFlight \cup {mission'[a]},
         UNCHANGED robbed
  PROVE  InFlightAccounted'
<1>1. \A b \in Actors : (Accounts(b)' <=> b = a \/ Accounts(b))
                          /\ (b # a => mission'[b] = mission[b])
  BY DEF OnlyMoves, Accounts
<1> QED BY <1>1 DEF InFlightAccounted

LEMMA MarkHanded ==
  ASSUME InFlightAccounted, NEW a \in Actors, NEW x \in Actors, a # x,
         \A b \in Actors \ {a, x} : pc'[b] = pc[b] /\ mission'[b] = mission[b],
         Accounts(a), ~Accounts(a)', ~Accounts(x), Accounts(x)',
         mission'[x] = mission[a], UNCHANGED <<inFlight, robbed>>
  PROVE  InFlightAccounted'
<1>1. \A b \in Actors : (Accounts(b)' <=> b = x \/ (b # a /\ Accounts(b)))
                          /\ (b \notin {a, x} => mission'[b] = mission[b])
  BY DEF Accounts
<1> QED BY <1>1 DEF InFlightAccounted
-----------------------------------------------------------------------------
(* What a step does to the streaks of failures.                            *)
AboutToPause == {"backoff", "judging", "pausing"}

LEMMA StreaksKept ==
  ASSUME StreakPauses, faults' = faults,
         \A m \in Missions : status'[m] = "active" /\ failures'[m] >= MaxFailures
                               => status[m] = "active" /\ failures[m] >= MaxFailures,
         \A a \in Actors : pc[a] \in AboutToPause
                             => pc'[a] \in AboutToPause /\ mission'[a] = mission[a]
  PROVE  StreakPauses'
BY DEF StreakPauses, AboutToPause
-----------------------------------------------------------------------------
LEMMA InitIInv == Init => IInv
<1> SUFFICES ASSUME Init PROVE IInv OBVIOUS
<1>1. TypeOK
  BY SchedulerAssumption DEF Init, TypeOK, Statuses, Positions
<1>2. Placed
  BY Apart DEF Init, Placed, CallerAt, TurnAt
<1>3. InFlightAccounted
  BY Apart DEF Init, InFlightAccounted, Accounts
<1>4. Schedule
  BY DEF Init, Schedule, NeverStranded, StreakPauses
<1> QED BY <1>1, <1>2, <1>3, <1>4 DEF IInv

(* A caller reads its rows.                                                *)
LEMMA ReadsKeep ==
  ASSUME IInv, NEW p \in Callers, pc[p] = "idle", Goto(p, "waking"),
         NEW r \in Seq(Rows), rows' = [rows EXCEPT ![p] = r],
         UNCHANGED <<status, wakeVars, countVars, inFlight, robbed, mission, userVars, faults>>
  PROVE  IInv'
<1> USE DEF IInv
<1>1. TypeOK'
  BY DEF TypeOK, Rows, Goto, wakeVars, countVars, userVars, Positions
<1>2. Placed'
  BY Apart DEF TypeOK, Placed, CallerAt, Goto
<1>3. InFlightAccounted'
  BY Apart, MarksKept DEF TypeOK, OnlyMoves, Accounts, Goto
<1>4. NeverStranded'
  BY WakesUnchanged DEF Schedule, wakeVars
<1>5. StreakPauses'
  BY StreaksKept DEF Schedule, AboutToPause, TypeOK, Goto, countVars
<1> QED BY <1>1, <1>2, <1>3, <1>4, <1>5 DEF Schedule

LEMMA SweepKeeps == ASSUME IInv, NEW p \in Sweeps, Sweep(p) PROVE IInv'
<1>0. PICK n \in 1..WakeBatch : \E batch \in [1..n -> Missions] :
        rows' = [rows EXCEPT ![p] = [i \in 1..n |-> Row(batch[i])]]
  BY DEF Sweep
<1>1. PICK batch \in [1..n -> Missions] :
        rows' = [rows EXCEPT ![p] = [i \in 1..n |-> Row(batch[i])]]
  BY <1>0
<1>2. n \in Nat
  BY SchedulerAssumption
<1>3. \A m \in Missions : Row(m) \in Rows
  BY DEF Row, Rows, Budget, Budgets
<1>4. [i \in 1..n |-> Row(batch[i])] \in [1..n -> Rows]
  BY <1>1, <1>3
<1>5. [i \in 1..n |-> Row(batch[i])] \in Seq(Rows)
  BY <1>2, <1>4, SeqDef
<1> QED BY <1>1, <1>5, ReadsKeep DEF Sweep, Callers

LEMMA WakeNowKeeps ==
  ASSUME IInv, NEW p \in Owners, NEW m \in Missions, WakeNow(p, m) PROVE IInv'
<1>1. <<Row(m)>> \in Seq(Rows)
  BY DEF Row, Rows, Budget, Budgets
<1> QED BY <1>1, ReadsKeep DEF WakeNow, Callers

LEMMA WakeMissionKeeps == ASSUME IInv, NEW p \in Callers, WakeMission(p) PROVE IInv'
<1> USE DEF IInv
<1> DEFINE m == Head(rows[p]).mission
<1>1. rows[p] \in Seq(Rows) /\ rows[p] # <<>>
  BY DEF WakeMission, TypeOK, Rows
<1>2. Head(rows[p]) \in Rows /\ Tail(rows[p]) \in Seq(Rows)
  BY <1>1
<1>3. m \in Missions /\ Head(rows[p]).budget \in Budgets
  BY <1>2 DEF Rows
<1>4. rows' \in [Callers -> Seq(Rows)]
  BY <1>2 DEF WakeMission, TypeOK, Rows
<1>5. NeverStranded'
  BY WakesUnchanged DEF Schedule, WakeMission, wakeVars
<1> HIDE DEF m
<1>6. CASE m \in inFlight
  <2>1. UNCHANGED <<inFlight, robbed, pc, mission>>
    BY <1>6 DEF WakeMission, InFlightGuard, m
  <2>2. TypeOK'
    BY <1>4, <2>1 DEF WakeMission, TypeOK, Rows, wakeVars, countVars, userVars
  <2>3. Placed' /\ InFlightAccounted'
    BY <2>1 DEF Placed, InFlightAccounted, Accounts
  <2>4. StreakPauses'
    BY <2>1, StreaksKept DEF Schedule, WakeMission, countVars
  <2> QED BY <2>2, <2>3, <2>4, <1>5 DEF Schedule
<1>7. CASE m \notin inFlight
  <2>1. PICK at \in {"claiming", "exhausted", "overDaily"} :
          /\ Goto(p, at)
          /\ inFlight' = IF at = "claiming" THEN inFlight \cup {m} ELSE inFlight
          /\ UNCHANGED robbed
    <3>1. CASE Head(rows[p]).budget = "ok"
      BY <1>7, <3>1 DEF WakeMission, InFlightGuard, m
    <3>2. CASE Head(rows[p]).budget = "total"
      BY <1>7, <3>2 DEF WakeMission, InFlightGuard, m
    <3>3. CASE Head(rows[p]).budget = "daily"
      BY <1>7, <3>3 DEF WakeMission, InFlightGuard, m
    <3> QED BY <3>1, <3>2, <3>3, <1>3 DEF Budgets
  <2>2. mission' = [mission EXCEPT ![p] = m] /\ pc[p] = "waking"
    BY <1>7 DEF WakeMission, InFlightGuard, m
  <2>3. TypeOK'
    BY <1>4, <2>1, <2>2, <1>3 DEF WakeMission, TypeOK, Rows, Goto, Positions, wakeVars,
                                   countVars, userVars
  <2>4. Placed'
    BY <2>1, <2>2, <1>3, Apart DEF TypeOK, Placed, CallerAt, Goto
  <2>5. InFlightAccounted'
    <3>1. OnlyMoves(p) /\ p \in Actors /\ ~Accounts(p) /\ mission'[p] = m
      BY <2>1, <2>2, Apart DEF OnlyMoves, Accounts, Goto, TypeOK
    <3>2. CASE at = "claiming"
      BY <3>1, <3>2, <2>1, <1>7, Apart, MarkTaken DEF Accounts, Goto, TypeOK
    <3>3. CASE at # "claiming"
      BY <3>1, <3>3, <2>1, Apart, MarksKept DEF Accounts, Goto, TypeOK
    <3> QED BY <3>2, <3>3
  <2>6. StreakPauses'
    BY <2>1, <2>2, StreaksKept DEF Schedule, AboutToPause, TypeOK, WakeMission, Goto, countVars
  <2> QED BY <2>3, <2>4, <2>5, <2>6, <1>5 DEF Schedule
<1> QED BY <1>6, <1>7
-----------------------------------------------------------------------------
(* An actor goes on with its mission.                                      *)
LEMMA MovesOn ==
  ASSUME IInv, NEW a \in Actors, pc[a] \notin {"idle", "waking"},
         NEW q \in Positions \ {"idle"}, Goto(a, q), UNCHANGED mission,
         a \in Callers => q \in CallerAt, a \in Turns => q \in TurnAt
  PROVE  /\ pc' \in [Actors -> Positions] /\ Placed' /\ OnlyMoves(a)
         /\ pc'[a] = q /\ mission[a] \in Missions
BY DEF IInv, TypeOK, Placed, Goto, OnlyMoves

LEMMA CallerEndsKeeps == ASSUME IInv, NEW p \in Callers, CallerEnds(p) PROVE IInv'
<1> USE DEF IInv, CallerEnds
<1>1. TypeOK'
  BY Apart DEF TypeOK, Goto, Positions, wakeVars, countVars, userVars
<1>2. Placed' /\ OnlyMoves(p) /\ ~Accounts(p) /\ ~Accounts(p)' /\ p \in Actors
  BY Apart DEF TypeOK, Placed, Goto, CallerAt, OnlyMoves, Accounts
<1>3. InFlightAccounted'
  BY <1>2, MarksKept
<1>4. NeverStranded' /\ StreakPauses'
  BY WakesUnchanged, StreaksKept DEF Schedule, AboutToPause, TypeOK, Goto, wakeVars, countVars
<1> QED BY <1>1, <1>2, <1>3, <1>4 DEF Schedule

(* The wakes that the budget rejects, and those that are put off.          *)
LEMMA WakeTimesKeep ==
  ASSUME IInv, NEW a \in Actors, NEW q \in Positions \ {"idle"}, Goto(a, q),
         pc[a] \in {"exhausted", "overDaily", "claiming", "declined", "backoff", "pausing"},
         a \in Callers => q \in CallerAt, a \in Turns => q \in TurnAt,
         Accounts(a)' <=> Accounts(a),
         \/ SetNextWake(mission[a]) /\ UNCHANGED status
                /\ (pc[a] \in AboutToPause => q \in AboutToPause)
         \/ SetStatus(mission[a], "paused"),
         UNCHANGED <<countVars, inFlight, robbed, rows, mission, userVars, faults>>
  PROVE  IInv'
<1>1. /\ pc' \in [Actors -> Positions] /\ Placed' /\ OnlyMoves(a)
      /\ pc'[a] = q /\ mission[a] \in Missions
  BY MovesOn
<1>2. InFlightAccounted'
  BY <1>1, MarksKept DEF IInv
<1>3. CASE /\ SetNextWake(mission[a]) /\ UNCHANGED status
           /\ pc[a] \in AboutToPause => q \in AboutToPause
  <2>1. later' \subseteq Missions /\ due' \in Seq(Missions) /\ NeverStranded'
    BY <1>1, <1>3, NextWakeSet DEF IInv, Schedule
  <2>2. TypeOK'
    BY <1>1, <1>3, <2>1 DEF IInv, TypeOK, countVars, userVars
  <2>3. StreakPauses'
    BY <1>1, <1>3, StreaksKept DEF IInv, Schedule, OnlyMoves, countVars
  <2> QED BY <1>1, <1>2, <2>1, <2>2, <2>3 DEF IInv, Schedule
<1>4. CASE SetStatus(mission[a], "paused")
  <2>1. /\ status' \in [Missions -> Statuses] /\ later' \subseteq Missions
        /\ due' \in Seq(Missions) /\ NeverStranded'
        /\ \A n \in Missions : status'[n] = "active" => n # mission[a] /\ status[n] = "active"
    <3>1. "paused" \in Statuses \ {"active"}
      BY DEF Statuses
    <3> QED BY <1>1, <1>4, <3>1, WakeCleared DEF IInv, Schedule
  <2>2. TypeOK'
    BY <1>1, <2>1 DEF IInv, TypeOK, countVars, userVars
  <2>3. StreakPauses'
    <3>1. ASSUME faults = 0, NEW m \in Missions, status'[m] = "active",
                 failures[m] >= MaxFailures
          PROVE  \E b \in Actors : mission'[b] = m /\ pc'[b] \in AboutToPause
      <4>1. PICK b \in Actors : mission[b] = m /\ pc[b] \in AboutToPause
        BY <2>1, <3>1 DEF IInv, Schedule, StreakPauses, AboutToPause
      <4>2. b # a
        BY <4>1, <3>1, <2>1
      <4> QED BY <4>1, <4>2, <1>1 DEF OnlyMoves
    <3> QED BY <3>1 DEF StreakPauses, AboutToPause, countVars
  <2> QED BY <1>1, <1>2, <2>1, <2>2, <2>3 DEF IInv, Schedule
<1> QED BY <1>3, <1>4

(* The steps that write neither the schedule nor the marks.                *)
LEMMA CountsKeep ==
  ASSUME IInv, NEW a \in Actors, NEW q \in Positions \ {"idle"}, Goto(a, q),
         pc[a] \notin {"idle", "waking"},
         a \in Callers => q \in CallerAt, a \in Turns => q \in TurnAt,
         Accounts(a)' <=> Accounts(a),
         StreakPauses',
         failures' \in [Missions -> Nat], turnsToday' \in [Missions -> Nat],
         threads' \subseteq Missions,
         UNCHANGED <<status, wakeVars, costTotal, inFlight, robbed, rows, mission, userVars, faults>>
  PROVE  IInv'
<1>1. /\ pc' \in [Actors -> Positions] /\ Placed' /\ OnlyMoves(a)
      /\ pc'[a] = q /\ mission[a] \in Missions
  BY MovesOn
<1>2. TypeOK'
  BY <1>1 DEF IInv, TypeOK, wakeVars, userVars
<1>3. InFlightAccounted'
  BY <1>1, MarksKept DEF IInv
<1>4. NeverStranded'
  BY WakesUnchanged DEF IInv, Schedule, wakeVars
<1> QED BY <1>1, <1>2, <1>3, <1>4 DEF IInv, Schedule
-----------------------------------------------------------------------------
LEMMA WakeStepKeeps == ASSUME IInv, NEW p \in Callers, WakeStep(p) PROVE IInv'
<1>a. p \in Actors /\ p \notin Turns
  BY Apart
<1>1. CASE WakeMission(p) \/ CallerEnds(p)
  BY <1>1, WakeMissionKeeps, CallerEndsKeeps
<1>2. CASE BudgetExhausted(p) \/ DeferToMidnight(p) \/ Claim(p) \/ DeferDeclined(p)
  <2>1. PICK q \in {"reporting", "recording", "counting"} :
          /\ Goto(p, q)
          /\ pc[p] \in {"exhausted", "overDaily", "claiming", "declined"}
          /\ q = "recording" <=> pc[p] = "claiming"
          /\ \/ SetNextWake(mission[p]) /\ UNCHANGED status
             \/ SetStatus(mission[p], "paused")
          /\ UNCHANGED <<countVars, inFlight, robbed, rows, mission, userVars, faults>>
    BY <1>2 DEF BudgetExhausted, DeferToMidnight, Claim, DeferDeclined
  <2>2. q \in Positions \ {"idle"} /\ q \in CallerAt /\ pc[p] \notin AboutToPause
    BY <2>1 DEF Positions, CallerAt, AboutToPause
  <2>3. Accounts(p)' <=> Accounts(p)
    BY <2>1, <1>a DEF IInv, TypeOK, Accounts, Goto
  <2> QED BY <1>a, <2>1, <2>2, <2>3, WakeTimesKeep
<1>3. CASE RecordWakeStart(p)
  <2>1. /\ Goto(p, "spawning") /\ pc[p] = "recording" /\ mission[p] \in Missions
        /\ "spawning" \in Positions \ {"idle"} /\ "spawning" \in CallerAt
    BY <1>3, <1>a DEF RecordWakeStart, Positions, CallerAt, IInv, Placed
  <2>2. Accounts(p)' <=> Accounts(p)
    BY <2>1, <1>a DEF IInv, TypeOK, Accounts, Goto
  <2>3. /\ failures' \in [Missions -> Nat] /\ turnsToday' \in [Missions -> Nat]
        /\ threads' \subseteq Missions
    BY <1>3, <2>1 DEF RecordWakeStart, IInv, TypeOK
  <2>4. StreakPauses'
    BY <1>3, <2>1, StreaksKept DEF RecordWakeStart, IInv, Schedule, TypeOK, Goto, AboutToPause
  <2> QED BY <1>3, <1>a, <2>1, <2>2, <2>3, <2>4, CountsKeep DEF RecordWakeStart
<1>4. CASE \E x \in Turns : Spawned(p, x)
  <2>1. PICK x \in Turns : Spawned(p, x)
    BY <1>4
  <2>2. x # p /\ x \in Actors /\ mission[p] \in Missions
    BY <1>a, <2>1, Apart DEF Spawned, IInv, Placed
  <2>3. TypeOK'
    BY <1>a, <2>1, <2>2 DEF Spawned, IInv, TypeOK, Positions, wakeVars, countVars, userVars
  <2>4. Placed'
    BY <1>a, <2>1, <2>2, Apart DEF Spawned, IInv, TypeOK, Placed, CallerAt, TurnAt
  <2>5. InFlightAccounted'
    <3>1. /\ \A b \in Actors \ {p, x} : pc'[b] = pc[b] /\ mission'[b] = mission[b]
          /\ mission'[x] = mission[p] /\ UNCHANGED <<inFlight, robbed>>
          /\ pc[p] = "spawning" /\ pc'[p] = "waking" /\ pc[x] = "idle" /\ pc'[x] = "running"
      BY <1>a, <2>1, <2>2 DEF Spawned, IInv, TypeOK
    <3>2. Accounts(p) /\ ~Accounts(p)' /\ ~Accounts(x) /\ Accounts(x)'
      BY <3>1, <1>a DEF Accounts, Positions
    <3> QED BY <3>1, <3>2, <1>a, <2>2, MarkHanded DEF IInv
  <2>6. NeverStranded' /\ StreakPauses'
    BY <2>1, <2>2, <1>a, WakesUnchanged, StreaksKept
       DEF Spawned, IInv, Schedule, TypeOK, AboutToPause, wakeVars, countVars
  <2> QED BY <2>3, <2>4, <2>5, <2>6 DEF IInv, Schedule
<1>5. CASE SpawnDeclined(p) \/ SpawnThrew(p)
  <2>1. PICK q \in {"declined", "waking"} : Goto(p, q)
    BY <1>5 DEF SpawnDeclined, SpawnThrew
  <2>2. /\ pc[p] = "spawning" /\ Unmark(p)
        /\ UNCHANGED <<status, wakeVars, countVars, rows, mission, userVars, faults>>
    BY <1>5 DEF SpawnDeclined, SpawnThrew
  <2>3. /\ pc' \in [Actors -> Positions] /\ Placed' /\ OnlyMoves(p)
        /\ pc'[p] = q /\ mission[p] \in Missions
    <3>1. q \in Positions \ {"idle"} /\ q \in CallerAt
      BY DEF Positions, CallerAt
    <3> QED BY <1>a, <2>1, <2>2, <3>1, MovesOn
  <2>4. InFlightAccounted'
    BY <1>a, <2>2, <2>3, MarkLeft DEF IInv, Accounts
  <2>5. TypeOK'
    BY <2>2, <2>3 DEF IInv, TypeOK, Unmark, wakeVars, countVars, userVars
  <2>6. NeverStranded' /\ StreakPauses'
    BY <2>2, <2>3, WakesUnchanged, StreaksKept
       DEF IInv, Schedule, OnlyMoves, AboutToPause, wakeVars, countVars
  <2> QED BY <2>3, <2>4, <2>5, <2>6 DEF IInv, Schedule
<1>6. CASE Reported(p)
  <2>1. /\ pc[p] = "reporting" /\ Goto(p, "waking") /\ "waking" \in Positions \ {"idle"}
        /\ "waking" \in CallerAt
        /\ UNCHANGED <<status, wakeVars, countVars, inFlight, robbed, rows, mission, userVars,
                       faults>>
    BY <1>6 DEF Reported, Positions, CallerAt
  <2>2. Accounts(p)' <=> Accounts(p)
    BY <2>1, <1>a DEF IInv, TypeOK, Accounts, Goto
  <2>3. StreakPauses'
    BY <2>1, StreaksKept DEF IInv, Schedule, AboutToPause, TypeOK, Goto, countVars
  <2>4. /\ failures' \in [Missions -> Nat] /\ turnsToday' \in [Missions -> Nat]
        /\ threads' \subseteq Missions
        /\ UNCHANGED <<status, wakeVars, costTotal, inFlight, robbed, rows, mission, userVars,
                       faults>>
    BY <2>1 DEF IInv, TypeOK, countVars
  <2>5. pc[p] \notin {"idle", "waking"}
    BY <2>1
  <2> QED BY <1>a, <2>1, <2>2, <2>3, <2>4, <2>5, CountsKeep
<1>7. CASE WakeThrows(p)
  <2>1. /\ Goto(p, "waking") /\ faults' = faults + 1
        /\ UNCHANGED <<status, wakeVars, countVars, rows, mission, userVars>>
        /\ pc[p] \notin {"idle", "waking"}
        /\ \/ pc[p] \in {"claiming", "recording"} /\ Unmark(p)
           \/ pc[p] \in GaveUpMark /\ UnmarkAgain(p)
    BY <1>7 DEF WakeThrows, GaveUpMark
  <2>2. /\ pc' \in [Actors -> Positions] /\ Placed' /\ OnlyMoves(p)
        /\ pc'[p] = "waking" /\ mission[p] \in Missions
    <3>1. "waking" \in Positions \ {"idle"} /\ "waking" \in CallerAt
      BY DEF Positions, CallerAt
    <3> QED BY <1>a, <2>1, <3>1, MovesOn
  <2>3. ~Accounts(p)'
    BY <1>a, <2>2 DEF Accounts
  <2>4. InFlightAccounted'
    <3>1. CASE pc[p] \in {"claiming", "recording"} /\ Unmark(p)
      BY <3>1, <1>a, <2>2, <2>3, MarkLeft DEF IInv, Accounts
    <3>2. CASE pc[p] \in GaveUpMark /\ UnmarkAgain(p)
      BY <3>2, <1>a, <2>2, <2>3, MarkDropped DEF IInv, Accounts, GaveUpMark
    <3> QED BY <2>1, <3>1, <3>2
  <2>5. TypeOK'
    <3>1. inFlight' \subseteq Missions /\ robbed' \subseteq Missions /\ faults' \in Nat
      BY <2>1, <2>2 DEF IInv, TypeOK, Unmark, UnmarkAgain
    <3> QED BY <2>1, <2>2, <3>1 DEF IInv, TypeOK, wakeVars, countVars, userVars
  <2>6. NeverStranded'
    BY <2>1, WakesUnchanged DEF IInv, Schedule, wakeVars
  <2>7. StreakPauses'
    BY <2>1 DEF IInv, TypeOK, StreakPauses
  <2> QED BY <2>2, <2>4, <2>5, <2>6, <2>7 DEF IInv, Schedule
<1> QED BY <1>1, <1>2, <1>3, <1>4, <1>5, <1>6, <1>7 DEF WakeStep

LEMMA OutcomeKeeps == ASSUME IInv, NEW a \in Actors, OutcomeStep(a) PROVE IInv'
<1>a. /\ a \in Turns => a \notin Callers
      /\ a \in Callers => a \notin Turns
      /\ After(a) \in {"closing", "waking"} /\ After(a) \in Positions \ {"idle"}
      /\ a \in Callers => After(a) \in CallerAt
      /\ a \in Turns => After(a) \in TurnAt
      /\ Noticed(a) \in Positions \ {"idle"}
      /\ a \in Callers => Noticed(a) \in CallerAt
      /\ a \in Turns => Noticed(a) \in TurnAt
  BY Apart DEF After, Noticed, Positions, CallerAt, TurnAt
<1>1. CASE RecordFailure(a)
  <2>1. PICK q \in {"backoff", "judging"} :
          Goto(a, q) /\ (a \in Turns <=> q = "backoff") /\ pc[a] = "counting"
    BY <1>1 DEF RecordFailure
  <2>2. /\ q \in Positions \ {"idle"}
        /\ a \in Callers => q \in CallerAt
        /\ a \in Turns => q \in TurnAt
    BY <1>a, <2>1 DEF Positions, CallerAt, TurnAt
  <2>3. Accounts(a)' <=> Accounts(a)
    BY <2>1, <2>2 DEF IInv, TypeOK, Accounts, Goto, Positions
  <2>4. mission[a] \in Missions /\ failures' \in [Missions -> Nat]
    <3>1. mission[a] \in Missions
      BY <2>1 DEF IInv, Placed
    <3> QED BY <3>1, <1>1 DEF RecordFailure, IInv, TypeOK
  <2>5. StreakPauses'
    <3>1. ASSUME faults = 0, NEW m \in Missions, status[m] = "active",
                 failures'[m] >= MaxFailures
          PROVE  \E b \in Actors : mission[b] = m /\ pc'[b] \in AboutToPause
      <4>1. CASE m = mission[a]
        BY <4>1, <2>1 DEF AboutToPause, Goto, IInv, TypeOK
      <4>2. CASE m # mission[a]
        <5>1. failures[m] >= MaxFailures
          BY <4>2, <3>1, <1>1, <2>4 DEF RecordFailure, IInv, TypeOK
        <5>2. PICK b \in Actors : mission[b] = m /\ pc[b] \in AboutToPause
          BY <5>1, <3>1 DEF IInv, Schedule, StreakPauses, AboutToPause
        <5> QED BY <5>2, <2>1 DEF AboutToPause, Goto, IInv, TypeOK
      <4> QED BY <4>1, <4>2
    <3> QED BY <3>1, <1>1 DEF StreakPauses, AboutToPause, RecordFailure
  <2>6. UNCHANGED <<status, wakeVars, costTotal, inFlight, robbed, rows, mission, userVars, faults>>
        /\ turnsToday' \in [Missions -> Nat]
        /\ threads' \subseteq Missions
    BY <1>1 DEF RecordFailure, IInv, TypeOK
  <2>7. Goto(a, q) /\ pc[a] \notin {"idle", "waking"}
    BY <2>1
  <2> QED BY <2>2, <2>3, <2>4, <2>5, <2>6, <2>7, CountsKeep
<1>2. CASE MaybeAutoPause(a)
  <2> DEFINE Judged == status[mission[a]] = "active" /\ failures[mission[a]] >= MaxFailures
  <2>1. PICK q \in {"pausing", After(a)} : Goto(a, q) /\ (Judged => q = "pausing")
    BY <1>2 DEF MaybeAutoPause
  <2>2. /\ q \in Positions \ {"idle"}
        /\ a \in Callers => q \in CallerAt
        /\ a \in Turns => q \in TurnAt
    BY <1>a, <2>1 DEF Positions, CallerAt, TurnAt
  <2>3. /\ pc[a] = "judging"
        /\ UNCHANGED <<status, wakeVars, countVars, inFlight, robbed, rows, mission, userVars, faults>>
    BY <1>2 DEF MaybeAutoPause
  <2>4. Accounts(a)' <=> Accounts(a)
    BY <2>1, <2>2, <2>3, <1>a DEF IInv, TypeOK, Accounts, Goto
  <2>5. StreakPauses'
    <3>1. ASSUME faults = 0, NEW m \in Missions, status[m] = "active",
                 failures[m] >= MaxFailures
          PROVE  \E b \in Actors : mission[b] = m /\ pc'[b] \in AboutToPause
      <4>1. PICK b \in Actors : mission[b] = m /\ pc[b] \in AboutToPause
        BY <3>1 DEF IInv, Schedule, StreakPauses, AboutToPause
      <4> QED BY <4>1, <3>1, <2>1 DEF AboutToPause, Goto, IInv, TypeOK
    <3> QED BY <3>1, <2>3 DEF StreakPauses, AboutToPause, countVars
  <2>6. /\ Goto(a, q) /\ pc[a] \notin {"idle", "waking"}
        /\ failures' \in [Missions -> Nat] /\ turnsToday' \in [Missions -> Nat]
        /\ threads' \subseteq Missions
        /\ UNCHANGED <<status, wakeVars, costTotal, inFlight, robbed, rows, mission, userVars, faults>>
    BY <2>1, <2>3 DEF IInv, TypeOK, countVars
  <2> HIDE DEF Judged
  <2> QED BY <2>2, <2>4, <2>5, <2>6, CountsKeep
<1>3. CASE AutoPause(a)
  <2>1. Accounts(a)' <=> Accounts(a)
    BY <1>3, <1>a DEF AutoPause, Noticed, IInv, TypeOK, Accounts, Goto, Positions
  <2> QED BY <1>3, <1>a, <2>1, WakeTimesKeep DEF AutoPause
<1> QED BY <1>1, <1>2, <1>3 DEF OutcomeStep

LEMMA TurnStepKeeps == ASSUME IInv, NEW x \in Turns, TurnStep(x) PROVE IInv'
<1>a. x \in Actors /\ x \notin Callers
  BY Apart
<1>b. \A q \in TurnAt \ {"idle"} : q \in Positions \ {"idle"}
  BY DEF Positions, TurnAt
<1>1. CASE TurnEnds(x)
  <2>1. PICK q \in {"completed", "counting", "closing"} : Goto(x, q)
    BY <1>1 DEF TurnEnds
  <2>2. /\ pc[x] = "running" /\ q \in TurnAt \ {"idle"}
        /\ UNCHANGED <<status, wakeVars, countVars, inFlight, robbed, rows, mission, userVars, faults>>
    BY <1>1 DEF TurnEnds, TurnAt
  <2>3. Accounts(x)' <=> Accounts(x)
    BY <2>1, <2>2 DEF IInv, TypeOK, Accounts, Goto, Positions
  <2>4. StreakPauses'
    BY <2>1, <2>2, StreaksKept DEF IInv, Schedule, AboutToPause, TypeOK, Goto, countVars
  <2>5. /\ failures' \in [Missions -> Nat] /\ turnsToday' \in [Missions -> Nat]
        /\ threads' \subseteq Missions
        /\ UNCHANGED <<status, wakeVars, costTotal, inFlight, robbed, rows, mission, userVars, faults>>
    BY <2>2 DEF IInv, TypeOK, countVars
  <2>6. pc[x] \notin {"idle", "waking"} /\ q \in Positions \ {"idle"}
    BY <2>2, <1>b
  <2> QED BY <1>a, <2>1, <2>2, <2>3, <2>4, <2>5, <2>6, CountsKeep
<1>2. CASE RecordSuccess(x)
  <2>1. /\ pc[x] = "completed" /\ Goto(x, "closing") /\ "closing" \in TurnAt \ {"idle"}
        /\ failures' = [failures EXCEPT ![mission[x]] = 0]
        /\ UNCHANGED <<status, wakeVars, turnsToday, costTotal, threads,
                       inFlight, robbed, rows, mission, userVars, faults>>
    BY <1>2 DEF RecordSuccess, TurnAt
  <2>2. Accounts(x)' <=> Accounts(x)
    BY <2>1 DEF IInv, TypeOK, Accounts, Goto, Positions
  <2>3. /\ failures' \in [Missions -> Nat] /\ turnsToday' \in [Missions -> Nat]
        /\ threads' \subseteq Missions
    BY <2>1 DEF IInv, TypeOK
  <2>4. \A m \in Missions : failures'[m] >= MaxFailures => failures[m] >= MaxFailures
    BY <2>1, SchedulerAssumption DEF IInv, TypeOK
  <2>5. StreakPauses'
    BY <2>1, <2>4, StreaksKept DEF IInv, Schedule, AboutToPause, TypeOK, Goto
  <2>6. pc[x] \notin {"idle", "waking"} /\ "closing" \in Positions \ {"idle"}
    BY <2>1, <1>b
  <2> QED BY <1>a, <2>1, <2>2, <2>3, <2>5, <2>6, CountsKeep
<1>3. CASE ApplyFailureBackoff(x)
  <2>1. /\ pc[x] = "backoff" /\ Goto(x, "judging") /\ "judging" \in TurnAt
        /\ SetNextWake(mission[x]) /\ UNCHANGED status
        /\ UNCHANGED <<countVars, inFlight, robbed, rows, mission, userVars, faults>>
        /\ "judging" \in AboutToPause /\ "judging" \in Positions \ {"idle"}
    BY <1>3 DEF ApplyFailureBackoff, TurnAt, AboutToPause, Positions
  <2>2. Accounts(x)' <=> Accounts(x)
    BY <2>1 DEF IInv, TypeOK, Accounts, Goto, Positions
  <2> QED BY <1>a, <2>1, <2>2, WakeTimesKeep
<1>4. CASE Release(x)
  <2>1. /\ pc[x] = "closing" /\ pc' = [pc EXCEPT ![x] = "idle"]
        /\ Unmark(x)
        /\ mission' = [mission EXCEPT ![x] = NoMission]
        /\ UNCHANGED <<status, wakeVars, countVars, rows, userVars, faults>>
    BY <1>4 DEF Release, Goto
  <2>2. TypeOK'
    BY <2>1, <1>a DEF IInv, TypeOK, Unmark, Positions, wakeVars, countVars, userVars
  <2>3. Placed'
    BY <2>1, <1>a DEF IInv, TypeOK, Placed, TurnAt
  <2>4. OnlyMoves(x) /\ Accounts(x) /\ ~Accounts(x)'
    BY <2>1, <1>a DEF IInv, TypeOK, OnlyMoves, Accounts, Positions
  <2>5. InFlightAccounted'
    BY <2>1, <2>4, <1>a, MarkLeft DEF IInv
  <2>6. NeverStranded'
    BY <2>1, WakesUnchanged DEF IInv, Schedule, wakeVars
  <2>7. StreakPauses'
    BY <2>1, StreaksKept DEF IInv, Schedule, AboutToPause, TypeOK, countVars
  <2> QED BY <2>2, <2>3, <2>5, <2>6, <2>7 DEF IInv, Schedule
<1>5. CASE HandlerThrows(x)
  <2>1. /\ Goto(x, "closing") /\ faults' = faults + 1 /\ pc[x] \notin {"idle", "waking"}
        /\ UNCHANGED <<status, wakeVars, countVars, inFlight, robbed, rows, mission, userVars>>
    BY <1>5 DEF HandlerThrows
  <2>2. /\ pc' \in [Actors -> Positions] /\ Placed' /\ OnlyMoves(x)
        /\ pc'[x] = "closing" /\ mission[x] \in Missions
    <3>1. "closing" \in Positions \ {"idle"} /\ "closing" \in TurnAt
      BY DEF Positions, TurnAt
    <3> QED BY <1>a, <2>1, <3>1, MovesOn
  <2>3. InFlightAccounted'
    <3>1. Accounts(x)' <=> Accounts(x)
      BY <1>a, <2>1, <2>2 DEF IInv, TypeOK, Accounts, Positions
    <3> QED BY <1>a, <2>1, <2>2, <3>1, MarksKept DEF IInv
  <2>4. TypeOK'
    <3>1. faults' \in Nat
      BY <2>1 DEF IInv, TypeOK
    <3> QED BY <2>1, <2>2, <3>1 DEF IInv, TypeOK, wakeVars, countVars, userVars
  <2>5. NeverStranded'
    BY <2>1, WakesUnchanged DEF IInv, Schedule, wakeVars
  <2>6. StreakPauses'
    BY <2>1 DEF IInv, TypeOK, StreakPauses
  <2> QED BY <2>2, <2>3, <2>4, <2>5, <2>6 DEF IInv, Schedule
<1> QED BY <1>1, <1>2, <1>3, <1>4, <1>5 DEF TurnStep
-----------------------------------------------------------------------------
(* The steps of no actor: requests on a mission, and the time that passes. *)
LEMMA ActorsRest ==
  ASSUME Placed, InFlightAccounted, UNCHANGED <<inFlight, robbed, pc, mission>>
  PROVE  Placed' /\ InFlightAccounted'
BY DEF Placed, InFlightAccounted, Accounts

(* A streak that did not grow, of a mission that was active before.        *)
LEMMA StreaksRest ==
  ASSUME StreakPauses, UNCHANGED <<pc, mission, faults>>,
         \A m \in Missions : status'[m] = "active" /\ failures'[m] >= MaxFailures
                               => status[m] = "active" /\ failures[m] >= MaxFailures
  PROVE  StreakPauses'
BY StreaksKept DEF AboutToPause

LEMMA OwnerKeeps ==
  ASSUME IInv, NEW m \in Missions, OwnerRequests(m) \/ Activate(m) \/ PauseOrComplete(m)
  PROVE  IInv'
<1> USE DEF IInv
<1>a. UNCHANGED <<inFlight, robbed, rows, pc, mission, agent, faults>>
  BY DEF OwnerRequests, Activate, PauseOrComplete, callVars
<1>b. Placed' /\ InFlightAccounted'
  BY <1>a, ActorsRest
<1>1. CASE OwnerRequests(m)
  <2>1. owner' \in [Missions -> OwnerAsks \cup {"none"}]
    BY <1>1 DEF OwnerRequests, TypeOK
  <2>2. UNCHANGED <<status, wakeVars, countVars>>
    BY <1>1 DEF OwnerRequests
  <2>3. TypeOK'
    BY <1>a, <2>1, <2>2 DEF TypeOK, wakeVars, countVars
  <2>4. NeverStranded' /\ StreakPauses'
    BY <1>a, <2>2, WakesUnchanged, StreaksRest DEF Schedule, wakeVars, countVars
  <2> QED BY <1>b, <2>3, <2>4 DEF Schedule
<1>2. CASE Activate(m)
  <2> DEFINE W == Without(m)
  <2>1. W \in Seq(Missions) /\ \A n : n # m /\ Due(n) => \E i \in DOMAIN W : W[i] = n
    BY WithoutKeeps DEF TypeOK
  <2>2. /\ due' = Append(W, m) /\ later' = later \ {m}
        /\ status' = [status EXCEPT ![m] = "active"]
        /\ failures' = [failures EXCEPT ![m] = 0]
        /\ owner' = [owner EXCEPT ![m] = "none"]
        /\ UNCHANGED <<turnsToday, costTotal, threads>>
    BY <1>2 DEF Activate
  <2> HIDE DEF W
  <2>3. due' \in Seq(Missions) /\ due'[Len(W) + 1] = m /\ Len(W) + 1 \in DOMAIN due'
    BY <2>1, <2>2
  <2>4. \A i \in DOMAIN W : i \in DOMAIN due' /\ due'[i] = W[i]
    BY <2>1, <2>2
  <2>5. \A n \in Missions : n = m \/ Due(n) => Due(n)'
    BY <2>1, <2>3, <2>4 DEF Due
  <2>6. NeverStranded'
    BY <2>2, <2>5 DEF Schedule, NeverStranded, HasWake, TypeOK
  <2>7. StreakPauses'
    BY <1>a, <2>2, StreaksRest, SchedulerAssumption DEF Schedule, TypeOK
  <2>8. TypeOK'
    BY <1>a, <2>2, <2>3 DEF TypeOK, Statuses
  <2> QED BY <1>b, <2>6, <2>7, <2>8 DEF Schedule
<1>3. CASE PauseOrComplete(m)
  <2>1. owner[m] \in Statuses \ {"active"} /\ SetStatus(m, owner[m])
    BY <1>3 DEF PauseOrComplete, Statuses
  <2>2. /\ status' \in [Missions -> Statuses] /\ later' \subseteq Missions
        /\ due' \in Seq(Missions) /\ NeverStranded'
        /\ \A n \in Missions : status'[n] = "active" => n # m /\ status[n] = "active"
    BY <2>1, WakeCleared DEF Schedule
  <2>3. UNCHANGED countVars /\ owner' \in [Missions -> OwnerAsks \cup {"none"}]
    BY <1>3 DEF PauseOrComplete, TypeOK
  <2>4. StreakPauses'
    BY <1>a, <2>2, <2>3, StreaksRest DEF Schedule, countVars
  <2>5. TypeOK'
    BY <1>a, <2>2, <2>3 DEF TypeOK, countVars
  <2> QED BY <1>b, <2>2, <2>4, <2>5 DEF Schedule
<1> QED BY <1>1, <1>2, <1>3

LEMMA AgentKeeps ==
  ASSUME IInv, NEW m \in Missions,
         AgentRequests(m) \/ ScheduleNextWake(m) \/ CompleteFromAgent(m) \/ AccumulateCost(m)
  PROVE  IInv'
<1> USE DEF IInv
<1>a. UNCHANGED <<failures, threads, inFlight, robbed, rows, pc, mission, owner, faults>>
  BY DEF AgentRequests, ScheduleNextWake, CompleteFromAgent, AccumulateCost, callVars,
         countVars, userVars
<1>b. Placed' /\ InFlightAccounted'
  BY <1>a, ActorsRest
<1>1. CASE AgentRequests(m) \/ AccumulateCost(m)
  <2>1. UNCHANGED <<status, later, due>>
    BY <1>1 DEF AgentRequests, AccumulateCost, wakeVars
  <2>2. TypeOK'
    <3>1. CASE AgentRequests(m)
      <4>1. agent' \in [Missions -> AgentAsks \cup {"none"}] /\ UNCHANGED countVars
        BY <3>1 DEF AgentRequests, TypeOK
      <4> QED BY <4>1, <1>a, <2>1 DEF TypeOK, countVars
    <3>2. CASE AccumulateCost(m)
      <4>1. costTotal' \in [Missions -> 0..MaxCostTotal]
        BY <3>2, SchedulerAssumption DEF AccumulateCost, TypeOK
      <4>2. UNCHANGED turnsToday
        BY <3>2 DEF AccumulateCost
      <4>3. UNCHANGED agent
        BY <3>2 DEF AccumulateCost, userVars
      <4> QED BY <4>1, <4>2, <4>3, <1>a, <2>1 DEF TypeOK
    <3> QED BY <3>1, <3>2, <1>1
  <2>3. NeverStranded' /\ StreakPauses'
    BY <1>a, <2>1, WakesUnchanged, StreaksRest DEF Schedule
  <2> QED BY <1>b, <2>2, <2>3 DEF Schedule
<1>2. CASE ScheduleNextWake(m) \/ CompleteFromAgent(m)
  <2>1. UNCHANGED countVars /\ agent' \in [Missions -> AgentAsks \cup {"none"}]
    BY <1>2 DEF ScheduleNextWake, CompleteFromAgent, TypeOK
  <2>2. /\ status' \in [Missions -> Statuses] /\ later' \subseteq Missions
        /\ due' \in Seq(Missions) /\ NeverStranded'
        /\ \A n \in Missions : status'[n] = "active" => status[n] = "active"
    <3>1. CASE ScheduleNextWake(m)
      <4>1. SetNextWake(m) /\ UNCHANGED status
        BY <3>1 DEF ScheduleNextWake
      <4> QED BY <4>1, NextWakeSet DEF Schedule, TypeOK
    <3>2. CASE CompleteFromAgent(m)
      <4>1. SetStatus(m, "completed") /\ "completed" \in Statuses \ {"active"}
        BY <3>2 DEF CompleteFromAgent, Statuses
      <4> QED BY <4>1, WakeCleared DEF Schedule
    <3> QED BY <3>1, <3>2, <1>2
  <2>3. TypeOK'
    BY <1>a, <2>1, <2>2 DEF TypeOK, countVars
  <2>4. StreakPauses'
    BY <1>a, <2>2, StreaksRest DEF Schedule
  <2> QED BY <1>b, <2>2, <2>3, <2>4 DEF Schedule
<1> QED BY <1>1, <1>2

LEMMA WakeTimePassesKeeps ==
  ASSUME IInv, NEW m \in Missions, WakeTimePasses(m) PROVE IInv'
<1> USE DEF IInv
<1>1. /\ later' = later \ {m} /\ due' = Append(due, m) /\ m \in later
      /\ UNCHANGED <<status, countVars, inFlight, robbed, callVars, userVars, faults>>
  BY DEF WakeTimePasses
<1>2. Placed' /\ InFlightAccounted'
  BY <1>1, ActorsRest DEF callVars
<1>3. due' \in Seq(Missions) /\ due'[Len(due) + 1] = m /\ Len(due) + 1 \in DOMAIN due'
      /\ \A i \in DOMAIN due : i \in DOMAIN due' /\ due'[i] = due[i]
  BY <1>1 DEF TypeOK
<1>4. TypeOK'
  BY <1>1, <1>3 DEF TypeOK, countVars, callVars, userVars
<1>5. \A n \in Missions : HasWake(n) => HasWake(n)'
  BY <1>1, <1>3 DEF HasWake, Due
<1>6. NeverStranded' /\ StreakPauses'
  BY <1>1, <1>5, StreaksRest DEF Schedule, NeverStranded, countVars, callVars
<1> QED BY <1>2, <1>4, <1>6 DEF Schedule

LEMMA NewDayKeeps == ASSUME IInv, NewDay PROVE IInv'
<1> USE DEF IInv
<1>1. UNCHANGED <<status, wakeVars, failures, costTotal, threads, inFlight, robbed, pc,
                  mission, userVars, faults>>
  BY DEF NewDay
<1>2. Placed' /\ InFlightAccounted'
  BY <1>1, ActorsRest
<1>3. rows' \in [Callers -> Seq(Rows)]
  <2>1. ASSUME NEW p \in Callers
        PROVE  [i \in DOMAIN rows[p] |->
                 [rows[p][i] EXCEPT !.budget = IF @ = "daily" THEN "ok" ELSE @]] \in Seq(Rows)
    <3>1. rows[p] \in Seq(Rows)
      BY DEF TypeOK, Rows
    <3>2. Len(rows[p]) \in Nat /\ DOMAIN rows[p] = 1..Len(rows[p])
      BY <3>1
    <3>3. \A i \in 1..Len(rows[p]) :
            [rows[p][i] EXCEPT !.budget = IF @ = "daily" THEN "ok" ELSE @] \in Rows
      <4>1. \A i \in 1..Len(rows[p]) : rows[p][i] \in Rows
        BY <3>1
      <4> QED BY <4>1 DEF Rows, Budgets
    <3>4. [i \in DOMAIN rows[p] |->
            [rows[p][i] EXCEPT !.budget = IF @ = "daily" THEN "ok" ELSE @]]
            \in [1..Len(rows[p]) -> Rows]
      BY <3>2, <3>3
    <3> QED BY <3>2, <3>4, SeqDef
  <2> QED BY <2>1 DEF NewDay
<1>4. TypeOK'
  <2>1. turnsToday' \in [Missions -> Nat]
    BY DEF NewDay
  <2> QED BY <1>1, <1>3, <2>1 DEF TypeOK, Rows, wakeVars, userVars
<1>5. NeverStranded' /\ StreakPauses'
  BY <1>1, WakesUnchanged, StreaksRest DEF Schedule, wakeVars
<1> QED BY <1>2, <1>4, <1>5 DEF Schedule

(* No mission is stalled when the backend boots.                           *)
LEMMA RestartKeeps == ASSUME IInv, Restart PROVE IInv'
<1> USE DEF IInv
<1> DEFINE stalled == {m \in Missions : status[m] = "active" /\ ~HasWake(m)}
<1>1. stalled = {}
  BY DEF Schedule, NeverStranded
<1>2. PICK s \in [1..Cardinality(stalled) -> stalled] : due' = due \o s
  BY DEF Restart
<1> HIDE DEF stalled
<1>3. Cardinality(stalled) = 0
  BY <1>1, FS_EmptySet
<1>4. s \in [1..0 -> Missions]
  BY <1>1, <1>2, <1>3
<1>5. s \in Seq(Missions) /\ Len(s) = 0
  <2>1. 0 \in Nat
    OBVIOUS
  <2> QED BY <1>4, <2>1, SeqDef
<1>6. due' \in Seq(Missions) /\ Len(due') = Len(due)
      /\ \A i \in DOMAIN due : i \in DOMAIN due' /\ due'[i] = due[i]
  BY <1>2, <1>5 DEF TypeOK
<1>7. TypeOK'
  <2>1. faults' \in Nat
    BY DEF Restart, TypeOK
  <2>2. rows' \in [Callers -> Seq(Rows)]
    BY DEF Restart
  <2> QED BY <1>6, <2>1, <2>2 DEF Restart, TypeOK, Rows, Positions, countVars
<1>8. Placed' /\ InFlightAccounted'
  <2>1. \A a \in Actors : pc'[a] = "idle" /\ ~Accounts(a)'
    BY DEF Restart, Accounts
  <2>2. inFlight' = {} /\ robbed' = {}
    BY DEF Restart
  <2> QED BY <2>1, <2>2, Apart DEF Placed, InFlightAccounted, CallerAt, TurnAt
<1>9. NeverStranded'
  BY <1>6 DEF Restart, Schedule, NeverStranded, HasWake, Due
<1>10. StreakPauses'
  BY DEF Restart, StreakPauses, TypeOK
<1> QED BY <1>7, <1>8, <1>9, <1>10 DEF Schedule
-----------------------------------------------------------------------------
LEMMA NextIInv == IInv /\ [Next]_vars => IInv'
<1> SUFFICES ASSUME IInv, [Next]_vars PROVE IInv'
  OBVIOUS
<1>1. ASSUME NEW p \in Sweeps, Sweep(p) PROVE IInv'
  BY <1>1, SweepKeeps
<1>2. ASSUME NEW p \in Owners, NEW m \in Missions, WakeNow(p, m) PROVE IInv'
  BY <1>2, WakeNowKeeps
<1>3. ASSUME NEW p \in Callers, WakeStep(p) PROVE IInv'
  BY <1>3, WakeStepKeeps
<1>4. ASSUME NEW a \in Actors, OutcomeStep(a) PROVE IInv'
  BY <1>4, OutcomeKeeps
<1>5. ASSUME NEW x \in Turns, TurnStep(x) PROVE IInv'
  BY <1>5, TurnStepKeeps
<1>6. ASSUME NEW m \in Missions, UserStep(m) PROVE IInv'
  BY <1>6, OwnerKeeps, AgentKeeps DEF UserStep
<1>7. ASSUME NEW m \in Missions, WakeTimePasses(m) PROVE IInv'
  BY <1>7, WakeTimePassesKeeps
<1>8. CASE NewDay
  BY <1>8, NewDayKeeps
<1>9. CASE Restart
  BY <1>9, RestartKeeps
<1>10. CASE UNCHANGED vars
  <2>1. UNCHANGED <<status, later, due, failures, turnsToday, costTotal, threads,
                    inFlight, robbed, rows, pc, mission, owner, agent, faults>>
    BY <1>10 DEF vars, wakeVars, countVars, callVars, userVars
  <2>2. TypeOK'
    BY <2>1 DEF IInv, TypeOK
  <2>3. Placed' /\ InFlightAccounted'
    BY <2>1, ActorsRest DEF IInv
  <2>4. NeverStranded' /\ StreakPauses'
    BY <2>1, WakesUnchanged, StreaksRest DEF IInv, Schedule
  <2> QED BY <2>2, <2>3, <2>4 DEF IInv, Schedule
<1> QED BY <1>1, <1>2, <1>3, <1>4, <1>5, <1>6, <1>7, <1>8, <1>9, <1>10 DEF Next

LEMMA Invariance == Spec => []IInv
BY InitIInv, NextIInv, PTL DEF Spec
-----------------------------------------------------------------------------
(* The state has its types.                                                *)
THEOREM Types == Spec => []TypeOK
<1>1. IInv => TypeOK
  BY DEF IInv
<1> QED BY <1>1, Invariance, PTL

(* Whatever owners, agents, sweeps, turns and restarts do to it, an active *)
(* mission keeps a wake time in its row.                                   *)
THEOREM MissionNeverStranded == Spec => []NeverStranded
<1>1. IInv => NeverStranded
  BY DEF IInv, Schedule
<1> QED BY <1>1, Invariance, PTL

(* inFlight holds no mission without a wake under way, and every such wake *)
(* has the mark for itself, except those of a mission whose mark the late  *)
(* failure of an earlier wake deleted.                                     *)
THEOREM MarksExact == Spec => []InFlightAccounted
<1>1. IInv => InFlightAccounted
  BY DEF IInv
<1> QED BY <1>1, Invariance, PTL

(* A streak of failures at the limit meets its auto-pause, unless a        *)
(* restart or an error took the step that was to pause it.                 *)
THEOREM StreaksPause == Spec => []StreakPauses
<1>1. IInv => StreakPauses
  BY DEF IInv, Schedule
<1> QED BY <1>1, Invariance, PTL
=============================================================================
