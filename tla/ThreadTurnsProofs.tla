--------------------------- MODULE ThreadTurnsProofs ---------------------------
(***************************************************************************)
(* What holds of a thread whose turns are started by the messages of a     *)
(* chat (Conversation) or by the requests of another agent (Delegation),   *)
(* for any number of them, of prompts and of stops.                        *)
(***************************************************************************)
EXTENDS Conversation, Delegation, TLAPS

(***************************************************************************)
(* A chat: the variables keep their types, a thread that is 'running' has  *)
(* a turn that will say otherwise, a prompt whose runtime waits can be     *)
(* answered, and no subscriber outlives the turns.                         *)
(***************************************************************************)
(* A timer belongs to the registered prompt: without this the timer of an  *)
(* earlier prompt could remove a later one.                                *)
OnlyItsTimer == timers \subseteq {pending}

IInv ==
  /\ TypeOK
  /\ RunningHasTurn
  /\ OnlyItsTimer
  /\ PromptAnswerable
  /\ SubscribersHaveTurn

Prompting == OnlyItsTimer /\ PromptAnswerable

LEMMA InitIInv == Init => IInv
<1> SUFFICES ASSUME Init PROVE IInv
  OBVIOUS
<1> USE DEF Init, TurnsInit, Messages
<1>1. TurnsTypeOK
  BY DEF TurnsTypeOK, TurnStates
<1>2. TypeOK
  BY <1>1 DEF TypeOK
<1> QED BY <1>2 DEF IInv, RunningHasTurn, OnlyItsTimer, PromptAnswerable,
                    SubscribersHaveTurn
-----------------------------------------------------------------------------
(* The turn of one message: its type, the status and the subscribers.      *)

(* Where a turn may go, except to the end of it.                           *)
LEMMA TurnMoves ==
  ASSUME TurnsTypeOK, RunningHasTurn, NEW m \in Callers,
         \/ Acquire(m) \/ Throws(m) \/ MarkRunning(m) \/ DeclineWrites(m)
         \/ GoLive(m) \/ Exit(m) \/ CloseWrites(m)
  PROVE  /\ TurnsTypeOK' /\ RunningHasTurn'
         /\ UnderWay' \/ turn'[m] = "threw"
         /\ \A c \in Callers : turn[c] = "threw" => turn'[c] = "threw"
<1>1. TurnsTypeOK'
  BY DEF TurnsTypeOK, TurnStates, Pending, Spawning, Turn, Acquire, Throws, MarkRunning,
         DeclineWrites, GoLive, Exit, CloseWrites
<1>2. RunningHasTurn'
  BY DEF TurnsTypeOK, RunningHasTurn, Turn, Acquire, Throws, MarkRunning, DeclineWrites,
         GoLive, Exit, CloseWrites
<1>3. UnderWay' \/ turn'[m] = "threw"
  BY DEF TurnsTypeOK, UnderWay, Pending, Spawning, Turn, Acquire, Throws, MarkRunning,
         DeclineWrites, GoLive, Exit, CloseWrites
<1>4. \A c \in Callers : turn[c] = "threw" => turn'[c] = "threw"
  BY DEF TurnsTypeOK, Turn, Acquire, Throws, MarkRunning, DeclineWrites, GoLive, Exit,
         CloseWrites
<1> QED BY <1>1, <1>2, <1>3, <1>4

(* The end of a turn: another one may be what the status tells of.         *)
LEMMA TurnEnds ==
  ASSUME TurnsTypeOK, RunningHasTurn, NEW m \in Callers, Declined(m) \/ Closed(m)
  PROVE  TurnsTypeOK' /\ RunningHasTurn' /\ turn[m] \in Announcing
BY DEF TurnsTypeOK, TurnStates, Pending, Spawning, Announcing, RunningHasTurn, Turn,
       Declined, Closed

LEMMA StopMoves ==
  ASSUME TurnsTypeOK, RunningHasTurn, NEW s \in Stops,
         StopBegins(s) \/ StopWrites(s) \/ StopAnnounces(s)
  PROVE  TurnsTypeOK' /\ RunningHasTurn' /\ UNCHANGED turn
<1>1. CASE StopBegins(s)
  BY <1>1 DEF TurnsTypeOK, RunningHasTurn, StopBegins
<1>2. CASE StopWrites(s)
  <2>1. stop' \in [Stops -> {"new", "killing", "missing", "announcing", "done"}]
    BY <1>2 DEF TurnsTypeOK, StopWrites
  <2> QED BY <1>2, <2>1 DEF TurnsTypeOK, RunningHasTurn, StopWrites
<1>3. CASE StopAnnounces(s)
  BY <1>3 DEF TurnsTypeOK, RunningHasTurn, StopAnnounces
<1> QED BY <1>1, <1>2, <1>3

(* A thread whose guard declines has a turn under way.                     *)
LEMMA BusyUnderWay == Busy => UnderWay
BY DEF Busy, UnderWay, Pending, Spawning
-----------------------------------------------------------------------------
LEMMA NextIInv == IInv /\ [Next]_vars => IInv'
<1> SUFFICES ASSUME IInv, [Next]_vars PROVE IInv'
  OBVIOUS
<1> USE DEF IInv, Messages
<1>0. TurnsTypeOK /\ RunningHasTurn
  BY DEF TypeOK
<1>1. ASSUME NEW m \in Messages, CheckHitl(m) PROVE IInv'
  BY <1>1 DEF CheckHitl, Advance, turnVars, hitlVars, TypeOK, TurnsTypeOK, RunningHasTurn,
              OnlyItsTimer, PromptAnswerable, SubscribersHaveTurn, UnderWay
<1>2. ASSUME NEW m \in Messages, StoreReply(m) PROVE IInv'
  BY <1>2 DEF StoreReply, Advance, turnVars, hitlVars, TypeOK, TurnsTypeOK, RunningHasTurn,
              OnlyItsTimer, PromptAnswerable, SubscribersHaveTurn, UnderWay
<1>3. ASSUME NEW m \in Messages, ResolveReply(m) PROVE IInv'
  <2>1. TypeOK'
    BY <1>3 DEF ResolveReply, Advance, Resolved, Responded, Settled, turnVars, TypeOK,
                TurnsTypeOK
  <2>2. Prompting'
    BY <1>3 DEF ResolveReply, Resolved, Settled, TypeOK, Prompting, OnlyItsTimer,
                PromptAnswerable
  <2> QED BY <1>3, <2>1, <2>2 DEF ResolveReply, turnVars, Prompting, RunningHasTurn,
                                  SubscribersHaveTurn, UnderWay
<1>4. ASSUME NEW m \in Messages, ReadThread(m) PROVE IInv'
  BY <1>4 DEF ReadThread, Advance, turnVars, hitlVars, TypeOK, TurnsTypeOK, RunningHasTurn,
              OnlyItsTimer, PromptAnswerable, SubscribersHaveTurn, UnderWay
<1>5. ASSUME NEW m \in Messages, Append(m) PROVE IInv'
  BY <1>5 DEF Append, Advance, turnVars, hitlVars, TypeOK, TurnsTypeOK, RunningHasTurn,
              OnlyItsTimer, PromptAnswerable, SubscribersHaveTurn, UnderWay
<1>6. ASSUME NEW m \in Messages, Spawn(m) PROVE IInv'
  <2>1. /\ TurnsTypeOK' /\ RunningHasTurn'
        /\ UnderWay' \/ turn'[m] = "threw"
    BY <1>0, <1>6, TurnMoves, BusyUnderWay
       DEF Spawn, turnVars, TurnsTypeOK, RunningHasTurn, UnderWay
  <2>2. TypeOK'
    BY <1>6, <2>1 DEF Spawn, Advance, hitlVars, TypeOK
  <2> QED BY <1>6, <2>1, <2>2 DEF Spawn, hitlVars, OnlyItsTimer, PromptAnswerable,
                                  SubscribersHaveTurn
<1>7. ASSUME NEW m \in Messages, Goes(m) PROVE IInv'
  <2>1. /\ TurnsTypeOK' /\ RunningHasTurn'
        /\ UnderWay' \/ turn'[m] = "threw"
    BY <1>0, <1>7, TurnMoves DEF Goes
  <2>2. TypeOK'
    BY <1>7, <2>1 DEF Goes, pipeVars, hitlVars, TypeOK
  <2> QED BY <1>7, <2>1, <2>2 DEF Goes, pipeVars, hitlVars, OnlyItsTimer,
                                  PromptAnswerable, SubscribersHaveTurn
<1>8. ASSUME NEW m \in Messages, Exits(m) PROVE IInv'
  <2>1. /\ TurnsTypeOK' /\ RunningHasTurn'
        /\ UnderWay' \/ turn'[m] = "threw"
    BY <1>0, <1>8, TurnMoves DEF Exits
  <2>2. TypeOK'
    BY <1>8, <2>1 DEF Exits, pipeVars, TypeOK
  <2> QED BY <1>8, <2>1, <2>2 DEF Exits, pipeVars, OnlyItsTimer, PromptAnswerable,
                                  SubscribersHaveTurn
<1>9. ASSUME NEW m \in Messages, LlmError(m) PROVE IInv'
  BY <1>9 DEF LlmError, turnVars, hitlVars, TypeOK, TurnsTypeOK, RunningHasTurn,
              OnlyItsTimer, PromptAnswerable, SubscribersHaveTurn
<1>10. ASSUME NEW m \in Messages, Announces(m) PROVE IInv'
  <2>1. TurnsTypeOK' /\ RunningHasTurn' /\ subs' = {}
    BY <1>0, <1>10, TurnEnds DEF Announces, Announced
  <2>2. TypeOK'
    BY <1>10, <2>1 DEF Announces, hitlVars, TypeOK
  <2> QED BY <1>10, <2>1, <2>2 DEF Announces, hitlVars, OnlyItsTimer, PromptAnswerable,
                                   SubscribersHaveTurn
<1>11. ASSUME NEW q \in Prompts, PromptTimesOut(q) PROVE IInv'
  <2>1. TypeOK'
    BY <1>11 DEF PromptTimesOut, Responded, Settled, turnVars, pipeVars, TypeOK, TurnsTypeOK
  <2>2. Prompting'
    BY <1>11 DEF PromptTimesOut, Settled, TypeOK, Prompting, OnlyItsTimer, PromptAnswerable
  <2> QED BY <1>11, <2>1, <2>2 DEF PromptTimesOut, turnVars, pipeVars, Prompting,
                                   RunningHasTurn, SubscribersHaveTurn, UnderWay
<1>12. ASSUME NEW q \in Prompts, RuntimeGivesUp(q) PROVE IInv'
  BY <1>12 DEF RuntimeGivesUp, turnVars, pipeVars, TypeOK, TurnsTypeOK, RunningHasTurn,
               OnlyItsTimer, PromptAnswerable, SubscribersHaveTurn, UnderWay
<1>13. ASSUME NEW q \in Prompts, NEW m \in Messages, SubmitPrompt(q, m) PROVE IInv'
  <2>1. TypeOK'
    <3>1. prompt' \in [Prompts -> [by : Messages \cup {None},
                             is : {"unused", "waiting", "superseded", "timedOut", "answered"}]]
      BY <1>13 DEF SubmitPrompt, Settled, TypeOK
    <3>2. listening' \subseteq {p \in Prompts : prompt'[p].is = "waiting"}
      BY <1>13 DEF SubmitPrompt, Settled, Responded, TypeOK
    <3> QED BY <1>13, <3>1, <3>2
            DEF SubmitPrompt, Superseded, turnVars, pipeVars, TypeOK, TurnsTypeOK
  <2>2. Prompting'
    BY <1>13 DEF SubmitPrompt, Settled, Superseded, TypeOK, Prompting, OnlyItsTimer,
                 PromptAnswerable
  <2> QED BY <1>13, <2>1, <2>2 DEF SubmitPrompt, turnVars, pipeVars, Prompting,
                                   RunningHasTurn, SubscribersHaveTurn, UnderWay
<1>14. ASSUME NEW s \in Stops, StopSteps(s) PROVE IInv'
  <2>1. TurnsTypeOK' /\ RunningHasTurn' /\ UNCHANGED turn
    BY <1>0, <1>14, StopMoves DEF StopSteps
  <2> QED BY <1>14, <2>1 DEF StopSteps, pipeVars, hitlVars, TypeOK, OnlyItsTimer,
                             PromptAnswerable, SubscribersHaveTurn, UnderWay
<1>15. ASSUME NEW s \in Stops, StopEnds(s) PROVE IInv'
  <2>1. TurnsTypeOK' /\ RunningHasTurn' /\ UNCHANGED turn
    BY <1>0, <1>15, StopMoves DEF StopEnds
  <2> QED BY <1>15, <2>1 DEF StopEnds, hitlVars, TypeOK, OnlyItsTimer, PromptAnswerable,
                             SubscribersHaveTurn
<1>16. CASE UNCHANGED vars
  BY <1>16 DEF vars, TypeOK, TurnsTypeOK, RunningHasTurn, OnlyItsTimer, PromptAnswerable,
               SubscribersHaveTurn, UnderWay
<1> QED
  BY <1>1, <1>2, <1>3, <1>4, <1>5, <1>6, <1>7, <1>8, <1>9, <1>10, <1>11, <1>12, <1>13,
     <1>14, <1>15, <1>16
  DEF Next, PipelineStep, TurnStep

LEMMA Invariance == Spec => []IInv
<1> QED BY InitIInv, NextIInv, PTL DEF Spec
-----------------------------------------------------------------------------
(* Every variable keeps its type, and a runtime that still waits waits for *)
(* a prompt that is neither answered, superseded nor timed out.            *)
THEOREM ConversationTypes == Spec => []TypeOK
<1>1. IInv => TypeOK
  BY DEF IInv
<1> QED BY Invariance, <1>1, PTL

(* AgentRuntimeService.ts: for any number of messages and stops, a thread  *)
(* that says 'running' has a turn that is going to write its status.       *)
THEOREM RunningEnds == Spec => []RunningHasTurn
<1>1. IInv => RunningHasTurn
  BY DEF IInv
<1> QED BY Invariance, <1>1, PTL

(* AgentProxyService.ts 148-205: for any number of prompts, one whose      *)
(* runtime waits is registered and has its own timer armed.                *)
THEOREM PromptsAnswerable == Spec => []PromptAnswerable
<1>1. IInv => PromptAnswerable
  BY DEF IInv
<1> QED BY Invariance, <1>1, PTL

(* pipeline.ts 142-157: for any number of messages, a subscriber has a     *)
(* turn under way that will remove it, or a spawn threw.                   *)
THEOREM SubscribersLeave == Spec => []SubscribersHaveTurn
<1>1. IInv => SubscribersHaveTurn
  BY DEF IInv
<1> QED BY Invariance, <1>1, PTL

(***************************************************************************)
(* Requests of a pair of agents: the variables keep their types, a request *)
(* that failed is never read, and the answer of an ask is that of a turn   *)
(* that read it.                                                           *)
(***************************************************************************)
(* Between startAsk's two marks of the pair nobody else of it is.          *)
InService == {"checking", "appending", "delivered", "spawning", "undoing"}
OneInFlight ==
  \A r \in Requests :
    op[r] \in InService => inFlight /\ \A q \in Requests : op[q] \in InService => q = r

(* How far the service is with a request against where its turn is, its    *)
(* message, its waiter and its result.                                     *)
Sent == {"delivered", "spawning", "started", "undoing"}
Gone == {"closing", "closed", "over"}
Ran == Gone \cup {"live"}
Places ==
  \A r \in Requests :
    /\ op[r] = "spawning" <=> turn[r] \in Spawning
    /\ op[r] = "started" <=> turn[r] \in Ran
    /\ r \in delivered <=> op[r] \in Sent
    /\ r \in waiters \/ verdict[r] # "none" =>
         op[r] \in {"spawning", "started", "undoing", "failed"}
    /\ result[r].is # "none" => verdict[r] # "none"
    /\ ended[r] \in {"completed", "error", "idle"} <=> turn[r] \in Gone
    /\ r \in loaded => turn[r] \in Ran

(* The rest holds until a user stops a turn.  Once prepareDelegation has   *)
(* found the thread not running, no turn but the request's own is at work. *)
AtWork == {"driving", "live", "closing"}
Working(c) == turn[c] \in AtWork \cup {"preparing"}
Alone ==
  /\ ~cancelled
  /\ \A c \in Callers : turn[c] \in AtWork => running
  /\ \A c, d \in Callers : Working(c) /\ Working(d) => c = d
  /\ \A r, c \in Callers :
       op[r] \in InService \ {"checking"} /\ Working(c) => c = r

(* What a turn has read: nothing of a request that has not started, and,   *)
(* while it may still store an answer that counts, all of those that have. *)
Readers ==
  /\ \A r, c \in Callers : op[r] # "started" => r \notin reads[c]
  /\ \A r, c \in Callers :
       c \in loaded /\ op[r] = "started" => r \in reads[c] \/ turn[c] \in {"closed", "over"}
  /\ \A c \in streaming : turn[c] \in Gone => ended[c] = "error"

(* The text an ask may take for its answer, and the one it has taken.      *)
OwnText(a, c) == c \in loaded /\ (a \in reads[c] \/ ended[c] = "error")
Texts ==
  /\ \A a \in fresh :
       /\ op[a] \in Sent \cup {"failed"}
       /\ op[a] \in {"delivered", "spawning", "started"} => OwnText(a, lastText)
  /\ \A a \in Requests :
       result[a].is = "completed" /\ op[a] \in {"spawning", "started"} =>
         OwnText(a, result[a].by)

Quiet == Unstopped => Alone /\ Readers /\ Texts
DelegationInv == DelegationTypeOK /\ OneInFlight /\ Places /\ Quiet

-----------------------------------------------------------------------------
(* A step of a turn keeps the types of ThreadTurns.                        *)
LEMMA TurnTypes ==
  ASSUME TurnsTypeOK, NEW c \in Callers,
         \/ Throws(c) \/ MarkRunning(c) \/ DeclineWrites(c) \/ Declined(c)
         \/ GoLive(c) \/ Exit(c) \/ CloseWrites(c) \/ Closed(c)
  PROVE  TurnsTypeOK'
<1>1. running' \in BOOLEAN /\ UNCHANGED stop
  BY DEF TurnsTypeOK, Throws, MarkRunning, DeclineWrites, Declined, GoLive, Exit,
         CloseWrites, Closed
<1>2. \E s \in TurnStates : turn' = [turn EXCEPT ![c] = s]
  BY DEF Throws, MarkRunning, DeclineWrites, Declined, GoLive, Exit, CloseWrites, Closed,
         Turn, TurnStates, Pending, Spawning
<1> QED BY <1>1, <1>2 DEF TurnsTypeOK

(* So does one of a stop.                                                  *)
LEMMA StopTypes ==
  ASSUME TurnsTypeOK, NEW s \in Stops, StopBegins(s) \/ StopWrites(s) \/ StopAnnounces(s)
  PROVE  TurnsTypeOK'
<1>1. running' \in BOOLEAN /\ UNCHANGED turn
  BY DEF TurnsTypeOK, StopBegins, StopWrites, StopAnnounces
<1>2. \E x \in {"new", "killing", "missing", "announcing", "done"} :
        stop' = [stop EXCEPT ![s] = x]
  BY DEF StopBegins, StopWrites, StopAnnounces
<1> QED BY <1>1, <1>2 DEF TurnsTypeOK

(* CloseEnds settles the waiters with a status: Places says it has one.    *)
LEMMA TypeStep ==
  ASSUME DelegationTypeOK, OneInFlight, Places, [DelegationNext]_delegationVars
  PROVE  DelegationTypeOK'
<1> USE DEF Requests, turnVars, opVars, endVars, workVars, askVars, DelegationTypeOK
<1>1. ASSUME NEW r \in Requests, PrepareRefuses(r) PROVE DelegationTypeOK'
  <2>1. op' \in [Callers -> {"new", "checking", "appending", "delivered", "spawning",
                          "started", "undoing", "failed", "refused"}]
    BY <1>1 DEF PrepareRefuses, OpAt
  <2> QED BY <1>1, <2>1 DEF PrepareRefuses, OpAt, TurnsTypeOK
<1>2. ASSUME NEW r \in Requests, SpawnTarget(r) PROVE DelegationTypeOK'
  <2>1. TurnsTypeOK'
    BY <1>2 DEF SpawnTarget, Acquire, Turn, TurnsTypeOK, TurnStates, Pending, Spawning
  <2>2. op' \in [Callers -> {"new", "checking", "appending", "delivered", "spawning",
                          "started", "undoing", "failed", "refused"}]
    BY <1>2 DEF SpawnTarget, OpAt
  <2>3. verdict[r] = "none"
    BY <1>2 DEF SpawnTarget, OpAt, Places
  <2> QED BY <1>2, <2>1, <2>2, <2>3 DEF SpawnTarget, OpAt
<1>3. ASSUME NEW r \in Requests, Works(r) PROVE DelegationTypeOK'
  <2>1. TurnsTypeOK'
    BY <1>3, TurnTypes DEF Works
  <2> QED BY <1>3, <2>1 DEF Works
<1>4. ASSUME NEW r \in Requests, Starts(r) PROVE DelegationTypeOK'
  <2>1. TurnsTypeOK'
    BY <1>4, TurnTypes DEF Starts
  <2> QED BY <1>4, <2>1 DEF Starts, OpAt
<1>5. ASSUME NEW r \in Requests, SpawnDeclined(r) PROVE DelegationTypeOK'
  <2>1. TurnsTypeOK'
    BY <1>5, TurnTypes DEF SpawnDeclined
  <2> QED BY <1>5, <2>1 DEF SpawnDeclined, OpAt, SettleWaiters
<1>6. ASSUME NEW r \in Requests, SpawnThrows(r) PROVE DelegationTypeOK'
  <2>1. TurnsTypeOK'
    BY <1>6, TurnTypes DEF SpawnThrows
  <2> QED BY <1>6, <2>1 DEF SpawnThrows, OpAt, SettleWaiters
<1>7. ASSUME NEW r \in Requests, Ends(r) PROVE DelegationTypeOK'
  <2>1. TurnsTypeOK'
    BY <1>7, TurnTypes DEF Ends
  <2>2. ended' \in [Callers -> {"none", "answering", "completed", "error", "idle"}]
    BY <1>7 DEF Ends
  <2> QED BY <1>7, <2>1, <2>2 DEF Ends
<1>8. ASSUME NEW r \in Requests, CloseEnds(r) PROVE DelegationTypeOK'
  <2>1. TurnsTypeOK'
    BY <1>8, TurnTypes DEF CloseEnds
  <2>2. ended[r] \in {"completed", "error", "idle"}
    BY <1>8 DEF CloseEnds, Closed, Turn, Places, Gone
  <2> QED BY <1>8, <2>1, <2>2 DEF CloseEnds, SettleWaiters
<1>9. ASSUME NEW s \in Stops, StopsTarget(s) PROVE DelegationTypeOK'
  <2>1. TurnsTypeOK'
    BY <1>9, StopTypes DEF StopsTarget
  <2> QED BY <1>9, <2>1 DEF StopsTarget
<1>10. ASSUME NEW r \in Requests,
              \/ Request(r) \/ PrepareChecks(r) \/ Deliver(r) \/ Undo(r)
       PROVE  DelegationTypeOK'
  <2>1. op' \in [Callers -> {"new", "checking", "appending", "delivered", "spawning",
                          "started", "undoing", "failed", "refused"}]
    BY <1>10 DEF Request, OpAt, PrepareChecks, Deliver, Undo
  <2>2. UNCHANGED <<turnVars, asks, endVars, workVars, askVars>>
        /\ inFlight' \in BOOLEAN /\ delivered' \subseteq Requests
    BY <1>10 DEF Request, OpAt, PrepareChecks, Deliver, Undo, RolledBack
  <2> QED BY <2>1, <2>2 DEF TurnsTypeOK
<1>11. ASSUME NEW r \in Requests,
              \/ LoadHistory(r) \/ CallModel(r) \/ StoreAnswer(r)
       PROVE  DelegationTypeOK'
  BY <1>11 DEF LoadHistory, CallModel, StoreAnswer, TurnsTypeOK
<1>12. ASSUME NEW r \in Requests,
              \/ WaiterTimesOut(r) \/ Finalize(r) \/ FinalizeFails(r)
       PROVE  DelegationTypeOK'
  BY <1>12 DEF WaiterTimesOut, TimedOut, Finalize, Outcome, Response, NoResult,
               FinalizeFails, TurnsTypeOK
<1>13. ASSUME NEW r \in Requests,
              \/ Sweep(r) \/ Poll(r)
       PROVE  DelegationTypeOK'
  BY <1>13 DEF Sweep, Poll, TurnsTypeOK
<1>14. CASE UNCHANGED delegationVars
  BY <1>14 DEF delegationVars, TurnsTypeOK
<1> QED BY <1>1, <1>2, <1>3, <1>4, <1>5, <1>6, <1>7, <1>8, <1>9, <1>10, <1>11, <1>12,
           <1>13, <1>14 DEF DelegationNext, RequestStep, TargetTurnStep

(* inFlight is taken by Request alone, and only when nobody holds it.      *)
LEMMA MarkStep ==
  ASSUME DelegationTypeOK, OneInFlight, [DelegationNext]_delegationVars
  PROVE  OneInFlight'
<1> USE DEF Requests, turnVars, opVars, endVars, workVars, askVars, OneInFlight,
            InService, DelegationTypeOK
<1>1. ASSUME NEW r \in Requests, Request(r) PROVE OneInFlight'
  BY <1>1 DEF Request, OpAt
<1>2. ASSUME NEW r \in Requests, PrepareRefuses(r) PROVE OneInFlight'
  BY <1>2 DEF PrepareRefuses, OpAt
<1>3. ASSUME NEW r \in Requests, PrepareChecks(r) PROVE OneInFlight'
  BY <1>3 DEF PrepareChecks, OpAt
<1>4. ASSUME NEW r \in Requests, Deliver(r) PROVE OneInFlight'
  BY <1>4 DEF Deliver, OpAt
<1>5. ASSUME NEW r \in Requests, SpawnTarget(r) PROVE OneInFlight'
  BY <1>5 DEF SpawnTarget, OpAt, Acquire, Turn, Busy
<1>6. ASSUME NEW r \in Requests, Undo(r) PROVE OneInFlight'
  BY <1>6 DEF Undo, OpAt, RolledBack
<1>7. ASSUME NEW r \in Requests, Starts(r) PROVE OneInFlight'
  BY <1>7 DEF Starts, OpAt, GoLive, Turn
<1>8. ASSUME NEW r \in Requests, SpawnDeclined(r) PROVE OneInFlight'
  BY <1>8 DEF SpawnDeclined, OpAt, Declined, Turn, SettleWaiters
<1>9. ASSUME NEW r \in Requests, SpawnThrows(r) PROVE OneInFlight'
  BY <1>9 DEF SpawnThrows, OpAt, Throws, Turn, SettleWaiters
<1>10. ASSUME NEW r \in Requests,
              \/ Works(r) \/ Ends(r) \/ CloseEnds(r) \/ LoadHistory(r)
              \/ CallModel(r) \/ StoreAnswer(r) \/ WaiterTimesOut(r)
              \/ Finalize(r) \/ FinalizeFails(r) \/ Sweep(r) \/ Poll(r)
       PROVE  OneInFlight'
  BY <1>10 DEF Works, Ends, CloseEnds, LoadHistory, CallModel, StoreAnswer,
               WaiterTimesOut, Finalize, FinalizeFails, Sweep, Poll
<1>11. ASSUME NEW s \in Stops, StopsTarget(s) PROVE OneInFlight'
  BY <1>11 DEF StopsTarget, StopBegins, StopWrites, StopAnnounces
<1>12. CASE UNCHANGED delegationVars
  BY <1>12 DEF delegationVars
<1> QED BY <1>1, <1>2, <1>3, <1>4, <1>5, <1>6, <1>7, <1>8, <1>9, <1>10, <1>11, <1>12
        DEF DelegationNext, RequestStep, TargetTurnStep

(* A request, its turn, message, waiter and result move together.          *)
LEMMA PlaceStep ==
  ASSUME DelegationTypeOK, Places, [DelegationNext]_delegationVars
  PROVE  Places'
<1> USE DEF Requests, turnVars, opVars, endVars, workVars, askVars, Places,
            DelegationTypeOK, TurnsTypeOK, Spawning, Sent, Gone, Ran
<1>1. ASSUME NEW r \in Requests, Deliver(r) PROVE Places'
  BY <1>1 DEF Deliver, OpAt
<1>2. ASSUME NEW r \in Requests, SpawnTarget(r) PROVE Places'
  BY <1>2 DEF SpawnTarget, OpAt, Acquire, Turn, Busy
<1>3. ASSUME NEW r \in Requests, Undo(r) PROVE Places'
  BY <1>3 DEF Undo, OpAt, RolledBack
<1>4. ASSUME NEW r \in Requests, Works(r) PROVE Places'
  BY <1>4 DEF Works, MarkRunning, DeclineWrites, CloseWrites, Turn
<1>5. ASSUME NEW r \in Requests, Starts(r) PROVE Places'
  BY <1>5 DEF Starts, OpAt, GoLive, Turn
<1>6. ASSUME NEW r \in Requests, SpawnDeclined(r) PROVE Places'
  BY <1>6 DEF SpawnDeclined, OpAt, Declined, Turn, SettleWaiters
<1>7. ASSUME NEW r \in Requests, SpawnThrows(r) PROVE Places'
  BY <1>7 DEF SpawnThrows, OpAt, Throws, Turn, SettleWaiters
<1>8. ASSUME NEW r \in Requests, Ends(r) PROVE Places'
  BY <1>8 DEF Ends, Exit, Turn
<1>9. ASSUME NEW r \in Requests, CloseEnds(r) PROVE Places'
  BY <1>9 DEF CloseEnds, Closed, Turn, SettleWaiters
<1>10. ASSUME NEW r \in Requests, LoadHistory(r) PROVE Places'
  BY <1>10 DEF LoadHistory
<1>11. ASSUME NEW r \in Requests, WaiterTimesOut(r) PROVE Places'
  BY <1>11 DEF WaiterTimesOut, TimedOut
<1>12. ASSUME NEW r \in Requests, Finalize(r) PROVE Places'
  BY <1>12 DEF Finalize, Outcome, Response, NoResult
<1>13. ASSUME NEW r \in Requests, FinalizeFails(r) PROVE Places'
  BY <1>13 DEF FinalizeFails, NoResult
<1>14. ASSUME NEW r \in Requests,
              \/ Request(r) \/ PrepareRefuses(r) \/ PrepareChecks(r)
              \/ CallModel(r) \/ StoreAnswer(r) \/ Sweep(r) \/ Poll(r)
       PROVE  Places'
  BY <1>14 DEF Request, OpAt, PrepareRefuses, PrepareChecks, CallModel, StoreAnswer,
               Sweep, Poll
<1>15. ASSUME NEW s \in Stops, StopsTarget(s) PROVE Places'
  BY <1>15 DEF StopsTarget, StopBegins, StopWrites, StopAnnounces
<1>16. CASE UNCHANGED delegationVars
  BY <1>16 DEF delegationVars
<1> QED BY <1>1, <1>2, <1>3, <1>4, <1>5, <1>6, <1>7, <1>8, <1>9, <1>10, <1>11, <1>12,
           <1>13, <1>14, <1>15, <1>16 DEF DelegationNext, RequestStep, TargetTurnStep

(* PrepareChecks reads 'running': no turn is at work then, and none starts *)
(* before the request that holds inFlight starts its own.                  *)
LEMMA AloneStep ==
  ASSUME DelegationTypeOK, OneInFlight, Places, Quiet, Unstopped',
         [DelegationNext]_delegationVars
  PROVE  Alone'
<1> USE DEF Requests, turnVars, opVars, endVars, workVars, askVars, Quiet, Unstopped,
            Alone, Working, AtWork, OneInFlight, InService, Places, Spawning, Gone, Ran,
            DelegationTypeOK, TurnsTypeOK
<1>1. ASSUME NEW r \in Requests, Request(r) PROVE Alone'
  BY <1>1 DEF Request, OpAt
<1>2. ASSUME NEW r \in Requests, PrepareRefuses(r) PROVE Alone'
  BY <1>2 DEF PrepareRefuses, OpAt
<1>3. ASSUME NEW r \in Requests, PrepareChecks(r) PROVE Alone'
  BY <1>3 DEF PrepareChecks, OpAt
<1>4. ASSUME NEW r \in Requests, Deliver(r) PROVE Alone'
  BY <1>4 DEF Deliver, OpAt
<1>5. ASSUME NEW r \in Requests, SpawnTarget(r) PROVE Alone'
  BY <1>5 DEF SpawnTarget, OpAt, Acquire, Turn, Busy
<1>6. ASSUME NEW r \in Requests, Undo(r) PROVE Alone'
  BY <1>6 DEF Undo, OpAt, RolledBack
<1>7. ASSUME NEW r \in Requests, Works(r) PROVE Alone'
  <2> USE DEF Quiet, Unstopped, Alone, Working, AtWork, DelegationTypeOK, TurnsTypeOK
  <2>1. CASE MarkRunning(r)
    BY <1>7, <2>1 DEF Works, MarkRunning, Turn
  <2>2. CASE DeclineWrites(r)
    BY <1>7, <2>2 DEF Works, DeclineWrites, Turn
  <2>3. CASE CloseWrites(r)
    BY <1>7, <2>3 DEF Works, CloseWrites, Turn
  <2> QED BY <1>7, <2>1, <2>2, <2>3 DEF Works
<1>8. ASSUME NEW r \in Requests, Starts(r) PROVE Alone'
  BY <1>8 DEF Starts, OpAt, GoLive, Turn
<1>9. ASSUME NEW r \in Requests, SpawnDeclined(r) PROVE Alone'
  BY <1>9 DEF SpawnDeclined, OpAt, Declined, Turn, SettleWaiters
<1>10. ASSUME NEW r \in Requests, SpawnThrows(r) PROVE Alone'
  BY <1>10 DEF SpawnThrows, OpAt, Throws, Turn, SettleWaiters
<1>11. ASSUME NEW r \in Requests, Ends(r) PROVE Alone'
  BY <1>11 DEF Ends, Exit, Turn
<1>12. ASSUME NEW r \in Requests, CloseEnds(r) PROVE Alone'
  BY <1>12 DEF CloseEnds, Closed, Turn, SettleWaiters
<1>13. ASSUME NEW s \in Stops, StopsTarget(s) PROVE Alone'
  BY <1>13 DEF StopsTarget, StopBegins, StopWrites, StopAnnounces
<1>14. ASSUME NEW r \in Requests,
              \/ LoadHistory(r) \/ CallModel(r) \/ StoreAnswer(r)
              \/ WaiterTimesOut(r) \/ Finalize(r) \/ FinalizeFails(r)
              \/ Sweep(r) \/ Poll(r)
       PROVE  Alone'
  BY <1>14 DEF LoadHistory, CallModel, StoreAnswer, WaiterTimesOut, TimedOut, Finalize,
               Outcome, Response, NoResult, FinalizeFails, Sweep, Poll
<1>15. CASE UNCHANGED delegationVars
  BY <1>15 DEF delegationVars
<1> QED BY <1>1, <1>2, <1>3, <1>4, <1>5, <1>6, <1>7, <1>8, <1>9, <1>10, <1>11, <1>12,
           <1>13, <1>14, <1>15 DEF DelegationNext, RequestStep, TargetTurnStep

(* LoadHistory reads delivered: Alone says that the only request in it     *)
(* that has not started is the turn's own, and that one is not live yet.   *)
LEMMA ReaderStep ==
  ASSUME DelegationTypeOK, Places, Quiet, Unstopped',
         [DelegationNext]_delegationVars
  PROVE  Readers'
<1> USE DEF Requests, turnVars, opVars, endVars, workVars, askVars, Quiet, Unstopped,
            Alone, Working, AtWork, Readers, InService, Places, Spawning, Gone, Ran,
            Sent, DelegationTypeOK, TurnsTypeOK
<1>1. ASSUME NEW r \in Requests, SpawnTarget(r) PROVE Readers'
  <2>1. /\ op[r] = "delivered" /\ op'[r] # "started"
        /\ \A q \in Requests : q # r => op'[q] = op[q]
        /\ \A c \in Callers : turn'[c] = turn[c] \/ turn[c] = "none"
    BY <1>1 DEF SpawnTarget, OpAt, Acquire, Turn, DelegationTypeOK, TurnsTypeOK
  <2>2. UNCHANGED <<ended, reads, loaded, streaming>> /\ Unstopped
    BY <1>1 DEF SpawnTarget, Acquire, Unstopped
  <2>3. \A c \in loaded : turn[c] \in Ran
    BY DEF DelegationTypeOK, Places
  <2> QED BY <2>1, <2>2, <2>3 DEF Quiet, Readers, DelegationTypeOK, Gone, Ran
<1>2. ASSUME NEW r \in Requests, Undo(r) PROVE Readers'
  BY <1>2 DEF Undo, OpAt, RolledBack
<1>3. ASSUME NEW r \in Requests, Works(r) PROVE Readers'
  BY <1>3 DEF Works, MarkRunning, DeclineWrites, CloseWrites, Turn
<1>4. ASSUME NEW r \in Requests, Starts(r) PROVE Readers'
  BY <1>4 DEF Starts, OpAt, GoLive, Turn
<1>5. ASSUME NEW r \in Requests, SpawnDeclined(r) PROVE Readers'
  BY <1>5 DEF SpawnDeclined, OpAt, Declined, Turn, SettleWaiters
<1>6. ASSUME NEW r \in Requests, SpawnThrows(r) PROVE Readers'
  BY <1>6 DEF SpawnThrows, OpAt, Throws, Turn, SettleWaiters
<1>7. ASSUME NEW r \in Requests, Ends(r) PROVE Readers'
  BY <1>7 DEF Ends, Exit, Turn
<1>8. ASSUME NEW r \in Requests, CloseEnds(r) PROVE Readers'
  BY <1>8 DEF CloseEnds, Closed, Turn, SettleWaiters
<1>9. ASSUME NEW r \in Requests, LoadHistory(r) PROVE Readers'
  BY <1>9 DEF LoadHistory
<1>10. ASSUME NEW r \in Requests, CallModel(r) PROVE Readers'
  BY <1>10 DEF CallModel
<1>11. ASSUME NEW r \in Requests, StoreAnswer(r) PROVE Readers'
  BY <1>11 DEF StoreAnswer
<1>12. ASSUME NEW s \in Stops, StopsTarget(s) PROVE Readers'
  BY <1>12 DEF StopsTarget, StopBegins, StopWrites, StopAnnounces
<1>13. ASSUME NEW r \in Requests,
              \/ Request(r) \/ PrepareRefuses(r) \/ PrepareChecks(r)
              \/ Deliver(r) \/ WaiterTimesOut(r) \/ Finalize(r)
              \/ FinalizeFails(r) \/ Sweep(r) \/ Poll(r)
       PROVE  Readers'
  BY <1>13 DEF Request, OpAt, PrepareRefuses, PrepareChecks, Deliver, WaiterTimesOut,
               TimedOut, Finalize, Outcome, Response, NoResult, FinalizeFails, Sweep, Poll
<1>14. CASE UNCHANGED delegationVars
  BY <1>14 DEF delegationVars
<1> QED BY <1>1, <1>2, <1>3, <1>4, <1>5, <1>6, <1>7, <1>8, <1>9, <1>10, <1>11, <1>12,
           <1>13, <1>14 DEF DelegationNext, RequestStep, TargetTurnStep

(* StoreAnswer: the turn has read all that started, or was killed before.  *)
LEMMA TextStep ==
  ASSUME DelegationTypeOK, Places, Quiet, Unstopped',
         [DelegationNext]_delegationVars
  PROVE  Texts'
<1> USE DEF Requests, turnVars, opVars, endVars, workVars, askVars, Quiet, Unstopped,
            Alone, Working, AtWork, Readers, Texts, OwnText, InService, Places,
            Spawning, Gone, Ran, Sent, DelegationTypeOK, TurnsTypeOK
<1>1. ASSUME NEW r \in Requests, Deliver(r) PROVE Texts'
  BY <1>1 DEF Deliver, OpAt
<1>2. ASSUME NEW r \in Requests, SpawnTarget(r) PROVE Texts'
  BY <1>2 DEF SpawnTarget, OpAt, Acquire, Turn, Busy
<1>3. ASSUME NEW r \in Requests, Undo(r) PROVE Texts'
  BY <1>3 DEF Undo, OpAt, RolledBack
<1>4. ASSUME NEW r \in Requests, Starts(r) PROVE Texts'
  BY <1>4 DEF Starts, OpAt, GoLive, Turn
<1>5. ASSUME NEW r \in Requests, SpawnDeclined(r) PROVE Texts'
  BY <1>5 DEF SpawnDeclined, OpAt, Declined, Turn, SettleWaiters
<1>6. ASSUME NEW r \in Requests, SpawnThrows(r) PROVE Texts'
  BY <1>6 DEF SpawnThrows, OpAt, Throws, Turn, SettleWaiters
<1>7. ASSUME NEW r \in Requests, Ends(r) PROVE Texts'
  BY <1>7 DEF Ends, Exit, Turn
<1>8. ASSUME NEW r \in Requests, CloseEnds(r) PROVE Texts'
  BY <1>8 DEF CloseEnds, Closed, Turn, SettleWaiters
<1>9. ASSUME NEW r \in Requests, LoadHistory(r) PROVE Texts'
  BY <1>9 DEF LoadHistory
<1>10. ASSUME NEW r \in Requests, CallModel(r) PROVE Texts'
  BY <1>10 DEF CallModel
<1>11. ASSUME NEW r \in Requests, StoreAnswer(r) PROVE Texts'
  BY <1>11 DEF StoreAnswer
<1>12. ASSUME NEW s \in Stops, StopsTarget(s) PROVE Texts'
  BY <1>12 DEF StopsTarget, StopBegins, StopWrites, StopAnnounces
<1>13. ASSUME NEW r \in Requests, Finalize(r) PROVE Texts'
  BY <1>13 DEF Finalize, Outcome, Response, NoResult
<1>14. ASSUME NEW r \in Requests, FinalizeFails(r) PROVE Texts'
  BY <1>14 DEF FinalizeFails, NoResult
<1>15. ASSUME NEW r \in Requests,
              \/ Request(r) \/ PrepareRefuses(r) \/ PrepareChecks(r)
              \/ Works(r) \/ WaiterTimesOut(r) \/ Sweep(r) \/ Poll(r)
       PROVE  Texts'
  BY <1>15 DEF Request, OpAt, PrepareRefuses, PrepareChecks, Works, MarkRunning,
               DeclineWrites, CloseWrites, Turn, WaiterTimesOut, TimedOut, Sweep, Poll
<1>16. CASE UNCHANGED delegationVars
  BY <1>16 DEF delegationVars
<1> QED BY <1>1, <1>2, <1>3, <1>4, <1>5, <1>6, <1>7, <1>8, <1>9, <1>10, <1>11, <1>12,
           <1>13, <1>14, <1>15, <1>16 DEF DelegationNext, RequestStep, TargetTurnStep

-----------------------------------------------------------------------------
LEMMA InitDelegation == DelegationInit => DelegationInv
<1> SUFFICES ASSUME DelegationInit PROVE DelegationInv
  OBVIOUS
<1> USE DEF DelegationInit, TurnsInit, Requests, NoResult
<1>1. DelegationTypeOK
  BY DEF DelegationTypeOK, TurnsTypeOK, TurnStates
<1>2. OneInFlight /\ Places
  BY DEF OneInFlight, InService, Places, Spawning, Gone, Ran, Sent
<1>3. Alone /\ Readers /\ Texts
  BY DEF Alone, Working, AtWork, Readers, Texts
<1> QED BY <1>1, <1>2, <1>3 DEF DelegationInv, Quiet

LEMMA NextDelegation ==
  DelegationInv /\ [DelegationNext]_delegationVars => DelegationInv'
BY TypeStep, MarkStep, PlaceStep, AloneStep, ReaderStep, TextStep DEF DelegationInv, Quiet

LEMMA DelegationInvariance == DelegationSpec => []DelegationInv
BY InitDelegation, NextDelegation, PTL DEF DelegationSpec
-----------------------------------------------------------------------------
(* Every variable keeps its type: a waiter is settled at most once.        *)
THEOREM DelegationTypes == DelegationSpec => []DelegationTypeOK
<1>1. DelegationInv => DelegationTypeOK
  BY DEF DelegationInv
<1> QED BY <1>1, DelegationInvariance, PTL

(* Whatever requests come while another is under way, declined or throws,  *)
(* one that failed has not been read by any turn.                          *)
THEOREM FailedNeverRead == DelegationSpec => []FailedUnread
<1>1. DelegationInv => FailedUnread
  BY DEF DelegationInv, Quiet, Readers, FailedUnread, Requests
<1> QED BY <1>1, DelegationInvariance, PTL

(* Whatever the order of answers, timeouts, closes and later requests, the *)
(* answer of an ask is the text of a turn that read it, or of a killed one.*)
THEOREM OwnAnswers == DelegationSpec => []AnswerIsItsOwn
<1>1. DelegationInv => AnswerIsItsOwn
  BY DEF DelegationInv, Quiet, Texts, OwnText, AnswerIsItsOwn, Requests
<1> QED BY <1>1, DelegationInvariance, PTL
=============================================================================
