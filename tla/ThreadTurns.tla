---------------------------- MODULE ThreadTurns ----------------------------
(***************************************************************************)
(* The turns of one thread, as those see them who start turns in it        *)
(* (services/AgentRuntimeService.ts): the thread's status row, what keeps  *)
(* two turns apart, and the points at which the end of a turn is written   *)
(* and announced.  AgentRuntime has the details; Conversation and          *)
(* Delegation add what happens to the messages, prompts and waiters.       *)
(***************************************************************************)
EXTENDS Naturals, FiniteSets

CONSTANTS Callers,  \* who may start a turn: each at most one
          Stops     \* stops of the thread that users ask for

VARIABLES
  running,  \* agent_threads.status is 'running'
  turn,     \* where the turn of each caller is
  stop      \* where each stop is

turnVars == <<running, turn, stop>>

Spawning == {"preparing", "driving", "declining"}
Announcing == {"declining", "closed"}
Pending == Spawning \cup {"live", "closing", "closed"}
TurnStates == Pending \cup {"none", "declined", "threw", "over"}

(* liveRuns or spawningThreads has the thread.                             *)
Busy == \E c \in Callers : turn[c] \in Spawning \cup {"live"}
UnderWay == \E c \in Callers : turn[c] \in Pending

TurnsInit ==
  /\ running = FALSE
  /\ turn = [c \in Callers |-> "none"]
  /\ stop = [s \in Stops |-> "new"]

Turn(c, from, to) == turn[c] = from /\ turn' = [turn EXCEPT ![c] = to]
-----------------------------------------------------------------------------
(* The duplicate guard: what happens before the first await of a spawn.    *)
Acquire(c) == ~Busy /\ Turn(c, "none", "preparing") /\ UNCHANGED <<running, stop>>

(* The agent is gone, or its config cannot be built.                       *)
Throws(c) == Turn(c, "preparing", "threw") /\ UNCHANGED <<running, stop>>

MarkRunning(c) ==
  Turn(c, "preparing", "driving") /\ running' = TRUE /\ UNCHANGED stop

(* The cap is reached, there is no model, or the driver fails: the status  *)
(* 'error' is written, and announced when the write returns.               *)
DeclineSilently(c) ==                         \* mutant of DeclineWrites
  /\ Turn(c, "preparing", "declining") \/ Turn(c, "driving", "declining")
  /\ UNCHANGED <<running, stop>>
DeclineWrites(c) ==
  /\ Turn(c, "preparing", "declining") \/ Turn(c, "driving", "declining")
  /\ running' = FALSE
  /\ UNCHANGED stop
Declined(c) == Turn(c, "declining", "declined") /\ UNCHANGED <<running, stop>>

GoLive(c) == Turn(c, "driving", "live") /\ UNCHANGED <<running, stop>>

(* The process exits by itself, by a stop or by the hard timeout: onClose  *)
(* takes its handle out of liveRuns, then saves the browser session.       *)
Exit(c) == Turn(c, "live", "closing") /\ UNCHANGED <<running, stop>>
CloseWrites(c) ==
  Turn(c, "closing", "closed") /\ running' = FALSE /\ UNCHANGED stop
Closed(c) == Turn(c, "closed", "over") /\ UNCHANGED <<running, stop>>
-----------------------------------------------------------------------------
(* cancelTurn reads the handle, writes the status, and then kills the      *)
(* process; without a handle it announces the end of the turn itself.      *)
StopBegins(s) ==
  /\ stop[s] = "new"
  /\ stop' = [stop EXCEPT ![s] =
                IF \E c \in Callers : turn[c] = "live" THEN "killing" ELSE "missing"]
  /\ UNCHANGED <<running, turn>>

StopWrites(s) ==
  /\ stop[s] \in {"killing", "missing"}
  /\ stop' = [stop EXCEPT ![s] = IF @ = "killing" THEN "done" ELSE "announcing"]
  /\ running' = FALSE
  /\ UNCHANGED turn

StopAnnounces(s) ==
  /\ stop[s] = "announcing"
  /\ stop' = [stop EXCEPT ![s] = "done"]
  /\ UNCHANGED <<running, turn>>
-----------------------------------------------------------------------------
TurnsTypeOK ==
  /\ running \in BOOLEAN
  /\ turn \in [Callers -> TurnStates]
  /\ stop \in [Stops -> {"new", "killing", "missing", "announcing", "done"}]

(* A thread that says 'running' has a turn that will still write its       *)
(* status: whatever was declined, thrown, stopped or killed, no thread is  *)
(* left refusing messages for good.                                        *)
RunningHasTurn ==
  running => \E c \in Callers :
               turn[c] \in {"driving", "live", "closing"}
=============================================================================
