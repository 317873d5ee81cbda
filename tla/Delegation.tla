----------------------------- MODULE Delegation -----------------------------
(***************************************************************************)
(* services/AgentMessagingService.ts: the requests of one agent (in one of *)
(* its threads) to another, which all go to one thread of the target.  A   *)
(* send is forgotten, an ask is polled for its answer.  The user may stop  *)
(* the turns; that users write to such a thread too is left out.           *)
(***************************************************************************)
EXTENDS ThreadTurns

CONSTANT Nobody       \* no request

Requests == Callers   \* each starts a turn of the target

VARIABLES
  asks,       \* the requests that are calls of startAsk, not of sendMessage
  op,         \* how far the service is with each request
  inFlight,   \* the pair of agents has a request between prepare and spawn
  delivered,  \* the requests whose message is in the target's thread
  cancelled,  \* cancelledThreads has the thread
  ended,      \* the status with which each turn ended
  reads,      \* the requests in the history each turn loaded
  loaded,     \* the turns that have loaded it
  streaming,  \* the turns whose answer the LLM proxy is streaming
  lastText,   \* the turn of the last assistant text in the thread
  fresh,      \* the asks with an assistant text after their message
  entry,      \* pendingAsks: the ask registered for the thread
  waiters,    \* completionWaiters: the asks that wait for the thread's turn
  verdict,    \* the status each ask's waiter was settled with
  result,     \* each ask's result
  told        \* whose result the caller of each ask was told

opVars == <<asks, op, inFlight, delivered>>
endVars == <<cancelled, ended>>
workVars == <<reads, loaded, streaming, lastText, fresh>>
askVars == <<entry, waiters, verdict, result, told>>
delegationVars == <<turnVars, opVars, endVars, workVars, askVars>>

NoResult == [is |-> "none", by |-> Nobody]

DelegationInit ==
  /\ TurnsInit
  /\ asks \in SUBSET Requests
  /\ op = [c \in Callers |-> "new"]
  /\ inFlight = FALSE
  /\ delivered = {}
  /\ cancelled = FALSE
  /\ ended = [c \in Callers |-> "none"]
  /\ reads = [c \in Callers |-> {}]
  /\ loaded = {} /\ streaming = {} /\ fresh = {}
  /\ lastText = Nobody
  /\ entry = Nobody
  /\ waiters = {}
  /\ verdict = [a \in Requests |-> "none"]
  /\ result = [a \in Requests |-> NoResult]
  /\ told = [a \in Requests |-> Nobody]

OpAt(c, from, to) ==
  op[c] = from /\ op' = [op EXCEPT ![c] = to] /\ UNCHANGED asks
-----------------------------------------------------------------------------
(* A request, until its turn is spawned.                                   *)

Request(r) ==
  /\ op[r] = "new"
  /\ OpAt(r, "new", IF inFlight THEN "refused" ELSE "checking")
  /\ inFlight' = TRUE
  /\ UNCHANGED <<turnVars, delivered, endVars, workVars, askVars>>

(* prepareDelegation refuses: the target is still at work, or is none this *)
(* agent may write to, or the database fails.                              *)
PrepareRefuses(r) ==
  /\ OpAt(r, "checking", "refused") \/ OpAt(r, "appending", "refused")
  /\ inFlight' = FALSE
  /\ UNCHANGED <<turnVars, delivered, endVars, workVars, askVars>>
PrepareChecks(r) ==
  /\ ~running
  /\ OpAt(r, "checking", "appending")
  /\ UNCHANGED <<turnVars, inFlight, delivered, endVars, workVars, askVars>>

Deliver(r) ==
  /\ OpAt(r, "appending", "delivered")
  /\ delivered' = delivered \cup {r}
  /\ UNCHANGED <<turnVars, inFlight, endVars, workVars, askVars>>

(* An ask is registered and waits before it spawns.  A turn that is live   *)
(* or spawning declines a second one and says nothing to anybody.          *)
SpawnTarget(r) ==
  /\ OpAt(r, "delivered", IF Busy THEN "undoing" ELSE "spawning")
  /\ IF Busy THEN UNCHANGED turnVars ELSE Acquire(r)
  /\ IF r \in asks
       THEN entry' = r /\ waiters' = waiters \cup {r}
       ELSE UNCHANGED <<entry, waiters>>
  /\ UNCHANGED <<inFlight, delivered, endVars, workVars, verdict, result, told>>

(* The message of a request whose turn never started is deleted, and only  *)
(* then does the next request come in.                                     *)
KeepsMessage(r) == delivered                  \* mutant of RolledBack
RolledBack(r) == delivered \ {r}
Undo(r) ==
  /\ OpAt(r, "undoing", "failed")
  /\ delivered' = RolledBack(r)
  /\ inFlight' = FALSE
  /\ UNCHANGED <<turnVars, endVars, workVars, askVars>>
-----------------------------------------------------------------------------
(* The turn of a request.                                                  *)

SettleWaiters(status) ==
  /\ waiters' = {}
  /\ verdict' = [a \in Requests |-> IF a \in waiters THEN status ELSE verdict[a]]
  /\ UNCHANGED <<entry, result, told>>

Works(c) ==
  /\ MarkRunning(c) \/ DeclineWrites(c) \/ CloseWrites(c)
  /\ UNCHANGED <<opVars, endVars, workVars, askVars>>

(* The spawn returns, and the pair may send again.                         *)
Starts(c) ==
  /\ GoLive(c)
  /\ OpAt(c, "spawning", "started")
  /\ inFlight' = FALSE
  /\ UNCHANGED <<delivered, endVars, workVars, askVars>>

SpawnDeclined(c) ==
  /\ Declined(c)
  /\ OpAt(c, "spawning", "undoing")
  /\ SettleWaiters("error")
  /\ UNCHANGED <<inFlight, delivered, endVars, workVars>>

SpawnThrows(c) ==
  /\ Throws(c)
  /\ OpAt(c, "spawning", "undoing")
  /\ IF c \in asks THEN SettleWaiters("error") ELSE UNCHANGED askVars
  /\ UNCHANGED <<inFlight, delivered, endVars, workVars>>

LoadHistory(c) ==
  /\ turn[c] = "live" /\ c \notin loaded
  /\ loaded' = loaded \cup {c}
  /\ reads' = [reads EXCEPT ![c] = delivered]
  /\ UNCHANGED <<turnVars, opVars, endVars, streaming, lastText, fresh, askVars>>

(* Bound: a turn answers once, with its last call to the model.            *)
CallModel(c) ==
  /\ turn[c] = "live" /\ c \in loaded /\ ended[c] = "none"
  /\ streaming' = streaming \cup {c}
  /\ ended' = [ended EXCEPT ![c] = "answering"]
  /\ UNCHANGED <<turnVars, opVars, cancelled, reads, loaded, lastText, fresh, askVars>>

(* The proxy stores the answer when the stream ends, also when the runtime *)
(* that asked for it is gone.                                              *)
StoreAnswer(c) ==
  /\ c \in streaming
  /\ streaming' = streaming \ {c}
  /\ lastText' = c
  /\ fresh' = asks \cap delivered
  /\ UNCHANGED <<turnVars, opVars, endVars, reads, loaded, askVars>>

Ends(c) ==
  /\ Exit(c)
  /\ cancelled' = FALSE
  /\ \E status \in {"completed", "error"} :
       /\ status = "completed" => ended[c] = "answering" /\ c \notin streaming
       /\ ended' = [ended EXCEPT ![c] = IF cancelled THEN "idle" ELSE status]
  /\ UNCHANGED <<opVars, workVars, askVars>>

CloseEnds(c) ==
  /\ Closed(c)
  /\ SettleWaiters(ended[c])
  /\ UNCHANGED <<opVars, endVars, workVars>>

StopsTarget(s) ==
  /\ StopBegins(s) \/ StopWrites(s) \/ StopAnnounces(s)
  /\ cancelled' = (cancelled \/ (stop[s] = "new" /\ stop'[s] = "killing"))
  /\ UNCHANGED <<ended, opVars, workVars, askVars>>
-----------------------------------------------------------------------------
(* What becomes of an ask.                                                 *)

RemovedOnly(a) == verdict                     \* mutant of TimedOut
TimedOut(a) == [verdict EXCEPT ![a] = "error"]
WaiterTimesOut(a) ==
  /\ a \in waiters
  /\ waiters' = waiters \ {a}
  /\ verdict' = TimedOut(a)
  /\ UNCHANGED <<turnVars, opVars, endVars, workVars, entry, result, told>>

(* The last text after the ask's message; all texts if that is gone.       *)
AnyText(a) == lastText                        \* mutant of Response
Response(a) == IF a \in fresh \/ a \notin delivered THEN lastText ELSE Nobody

Outcome(a) ==
  IF verdict[a] = "completed" /\ Response(a) # Nobody
    THEN [is |-> "completed", by |-> Response(a)]
    ELSE [is |-> "error", by |-> Nobody]

Finalize(a) ==
  /\ verdict[a] # "none" /\ result[a] = NoResult
  /\ result' = [result EXCEPT ![a] = Outcome(a)]
  /\ UNCHANGED <<turnVars, opVars, endVars, workVars, entry, waiters, verdict, told>>
FinalizeFails(a) ==
  /\ verdict[a] = "completed" /\ result[a] = NoResult
  /\ result' = [result EXCEPT ![a].is = "error"]
  /\ UNCHANGED <<turnVars, opVars, endVars, workVars, entry, waiters, verdict, told>>

Sweep(a) ==
  /\ result[a] # NoResult /\ entry = a
  /\ entry' = Nobody
  /\ UNCHANGED <<turnVars, opVars, endVars, workVars, waiters, verdict, result, told>>

(* The caller polls the thread of an ask that started: whichever ask is    *)
(* registered there, until it has a result, or none is (404).              *)
Poll(a) ==
  /\ a \in asks /\ op[a] = "started" /\ told[a] = Nobody
  /\ entry # Nobody => result[entry] # NoResult
  /\ told' = [told EXCEPT ![a] = IF entry = Nobody THEN a ELSE entry]
  /\ UNCHANGED <<turnVars, opVars, endVars, workVars, entry, waiters, verdict, result>>
-----------------------------------------------------------------------------
RequestStep(r) ==
  PrepareRefuses(r) \/ PrepareChecks(r) \/ Deliver(r) \/ SpawnTarget(r) \/ Undo(r)
TargetTurnStep(c) ==
  \/ Works(c) \/ Starts(c) \/ SpawnDeclined(c) \/ SpawnThrows(c)
  \/ Ends(c) \/ CloseEnds(c)

DelegationNext ==
  \/ \E r \in Requests : Request(r) \/ RequestStep(r)
  \/ \E c \in Callers :
       TargetTurnStep(c) \/ LoadHistory(c) \/ CallModel(c) \/ StoreAnswer(c)
  \/ \E s \in Stops : StopsTarget(s)
  \/ \E a \in Requests :
       WaiterTimesOut(a) \/ Finalize(a) \/ FinalizeFails(a) \/ Sweep(a) \/ Poll(a)

DelegationSpec == DelegationInit /\ [][DelegationNext]_delegationVars

(* Awaited calls return, timers fire, the hard timeout ends every turn, and*)
(* a caller goes on polling.                                               *)
DelegationFairness ==
  /\ \A r \in Requests : WF_delegationVars(RequestStep(r))
  /\ \A c \in Callers : WF_delegationVars(TargetTurnStep(c))
  /\ \A a \in Requests :
       /\ WF_delegationVars(WaiterTimesOut(a))
       /\ WF_delegationVars(Finalize(a))
       /\ WF_delegationVars(Poll(a))
DelegationFairSpec == DelegationSpec /\ DelegationFairness
-----------------------------------------------------------------------------
DelegationTypeOK ==
  /\ TurnsTypeOK
  /\ asks \subseteq Requests
  /\ op \in [Callers -> {"new", "checking", "appending", "delivered", "spawning",
                         "started", "undoing", "failed", "refused"}]
  /\ inFlight \in BOOLEAN
  /\ delivered \subseteq Requests
  /\ cancelled \in BOOLEAN
  /\ ended \in [Callers -> {"none", "answering", "completed", "error", "idle"}]
  /\ reads \in [Callers -> SUBSET Requests]
  /\ loaded \subseteq Callers /\ streaming \subseteq loaded /\ fresh \subseteq asks
  /\ lastText \in Callers \cup {Nobody}
  /\ entry \in asks \cup {Nobody}
  /\ waiters \subseteq {a \in asks : verdict[a] = "none"}
  /\ verdict \in [Requests -> {"none", "completed", "error", "idle"}]
  /\ result \in [Requests -> [is : {"none", "completed", "error"},
                               by : Callers \cup {Nobody}]]
  /\ told \in [Requests -> Requests \cup {Nobody}]

Unstopped == \A s \in Stops : stop[s] = "new"

(* AgentMessagingService.ts 500-507: the answer an ask gets is that of a   *)
(* turn that read it, whatever other requests, timeouts and late closes    *)
(* there are; or the late text of one that was killed while the model      *)
(* wrote.  A stop may bring it the answer of the turn before.              *)
AnswerIsItsOwn ==
  Unstopped =>
    \A a \in Requests :
      op[a] = "started" /\ result[a].is = "completed" =>
        \/ a \in reads[result[a].by]
        \/ ended[result[a].by] = "error"

(* AgentMessagingService.ts 165-177: a request whose turn did not start is *)
(* not carried out by the turn of a later one, provided that its message   *)
(* could be deleted and that no user stopped a turn meanwhile.             *)
FailedUnread ==
  Unstopped =>
    \A r \in Requests, c \in Callers : op[r] \in {"undoing", "failed"} => r \notin reads[c]

(* docs/guide/agent-to-agent.md:21: the caller of an ask "waits for an     *)
(* answer", and does not wait for ever.                                    *)
AskReturns ==
  \A a \in Requests : a \in asks /\ op[a] = "started" ~> told[a] # Nobody
=============================================================================
