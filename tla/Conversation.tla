---------------------------- MODULE Conversation ----------------------------
(***************************************************************************)
(* One thread of a chat: the message pipeline (channels/pipeline.ts), the  *)
(* prompts with which an agent asks the human in the middle of a turn      *)
(* (services/AgentProxyService.ts), and the stream subscribers that bring  *)
(* the turn's events to a channel (services/AgentStreamBus.ts).  A message *)
(* is its own HTTP request or channel update, the subscriber registered    *)
(* for it, and the turn it starts.                                         *)
(***************************************************************************)
EXTENDS ThreadTurns

CONSTANTS Prompts,   \* bound: the prompts that agents submit
          None       \* no prompt

VARIABLES
  request,    \* how far the pipeline is with each message
  stored,     \* the messages in the thread's history
  subs,       \* the messages whose stream subscriber is registered
  pending,    \* pendingHitl: the prompt registered for the thread, or None
  timers,     \* the prompts whose timer is armed
  prompt,     \* what became of each prompt's promise
  listening   \* the prompts whose runtime still holds its request open

Messages == Callers  \* each is a caller of spawnForThread

pipeVars == <<request, stored, subs>>
hitlVars == <<pending, timers, prompt, listening>>
vars == <<running, turn, stop, request, stored, subs, pending, timers, prompt, listening>>

Init ==
  /\ TurnsInit
  /\ request = [m \in Messages |-> "new"]
  /\ stored = {}
  /\ subs = {}
  /\ pending = None
  /\ timers = {}
  /\ prompt = [q \in Prompts |-> [by |-> None, is |-> "unused"]]
  /\ listening = {}

Advance(m, from, to) ==
  request[m] = from /\ request' = [request EXCEPT ![m] = to]
-----------------------------------------------------------------------------
(* Prompts: submitHitlRequest, its timer, and the request that waits.      *)

Settled(ps, how) ==
  [q \in Prompts |-> IF q \in ps THEN [prompt[q] EXCEPT !.is = how] ELSE prompt[q]]

Responded(q) == listening \ {q}

SupersedeKeepsTimer == timers                 \* mutant of Superseded
Superseded == timers \ {pending}

(* A prompt takes the place of one that is still registered: its timer is  *)
(* cleared and its promise rejected.                                       *)
SubmitPrompt(q, m) ==
  /\ turn[m] = "live"
  /\ prompt[q].is = "unused"
  /\ pending' = q
  /\ timers' = Superseded \cup {q}
  /\ prompt' = [Settled({pending}, "superseded") EXCEPT ![q] = [by |-> m, is |-> "waiting"]]
  /\ listening' = Responded(pending) \cup {q}
  /\ UNCHANGED <<turnVars, pipeVars>>

(* The timer deletes the entry of the thread, whosever it is.              *)
PromptTimesOut(q) ==
  /\ q \in timers
  /\ timers' = timers \ {q}
  /\ pending' = None
  /\ prompt' = Settled({q}, "timedOut")
  /\ listening' = Responded(q)
  /\ UNCHANGED <<turnVars, pipeVars>>

(* The runtime's request ends first: it would wait longer than the prompt, *)
(* but fetch gives up on a response that is held for more than five        *)
(* minutes.  The backend does not notice.                                  *)
RuntimeGivesUp(q) ==
  /\ q \in listening
  /\ listening' = listening \ {q}
  /\ UNCHANGED <<turnVars, pipeVars, pending, timers, prompt>>
-----------------------------------------------------------------------------
(* The pipeline.                                                           *)

CheckHitl(m) ==
  /\ request[m] = "new"
  /\ Advance(m, "new", IF pending = None THEN "reading" ELSE "replying")
  /\ UNCHANGED <<turnVars, stored, subs, hitlVars>>

StoreReply(m) ==
  /\ Advance(m, "replying", "replyStored")
  /\ stored' = stored \cup {m}
  /\ UNCHANGED <<turnVars, subs, hitlVars>>

(* resolveHitlRequest: the prompt registered by now, if there is one.      *)
ResolveKeepsEntry == pending                  \* mutant of Resolved
Resolved == None
ResolveReply(m) ==
  /\ Advance(m, "replyStored", "replied")
  /\ pending' = Resolved
  /\ timers' = timers \ {pending}
  /\ prompt' = Settled({pending}, "answered")
  /\ listening' = Responded(pending)
  /\ UNCHANGED <<turnVars, stored, subs>>

ReadThread(m) ==
  /\ Advance(m, "reading", IF running THEN "refused" ELSE "appending")
  /\ UNCHANGED <<turnVars, stored, subs, hitlVars>>

Append(m) ==
  /\ Advance(m, "appending", "attached")
  /\ stored' = stored \cup {m}
  /\ UNCHANGED <<turnVars, subs, hitlVars>>

(* The subscriber is registered and spawnForThread called in one go; what  *)
(* it returns is not looked at.                                            *)
Spawn(m) ==
  /\ Advance(m, "attached", IF Busy THEN "duplicate" ELSE "spawned")
  /\ subs' = subs \cup {m}
  /\ IF Busy THEN UNCHANGED turnVars ELSE Acquire(m)
  /\ UNCHANGED <<stored, hitlVars>>
-----------------------------------------------------------------------------
(* The turn: the events 'error' and 'done' that announce its end remove    *)
(* every subscriber of the thread, those of other messages too.            *)

Goes(m) ==
  /\ MarkRunning(m) \/ DeclineWrites(m) \/ GoLive(m) \/ Throws(m) \/ CloseWrites(m)
  /\ UNCHANGED <<pipeVars, hitlVars>>

Exits(m) ==
  /\ Exit(m)
  /\ listening' = {q \in listening : prompt[q].by # m}
  /\ UNCHANGED <<pipeVars, pending, timers, prompt>>

(* A failing call to the model is announced with the same event 'error',   *)
(* although the turn goes on.                                              *)
LlmError(m) ==
  /\ turn[m] = "live"
  /\ subs' = {}
  /\ UNCHANGED <<turnVars, request, stored, hitlVars>>

AnnounceNothing(m) == subs                    \* mutant of Announced
Announced(m) == IF turn[m] \in Announcing THEN {} ELSE subs
Announces(m) ==
  /\ Declined(m) \/ Closed(m)
  /\ subs' = Announced(m)
  /\ UNCHANGED <<request, stored, hitlVars>>

StopSteps(s) ==
  /\ StopBegins(s) \/ StopWrites(s)
  /\ UNCHANGED <<pipeVars, hitlVars>>
StopEnds(s) ==
  /\ StopAnnounces(s)
  /\ subs' = {}
  /\ UNCHANGED <<request, stored, hitlVars>>
-----------------------------------------------------------------------------
PipelineStep(m) ==
  \/ StoreReply(m) \/ ResolveReply(m) \/ ReadThread(m) \/ Append(m) \/ Spawn(m)
TurnStep(m) == Goes(m) \/ Exits(m) \/ Announces(m)

Next ==
  \/ \E m \in Messages : CheckHitl(m) \/ PipelineStep(m) \/ TurnStep(m) \/ LlmError(m)
  \/ \E q \in Prompts : PromptTimesOut(q) \/ RuntimeGivesUp(q)
  \/ \E q \in Prompts, m \in Messages : SubmitPrompt(q, m)
  \/ \E s \in Stops : StopSteps(s) \/ StopEnds(s)

Spec == Init /\ [][Next]_vars

(* Awaited calls return, timers fire, and the hard timeout ends every turn.*)
Fairness ==
  /\ \A m \in Messages : WF_vars(PipelineStep(m)) /\ WF_vars(TurnStep(m))
  /\ \A q \in Prompts : WF_vars(PromptTimesOut(q))
  /\ \A s \in Stops : WF_vars(stop[s] # "new" /\ (StopSteps(s) \/ StopEnds(s)))
FairSpec == Spec /\ Fairness
-----------------------------------------------------------------------------
TypeOK ==
  /\ TurnsTypeOK
  /\ request \in [Messages -> {"new", "reading", "appending", "attached", "spawned",
                               "duplicate", "refused", "replying", "replyStored", "replied"}]
  /\ stored \subseteq Messages
  /\ subs \subseteq Messages
  /\ pending \in Prompts \cup {None}
  /\ timers \subseteq Prompts
  /\ prompt \in [Prompts -> [by : Messages \cup {None},
                             is : {"unused", "waiting", "superseded", "timedOut", "answered"}]]
  /\ listening \subseteq {q \in Prompts : prompt[q].is = "waiting"}

(* AgentProxyService.ts 148-205: a prompt whose runtime waits is the one   *)
(* that the human's next message will answer, and its timer is armed: it   *)
(* is not hidden by a later prompt, nor removed by the timer of an earlier *)
(* one.                                                                    *)
PromptAnswerable ==
  \A q \in Prompts : prompt[q].is = "waiting" => pending = q /\ q \in timers

(* pipeline.ts 142-157: a subscriber stays only while a turn is under way  *)
(* whose end will remove it; otherwise the next turn's events would be     *)
(* delivered by two of them.  A spawn that throws does leave one behind.   *)
SubscribersHaveTurn ==
  subs # {} => UnderWay \/ \E m \in Messages : turn[m] = "threw"

(* Whatever turns, stops and prompts went before, the thread comes to take *)
(* a message as a new turn again: it is not 'running', no turn holds it,   *)
(* and no prompt is registered that would take the message for its answer. *)
ThreadOpensAgain == []<>(~running /\ ~Busy /\ pending = None)
=============================================================================
