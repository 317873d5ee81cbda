----------------------------- MODULE AgentTurn -----------------------------
(***************************************************************************)
(* What happens inside the turns of one thread: the agent's loop in the    *)
(* sandbox (agent-runtime/src/agent-runner.ts, llm-stream.ts), the LLM     *)
(* proxy that stores what the model says (services/AgentLlmProxyService.ts)*)
(* and the thread's history, which the runtime loads, a title generator    *)
(* writes to and users compact, all at their own time.  How turns are kept *)
(* apart is in ThreadTurns.                                                *)
(***************************************************************************)
EXTENDS Naturals, Sequences, FiniteSets

CONSTANTS
  MaxTurns,     \* bound: the turns of the thread
  MaxCalls,     \* bound: calls to the model in all turns together
  PerReply,     \* bound: the tool calls of a reply that makes any
  ToolCap,      \* config.maxToolCallsPerTurn
  Compactions   \* the requests of users to compact the thread

ASSUME Sizes == MaxTurns \in Nat /\ PerReply \in Nat /\ ToolCap \in Nat

Turns == 1..MaxTurns

VARIABLES
  wake,      \* the first turn is the wake of a mission, not a message
  history,   \* agent_messages of the thread, in the order of createdAt
  boundary,  \* compactedAt: the last position the summary stands for
  folded,    \* the positions whose messages went into contextSummary
  phase,     \* where each turn is
  mind,      \* the variables of each turn's runtime
  calls,     \* bound: the calls to the model so far
  streams,   \* the turns for which the proxy reads a reply of the model
  titling,   \* the generation of the thread's title
  compact    \* where each compaction is, and what it has read

runVars == <<phase, mind, calls, streams>>
compactVars == <<boundary, folded, compact>>
vars == <<wake, history, runVars, titling, compactVars>>

Over == {"completed", "failed", "killed"}
Live == {"loading", "ready", "calling", "acting", "idle"}
Running == \E t \in Turns : phase[t] \in Live
Wakes(t) == t = 1 /\ wake

(* says: an assistant's message has text, a result is that of a tool.      *)
Message(role, t, says) == [role |-> role, by |-> t, says |-> says]
Title == Message("assistant", 0, FALSE)

FreshMind == [open |-> 0, tools |-> 0, spoke |-> FALSE,
              error |-> FALSE, logged |-> FALSE, forced |-> FALSE]

Idle(at) == [at |-> at, base |-> 0, known |-> {}, upto |-> 0]

Init ==
  /\ wake \in BOOLEAN
  /\ history = <<>>
  /\ boundary = 0
  /\ folded = {}
  /\ phase = [t \in Turns |-> "new"]
  /\ mind = [t \in Turns |-> FreshMind]
  /\ calls = 0
  /\ streams = {}
  /\ titling = "none"
  /\ compact = [c \in Compactions |-> Idle("new")]

Moves(t, from, to) == phase[t] = from /\ phase' = [phase EXCEPT ![t] = to]
Exits(t, from, to) == Moves(t, from, to) /\ mind' = [mind EXCEPT ![t] = FreshMind]
Store(m) == history' = Append(history, m)
Said(t) == {i \in DOMAIN history : history[i].by = t /\ history[i].role = "assistant"}
Asked(t) == {i \in DOMAIN history : history[i].by = t /\ history[i].role = "user"}
-----------------------------------------------------------------------------
(* The host: a message arrives, its turn is spawned.                       *)

(* The second message of the user has the thread titled, meanwhile.        *)
Post(t) ==
  /\ \A u \in 1..(t - 1) : phase[u] \in Over
  /\ Moves(t, "new", "posted")
  /\ IF Wakes(t) THEN UNCHANGED history ELSE Store(Message("user", t, TRUE))
  /\ titling' = IF ~wake /\ t = 2 THEN "asked" ELSE titling
  /\ UNCHANGED <<wake, calls, mind, streams, compactVars>>

Start(t) ==
  /\ Moves(t, "posted", "loading")
  /\ UNCHANGED <<wake, calls, history, mind, streams, titling, compactVars>>

(* The hard timeout, a stop of the user or a crash of the process.  The    *)
(* proxy goes on reading the reply the turn was waiting for.               *)
Kill(t) ==
  /\ \E p \in Live : Exits(t, p, "killed")
  /\ UNCHANGED <<wake, calls, history, streams, titling, compactVars>>
-----------------------------------------------------------------------------
(* The history as the runtime gets it, and how its loop begins.            *)

Summary == IF boundary > 0 THEN <<Message("assistant", 0, TRUE)>> ELSE <<>>
Since == SubSeq(history, boundary + 1, Len(history))
SummaryLast == Since \o Summary               \* mutant of View
View == Summary \o Since

LeadIn(view) ==
  IF view # <<>> /\ Head(view).role # "user"
    THEN <<Message("user", 0, TRUE)>> \o view
    ELSE view

(* A wake without history is prompted; otherwise the loop continues from   *)
(* the last message, and refuses to if that is the assistant's.            *)
Continues(t) ==
  LET messages == LeadIn(View)
  IN  \/ messages = <<>> /\ Wakes(t)
      \/ messages # <<>> /\ messages[Len(messages)].role # "assistant"

Load(t) ==
  /\ Moves(t, "loading", IF Continues(t) THEN "ready" ELSE "failed")
  /\ UNCHANGED <<wake, calls, history, mind, streams, titling, compactVars>>
-----------------------------------------------------------------------------
(* Calls to the model.                                                     *)

Call(t) ==
  /\ calls < MaxCalls /\ calls' = calls + 1
  /\ Moves(t, "ready", "calling")
  /\ streams' = streams \cup {t}
  /\ UNCHANGED <<wake, history, mind, titling, compactVars>>

(* What the runtime makes of a reply; a reply that was cut off within a    *)
(* tool call is an error.  Only the text of the last reply is kept.        *)
Hears(t, text, tools, cut) ==
  IF phase[t] = "calling"
    THEN /\ phase' = [phase EXCEPT ![t] = IF tools > 0 /\ ~cut THEN "acting" ELSE "idle"]
         /\ mind' = [mind EXCEPT ![t].spoke = text, ![t].error = (tools > 0 /\ cut),
                                 ![t].open = IF cut THEN 0 ELSE tools]
    ELSE UNCHANGED <<phase, mind>>

(* The model is done: the proxy stores the reply, and then answers the     *)
(* runtime, if that still listens.                                         *)
Reply(t) ==
  /\ t \in streams
  /\ streams' = streams \ {t}
  /\ \E text, cut \in BOOLEAN, tools \in {0, PerReply} :
       /\ tools > 0 => ~text  \* text beside tool calls has no effect
       /\ cut => tools > 0
       /\ Store(Message("assistant", t, text))
       /\ Hears(t, text, tools, cut)
  /\ UNCHANGED <<wake, calls, titling, compactVars>>

(* The provider fails, the budget is spent, or the reply cannot be stored; *)
(* or it is stored and counting its tokens fails.  streamFn records it.    *)
IgnoresError(t) == mind[t]                    \* mutant of Errs
Errs(t) == [mind[t] EXCEPT !.error = TRUE]
CallFails(t) ==
  /\ t \in streams
  /\ streams' = streams \ {t}
  /\ \/ UNCHANGED history
     \/ \E text \in BOOLEAN : Store(Message("assistant", t, text))
  /\ IF phase[t] = "calling"
       THEN Moves(t, "calling", "idle") /\ mind' = [mind EXCEPT ![t] = Errs(t)]
       ELSE UNCHANGED <<phase, mind>>
  /\ UNCHANGED <<wake, calls, titling, compactVars>>

(* The runtime's own timeout: the proxy goes on reading the reply.         *)
CallTimesOut(t) ==
  /\ Moves(t, "calling", "idle")
  /\ mind' = [mind EXCEPT ![t] = Errs(t)]
  /\ UNCHANGED <<wake, calls, history, streams, titling, compactVars>>
-----------------------------------------------------------------------------
(* Tools.  A call beyond the cap is blocked, and its result says so.  Any  *)
(* call of mission_log, blocked or failed ones too, counts as a summary.   *)

Allowed(t) == mind[t].tools < ToolCap

ToolEnds(t) ==
  /\ phase[t] = "acting"
  /\ Store(Message("result", t, Allowed(t)))
  /\ \E log \in {FALSE, Wakes(t)} :
       mind' = [mind EXCEPT ![t].open = @ - 1, ![t].tools = @ + 1, ![t].logged = @ \/ log]
  /\ phase' = [phase EXCEPT ![t] = IF mind[t].open = 1 THEN "ready" ELSE "acting"]
  /\ UNCHANGED <<wake, calls, streams, titling, compactVars>>
-----------------------------------------------------------------------------
(* The end of the loop, in this order: an error, one forced conclusion (a  *)
(* wake without a summary, a turn without text), a note, success.          *)

MustConclude(t) ==
  /\ ~mind[t].forced
  /\ (Wakes(t) /\ ~mind[t].logged) \/ ~mind[t].spoke

FailsWithError(t) ==
  /\ mind[t].error
  /\ Exits(t, "idle", "failed")
  /\ UNCHANGED <<wake, calls, history, streams, titling, compactVars>>

Forces(t) ==
  /\ ~mind[t].error /\ MustConclude(t)
  /\ Moves(t, "idle", "ready")
  /\ mind' = [mind EXCEPT ![t].forced = TRUE]
  /\ UNCHANGED <<wake, calls, history, streams, titling, compactVars>>

FailsWithNote(t) ==
  /\ ~mind[t].error /\ ~MustConclude(t) /\ ~mind[t].spoke
  /\ Exits(t, "idle", "failed")
  /\ Store(Message("assistant", t, TRUE)) \/ UNCHANGED history
  /\ UNCHANGED <<wake, calls, streams, titling, compactVars>>

Completes(t) ==
  /\ ~mind[t].error /\ ~MustConclude(t) /\ mind[t].spoke
  /\ Exits(t, "idle", "completed")
  /\ UNCHANGED <<wake, calls, history, streams, titling, compactVars>>
-----------------------------------------------------------------------------
(* The title: the cost of its call is kept as an assistant's message.      *)

StoreTitle ==
  /\ titling = "asked" /\ titling' = "over"
  /\ Store(Title)
  /\ UNCHANGED <<wake, runVars, compactVars>>
TitleFails ==
  /\ titling = "asked" /\ titling' = "over"
  /\ UNCHANGED <<wake, history, runVars, compactVars>>
-----------------------------------------------------------------------------
(* Compaction: the status is checked and the old summary read; later the   *)
(* messages since are listed; later still the summary is written.          *)

CompactChecks(c) ==
  /\ compact[c].at = "new" /\ ~Running
  /\ compact' = [compact EXCEPT ![c] =
                   [at |-> "checked", base |-> boundary, known |-> folded, upto |-> 0]]
  /\ UNCHANGED <<wake, history, runVars, titling, boundary, folded>>

CompactLists(c) ==
  /\ compact[c].at = "checked"
  /\ compact' = [compact EXCEPT ![c] =
                   IF Len(history) > @.base
                     THEN [@ EXCEPT !.at = "listed", !.upto = Len(history)]
                     ELSE Idle("over")]
  /\ UNCHANGED <<wake, history, runVars, titling, boundary, folded>>

SinceNewest(c) == compact[c].known \cup (boundary + 1)..compact[c].upto  \* mutant of Transcript
Transcript(c) == compact[c].known \cup (compact[c].base + 1)..compact[c].upto

CompactApplies(c) ==
  /\ compact[c].at = "listed"
  /\ boundary' = compact[c].upto
  /\ folded' = Transcript(c)
  /\ compact' = [compact EXCEPT ![c] = Idle("over")]
  /\ UNCHANGED <<wake, history, runVars, titling>>
CompactFails(c) ==
  /\ compact[c].at = "listed"
  /\ compact' = [compact EXCEPT ![c] = Idle("over")]
  /\ UNCHANGED <<wake, history, runVars, titling, boundary, folded>>
-----------------------------------------------------------------------------
Next ==
  \/ \E t \in Turns :
       \/ Post(t) \/ Start(t) \/ Kill(t) \/ Load(t)
       \/ Call(t) \/ Reply(t) \/ CallFails(t) \/ CallTimesOut(t) \/ ToolEnds(t)
       \/ FailsWithError(t) \/ Forces(t) \/ FailsWithNote(t) \/ Completes(t)
  \/ StoreTitle \/ TitleFails
  \/ \E c \in Compactions :
       CompactChecks(c) \/ CompactLists(c) \/ CompactApplies(c) \/ CompactFails(c)

Spec == Init /\ [][Next]_vars
-----------------------------------------------------------------------------
TypeOK ==
  /\ wake \in BOOLEAN
  /\ history \in Seq([role : {"user", "assistant", "result"}, by : 0..MaxTurns,
                      says : BOOLEAN])
  /\ boundary \in 0..Len(history)
  /\ folded \subseteq DOMAIN history
  /\ phase \in [Turns -> {"new", "posted"} \cup Live \cup Over]
  /\ mind \in [Turns -> [open : 0..PerReply,
                         tools : 0..(MaxCalls * PerReply), spoke : BOOLEAN,
                         error : BOOLEAN, logged : BOOLEAN, forced : BOOLEAN]]
  /\ \A t \in Turns : phase[t] = "acting" <=> mind[t].open > 0
  /\ calls \in 0..MaxCalls
  /\ streams \subseteq Turns
  /\ titling \in {"none", "asked", "over"}
  /\ compact \in [Compactions -> [at : {"new", "checked", "listed", "over"},
                                  base : 0..Len(history), known : SUBSET DOMAIN history,
                                  upto : 0..Len(history)]]

(* agent-runner.ts 680-758: a turn that is reported as completed ends with *)
(* a text for the user: the last of its messages in the thread, after the  *)
(* results of all its tools, whatever calls failed, were cut off or came   *)
(* back empty on the way.                                                  *)
CompletedAnswers ==
  \A t \in Turns : phase[t] = "completed" =>
    \E i \in Said(t) :
      /\ history[i].says
      /\ \A j \in DOMAIN history : history[j].by = t => j <= i

(* agent-runner.ts 602-618: no turn has more tools carried out than the    *)
(* agent is allowed, also when one reply asks for several of them.         *)
CapHolds ==
  \A t \in Turns :
    Cardinality({i \in DOMAIN history :
      history[i].by = t /\ history[i].role = "result" /\ history[i].says}) <= ToolCap

(* AgentLlmProxyService.ts 571-677: every message that the model no longer *)
(* gets went into the summary it gets instead, whatever compactions of the *)
(* thread overlap with each other and with its turns.                      *)
SummaryCovers == 1..boundary \subseteq folded

(* agent-runner.ts 133-195, 675: a turn comes to call the model, unless,   *)
(* after its message, somebody else stored one in the thread (the title,   *)
(* the late reply to a turn that was killed), or folded its message away.  *)
OvertakenOnly ==
  [][\A t \in Turns : Load(t) /\ ~Continues(t) =>
       \E i \in Asked(t) :
         boundary >= i \/ \E j \in DOMAIN history : j > i /\ history[j].by # t]_vars
=============================================================================
