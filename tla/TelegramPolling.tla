-------------------------- MODULE TelegramPolling --------------------------
(***************************************************************************)
(* The long polling of one Telegram bot (channels/telegram/poller.ts), the *)
(* manager that starts and stops its pollers (poller-manager.ts), and the  *)
(* routes that make it do so (routes/channels.ts).  Telegram keeps the     *)
(* updates sent to a bot until a getUpdates call names a larger offset:    *)
(* what a poller remembers and what Telegram has forgotten must agree      *)
(* across failures, stops, restarts and starts that overlap.               *)
(***************************************************************************)
EXTENDS Naturals, FiniteSets

CONSTANTS Starts,        \* calls of startPoller: each creates at most one poller
          NoPoller,
          MaxUpdates,    \* bound: the updates users send
          Limit,         \* bound: the updates one answer carries
          MaxFaults,     \* bound: failing getUpdates calls and decryptions
          MaxRestarts    \* bound: restarts of the backend

ASSUME LimitAssumption == Limit \in Nat \ {0}
ASSUME MaxAssumption == MaxUpdates \in Nat

VARIABLES
  toSend,      \* updates the bot will still be sent
  sent,        \* updates 1..sent are at Telegram
  confirmed,   \* updates 1..confirmed Telegram has forgotten
  handled,     \* updates that processUpdate was done with, at least once
  start,       \* where each call of startPoller is
  poller,      \* the poller each call created
  pollers,     \* this.pollers: the one that is registered
  linked,      \* channel_links has a row with the bot's credential
  unlink,      \* where the removal of a link is
  faults, restarts

telegramVars ==
  <<toSend, sent, confirmed, handled, start, poller, pollers, linked, unlink,
    faults, restarts>>

Fresh == [phase |-> "none", running |-> FALSE, offset |-> 0, batch |-> {}]

TelegramInit ==
  /\ toSend = MaxUpdates
  /\ sent = 0 /\ confirmed = 0 /\ handled = {}
  /\ start = [s \in Starts |-> "unused"]
  /\ poller = [s \in Starts |-> Fresh]
  /\ pollers = NoPoller
  /\ linked \in BOOLEAN
  /\ unlink = "idle"
  /\ faults = 0 /\ restarts = 0

TelegramIdle ==      \* a bot nobody has set up or writes to
  /\ toSend = 0
  /\ sent = 0 /\ confirmed = 0 /\ handled = {}
  /\ start = [s \in Starts |-> "over"]
  /\ poller = [s \in Starts |-> Fresh]
  /\ pollers = NoPoller
  /\ linked = FALSE
  /\ unlink = "idle"
  /\ faults = MaxFaults /\ restarts = MaxRestarts

Least(S) == CHOOSE x \in S : \A y \in S : x <= y
Greatest(S) == CHOOSE x \in S : \A y \in S : x >= y
-----------------------------------------------------------------------------
(* The manager.                                                            *)
managed == <<toSend, sent, confirmed, handled, restarts>>

(* A pairing code is issued, or a notification is to be pushed: the check  *)
(* of the registry and the start of the decryption are one step.           *)
EnsurePolling(s) ==
  /\ start[s] = "unused" /\ pollers = NoPoller
  /\ start' = [start EXCEPT ![s] = "decrypting"]
  /\ UNCHANGED <<managed, poller, pollers, linked, unlink, faults>>

(* The registry is not looked at again: of two starts that overlap, the    *)
(* later one's poller replaces the other, which goes on.                   *)
StartPoller(s) ==
  /\ start[s] = "decrypting"
  /\ start' = [start EXCEPT ![s] = "over"]
  /\ poller' = [poller EXCEPT ![s].phase = "starting", ![s].running = TRUE]
  /\ pollers' = s
  /\ UNCHANGED <<managed, linked, unlink, faults>>

(* No such credential, no token in it, or the decryption throws.           *)
StartFails(s) ==
  /\ start[s] = "decrypting" /\ faults < MaxFaults
  /\ start' = [start EXCEPT ![s] = "over"]
  /\ faults' = faults + 1
  /\ UNCHANGED <<managed, poller, pollers, linked, unlink>>

StopRegistered ==
  /\ poller' = [s \in Starts |->
       IF s = pollers THEN [poller[s] EXCEPT !.running = FALSE] ELSE poller[s]]
  /\ pollers' = NoPoller

DeleteCredential ==
  /\ pollers # NoPoller
  /\ StopRegistered
  /\ UNCHANGED <<managed, start, linked, unlink, faults>>

(* DELETE /links/:linkId: the row goes, the remaining ones are listed, and *)
(* with none of them the poller is stopped.                                *)
DeleteLink ==
  /\ linked /\ unlink = "idle"
  /\ linked' = FALSE
  /\ unlink' = "listing"
  /\ UNCHANGED <<managed, start, poller, pollers, faults>>

ListLinks ==
  /\ unlink = "listing"
  /\ unlink' = IF linked THEN "idle" ELSE "stopping"
  /\ UNCHANGED <<managed, start, poller, pollers, linked, faults>>

StopPoller ==
  /\ unlink = "stopping"
  /\ unlink' = "idle"
  /\ StopRegistered
  /\ UNCHANGED <<managed, start, linked, faults>>

(* The backend restarts: loadActivePollers starts a poller for a           *)
(* credential that a link names.                                           *)
Restart(s) ==
  /\ restarts < MaxRestarts
  /\ start[s] = "unused"
  /\ restarts' = restarts + 1
  /\ start' = [t \in Starts |-> IF t = s /\ linked THEN "decrypting"
                                ELSE IF start[t] = "decrypting" THEN "over" ELSE start[t]]
  /\ poller' = [t \in Starts |-> Fresh]
  /\ pollers' = NoPoller
  /\ unlink' = "idle"
  /\ UNCHANGED <<toSend, sent, confirmed, handled, linked, faults>>
-----------------------------------------------------------------------------
(* A poller.                                                               *)
others == <<toSend, sent, start, pollers, unlink, restarts>>

SetPoller(s, p) == poller' = [poller EXCEPT ![s] = p]
Asks(p) == IF p.running THEN "asking" ELSE "exited"

(* deleteWebhook and setMyCommands return, or fail: the loop starts.       *)
WebhookCleared(s) ==
  /\ poller[s].phase = "starting"
  /\ SetPoller(s, [poller[s] EXCEPT !.phase = Asks(poller[s])])
  /\ UNCHANGED <<others, confirmed, handled, linked, faults>>

(* What Telegram forgets when it gets a request with this offset.          *)
Forgets(offset) == IF offset = 0 THEN confirmed ELSE Greatest({confirmed, offset - 1})

(* An answer: what is left from the offset on, the oldest first; nothing,  *)
(* when the long poll runs out.  A stop does not keep it from being read.  *)
GetUpdates(s) ==
  LET p == poller[s]
      left == (Forgets(p.offset) + 1)..sent
      batch == {i \in left : Cardinality({j \in left : j <= i}) <= Limit}
  IN /\ p.phase = "asking"
     /\ confirmed' = Forgets(p.offset)
     /\ SetPoller(s, [p EXCEPT !.batch = batch,
                               !.phase = IF batch = {} THEN Asks(p) ELSE "busy"])
     /\ UNCHANGED <<others, handled, linked, faults>>

(* The call fails, before or after Telegram acted on it: the loop waits    *)
(* and asks again, unless it was stopped meanwhile.                        *)
GetUpdatesGivesUp(s) ==                       \* mutant of GetUpdatesFails
  /\ poller[s].phase = "asking" /\ faults < MaxFaults
  /\ confirmed' \in {confirmed, Forgets(poller[s].offset)}
  /\ SetPoller(s, [poller[s] EXCEPT !.phase = "exited"])
  /\ faults' = faults + 1
  /\ UNCHANGED <<others, handled, linked>>
GetUpdatesFails(s) ==
  /\ poller[s].phase = "asking" /\ faults < MaxFaults
  /\ confirmed' \in {confirmed, Forgets(poller[s].offset)}
  /\ SetPoller(s, [poller[s] EXCEPT !.phase = IF poller[s].running
                                              THEN "waiting" ELSE "exited"])
  /\ faults' = faults + 1
  /\ UNCHANGED <<others, handled, linked>>

BackoffEnds(s) ==
  /\ poller[s].phase = "waiting"
  /\ SetPoller(s, [poller[s] EXCEPT !.phase = Asks(poller[s])])
  /\ UNCHANGED <<others, confirmed, handled, linked, faults>>

AnyOf(batch) == batch                         \* mutant of InOrder
InOrder(batch) == {Least(batch)}              \* for (const update of updates) await

(* processUpdate is done with an update, whatever came of it; /pair has    *)
(* made a link.  After the last one the offset moves past the batch.       *)
ProcessUpdate(s) ==
  LET p == poller[s] IN
  /\ p.phase = "busy"
  /\ \E i \in InOrder(p.batch) :
       LET rest == p.batch \ {i} IN
       /\ handled' = handled \cup {i}
       /\ SetPoller(s, IF rest # {} THEN [p EXCEPT !.batch = rest]
                       ELSE [p EXCEPT !.batch = {}, !.offset = i + 1, !.phase = Asks(p)])
  /\ linked' \in {linked, TRUE}
  /\ UNCHANGED <<others, confirmed, faults>>

SendUpdate ==
  /\ toSend > 0
  /\ toSend' = toSend - 1
  /\ sent' = sent + 1
  /\ UNCHANGED <<confirmed, handled, start, poller, pollers, linked, unlink, faults, restarts>>
-----------------------------------------------------------------------------
TelegramNext ==
  \/ SendUpdate
  \/ DeleteCredential
  \/ DeleteLink
  \/ ListLinks
  \/ StopPoller
  \/ \E s \in Starts :
       \/ EnsurePolling(s)
       \/ StartPoller(s)
       \/ StartFails(s)
       \/ Restart(s)
       \/ WebhookCleared(s)
       \/ GetUpdates(s)
       \/ GetUpdatesFails(s)
       \/ BackoffEnds(s)
       \/ ProcessUpdate(s)

TelegramSpec == TelegramInit /\ [][TelegramNext]_telegramVars

(* Calls to Telegram and to the database return, sleeps end, and a batch   *)
(* is worked off.                                                          *)
TelegramFairness ==
  \A s \in Starts :
    /\ WF_telegramVars(WebhookCleared(s))
    /\ WF_telegramVars(GetUpdates(s))
    /\ WF_telegramVars(BackoffEnds(s))
    /\ WF_telegramVars(ProcessUpdate(s))

TelegramTypeOK ==
  /\ sent + toSend <= MaxUpdates /\ confirmed <= sent /\ handled \subseteq 1..sent
  /\ start \in [Starts -> {"unused", "decrypting", "over"}]
  /\ \A s \in Starts :
       /\ poller[s].phase \in {"none", "starting", "asking", "waiting", "busy", "exited"}
       /\ poller[s].running \in BOOLEAN
       /\ poller[s].offset \in 0..(sent + 1)
       /\ poller[s].batch \subseteq 1..sent
  /\ pollers \in Starts \cup {NoPoller}
  /\ linked \in BOOLEAN
  /\ unlink \in {"idle", "listing", "stopping"}
  /\ faults <= MaxFaults /\ restarts <= MaxRestarts

(* No update is lost or overtaken: whatever stops, fails, restarts or runs *)
(* twice, an update is first handled when all before it have been, and     *)
(* Telegram has forgotten only updates that were handled (poller.ts:       *)
(* "Process updates sequentially to preserve message order per chat").     *)
HandledInOrder ==
  \E k \in 0..sent : handled = 1..k /\ confirmed <= k

(* Every update that a user sends is handled in the end, once the bot has  *)
(* a poller that is not stopped any more (loop, GetUpdates to              *)
(* ProcessUpdate, through errors, backoff and leaked pollers).             *)
EveryUpdateHandled ==
  <>[](pollers # NoPoller) => \A i \in 1..MaxUpdates : i <= sent ~> i \in handled
=============================================================================
