---------------------------- MODULE EmailPolling ----------------------------
(***************************************************************************)
(* services/triggers/emailPolling.ts and the poll half of                  *)
(* AppTriggerManager.ts: one app trigger that starts a workflow run for    *)
(* every new mail of a mailbox.                                            *)
(*                                                                         *)
(* A mail is its position in the mailbox's order of receipt, and only the  *)
(* second of its timestamp is kept: the polling core floors every time it  *)
(* compares.  Lists of mails are sets, because the code keeps each list in *)
(* the mailbox's order, newest first.  A step of a poll is the code        *)
(* between two awaits.                                                     *)
(***************************************************************************)
EXTENDS Naturals, FiniteSetsExt

CONSTANTS
  LastMail,      \* the mails are 1..LastMail
  Second,        \* the second each mail is received in
  Undated,       \* mails whose timestamp cannot be read
  Deletable,     \* bound: mails the owner may delete
  Polls,         \* invocations of runPoll that may overlap
  Edits,         \* requests of the owner that reschedule the trigger
  MaxPerPoll,    \* MAX_PER_POLL
  MaxListIds,    \* MAX_LIST_IDS
  MaxFailures,   \* MAX_CONSECUTIVE_FAILURES
  MaxFaults,     \* bound: failing calls to the mail service, database, runs
  MaxRestarts,   \* bound: restarts of the backend
  EditsMayFail,  \* whether an edit may be refused after its teardown
  NoCursor       \* no cursor persisted yet

Mails == 1..LastMail

ASSUME EmailAssumption ==
  /\ LastMail \in Nat
  /\ Second \in [Mails -> Nat]
  /\ \A m, k \in Mails : m < k => Second[m] <= Second[k]
  /\ Undated \subseteq Mails
  /\ Deletable \subseteq Mails
  /\ MaxPerPoll \in Nat \ {0}
  /\ MaxListIds \in Nat \ {0}
  /\ MaxFailures \in Nat \ {0}
  /\ MaxFaults \in Nat
  /\ MaxRestarts \in Nat
  /\ EditsMayFail \in BOOLEAN
  /\ NoCursor \notin [wm : Nat, seen : SUBSET Mails, pending : SUBSET Mails]

VARIABLES
  clock,      \* the current second
  mailbox,    \* each mail: not yet received, there, or deleted again
  isEnabled,  \* agent_triggers.is_enabled (database)
  wfEnabled,  \* workflows.is_enabled (database)
  cursor,     \* agent_triggers.state.cursor (database)
  timer,      \* pollTimers holds an interval
  leaked,     \* an interval runs that pollTimers no longer holds
  inFlight,   \* pollsInFlight holds the trigger
  failures,   \* failureCounts
  poll,       \* each invocation of runPoll: position and locals
  edit,       \* where each request of the owner is
  fired,      \* how many runs each mail started
  lost,       \* mails whose run could not be started, or died with the backend
  cut,        \* history: unseen mails that a capped list left out
  faults, restarts

mailVars == <<clock, mailbox>>
rowVars  == <<isEnabled, wfEnabled>>
outVars  == <<fired, lost, cut>>
boundVars == <<faults, restarts>>
vars == <<mailVars, rowVars, cursor, timer, leaked, inFlight, failures,
          poll, edit, outVars, boundVars>>

Cursors == [wm : Nat, seen : SUBSET Mails, pending : SUBSET Mails]

IdlePoll == [at |-> "idle", cur |-> NoCursor, toFetch |-> {},
             pending |-> {}, events |-> {}]

TypeOK ==
  /\ clock \in Nat
  /\ mailbox \in [Mails -> {"unsent", "there", "deleted"}]
  /\ isEnabled \in BOOLEAN
  /\ wfEnabled \in BOOLEAN
  /\ cursor \in Cursors \cup {NoCursor}
  /\ timer \in BOOLEAN
  /\ leaked \in BOOLEAN
  /\ inFlight \in BOOLEAN
  /\ failures \in Nat
  /\ poll \in [Polls -> [at : {"idle", "loading", "listing", "fetching",
                               "saving", "firing", "failing", "disabling"},
                         cur : Cursors \cup {NoCursor},
                         toFetch : SUBSET Mails, pending : SUBSET Mails,
                         events : SUBSET Mails]]
  /\ edit \in [Edits -> {"new", "updating", "loading", "checking", "done"}]
  /\ fired \in [Mails -> Nat]
  /\ lost \subseteq Mails
  /\ cut \subseteq Mails
  /\ faults \in Nat
  /\ restarts \in Nat

Init ==
  /\ clock = 0
  /\ mailbox = [m \in Mails |-> "unsent"]
  /\ isEnabled = TRUE
  /\ wfEnabled = TRUE
  /\ cursor = NoCursor
  /\ timer = TRUE
  /\ leaked = FALSE
  /\ inFlight = FALSE
  /\ failures = 0
  /\ poll = [p \in Polls |-> IdlePoll]
  /\ edit = [e \in Edits |-> "new"]
  /\ fired = [m \in Mails |-> 0]
  /\ lost = {}
  /\ cut = {}
  /\ faults = 0
  /\ restarts = 0

-----------------------------------------------------------------------------
(* The mailbox (external).  Within a second mails show up in any order; a  *)
(* mail may be deleted before it is read.                                  *)

Clock ==
  /\ \E m \in Mails : Second[m] > clock
  /\ clock' = clock + 1
  /\ UNCHANGED <<mailbox, rowVars, cursor, timer, leaked, inFlight, failures,
                 poll, edit, outVars, boundVars>>

Receive(m) ==
  /\ mailbox[m] = "unsent"
  /\ Second[m] = clock
  /\ mailbox' = [mailbox EXCEPT ![m] = "there"]
  /\ UNCHANGED <<clock, rowVars, cursor, timer, leaked, inFlight, failures,
                 poll, edit, outVars, boundVars>>

Delete(m) ==
  /\ m \in Deletable
  /\ mailbox[m] = "there"
  /\ mailbox' = [mailbox EXCEPT ![m] = "deleted"]
  /\ UNCHANGED <<clock, rowVars, cursor, timer, leaked, inFlight, failures,
                 poll, edit, outVars, boundVars>>

(* The n newest of a set of mails: the front of the list the code keeps.   *)
Newest(S, n) == {m \in S : Cardinality({k \in S : k > m}) < n}

(* What listSince answers for a watermark: the whole second, and later, up *)
(* to MaxListIds mails, those that were seen before among them.            *)
Since(wm) == {m \in Mails : mailbox[m] = "there" /\ Second[m] >= wm}
Listed(wm) == Newest(Since(wm), MaxListIds)

-----------------------------------------------------------------------------
(* runEmailPoll: the cursor and the batch.                                 *)

Baseline == [wm |-> clock, seen |-> {}, pending |-> {}]

(* A mail without a timestamp sits at the watermark.                       *)
TimeOf(m, cur) == IF m \in Undated THEN cur.wm ELSE Second[m]

Watermark(cur, events) == Max({cur.wm} \cup {TimeOf(m, cur) : m \in events})

Seen(cur, events) ==
  LET wm == Watermark(cur, events)
      boundary == {m \in events : TimeOf(m, cur) = wm}
  IN  IF cur.wm # wm THEN boundary ELSE cur.seen \cup boundary

NextCursor(cur, events, pending) ==
  [wm |-> Watermark(cur, events), seen |-> Seen(cur, events),
   pending |-> pending]

Splits(p, cur, ids) ==
  LET batch == Newest(ids, MaxPerPoll)
  IN  poll' = [poll EXCEPT ![p] =
         [at |-> IF batch = {} THEN "saving" ELSE "fetching",
          cur |-> cur, toFetch |-> batch, pending |-> ids \ batch,
          events |-> {}]]

MayFault == faults < MaxFaults
Fault == MayFault /\ faults' = faults + 1
NoFault == faults' = faults

Moves(p, at) == poll' = [poll EXCEPT ![p].at = at]
EndsPollHeld(p) ==                               \* mutant of EndsPoll
  /\ poll' = [poll EXCEPT ![p] = IdlePoll]
  /\ UNCHANGED inFlight
EndsPoll(p) == /\ poll' = [poll EXCEPT ![p] = IdlePoll]
               /\ inFlight' = FALSE

(* runPoll, called by the interval (or by activatePoll at once): at most   *)
(* one at a time.                                                          *)
RunPollUnguarded(p) ==                           \* mutant of RunPoll
  /\ timer \/ leaked
  /\ poll[p].at = "idle"
  /\ inFlight' = TRUE
  /\ Moves(p, "loading")
  /\ UNCHANGED <<mailVars, rowVars, cursor, timer, leaked, failures, edit,
                 outVars, boundVars>>
RunPoll(p) ==
  /\ timer \/ leaked
  /\ ~inFlight
  /\ poll[p].at = "idle"
  /\ inFlight' = TRUE
  /\ Moves(p, "loading")
  /\ UNCHANGED <<mailVars, rowVars, cursor, timer, leaked, failures, edit,
                 outVars, boundVars>>

(* loadRow answers: a first poll takes the present as its baseline, one    *)
(* with an overflow drains it, any other lists.  A failing loadRow ends    *)
(* the poll as a disabled trigger does.                                    *)
LoadRow(p) ==
  /\ poll[p].at = "loading"
  /\ \/ ~isEnabled /\ NoFault /\ EndsPoll(p)
     \/ Fault /\ EndsPoll(p)
     \/ /\ isEnabled /\ NoFault /\ UNCHANGED inFlight
        /\ IF cursor = NoCursor
           THEN poll' = [poll EXCEPT ![p].at = "saving",
                                     ![p].cur = Baseline]
           ELSE IF cursor.pending # {}
                THEN Splits(p, cursor, cursor.pending)
                ELSE poll' = [poll EXCEPT ![p].at = "listing",
                                          ![p].cur = cursor]
  /\ UNCHANGED <<mailVars, rowVars, cursor, timer, leaked, failures, edit,
                 outVars, restarts>>

ListSince(p) ==
  /\ poll[p].at = "listing"
  /\ LET cur == poll[p].cur
     IN  \/ Fault /\ Moves(p, "failing") /\ UNCHANGED cut
         \/ /\ NoFault
            /\ Splits(p, cur, Listed(cur.wm) \ cur.seen)
            /\ cut' = cut \cup ((Since(cur.wm) \ Listed(cur.wm)) \ cur.seen)
  /\ UNCHANGED <<mailVars, rowVars, cursor, timer, leaked, inFlight, failures,
                 edit, fired, lost, restarts>>

(* One message after the other, newest first.  A deleted one is dropped;   *)
(* an error fails the poll when nothing was fetched yet, and else ends the *)
(* batch with the rest put back in front of the overflow.                  *)
FetchFails(p) ==
  /\ Fault
  /\ IF poll[p].events = {}
     THEN Moves(p, "failing")
     ELSE poll' = [poll EXCEPT ![p].at = "saving", ![p].toFetch = {},
                               ![p].pending = @ \cup poll[p].toFetch]

Fetch(p) ==
  /\ poll[p].at = "fetching"
  /\ \/ FetchFails(p)
     \/ \E m \in Newest(poll[p].toFetch, 1) :
          /\ NoFault
          /\ poll' = [poll EXCEPT
               ![p].at = IF @ = "fetching" /\ poll[p].toFetch = {m}
                         THEN "saving" ELSE @,
               ![p].toFetch = @ \ {m},
               ![p].events = IF mailbox[m] = "there" THEN @ \cup {m} ELSE @]
  /\ UNCHANGED <<mailVars, rowVars, cursor, timer, leaked, inFlight, failures,
                 edit, outVars, restarts>>

(* The cursor is saved before a run is started.  Only polls write the      *)
(* state of a polled trigger, so persistState's read and write are a step. *)
PersistAfter(p) ==                               \* mutant of Persist
  /\ poll[p].at = "saving"
  /\ NoFault
  /\ cursor' = NextCursor(poll[p].cur, {}, poll[p].pending)
  /\ Moves(p, "firing")
  /\ UNCHANGED <<mailVars, rowVars, timer, leaked, inFlight, failures, edit,
                 outVars, restarts>>
Persist(p) ==
  /\ poll[p].at = "saving"
  /\ \/ Fault /\ Moves(p, "failing") /\ UNCHANGED cursor
     \/ /\ NoFault
        /\ cursor' = NextCursor(poll[p].cur, poll[p].events, poll[p].pending)
        /\ Moves(p, "firing")
  /\ UNCHANGED <<mailVars, rowVars, timer, leaked, inFlight, failures, edit,
                 outVars, restarts>>

(* fireEvents: an event whose run cannot be started is logged and dropped. *)
FireEvent(p) ==
  /\ poll[p].at = "firing"
  /\ \E m \in Newest(poll[p].events, 1) :
       /\ poll' = [poll EXCEPT ![p].events = @ \ {m}]
       /\ \/ /\ isEnabled /\ wfEnabled /\ NoFault
             /\ fired' = [fired EXCEPT ![m] = @ + 1]
             /\ UNCHANGED lost
          \/ /\ IF isEnabled /\ wfEnabled THEN Fault ELSE NoFault
             /\ lost' = lost \cup {m}
             /\ UNCHANGED fired
  /\ UNCHANGED <<mailVars, rowVars, cursor, timer, leaked, inFlight, failures,
                 edit, cut, restarts>>

FinishPoll(p) ==
  /\ poll[p].at = "firing"
  /\ poll[p].events = {}
  /\ failures' = 0
  /\ EndsPoll(p)
  /\ UNCHANGED <<mailVars, rowVars, cursor, timer, leaked, edit, outVars,
                 boundVars>>

(* recordFailure: the last of MaxFailures in a row stops the timer and,    *)
(* one await later, disables the row.                                      *)
RecordFailure(p) ==
  /\ poll[p].at = "failing"
  /\ IF failures + 1 >= MaxFailures
     THEN /\ failures' = 0
          /\ timer' = FALSE
          /\ Moves(p, "disabling")
          /\ UNCHANGED inFlight
     ELSE /\ failures' = failures + 1
          /\ EndsPoll(p)
          /\ UNCHANGED timer
  /\ UNCHANGED <<mailVars, rowVars, cursor, leaked, edit, outVars, boundVars>>

AutoDisable(p) ==
  /\ poll[p].at = "disabling"
  /\ isEnabled' = FALSE
  /\ EndsPoll(p)
  /\ UNCHANGED <<mailVars, wfEnabled, cursor, timer, leaked, failures, edit,
                 outVars, boundVars>>

-----------------------------------------------------------------------------
(* The owner edits the workflow: the route tears the trigger down, updates *)
(* the rows, and activates the trigger when the workflow is enabled.  An   *)
(* edit the update refuses leaves the route before the activation.         *)

EditGoes(e, at) == edit' = [edit EXCEPT ![e] = at]

EditBegins(e) ==
  /\ edit[e] = "new"
  /\ timer' = FALSE
  /\ EditGoes(e, "updating")
  /\ UNCHANGED <<mailVars, rowVars, cursor, leaked, inFlight, failures, poll,
                 outVars, boundVars>>

EditWrites(e) ==
  /\ edit[e] = "updating"
  /\ \/ /\ EditsMayFail
        /\ EditGoes(e, "done")
        /\ UNCHANGED <<wfEnabled, timer>>
     \/ \E on \in BOOLEAN :
          /\ wfEnabled' = on
          /\ EditGoes(e, IF on THEN "loading" ELSE "done")
          /\ timer' = IF on THEN FALSE ELSE timer
  /\ UNCHANGED <<mailVars, isEnabled, cursor, leaked, inFlight, failures,
                 poll, outVars, boundVars>>

(* The builder's "re-check registration".                                  *)
Reregister(e) ==
  /\ edit[e] = "new"
  /\ isEnabled
  /\ wfEnabled
  /\ timer' = FALSE
  /\ EditGoes(e, "loading")
  /\ UNCHANGED <<mailVars, rowVars, cursor, leaked, inFlight, failures, poll,
                 outVars, boundVars>>

(* scheduleFromTrigger, after its clearTimers.                             *)
ScheduleLoads(e) ==
  /\ edit[e] = "loading"
  /\ EditGoes(e, IF isEnabled THEN "checking" ELSE "done")
  /\ UNCHANGED <<mailVars, rowVars, cursor, timer, leaked, inFlight, failures,
                 poll, outVars, boundVars>>

ScheduleActivates(e) ==
  /\ edit[e] = "checking"
  /\ IF wfEnabled
     THEN /\ timer' = TRUE
          /\ leaked' = (leaked \/ timer)
     ELSE UNCHANGED <<timer, leaked>>
  /\ EditGoes(e, "done")
  /\ UNCHANGED <<mailVars, rowVars, cursor, inFlight, failures, poll, outVars,
                 boundVars>>

-----------------------------------------------------------------------------
(* The backend dies and boots: loadActive activates the trigger.           *)
Restart ==
  /\ restarts < MaxRestarts
  /\ restarts' = restarts + 1
  /\ lost' = lost \cup UNION {poll[p].events :
                                p \in {q \in Polls : poll[q].at = "firing"}}
  /\ poll' = [p \in Polls |-> IdlePoll]
  /\ inFlight' = FALSE
  /\ timer' = (isEnabled /\ wfEnabled)
  /\ leaked' = FALSE
  /\ failures' = 0
  /\ edit' = [e \in Edits |-> IF edit[e] = "new" THEN "new" ELSE "done"]
  /\ UNCHANGED <<mailVars, rowVars, cursor, fired, cut, faults>>

PollStep(p) ==
  \/ LoadRow(p) \/ ListSince(p) \/ Fetch(p) \/ Persist(p)
  \/ FireEvent(p) \/ FinishPoll(p) \/ RecordFailure(p) \/ AutoDisable(p)

EditStep(e) == EditWrites(e) \/ ScheduleLoads(e) \/ ScheduleActivates(e)

Next ==
  \/ Clock
  \/ \E m \in Mails : Receive(m) \/ Delete(m)
  \/ \E p \in Polls : RunPoll(p) \/ PollStep(p)
  \/ \E e \in Edits : EditBegins(e) \/ Reregister(e) \/ EditStep(e)
  \/ Restart

Fairness ==
  /\ WF_vars(\E p \in Polls : RunPoll(p))
  /\ WF_vars(\E p \in Polls : PollStep(p))
  /\ WF_vars(\E e \in Edits : EditStep(e))

Spec == Init /\ [][Next]_vars
FairSpec == Spec /\ Fairness
-----------------------------------------------------------------------------
(* emailPolling.ts 44-55: a mail starts one run, also when its second is   *)
(* listed again, when its batch was cut short and put back, when two       *)
(* activations left two intervals, and when the backend restarted.         *)
(* Only a mail without a readable time may be taken twice.                 *)
NeverTwice == \A m \in Mails \ Undated : fired[m] <= 1

(* Where a mail that is not yet fired is remembered.                       *)
Listable(m) == cursor # NoCursor /\ Second[m] >= cursor.wm /\ m \notin cursor.seen
Queued(m) == cursor # NoCursor /\ m \in cursor.pending
BeingFired(m) == \E p \in Polls : poll[p].at = "firing" /\ m \in poll[p].events
Remembered(m) ==
  fired[m] > 0 \/ m \in lost \/ Listable(m) \/ Queued(m) \/ BeingFired(m)

(* emailPolling.ts 15, 164-184: whatever the watermark does, no mail that  *)
(* came after it falls out of sight: it is fired, being fired, queued,     *)
(* still within what the next poll lists, or its run was tried and failed. *)
(* The one way out is a list cut at MAX_LIST_IDS (emailPolling.ts 30-35):  *)
(* the watermark may then pass the mails it left out.                      *)
(* Stated of a step: what was remembered stays remembered.                 *)
NothingSkipped ==
  [][\A m \in Mails :
       Remembered(m) /\ mailbox[m] = "there" /\ mailbox'[m] = "there"
         => Remembered(m)' \/ m \in cut']_vars

(* A mail the trigger can see starts its run in the end, if the trigger    *)
(* stays enabled and no list left the mail out (buildEmailReceivedEvent:   *)
(* "Fires when a new message arrives in the mailbox").                     *)
EveryMailFires ==
  \A m \in Mails :
    (mailbox[m] = "there" /\ (Listable(m) \/ Queued(m)))
      ~> (\/ fired[m] > 0 \/ m \in lost \/ m \in cut \/ mailbox[m] = "deleted"
          \/ ~isEnabled \/ ~wfEnabled)
=============================================================================
