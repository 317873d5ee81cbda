--------------------------- MODULE ChannelsProofs ---------------------------
(***************************************************************************)
(* What holds of the two chat channels.  A polled bot, for any number of   *)
(* updates, pollers, faults and restarts: no update is lost, and none is   *)
(* first handled before one that was sent earlier.  A Discord gateway, for *)
(* any number of connections and invalid sessions: it never has a second   *)
(* socket, nor is without a socket and a pending reconnect.                *)
(***************************************************************************)
EXTENDS TelegramPolling, DiscordGateway, FiniteSetTheorems, TLAPS

Phases == {"none", "starting", "asking", "waiting", "busy", "exited"}
PollerTypes == [phase : Phases, running : BOOLEAN, offset : Nat, batch : SUBSET Nat]

TelegramTypes ==
  /\ toSend \in Nat /\ sent \in Nat /\ confirmed \in Nat
  /\ poller \in [Starts -> PollerTypes]
  /\ pollers \in Starts \cup {NoPoller}

(* With the updates 1..k handled, a poller asks for none beyond the next,  *)
(* and what it holds is an interval that begins with the next at the       *)
(* latest.                                                                 *)
Interval(B, k) == \E a, b \in Nat : B = a..b /\ 1 <= a /\ a <= k + 1 /\ b <= sent
NothingAhead(p, k) ==
  /\ p.offset <= k + 1
  /\ Interval(p.batch, k)
  /\ p.phase = "busy" => p.batch # {}

Progress(k) ==
  /\ handled = 1..k /\ confirmed <= k /\ k <= sent
  /\ \A s \in Starts : NothingAhead(poller[s], k)

TelegramInv == TelegramTypes /\ \E k \in Nat : Progress(k)
-----------------------------------------------------------------------------
(* Facts of arithmetic.                                                    *)

LEMMA LeastOfInterval ==
  ASSUME NEW a \in Nat, NEW b \in Nat, a <= b
  PROVE  Least(a..b) = a
<1>1. a \in a..b /\ \A y \in a..b : a <= y
  OBVIOUS
<1>2. \A x \in a..b : (\A y \in a..b : x <= y) => x = a
  OBVIOUS
<1> QED BY <1>1, <1>2 DEF Least

LEMMA GreatestOfTwo ==
  ASSUME NEW x \in Nat, NEW y \in Nat
  PROVE  Greatest({x, y}) = IF x >= y THEN x ELSE y
<1> DEFINE g == IF x >= y THEN x ELSE y
<1>1. g \in {x, y} /\ \A z \in {x, y} : g >= z
  OBVIOUS
<1>2. \A h \in {x, y} : (\A z \in {x, y} : h >= z) => h = g
  OBVIOUS
<1> QED BY <1>1, <1>2 DEF Greatest

LEMMA ForgetsUpTo ==
  ASSUME confirmed \in Nat, NEW o \in Nat, NEW k \in Nat, confirmed <= k, o <= k + 1
  PROVE  Forgets(o) \in Nat /\ Forgets(o) <= k
<1>1. CASE o = 0
  BY <1>1 DEF Forgets
<1>2. CASE o # 0
  <2>1. o - 1 \in Nat
    BY <1>2
  <2> QED BY <1>2, <2>1, GreatestOfTwo DEF Forgets
<1> QED BY <1>1, <1>2

(* The first so many members of an interval are an interval.               *)
LEMMA FirstOfInterval ==
  ASSUME NEW a \in Nat, NEW n \in Nat, a >= 1
  PROVE  \E b \in Nat :
           /\ b <= n
           /\ {i \in a..n : Cardinality({j \in a..n : j <= i}) <= Limit} = a..b
<1> DEFINE B == {i \in a..n : Cardinality({j \in a..n : j <= i}) <= Limit}
           last == a + Limit - 1
<1>1. \A i \in a..n : Cardinality({j \in a..n : j <= i}) = i - a + 1
  <2> TAKE i \in a..n
  <2>1. {j \in a..n : j <= i} = a..i
    OBVIOUS
  <2>2. i \in Int /\ a \in Int /\ a <= i
    OBVIOUS
  <2>3. Cardinality(a..i) = i - a + 1
    BY <2>2, FS_Interval
  <2> QED BY <2>1, <2>3
<1>2. B = {i \in a..n : i <= last}
  BY <1>1, LimitAssumption
<1>3. last \in Nat
  BY LimitAssumption
<1>4. CASE last <= n
  <2>1. B = a..last
    BY <1>2, <1>3, <1>4
  <2> QED BY <1>3, <1>4, <2>1
<1>5. CASE ~(last <= n)
  <2>1. B = a..n
    BY <1>2, <1>3, <1>5
  <2> QED BY <2>1
<1> QED BY <1>3, <1>4, <1>5
-----------------------------------------------------------------------------
LEMMA TelegramInitInv == TelegramInit => TelegramInv
<1> SUFFICES ASSUME TelegramInit PROVE TelegramInv
  OBVIOUS
<1>1. TelegramTypes
  BY MaxAssumption DEF TelegramInit, TelegramTypes, PollerTypes, Phases, Fresh
<1>2. Interval({}, 0)
  <2>1. {} = 1..0 /\ 0 <= sent
    BY DEF TelegramInit
  <2> QED BY <2>1 DEF Interval
<1>3. Progress(0)
  <2>1. handled = 1..0 /\ confirmed = 0 /\ sent = 0
    BY DEF TelegramInit
  <2>2. \A s \in Starts : /\ poller[s].offset = 0 /\ poller[s].batch = {}
                          /\ poller[s].phase # "busy"
    BY DEF TelegramInit, Fresh
  <2>3. \A s \in Starts : NothingAhead(poller[s], 0)
    BY <1>2, <2>2 DEF NothingAhead
  <2> QED BY <2>1, <2>3 DEF Progress
<1> QED BY <1>1, <1>3 DEF TelegramInv

(* A step that handles nothing: what each poller remembers is as before,   *)
(* or a poller starts afresh.                                              *)
LEMMA NothingHandled ==
  ASSUME TelegramInv, TelegramTypes',
         handled' = handled, sent' = sent, confirmed' = confirmed,
         \A s \in Starts :
           \/ poller'[s] = Fresh
           \/ /\ poller'[s].offset = poller[s].offset
              /\ poller'[s].batch = poller[s].batch
              /\ poller'[s].phase = "busy" => poller[s].phase = "busy"
  PROVE  TelegramInv'
<1>1. PICK k \in Nat : Progress(k)
  BY DEF TelegramInv
<1>2. Interval({}, k)
  <2>1. {} = 1..0 /\ 0 <= sent
    BY DEF TelegramInv, TelegramTypes
  <2> QED BY <2>1 DEF Interval
<1>3. ASSUME NEW s \in Starts PROVE NothingAhead(poller[s], k)'
  <2>1. CASE poller'[s] = Fresh
    BY <1>2, <2>1 DEF NothingAhead, Interval, Fresh
  <2>2. CASE /\ poller'[s].offset = poller[s].offset
             /\ poller'[s].batch = poller[s].batch
             /\ poller'[s].phase = "busy" => poller[s].phase = "busy"
    <3>1. NothingAhead(poller[s], k)
      BY <1>1 DEF Progress
    <3> QED BY <2>2, <3>1 DEF NothingAhead, Interval
  <2> QED BY <2>1, <2>2
<1> QED BY <1>1, <1>3 DEF TelegramInv, Progress

LEMMA StopKeeps == ASSUME TelegramInv, StopRegistered, UNCHANGED managed PROVE TelegramInv'
<1>1. ASSUME NEW s \in Starts
      PROVE  /\ poller'[s] \in PollerTypes
             /\ poller'[s].offset = poller[s].offset /\ poller'[s].batch = poller[s].batch
             /\ poller'[s].phase = poller[s].phase
  <2>1. poller[s] \in PollerTypes
    BY DEF TelegramInv, TelegramTypes
  <2>2. poller'[s] = IF s = pollers THEN [poller[s] EXCEPT !.running = FALSE] ELSE poller[s]
    BY DEF StopRegistered
  <2> QED BY <2>1, <2>2 DEF PollerTypes
<1>2. TelegramTypes'
  BY <1>1 DEF TelegramInv, TelegramTypes, StopRegistered, managed
<1> QED BY <1>1, <1>2, NothingHandled DEF managed

LEMMA SendKeeps == TelegramInv /\ SendUpdate => TelegramInv'
<1> SUFFICES ASSUME TelegramInv, SendUpdate PROVE TelegramInv'
  OBVIOUS
<1>1. TelegramTypes'
  BY DEF TelegramInv, TelegramTypes, SendUpdate
<1>2. PICK k \in Nat : Progress(k)
  BY DEF TelegramInv
<1>3. \A B : Interval(B, k) => Interval(B, k)'
  BY DEF Interval, SendUpdate, TelegramInv, TelegramTypes
<1>4. Progress(k)'
  BY <1>2, <1>3 DEF Progress, NothingAhead, SendUpdate, TelegramInv, TelegramTypes
<1> QED BY <1>1, <1>4 DEF TelegramInv

(* Telegram forgets nothing that was not handled, and answers an interval  *)
(* that begins with the next update at the latest.                         *)
LEMMA GetKeeps == ASSUME TelegramInv, NEW s \in Starts, GetUpdates(s) PROVE TelegramInv'
<1> DEFINE p == poller[s]
           left == (Forgets(p.offset) + 1)..sent
           batch == {i \in left : Cardinality({j \in left : j <= i}) <= Limit}
<1>1. PICK k \in Nat : Progress(k)
  BY DEF TelegramInv
<1>2. Forgets(p.offset) \in Nat /\ Forgets(p.offset) <= k
  BY <1>1, ForgetsUpTo DEF TelegramInv, TelegramTypes, PollerTypes, Progress, NothingAhead
<1>3. \E b \in Nat : b <= sent /\ batch = (Forgets(p.offset) + 1)..b
  <2>1. Forgets(p.offset) + 1 \in Nat /\ Forgets(p.offset) + 1 >= 1 /\ sent \in Nat
    BY <1>2 DEF TelegramInv, TelegramTypes
  <2> QED BY <2>1, FirstOfInterval
<1>4. Interval(batch, k)
  <2>1. Forgets(p.offset) + 1 \in Nat /\ 1 <= Forgets(p.offset) + 1
        /\ Forgets(p.offset) + 1 <= k + 1
    BY <1>2
  <2> HIDE DEF batch
  <2> QED BY <1>3, <2>1 DEF Interval
<1>5. batch \in SUBSET Nat
  BY <1>2 DEF TelegramInv, TelegramTypes
<1>6. /\ confirmed' = Forgets(p.offset)
      /\ poller' = [poller EXCEPT ![s] = [p EXCEPT !.batch = batch,
                       !.phase = IF batch = {} THEN Asks(p) ELSE "busy"]]
      /\ UNCHANGED <<others, handled>>
  BY DEF GetUpdates, SetPoller
<1> HIDE DEF batch
<1> DEFINE q == [p EXCEPT !.batch = batch, !.phase = IF batch = {} THEN Asks(p) ELSE "busy"]
<1>9. p \in PollerTypes /\ p.offset <= k + 1
  BY <1>1 DEF TelegramInv, TelegramTypes, Progress, NothingAhead
<1>10. /\ q \in PollerTypes /\ q.offset = p.offset /\ q.batch = batch
       /\ q.phase = "busy" => batch # {}
  BY <1>9, <1>5 DEF PollerTypes, Phases, Asks
<1>11. poller' = [poller EXCEPT ![s] = q]
  BY <1>6
<1> HIDE DEF q, p
<1>7. TelegramTypes'
  BY <1>2, <1>6, <1>10, <1>11 DEF TelegramInv, TelegramTypes, others
<1>8. ASSUME NEW t \in Starts PROVE NothingAhead(poller[t], k)'
  <2>1. CASE t = s
    <3>1. poller'[t] = q /\ sent' = sent
      BY <1>6, <1>11, <2>1 DEF TelegramInv, TelegramTypes, others
    <3> QED BY <1>4, <1>9, <1>10, <3>1 DEF NothingAhead, Interval
  <2>2. CASE t # s
    BY <1>1, <1>6, <2>2
       DEF TelegramInv, TelegramTypes, others, Progress, NothingAhead, Interval
  <2> QED BY <2>1, <2>2
<1> QED BY <1>1, <1>2, <1>6, <1>7, <1>8 DEF TelegramInv, Progress, others

(* A failing call may have made Telegram forget as well.                   *)
LEMMA FailKeeps == ASSUME TelegramInv, NEW s \in Starts, GetUpdatesFails(s) PROVE TelegramInv'
<1>1. PICK k \in Nat : Progress(k)
  BY DEF TelegramInv
<1>2. confirmed' \in Nat /\ confirmed' <= k
  BY <1>1, ForgetsUpTo
     DEF TelegramInv, TelegramTypes, PollerTypes, Progress, NothingAhead, GetUpdatesFails
<1>3. TelegramTypes'
  BY <1>2 DEF TelegramInv, TelegramTypes, PollerTypes, Phases, GetUpdatesFails, SetPoller, others
<1>4. ASSUME NEW t \in Starts PROVE NothingAhead(poller[t], k)'
  <2>1. NothingAhead(poller[t], k)
    BY <1>1 DEF Progress
  <2>2. /\ poller'[t].offset = poller[t].offset /\ poller'[t].batch = poller[t].batch
        /\ poller'[t].phase # "busy" \/ poller'[t] = poller[t]
        /\ sent' = sent
    BY DEF TelegramInv, TelegramTypes, PollerTypes, GetUpdatesFails, SetPoller, others
  <2> QED BY <2>1, <2>2 DEF NothingAhead, Interval
<1> QED BY <1>1, <1>2, <1>3, <1>4 DEF TelegramInv, Progress, GetUpdatesFails, others

(* The oldest update of the batch is one that was handled, or the next.    *)
LEMMA ProcessKeeps == ASSUME TelegramInv, NEW s \in Starts, ProcessUpdate(s) PROVE TelegramInv'
<1> DEFINE p == poller[s]
<1>1. PICK k \in Nat : Progress(k)
  BY DEF TelegramInv
<1>2. PICK a \in Nat, b \in Nat :
        p.batch = a..b /\ 1 <= a /\ a <= k + 1 /\ b <= sent /\ a <= b
  BY <1>1 DEF Progress, NothingAhead, Interval, ProcessUpdate
<1> DEFINE rest == p.batch \ {a}
           q == IF rest # {} THEN [p EXCEPT !.batch = rest]
                ELSE [p EXCEPT !.batch = {}, !.offset = a + 1, !.phase = Asks(p)]
<1>3. handled' = handled \cup {a} /\ poller' = [poller EXCEPT ![s] = q]
  <2>1. Least(p.batch) = a
    BY <1>2, LeastOfInterval
  <2> QED BY <2>1 DEF ProcessUpdate, InOrder, SetPoller
<1>4. UNCHANGED <<others, confirmed>> /\ p.phase = "busy"
  BY DEF ProcessUpdate
<1>5. p \in PollerTypes /\ sent \in Nat
  BY DEF TelegramInv, TelegramTypes
<1>6. rest = (a + 1)..b
  BY <1>2
<1>7. q \in PollerTypes
  <2>1. rest \in SUBSET Nat
    BY <1>2, <1>6
  <2>2. a + 1 \in Nat /\ Asks(p) \in Phases
    BY DEF Phases, Asks
  <2> HIDE DEF rest, p
  <2> QED BY <1>5, <2>1, <2>2 DEF PollerTypes
<1>8. TelegramTypes'
  BY <1>3, <1>4, <1>7 DEF TelegramInv, TelegramTypes, others
<1> DEFINE n == IF a = k + 1 THEN k + 1 ELSE k
<1>9. n \in Nat /\ k <= n /\ a <= n /\ n <= sent /\ handled' = 1..n
  BY <1>1, <1>2, <1>3, <1>5 DEF Progress
<1> HIDE DEF n
<1>10. ASSUME NEW t \in Starts PROVE NothingAhead(poller[t], n)'
  <2>1. sent' = sent
    BY <1>4 DEF others
  <2>2. CASE t = s
    <3>1. poller'[t] = q
      BY <1>3, <2>2 DEF TelegramInv, TelegramTypes
    <3>2. poller'[t].batch = (a + 1)..b
      BY <1>5, <1>6, <3>1 DEF PollerTypes
    <3>3. poller'[t].offset <= n + 1
      <4>1. p.offset \in Nat /\ p.offset <= k + 1
        BY <1>1, <1>5 DEF PollerTypes, Progress, NothingAhead
      <4> QED BY <1>5, <1>9, <3>1, <4>1 DEF PollerTypes
    <3>4. poller'[t].phase = "busy" => poller'[t].batch # {}
      BY <1>5, <3>1 DEF PollerTypes, Asks
    <3>5. a + 1 \in Nat /\ 1 <= a + 1 /\ a + 1 <= n + 1
      BY <1>2, <1>9
    <3> QED BY <1>2, <2>1, <3>2, <3>3, <3>4, <3>5 DEF NothingAhead, Interval
  <2>3. CASE t # s
    <3>1. poller'[t] = poller[t] /\ poller[t].offset \in Nat
      BY <1>3, <2>3 DEF TelegramInv, TelegramTypes, PollerTypes
    <3>2. poller[t].offset <= k + 1 /\ Interval(poller[t].batch, k)
          /\ (poller[t].phase = "busy" => poller[t].batch # {})
      BY <1>1 DEF Progress, NothingAhead
    <3>3. Interval(poller[t].batch, n)'
      <4>1. PICK c \in Nat, d \in Nat :
              poller[t].batch = c..d /\ 1 <= c /\ c <= k + 1 /\ d <= sent
        BY <3>2 DEF Interval
      <4>2. c <= n + 1
        BY <1>9, <4>1
      <4> QED BY <2>1, <3>1, <4>1, <4>2 DEF Interval
    <3>4. poller'[t].offset <= n + 1
      BY <1>9, <3>1, <3>2
    <3> QED BY <3>1, <3>2, <3>3, <3>4 DEF NothingAhead
  <2> QED BY <2>2, <2>3
<1>11. Progress(n)'
  BY <1>1, <1>4, <1>5, <1>9, <1>10 DEF Progress, TelegramInv, TelegramTypes, others
<1> QED BY <1>8, <1>9, <1>11 DEF TelegramInv
-----------------------------------------------------------------------------
LEMMA TelegramNextInv == TelegramInv /\ [TelegramNext]_telegramVars => TelegramInv'
<1> SUFFICES ASSUME TelegramInv, [TelegramNext]_telegramVars PROVE TelegramInv'
  OBVIOUS
<1> USE DEF TelegramTypes, PollerTypes, Phases
<1>0. TelegramTypes
  BY DEF TelegramInv
<1>1. CASE SendUpdate
  BY <1>1, SendKeeps
<1>2. CASE DeleteCredential
  BY <1>2, StopKeeps DEF DeleteCredential, managed
<1>3. CASE DeleteLink
  BY <1>0, <1>3, NothingHandled DEF DeleteLink, managed
<1>4. CASE ListLinks
  BY <1>0, <1>4, NothingHandled DEF ListLinks, managed
<1>5. CASE StopPoller
  BY <1>5, StopKeeps DEF StopPoller, managed
<1>6. ASSUME NEW s \in Starts, EnsurePolling(s) PROVE TelegramInv'
  BY <1>0, <1>6, NothingHandled DEF EnsurePolling, managed
<1>7. ASSUME NEW s \in Starts, StartPoller(s) PROVE TelegramInv'
  BY <1>0, <1>7, NothingHandled DEF StartPoller, managed
<1>8. ASSUME NEW s \in Starts, StartFails(s) PROVE TelegramInv'
  BY <1>0, <1>8, NothingHandled DEF StartFails, managed
<1>9. ASSUME NEW s \in Starts, Restart(s) PROVE TelegramInv'
  BY <1>0, <1>9, NothingHandled DEF Restart, Fresh
<1>10. ASSUME NEW s \in Starts, WebhookCleared(s) PROVE TelegramInv'
  BY <1>0, <1>10, NothingHandled DEF WebhookCleared, SetPoller, Asks, others
<1>11. ASSUME NEW s \in Starts, GetUpdates(s) PROVE TelegramInv'
  BY <1>11, GetKeeps
<1>12. ASSUME NEW s \in Starts, GetUpdatesFails(s) PROVE TelegramInv'
  BY <1>12, FailKeeps
<1>13. ASSUME NEW s \in Starts, BackoffEnds(s) PROVE TelegramInv'
  BY <1>0, <1>13, NothingHandled DEF BackoffEnds, SetPoller, Asks, others
<1>14. ASSUME NEW s \in Starts, ProcessUpdate(s) PROVE TelegramInv'
  BY <1>14, ProcessKeeps
<1>15. CASE UNCHANGED telegramVars
  BY <1>0, <1>15, NothingHandled DEF telegramVars
<1> QED
  BY <1>1, <1>2, <1>3, <1>4, <1>5, <1>6, <1>7, <1>8, <1>9, <1>10, <1>11, <1>12, <1>13,
     <1>14, <1>15 DEF TelegramNext

LEMMA TelegramInvariance == TelegramSpec => []TelegramInv
<1> QED BY TelegramInitInv, TelegramNextInv, PTL DEF TelegramSpec
-----------------------------------------------------------------------------
(* poller.ts: for any number of updates, pollers, failures and restarts,   *)
(* what was handled is the updates sent first, and Telegram has forgotten  *)
(* none but those.                                                         *)
THEOREM UpdatesInOrder == TelegramSpec => []HandledInOrder
<1>1. TelegramInv => HandledInOrder
  BY DEF TelegramInv, TelegramTypes, Progress, HandledInOrder
<1> QED BY TelegramInvariance, <1>1, PTL
-----------------------------------------------------------------------------
(* The bound of the invalid sessions counts those whose timer is pending.  *)
InvalidsBound == invalidCloses <= invalids

(* Only the socket of this.ws is up: any other is closing, closed or was   *)
(* never opened.                                                           *)
OnlyLatestUp == \A n \in Conns : socket[n] = "up" => running /\ n = ws

DiscordInv ==
  /\ DiscordTypeOK
  /\ InvalidsBound
  /\ OnlyLatestUp
  /\ running => Cardinality(Open) + reconnects = 1

LEMMA OpenIsFinite == IsFiniteSet(Open) /\ Cardinality(Open) \in Nat
<1>1. IsFiniteSet(Conns)
  BY FS_Interval, DiscordBounds DEF Conns
<1>2. Open \subseteq Conns
  BY DEF Open
<1> QED BY <1>1, <1>2, FS_Subset, FS_CardinalityType

(* A socket that is closed leaves one open socket less.                    *)
LEMMA ClosedLess ==
  ASSUME DiscordTypeOK, NEW n \in Open, socket' = [socket EXCEPT ![n] = "closed"]
  PROVE  Cardinality(Open') = Cardinality(Open) - 1
<1>1. Open' = Open \ {n}
  BY DEF Open, DiscordTypeOK
<1> QED BY <1>1, OpenIsFinite, FS_RemoveElement

(* CloseWs closes no socket yet.                                           *)
LEMMA CloseWsKeepsOpen ==
  ASSUME DiscordTypeOK, CloseWs
  PROVE  /\ Open' = Open
         /\ socket' \in [Conns -> {"none", "up", "closing", "closed"}]
         /\ \A n \in Conns : socket'[n] = "up" => socket[n] = "up" /\ n # ws
  BY DEF Open, CloseWs, DiscordTypeOK

LEMMA DiscordInitInv == DiscordInit => DiscordInv
<1> SUFFICES ASSUME DiscordInit PROVE DiscordInv
  OBVIOUS
<1>1. 1 \in Conns
  BY DiscordBounds DEF Conns
<1>2. Open = {1}
  BY <1>1 DEF DiscordInit, Open
<1>3. Cardinality(Open) = 1
  BY <1>2, FS_Singleton
<1>4. DiscordTypeOK
  BY <1>1, DiscordBounds DEF DiscordInit, Quiet, DiscordTypeOK
<1> QED BY <1>1, <1>3, <1>4 DEF DiscordInit, Quiet, DiscordInv, InvalidsBound, OnlyLatestUp

LEMMA DiscordNextInv == DiscordInv /\ [DiscordNext]_discordVars => DiscordInv'
<1> SUFFICES ASSUME DiscordInv, [DiscordNext]_discordVars PROVE DiscordInv'
  OBVIOUS
<1> USE DEF DiscordInv, InvalidsBound, OnlyLatestUp
<1>0. Cardinality(Open) \in Nat /\ reconnects \in Nat
  BY OpenIsFinite DEF DiscordTypeOK
<1>1. CASE ReconnectTimer
  <2>1. CASE running
    <3>1. Open = {}
      BY <1>0, <1>1, <2>1, OpenIsFinite, FS_EmptySet DEF ReconnectTimer
    <3>2. Open' = {ws + 1}
      BY <1>1, <2>1, <3>1 DEF ReconnectTimer, Connect, Open, DiscordTypeOK
    <3>3. Cardinality(Open') = 1
      BY <3>2, FS_Singleton
    <3>4. DiscordTypeOK'
      BY <1>1, <2>1 DEF ReconnectTimer, Connect, DiscordTypeOK
    <3>5. OnlyLatestUp'
      BY <1>1, <2>1, <3>1, <3>2 DEF ReconnectTimer, Connect, Open, DiscordTypeOK
    <3> QED BY <1>0, <1>1, <2>1, <3>1, <3>3, <3>4, <3>5, FS_EmptySet DEF ReconnectTimer
  <2>2. CASE ~running
    BY <1>1, <2>2 DEF ReconnectTimer, DiscordTypeOK
  <2> QED BY <2>1, <2>2
<1>2. CASE InvalidSessionTimer
  <2>1. Open' = Open
    BY <1>2, CloseWsKeepsOpen DEF InvalidSessionTimer, Open
  <2>2. DiscordTypeOK'
    BY <1>2, CloseWsKeepsOpen, DiscordBounds DEF InvalidSessionTimer, DiscordTypeOK
  <2>3. OnlyLatestUp'
    BY <1>2, CloseWsKeepsOpen DEF InvalidSessionTimer
  <2> QED BY <1>2, <2>1, <2>2, <2>3 DEF InvalidSessionTimer, DiscordTypeOK
<1>3. CASE Stop
  <2>1. DiscordTypeOK'
    BY <1>3, CloseWsKeepsOpen DEF Stop, clearHeartbeat, DiscordTypeOK
  <2>2. OnlyLatestUp'
    BY <1>3, CloseWsKeepsOpen DEF Stop
  <2> QED BY <1>3, <2>1, <2>2 DEF Stop
<1>4. ASSUME NEW n \in Conns, Closed(n) PROVE DiscordInv'
  <2>1. n \in Open /\ Cardinality(Open') = Cardinality(Open) - 1
    BY <1>4, ClosedLess DEF Closed
  <2>2. DiscordTypeOK'
    BY <1>4 DEF Closed, clearHeartbeat, scheduleReconnect, DiscordTypeOK
  <2>3. OnlyLatestUp'
    BY <1>4 DEF Closed, DiscordTypeOK
  <2> QED BY <1>0, <1>4, <2>1, <2>2, <2>3 DEF Closed, scheduleReconnect
<1>5. ASSUME NEW n \in Conns, Hello(n) PROVE DiscordInv'
  BY <1>5 DEF Hello, clearHeartbeat, DiscordTypeOK, Open
<1>6. ASSUME NEW n \in Conns, HeartbeatAck(n) PROVE DiscordInv'
  BY <1>6 DEF HeartbeatAck, DiscordTypeOK, Open
<1>7. ASSUME NEW n \in Conns, HeartbeatAsked(n) PROVE DiscordInv'
  BY <1>7 DEF HeartbeatAsked, DiscordTypeOK, Open
<1>8. ASSUME NEW n \in Conns, ServerReconnect(n) PROVE DiscordInv'
  <2>1. Open' = Open /\ OnlyLatestUp'
    BY <1>8, CloseWsKeepsOpen DEF ServerReconnect
  <2>2. DiscordTypeOK'
    BY <1>8, CloseWsKeepsOpen DEF ServerReconnect, timers, DiscordTypeOK
  <2> QED BY <1>8, <2>1, <2>2 DEF ServerReconnect, timers
<1>9. ASSUME NEW n \in Conns, InvalidSession(n) PROVE DiscordInv'
  BY <1>9, DiscordBounds DEF InvalidSession, DiscordTypeOK, Open
<1>10. ASSUME NEW n \in Conns, FirstHeartbeat(n) PROVE DiscordInv'
  BY <1>10 DEF FirstHeartbeat, DiscordTypeOK, Open
<1>11. ASSUME NEW n \in Conns, Heartbeat(n) PROVE DiscordInv'
  <2>1. Open' = Open /\ OnlyLatestUp'
    BY <1>11, CloseWsKeepsOpen DEF Heartbeat, Open
  <2>2. DiscordTypeOK'
    BY <1>11, CloseWsKeepsOpen DEF Heartbeat, DiscordTypeOK
  <2> QED BY <1>11, <2>1, <2>2 DEF Heartbeat
<1>12. ASSUME NEW n \in Conns, GoesSilent(n) PROVE DiscordInv'
  BY <1>12 DEF GoesSilent, timers, DiscordTypeOK, Open
<1>13. CASE UNCHANGED discordVars
  BY <1>13 DEF discordVars, timers, DiscordTypeOK, Open
<1> QED
  BY <1>1, <1>2, <1>3, <1>4, <1>5, <1>6, <1>7, <1>8, <1>9, <1>10, <1>11, <1>12, <1>13
  DEF DiscordNext

LEMMA DiscordInvariance == DiscordSpec => []DiscordInv
<1> QED BY DiscordInitInv, DiscordNextInv, PTL DEF DiscordSpec

(* Every variable keeps its type, and a heartbeat interval that            *)
(* clearHeartbeat knows of is one that runs.                               *)
THEOREM GatewayTypes == DiscordSpec => []DiscordTypeOK
<1>1. DiscordInv => DiscordTypeOK
  BY DEF DiscordInv
<1> QED BY DiscordInvariance, <1>1, PTL

(* For every number of connections: a gateway that runs has one socket or  *)
(* one pending reconnect (gateway.ts 143-182), a stopped one keeps none up.*)
THEOREM OneGatewayConnection == DiscordSpec => []OneConnection
<1>1. DiscordInv => OneConnection
  BY DEF DiscordInv, OnlyLatestUp, OneConnection, Open
<1> QED BY DiscordInvariance, <1>1, PTL
=============================================================================
