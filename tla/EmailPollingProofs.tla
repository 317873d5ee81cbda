------------------------- MODULE EmailPollingProofs -------------------------
(***************************************************************************)
(* What holds of the polling of a mailbox for any mails, any batch size    *)
(* and any number of polls, edits, faults and restarts: no mail with a     *)
(* readable time starts a second run.                                      *)
(***************************************************************************)
EXTENDS EmailPolling, WellFoundedInduction, TLAPS

Positions == {"idle", "loading", "listing", "fetching", "saving", "firing",
              "failing", "disabling"}
PollTypes == [at : Positions, cur : Cursors \cup {NoCursor}, toFetch : SUBSET Mails,
              pending : SUBSET Mails, events : SUBSET Mails]

Types ==
  /\ clock \in Nat
  /\ cursor \in Cursors \cup {NoCursor}
  /\ poll \in [Polls -> PollTypes]
  /\ fired \in [Mails -> Nat]

Dated == Mails \ Undated

(* Polls follow one another.                                               *)
OnePoll ==
  \A p \in Polls : poll[p].at # "idle" =>
    inFlight /\ \A q \in Polls \ {p} : poll[q].at = "idle"

(* The mails seen at the watermark were received in its second.            *)
SeenThere(cur) == \A m \in cur.seen \cap Dated : Second[m] = cur.wm
Past(m, cur) == (Second[m] < cur.wm \/ m \in cur.seen) /\ m \notin cur.pending

(* A mail that was fired, or is about to be, is past for the cursor; one   *)
(* that is about to be was not fired yet.                                  *)
Done(m) == fired[m] > 0 \/ BeingFired(m)
DonePast ==
  /\ cursor # NoCursor => SeenThere(cursor)
  /\ \A m \in Dated : Done(m) => cursor # NoCursor /\ Past(m, cursor)
FiredOnce ==
  /\ NeverTwice
  /\ \A m \in Dated : BeingFired(m) => fired[m] = 0

(* What a poll holds before it has saved the cursor: a partition of mails  *)
(* that were not fired, and the cursor it will advance.                    *)
Empty(p) == poll[p].toFetch = {} /\ poll[p].pending = {} /\ poll[p].events = {}
Starts(p) ==
  /\ poll[p].at = "idle" => poll[p] = IdlePoll
  /\ poll[p].at \in {"loading", "listing"} => Empty(p)
Holds(p) ==
  poll[p].at \in {"listing", "fetching", "saving"} =>
    /\ poll[p].cur # NoCursor
    /\ poll[p].at # "saving" => cursor # NoCursor
    /\ cursor # NoCursor => poll[p].cur = cursor
    /\ poll[p].at = "saving" => poll[p].toFetch = {}
    /\ cursor = NoCursor => poll[p].cur.seen = {}
    /\ poll[p].toFetch \cap poll[p].pending = {}
    /\ poll[p].toFetch \cap poll[p].events = {}
    /\ poll[p].pending \cap poll[p].events = {}
    /\ \A m \in Dated :
         m \in poll[p].toFetch \cup poll[p].pending \cup poll[p].events => fired[m] = 0

IInv ==
  /\ Types
  /\ OnePoll
  /\ DonePast
  /\ FiredOnce
  /\ \A p \in Polls : Starts(p) /\ Holds(p)
-----------------------------------------------------------------------------
(* The watermark.                                                          *)

LEMMA MaxExists ==
  ASSUME NEW S \in SUBSET Nat, NEW e \in S, NEW b \in Nat, \A x \in S : x <= b
  PROVE  Max(S) \in S /\ \A x \in S : x <= Max(S)
<1> DEFINE T == {n \in Nat : \A x \in S : x <= n}
<1>1. PICK u \in T : \A n \in T : u <= n
  <2> DEFINE R == {ss \in Nat \X Nat : ss[1] < ss[2]}
  <2>1. IsWellFoundedOn(R, Nat)
    BY NatLessThanWellFounded, Zenon DEF OpToRel
  <2>2. b \in T /\ T \subseteq Nat
    OBVIOUS
  <2> HIDE DEF T, R
  <2>3. PICK u \in T : \A n \in T : ~ (<<n, u>> \in R)
    BY <2>1, <2>2, WFMin, Zenon
  <2>4. \A n \in T : ~(n < u) /\ n \in Nat /\ u \in Nat
    BY <2>2, <2>3 DEF R
  <2> QED BY <2>4
<1>2. u \in S
  <2> SUFFICES ASSUME u \notin S PROVE FALSE
    OBVIOUS
  <2>1. u > 0 /\ u - 1 \in Nat
    BY <1>1
  <2>2. u - 1 \in T
    BY <1>1, <2>1
  <2> QED BY <1>1, <2>1, <2>2
<1> QED BY <1>1, <1>2 DEF Max

LEMMA WatermarkIsMax ==
  ASSUME NEW cur \in Cursors, NEW events \in SUBSET Mails
  PROVE  /\ Watermark(cur, events) \in Nat /\ cur.wm <= Watermark(cur, events)
         /\ \A m \in events \cap Dated : Second[m] <= Watermark(cur, events)
         /\ \/ Watermark(cur, events) = cur.wm
            \/ \E m \in events \cap Dated : Watermark(cur, events) = Second[m]
<1> DEFINE S == {cur.wm} \cup {TimeOf(m, cur) : m \in events}
<1>1. cur.wm \in Nat /\ \A m \in Mails : Second[m] \in Nat /\ TimeOf(m, cur) \in Nat
  BY EmailAssumption DEF Cursors, TimeOf
<1>2. S \in SUBSET Nat /\ cur.wm \in S
  BY <1>1
<1>3. \E b \in Nat : \A x \in S : x <= b
  <2>1. CASE Mails = {}
    <3>1. \A x \in S : x = cur.wm
      BY <2>1
    <3>2. cur.wm \in Nat /\ \A x \in S : x <= cur.wm
      BY <1>1, <3>1
    <3> QED BY <3>2
  <2>2. CASE Mails # {}
    <3>1. LastMail \in Mails /\ \A m \in Mails : Second[m] <= Second[LastMail]
      <4>1. LastMail \in Mails /\ \A m \in Mails : m = LastMail \/ m < LastMail
        BY <2>2, EmailAssumption DEF Mails
      <4> QED BY <1>1, <4>1, EmailAssumption
    <3>2. cur.wm + Second[LastMail] \in Nat
      BY <1>1, <3>1
    <3>3. ASSUME NEW x \in S PROVE x <= cur.wm + Second[LastMail]
      BY <1>1, <3>1 DEF TimeOf
    <3> QED BY <3>2, <3>3
  <2> QED BY <2>1, <2>2
<1>4. Max(S) \in S /\ \A x \in S : x <= Max(S)
  BY <1>2, <1>3, MaxExists
<1> QED BY <1>1, <1>2, <1>4 DEF Watermark, TimeOf, Dated

(* A saved cursor is past what the poll is about to fire, and past all     *)
(* that the one before it was past, but for what is still to be fetched.   *)
LEMMA CursorAdvances ==
  ASSUME NEW cur \in Cursors, NEW events \in SUBSET Mails, NEW pending \in SUBSET Mails,
         SeenThere(cur), events \cap pending = {}
  PROVE  /\ NextCursor(cur, events, pending) \in Cursors
         /\ SeenThere(NextCursor(cur, events, pending))
         /\ \A m \in Dated :
              m \in events \/ (Past(m, cur) /\ m \notin pending)
                => Past(m, NextCursor(cur, events, pending))
<1> DEFINE w == Watermark(cur, events)
           n == NextCursor(cur, events, pending)
           boundary == {m \in events : TimeOf(m, cur) = w}
<1>1. /\ w \in Nat /\ cur.wm <= w /\ cur.wm \in Nat
      /\ \A m \in events \cap Dated : Second[m] <= w
      /\ \A m \in Mails : Second[m] \in Nat
      /\ cur.seen \in SUBSET Mails
  BY WatermarkIsMax, EmailAssumption DEF Cursors
<1>2. /\ n.wm = w /\ n.pending = pending
      /\ n.seen = IF cur.wm # w THEN boundary ELSE cur.seen \cup boundary
  BY DEF NextCursor, Seen
<1>3. \A m \in boundary \cap Dated : Second[m] = w
  BY DEF TimeOf, Dated
<1>4. \A m \in events \cap Dated : m \in boundary \/ Second[m] < w
  BY <1>1 DEF TimeOf, Dated
<1>5. n \in Cursors
  BY <1>1, <1>2 DEF NextCursor, Cursors
<1> HIDE DEF w, n, boundary
<1>6. SeenThere(n)
  BY <1>2, <1>3 DEF SeenThere
<1>7. ASSUME NEW m \in Dated, m \in events \/ (Past(m, cur) /\ m \notin pending)
      PROVE  Past(m, n)
  <2>1. CASE m \in events
    BY <1>2, <1>4, <2>1 DEF Past
  <2>2. CASE m \notin events
    <3>1. (Second[m] < cur.wm \/ m \in cur.seen) /\ m \notin pending
      BY <1>7, <2>2 DEF Past
    <3>2. Second[m] \in Nat /\ (m \in cur.seen => Second[m] = cur.wm)
      BY <1>1 DEF SeenThere, Dated
    <3> QED BY <1>1, <1>2, <3>1, <3>2 DEF Past
  <2> QED BY <2>1, <2>2
<1> QED BY <1>5, <1>6, <1>7 DEF n
-----------------------------------------------------------------------------
LEMMA InitIInv == Init => IInv
<1> SUFFICES ASSUME Init PROVE IInv
  OBVIOUS
<1>1. Types
  BY DEF Init, Types, IdlePoll, PollTypes, Positions
<1>2. \A m \in Mails : fired[m] = 0 /\ ~BeingFired(m)
  BY DEF Init, BeingFired, IdlePoll
<1> QED BY <1>1, <1>2 DEF Init, IdlePoll, IInv, OnePoll, DonePast, Done, FiredOnce,
                          NeverTwice, Starts, Holds, Dated

(* A poll that neither saves nor fires goes on, or ends.                   *)
LEMMA PollGoesOn ==
  ASSUME IInv, NEW p \in Polls, poll[p].at # "idle",
         NEW r \in PollTypes, poll' = [poll EXCEPT ![p] = r],
         UNCHANGED <<clock, cursor, fired>>,
         \/ r = IdlePoll
         \/ inFlight' = inFlight /\ r.at # "idle",
         r.at = "firing" => poll[p].at = "firing" /\ r.events \subseteq poll[p].events,
         Starts(p)', Holds(p)'
  PROVE  IInv'
<1>1. /\ poll'[p] = r /\ \A q \in Polls \ {p} : poll'[q] = poll[q] /\ poll[q].at = "idle"
      /\ poll' \in [Polls -> PollTypes]
      /\ inFlight
  BY DEF IInv, Types, OnePoll
<1>2. Types'
  BY <1>1 DEF IInv, Types
<1>3. OnePoll'
  <2> SUFFICES ASSUME NEW q \in Polls, poll'[q].at # "idle"
               PROVE  inFlight' /\ \A o \in Polls \ {q} : poll'[o].at = "idle"
    BY DEF OnePoll
  <2>1. q = p
    BY <1>1
  <2>2. r # IdlePoll
    BY <1>1, <2>1 DEF IdlePoll
  <2> QED BY <1>1, <2>1, <2>2
<1>4. \A m \in Mails : BeingFired(m)' => BeingFired(m)
  BY <1>1 DEF BeingFired
<1>5. DonePast' /\ FiredOnce'
  BY <1>4 DEF IInv, DonePast, Done, FiredOnce, NeverTwice, Dated
<1>6. ASSUME NEW q \in Polls PROVE Starts(q)' /\ Holds(q)'
  <2>1. CASE q # p
    BY <1>1, <2>1 DEF IInv, Starts, Holds
  <2> QED BY <2>1
<1> QED BY <1>2, <1>3, <1>5, <1>6 DEF IInv

LEMMA EndsKeeps ==
  ASSUME IInv, NEW p \in Polls, poll[p].at # "idle", EndsPoll(p),
         UNCHANGED <<clock, cursor, fired>>
  PROVE  IInv'
<1>1. IdlePoll \in PollTypes /\ IdlePoll.at = "idle"
  BY DEF IdlePoll, PollTypes, Positions
<1>2. poll' = [poll EXCEPT ![p] = IdlePoll] /\ poll'[p] = IdlePoll
  BY DEF EndsPoll, IInv, Types
<1>3. Starts(p)' /\ Holds(p)'
  BY <1>1, <1>2 DEF Starts, Holds
<1> QED BY <1>1, <1>2, <1>3, PollGoesOn

(* A poll that gives up the mails it holds.                                *)
LEMMA MovesKeeps ==
  ASSUME IInv, NEW p \in Polls, poll[p].at # "idle", NEW at \in {"failing", "disabling"},
         Moves(p, at), UNCHANGED <<clock, cursor, fired, inFlight>>
  PROVE  IInv'
<1> DEFINE r == [poll[p] EXCEPT !.at = at]
<1>1. r \in PollTypes /\ r.at = at
  BY DEF IInv, Types, PollTypes, Positions
<1>2. poll' = [poll EXCEPT ![p] = r] /\ poll'[p] = r
  BY DEF Moves, IInv, Types
<1> HIDE DEF r
<1>3. Starts(p)' /\ Holds(p)'
  BY <1>1, <1>2 DEF Starts, Holds
<1> QED BY <1>1, <1>2, <1>3, PollGoesOn

(* A batch is cut from mails that were not fired.                          *)
LEMMA SplitsKeeps ==
  ASSUME IInv, NEW p \in Polls, poll[p].at # "idle",
         NEW cur \in Cursors, cursor = cur, NEW ids \in SUBSET Mails, Splits(p, cur, ids),
         \A m \in Dated \cap ids : fired[m] = 0,
         UNCHANGED <<clock, cursor, fired, inFlight>>
  PROVE  IInv'
<1> DEFINE batch == Newest(ids, MaxPerPoll)
           r == [at |-> IF batch = {} THEN "saving" ELSE "fetching", cur |-> cur,
                 toFetch |-> batch, pending |-> ids \ batch, events |-> {}]
<1>1. batch \subseteq ids
  BY DEF Newest
<1>2. poll' = [poll EXCEPT ![p] = r] /\ poll'[p] = r
  BY DEF Splits, IInv, Types
<1> HIDE DEF batch
<1>3. r \in PollTypes
  BY <1>1 DEF PollTypes, Positions
<1>4. Holds(p)'
  BY <1>1, <1>2, EmailAssumption DEF Holds, Cursors
<1>5. Starts(p)' /\ r.at \in {"saving", "fetching"}
  BY <1>2 DEF Starts
<1> HIDE DEF r
<1> QED BY <1>2, <1>3, <1>4, <1>5, PollGoesOn
-----------------------------------------------------------------------------
LEMMA RunPollKeeps == ASSUME IInv, NEW p \in Polls, RunPoll(p) PROVE IInv'
<1>1. UNCHANGED <<clock, cursor, fired>>
  BY DEF RunPoll, mailVars, outVars
<1>2. /\ \A q \in Polls : poll[q].at = "idle" /\ poll[q] = IdlePoll
      /\ poll' = [poll EXCEPT ![p].at = "loading"] /\ inFlight'
  BY DEF RunPoll, Moves, IInv, OnePoll, Starts
<1>3. Types'
  BY <1>1, <1>2 DEF IInv, Types, PollTypes, Positions
<1>4. /\ \A q \in Polls \ {p} : poll'[q] = IdlePoll
      /\ poll'[p] = [IdlePoll EXCEPT !.at = "loading"]
  BY <1>2 DEF IInv, Types
<1>5. OnePoll'
  BY <1>2, <1>4 DEF OnePoll, IdlePoll
<1>6. \A q \in Polls : Starts(q)' /\ Holds(q)'
  BY <1>4 DEF Starts, Empty, Holds, IdlePoll
<1>7. \A m \in Mails : ~BeingFired(m)'
  BY <1>4 DEF BeingFired, IdlePoll
<1> QED BY <1>1, <1>3, <1>5, <1>6, <1>7
        DEF IInv, DonePast, Done, FiredOnce, NeverTwice, Dated

LEMMA LoadKeeps == ASSUME IInv, NEW p \in Polls, LoadRow(p) PROVE IInv'
<1>1. UNCHANGED <<clock, cursor, fired>> /\ poll[p].at = "loading"
  BY DEF LoadRow, mailVars, outVars
<1>6. poll[p] \in PollTypes /\ Empty(p)
  BY <1>1 DEF IInv, Types, Starts
<1> USE DEF Empty
<1>2. CASE EndsPoll(p)
  BY <1>1, <1>2, EndsKeeps
<1>3. CASE cursor = NoCursor /\ ~EndsPoll(p)
  <2> DEFINE r == [poll[p] EXCEPT !.at = "saving", !.cur = Baseline]
  <2>1. UNCHANGED inFlight /\ poll' = [poll EXCEPT ![p] = r]
    BY <1>3 DEF LoadRow
  <2>2. Baseline \in Cursors /\ Baseline.seen = {} /\ Baseline # NoCursor
    BY EmailAssumption DEF IInv, Types, Baseline, Cursors
  <2>3. /\ r \in PollTypes /\ r.at = "saving" /\ r.cur = Baseline
        /\ r.toFetch = {} /\ r.pending = {} /\ r.events = {}
    BY <1>6, <2>2 DEF PollTypes, Positions
  <2>4. poll'[p] = r
    BY <2>1 DEF IInv, Types
  <2> HIDE DEF r
  <2>5. Starts(p)' /\ Holds(p)'
    BY <1>1, <1>3, <2>2, <2>3, <2>4 DEF Starts, Holds
  <2> QED BY <1>1, <2>1, <2>3, <2>5, PollGoesOn
<1>4. CASE cursor # NoCursor /\ cursor.pending # {} /\ ~EndsPoll(p)
  <2>1. UNCHANGED inFlight /\ Splits(p, cursor, cursor.pending)
    BY <1>4 DEF LoadRow
  <2>2. cursor \in Cursors /\ cursor.pending \in SUBSET Mails
    BY <1>4 DEF IInv, Types, Cursors
  <2>3. \A m \in Dated \cap cursor.pending : fired[m] = 0
    BY DEF IInv, Types, DonePast, Done, Past, Dated
  <2> QED BY <1>1, <2>1, <2>2, <2>3, SplitsKeeps
<1>5. CASE cursor # NoCursor /\ cursor.pending = {} /\ ~EndsPoll(p)
  <2> DEFINE r == [poll[p] EXCEPT !.at = "listing", !.cur = cursor]
  <2>1. UNCHANGED inFlight /\ poll' = [poll EXCEPT ![p] = r]
    BY <1>5 DEF LoadRow
  <2>2. /\ r \in PollTypes /\ r.at = "listing" /\ r.cur = cursor
        /\ r.toFetch = {} /\ r.pending = {} /\ r.events = {}
    <3>1. cursor \in Cursors \cup {NoCursor}
      BY DEF IInv, Types
    <3> QED BY <1>6, <3>1 DEF PollTypes, Positions
  <2>3. poll'[p] = r
    BY <2>1 DEF IInv, Types
  <2> HIDE DEF r
  <2>4. Starts(p)' /\ Holds(p)'
    BY <1>1, <1>5, <2>2, <2>3 DEF Starts, Empty, Holds
  <2> QED BY <1>1, <2>1, <2>2, <2>4, PollGoesOn
<1> QED BY <1>2, <1>3, <1>4, <1>5

(* What is listed again and was not seen was not fired.                    *)
LEMMA ListKeeps == ASSUME IInv, NEW p \in Polls, ListSince(p) PROVE IInv'
<1>1. UNCHANGED <<clock, cursor, fired, inFlight>> /\ poll[p].at = "listing"
  BY DEF ListSince, mailVars, outVars
<1>2. CASE Moves(p, "failing")
  BY <1>1, <1>2, MovesKeeps
<1>3. CASE ~Moves(p, "failing")
  <2> DEFINE cur == poll[p].cur
             ids == Listed(cur.wm) \ cur.seen
  <2>1. Splits(p, cur, ids)
    BY <1>3 DEF ListSince
  <2>2. cur \in Cursors /\ cur # NoCursor /\ ids \in SUBSET Mails
    BY <1>1 DEF IInv, Types, PollTypes, Holds, Listed, Newest, Since
  <2>3. cursor = cur
    BY <1>1 DEF IInv, Holds
  <2>4. \A m \in Dated \cap ids : ~Past(m, cur)
    BY <2>2, EmailAssumption DEF Past, Listed, Newest, Since, Dated, Cursors
  <2>5. \A m \in Dated \cap ids : fired[m] = 0
    BY <2>3, <2>4 DEF IInv, Types, DonePast, Done, Dated
  <2> HIDE DEF cur, ids
  <2> QED BY <1>1, <2>1, <2>2, <2>3, <2>5, SplitsKeeps
<1> QED BY <1>2, <1>3

(* The newest of the batch joins the events, or is gone; a failing call    *)
(* puts the rest of the batch back.                                        *)
LEMMA FetchKeeps == ASSUME IInv, NEW p \in Polls, Fetch(p) PROVE IInv'
<1>1. UNCHANGED <<clock, cursor, fired, inFlight>> /\ poll[p].at = "fetching"
  BY DEF Fetch, mailVars, outVars
<1>2. Holds(p) /\ poll[p] \in PollTypes
  BY DEF IInv, Types
<1>3. CASE Moves(p, "failing")
  BY <1>1, <1>3, MovesKeeps
<1>4. CASE poll' = [poll EXCEPT ![p].at = "saving", ![p].toFetch = {},
                                ![p].pending = @ \cup poll[p].toFetch]
  <2> DEFINE r == [poll[p] EXCEPT !.at = "saving", !.toFetch = {},
                                  !.pending = @ \cup poll[p].toFetch]
  <2>1. /\ r \in PollTypes /\ r.at = "saving" /\ r.cur = poll[p].cur
        /\ r.toFetch = {} /\ r.events = poll[p].events
        /\ r.pending = poll[p].pending \cup poll[p].toFetch
    BY <1>2 DEF PollTypes, Positions
  <2>2. poll' = [poll EXCEPT ![p] = r] /\ poll'[p] = r
    BY <1>4 DEF IInv, Types
  <2> HIDE DEF r
  <2>3. Starts(p)' /\ Holds(p)'
    BY <1>1, <1>2, <2>1, <2>2 DEF Starts, Holds
  <2> QED BY <1>1, <2>1, <2>2, <2>3, PollGoesOn
<1>5. ASSUME NEW m \in Newest(poll[p].toFetch, 1),
             poll' = [poll EXCEPT
               ![p].at = IF @ = "fetching" /\ poll[p].toFetch = {m}
                         THEN "saving" ELSE @,
               ![p].toFetch = @ \ {m},
               ![p].events = IF mailbox[m] = "there" THEN @ \cup {m} ELSE @]
      PROVE  IInv'
  <2> DEFINE r == [poll[p] EXCEPT
               !.at = IF @ = "fetching" /\ poll[p].toFetch = {m} THEN "saving" ELSE @,
               !.toFetch = @ \ {m},
               !.events = IF mailbox[m] = "there" THEN @ \cup {m} ELSE @]
  <2>1. m \in poll[p].toFetch /\ m \in Mails
    BY <1>2 DEF Newest, PollTypes
  <2>2. /\ r \in PollTypes /\ r.cur = poll[p].cur /\ r.at \in {"fetching", "saving"}
        /\ r.at = "saving" => r.toFetch = {}
        /\ r.toFetch = poll[p].toFetch \ {m} /\ r.pending = poll[p].pending
        /\ r.events \subseteq poll[p].events \cup {m}
    BY <1>1, <1>2, <2>1 DEF PollTypes, Positions
  <2>3. poll' = [poll EXCEPT ![p] = r] /\ poll'[p] = r
    BY <1>5 DEF IInv, Types
  <2> HIDE DEF r
  <2>4. Starts(p)'
    BY <2>2, <2>3 DEF Starts
  <2>5. Holds(p)'
    BY <1>1, <1>2, <2>1, <2>2, <2>3 DEF Holds
  <2> QED BY <1>1, <2>2, <2>3, <2>4, <2>5, PollGoesOn
<1> QED BY <1>3, <1>4, <1>5 DEF Fetch, FetchFails

(* The cursor is saved first: the events it is past are fired then.        *)
LEMMA PersistKeeps == ASSUME IInv, NEW p \in Polls, Persist(p) PROVE IInv'
<1>1. UNCHANGED <<clock, fired, inFlight>> /\ poll[p].at = "saving"
  BY DEF Persist, mailVars, outVars
<1>2. CASE Moves(p, "failing") /\ UNCHANGED cursor
  BY <1>1, <1>2, MovesKeeps
<1>3. CASE /\ cursor' = NextCursor(poll[p].cur, poll[p].events, poll[p].pending)
           /\ Moves(p, "firing")
  <2> DEFINE r == [poll[p] EXCEPT !.at = "firing"]
  <2>1. poll[p] \in PollTypes /\ Holds(p)
    BY DEF IInv, Types
  <2>2. /\ r \in PollTypes /\ r.at = "firing" /\ r.events = poll[p].events
        /\ poll' = [poll EXCEPT ![p] = r]
    BY <1>3, <2>1 DEF Moves, PollTypes, Positions
  <2> HIDE DEF r
  <2>3. /\ poll' \in [Polls -> PollTypes] /\ poll'[p] = r
        /\ \A q \in Polls \ {p} : poll'[q] = poll[q] /\ poll[q].at = "idle"
    BY <1>1, <2>2 DEF IInv, Types, OnePoll
  <2>4. /\ poll[p].cur \in Cursors /\ SeenThere(poll[p].cur)
        /\ poll[p].events \in SUBSET Mails /\ poll[p].pending \in SUBSET Mails
        /\ poll[p].events \cap poll[p].pending = {}
    BY <1>1, <2>1 DEF PollTypes, Holds, IInv, DonePast, SeenThere
  <2>5. /\ cursor' \in Cursors /\ SeenThere(cursor') /\ cursor' # NoCursor
        /\ \A m \in Dated :
             m \in poll[p].events \/ (Past(m, poll[p].cur) /\ m \notin poll[p].pending)
               => Past(m, cursor')
    <3> DEFINE n == NextCursor(poll[p].cur, poll[p].events, poll[p].pending)
    <3>1. /\ n \in Cursors /\ SeenThere(n)
          /\ \A m \in Dated :
               m \in poll[p].events \/ (Past(m, poll[p].cur) /\ m \notin poll[p].pending)
                 => Past(m, n)
      BY <2>4, CursorAdvances
    <3>2. cursor' = n /\ NoCursor \notin Cursors
      BY <1>3, EmailAssumption DEF Cursors
    <3> HIDE DEF n
    <3> QED BY <3>1, <3>2
  <2>6. Types'
    BY <1>1, <2>3, <2>5 DEF IInv, Types
  <2>7. OnePoll'
    BY <1>1, <2>3 DEF IInv, OnePoll
  <2>8. \A q \in Polls : Starts(q)' /\ Holds(q)'
    BY <2>2, <2>3 DEF IInv, Starts, Holds
  <2>9. \A m \in Mails : BeingFired(m)' => m \in poll[p].events
    BY <2>2, <2>3 DEF BeingFired
  <2>10. FiredOnce'
    BY <1>1, <2>1, <2>9 DEF IInv, FiredOnce, NeverTwice, Holds, Dated
  <2>11. ASSUME NEW m \in Dated, Done(m)' PROVE Past(m, cursor')
    <3>1. CASE fired[m] > 0
      <4>1. cursor # NoCursor /\ Past(m, cursor)
        BY <3>1 DEF IInv, DonePast, Done
      <4>2. m \notin poll[p].pending /\ poll[p].cur = cursor
        BY <1>1, <2>1, <3>1, <4>1 DEF Holds
      <4> QED BY <2>5, <4>1, <4>2
    <3>2. CASE BeingFired(m)'
      BY <2>5, <2>9, <3>2 DEF Dated
    <3> QED BY <1>1, <2>11, <3>1, <3>2 DEF Done
  <2>12. DonePast'
    BY <2>5, <2>11 DEF DonePast, SeenThere, Past
  <2> QED BY <2>6, <2>7, <2>8, <2>10, <2>12 DEF IInv
<1> QED BY <1>2, <1>3 DEF Persist

LEMMA FireKeeps == ASSUME IInv, NEW p \in Polls, FireEvent(p) PROVE IInv'
<1>1. UNCHANGED <<clock, cursor, inFlight>> /\ poll[p].at = "firing"
  BY DEF FireEvent, mailVars
<1>2. PICK m \in Newest(poll[p].events, 1) :
        /\ poll' = [poll EXCEPT ![p].events = @ \ {m}]
        /\ fired' = [fired EXCEPT ![m] = @ + 1] \/ UNCHANGED fired
  BY DEF FireEvent
<1>3. m \in poll[p].events /\ m \in Mails /\ poll[p] \in PollTypes /\ BeingFired(m)
  BY <1>1, <1>2 DEF IInv, Types, PollTypes, Newest, BeingFired
<1>4. /\ poll' \in [Polls -> PollTypes]
      /\ poll'[p].events = poll[p].events \ {m} /\ poll'[p].at = "firing"
      /\ \A q \in Polls \ {p} : poll'[q] = poll[q] /\ poll[q].at = "idle"
  BY <1>1, <1>2, <1>3 DEF IInv, Types, PollTypes, OnePoll
<1>5. /\ fired' \in [Mails -> Nat]
      /\ \A k \in Mails \ {m} : fired'[k] = fired[k]
      /\ fired'[m] <= fired[m] + 1
  BY <1>2, <1>3 DEF IInv, Types
<1>6. \A k \in Mails : BeingFired(k)' => k # m /\ BeingFired(k)
  BY <1>1, <1>4 DEF BeingFired
<1>7. Types'
  BY <1>1, <1>4, <1>5 DEF IInv, Types
<1>8. OnePoll'
  BY <1>1, <1>4 DEF IInv, OnePoll
<1>9. \A q \in Polls : Starts(q)' /\ Holds(q)'
  BY <1>4 DEF IInv, Starts, Holds
<1>10. \A k \in Mails : Done(k)' => Done(k)
  BY <1>3, <1>5, <1>6 DEF Done
<1>11. DonePast'
  BY <1>1, <1>10 DEF IInv, DonePast, SeenThere, Past, Dated
<1>12. FiredOnce'
  <2>1. ASSUME NEW k \in Dated PROVE fired'[k] <= 1
    <3>1. CASE k = m
      <4>1. fired[m] = 0
        BY <1>3, <3>1 DEF IInv, FiredOnce
      <4>2. fired'[m] \in Nat
        BY <1>3, <1>5
      <4>3. fired'[m] <= fired[m] + 1
        BY <1>5
      <4> QED BY <3>1, <4>1, <4>2, <4>3
    <3>2. CASE k # m
      BY <1>5, <3>2 DEF IInv, FiredOnce, NeverTwice, Dated
    <3> QED BY <3>1, <3>2
  <2>2. \A k \in Dated : BeingFired(k)' => fired'[k] = 0
    BY <1>5, <1>6 DEF IInv, FiredOnce, Dated
  <2> QED BY <2>1, <2>2 DEF FiredOnce, NeverTwice, Dated
<1> QED BY <1>7, <1>8, <1>9, <1>11, <1>12 DEF IInv

LEMMA OutcomeKeeps ==
  ASSUME IInv, NEW p \in Polls, FinishPoll(p) \/ RecordFailure(p) \/ AutoDisable(p)
  PROVE  IInv'
<1>1. poll[p].at # "idle" /\ UNCHANGED <<clock, cursor, fired>>
  BY DEF FinishPoll, RecordFailure, AutoDisable, mailVars, outVars
<1>2. EndsPoll(p) \/ (Moves(p, "disabling") /\ UNCHANGED inFlight)
  BY DEF FinishPoll, RecordFailure, AutoDisable
<1> QED BY <1>1, <1>2, EndsKeeps, MovesKeeps

LEMMA RestartKeeps == IInv /\ Restart => IInv'
<1> SUFFICES ASSUME IInv, Restart PROVE IInv'
  OBVIOUS
<1>1. /\ UNCHANGED <<clock, cursor, fired>>
      /\ \A q \in Polls : poll'[q] = IdlePoll
      /\ poll' = [p \in Polls |-> IdlePoll]
  BY DEF Restart, mailVars
<1>2. Types'
  BY <1>1 DEF IInv, Types, IdlePoll, PollTypes, Positions
<1>3. \A m \in Mails : ~BeingFired(m)'
  BY <1>1 DEF BeingFired, IdlePoll
<1>4. OnePoll' /\ \A q \in Polls : Starts(q)' /\ Holds(q)'
  BY <1>1 DEF OnePoll, Starts, Holds, IdlePoll
<1> QED BY <1>1, <1>2, <1>3, <1>4
        DEF IInv, DonePast, Done, SeenThere, Past, FiredOnce, NeverTwice, Dated

(* The mailbox and the edits of the owner: no poll moves.                  *)
LEMMA OthersKeep ==
  ASSUME IInv, UNCHANGED <<cursor, poll, inFlight, fired>>, clock' \in Nat
  PROVE  IInv'
BY DEF IInv, Types, OnePoll, DonePast, Done, SeenThere, Past, BeingFired, FiredOnce,
       NeverTwice, Starts, Empty, Holds
-----------------------------------------------------------------------------
LEMMA NextIInv == IInv /\ [Next]_vars => IInv'
<1> SUFFICES ASSUME IInv, [Next]_vars PROVE IInv'
  OBVIOUS
<1>0. clock \in Nat
  BY DEF IInv, Types
<1>1. CASE Clock
  BY <1>0, <1>1, OthersKeep DEF Clock, outVars
<1>2. ASSUME NEW m \in Mails, Receive(m) \/ Delete(m) PROVE IInv'
  BY <1>0, <1>2, OthersKeep DEF Receive, Delete, outVars
<1>3. ASSUME NEW p \in Polls, RunPoll(p) PROVE IInv'
  BY <1>3, RunPollKeeps
<1>4. ASSUME NEW p \in Polls, PollStep(p) PROVE IInv'
  BY <1>4, LoadKeeps, ListKeeps, FetchKeeps, PersistKeeps, FireKeeps, OutcomeKeeps
     DEF PollStep
<1>5. ASSUME NEW e \in Edits, EditBegins(e) \/ Reregister(e) \/ EditStep(e) PROVE IInv'
  BY <1>0, <1>5, OthersKeep DEF EditBegins, Reregister, EditStep, EditWrites, ScheduleLoads,
                                ScheduleActivates, mailVars, outVars
<1>6. CASE Restart
  BY <1>6, RestartKeeps
<1>7. CASE UNCHANGED vars
  BY <1>0, <1>7, OthersKeep DEF vars, mailVars, outVars
<1> QED BY <1>1, <1>2, <1>3, <1>4, <1>5, <1>6, <1>7 DEF Next

LEMMA Invariance == Spec => []IInv
<1> QED BY InitIInv, NextIInv, PTL DEF Spec
-----------------------------------------------------------------------------
(* emailPolling.ts 44-55: for any mails, batch size, polls, edits, faults  *)
(* and restarts, a mail with a readable time starts at most one run.       *)
THEOREM MailFiresOnce == Spec => []NeverTwice
<1>1. IInv => NeverTwice
  BY DEF IInv, FiredOnce
<1> QED BY Invariance, <1>1, PTL

(* AppTriggerManager.ts: the trigger is never polled twice at a time,      *)
(* however many intervals were left behind by edits.                       *)
THEOREM PollsFollow == Spec => []OnePoll
<1>1. IInv => OnePoll
  BY DEF IInv
<1> QED BY Invariance, <1>1, PTL
-----------------------------------------------------------------------------
(* Where a mail is remembered.  One that is neither queued nor held by the *)
(* poll, but will still be listed, came last: the watermark may advance to *)
(* what the poll holds.  It did not, if a list was cut before it.          *)
Held(p) == poll[p].toFetch \cup poll[p].pending \cup poll[p].events
Handled(m) == fired[m] > 0 \/ m \in lost \/ BeingFired(m)
Coming(m) ==
  /\ mailbox[m] = "there" /\ ~Handled(m) /\ m \notin cut
  /\ Listable(m) \/ Queued(m)
CameAfter(m, S) == \A k \in S \cap Dated : Second[k] <= Second[m]

Mailbox ==
  /\ mailbox \in [Mails -> {"unsent", "there", "deleted"}]
  /\ lost \subseteq Mails
  /\ \A m \in Mails : mailbox[m] # "unsent" => Second[m] <= clock
Remembers ==
  cursor # NoCursor =>
    /\ \A m \in cursor.pending : mailbox[m] # "unsent"
    /\ \A m \in cursor.seen : Handled(m)
    /\ \A m \in Mails \ cursor.pending : Coming(m) => CameAfter(m, cursor.pending)
Carries(p) ==
  /\ poll[p].at = "listing" => cursor # NoCursor /\ cursor.pending = {}
  /\ poll[p].at \in {"fetching", "saving"} =>
       /\ cursor = NoCursor => Held(p) = {}
       /\ \A m \in Held(p) : mailbox[m] # "unsent"
       /\ \A m \in Mails \ Held(p) : Coming(m) => ~Queued(m) /\ CameAfter(m, Held(p))
Memory == Mailbox /\ Remembers /\ \A p \in Polls : Carries(p)

LEMMA InitMemory == Init => Memory
BY DEF Init, IdlePoll, Memory, Mailbox, Remembers, Carries

(* Who is handled stays so; who is not was coming before, if the cursor    *)
(* and the mailbox stay.                                                   *)
Handles == cut \subseteq cut' /\ \A m \in Mails : Handled(m) => Handled(m)'

LEMMA ComingBefore ==
  ASSUME Handles, UNCHANGED <<mailbox, cursor>>, NEW m \in Mails, Coming(m)'
  PROVE  Coming(m) /\ (Queued(m)' => Queued(m))
BY DEF Handles, Coming, Listable, Queued

LEMMA OnlyMoves ==
  ASSUME IInv, NEW p \in Polls, RunPoll(p) \/ PollStep(p)
  PROVE  \A q \in Polls \ {p} : poll'[q] = poll[q]
<1>1. poll \in [Polls -> PollTypes]
  BY DEF IInv, Types
<1>2. CASE RunPoll(p) \/ FinishPoll(p) \/ RecordFailure(p) \/ AutoDisable(p) \/ Persist(p)
           \/ FireEvent(p)
  BY <1>1, <1>2 DEF RunPoll, FinishPoll, RecordFailure, AutoDisable, Persist, FireEvent,
                    EndsPoll, Moves
<1>3. CASE LoadRow(p) \/ ListSince(p)
  BY <1>1, <1>3 DEF LoadRow, ListSince, EndsPoll, Moves, Splits
<1>4. CASE Fetch(p)
  BY <1>1, <1>4 DEF Fetch, FetchFails, Moves
<1> QED BY <1>2, <1>3, <1>4 DEF PollStep

(* An event leaves its poll only for its run, or because there was none.   *)
LEMMA PollHandles ==
  ASSUME IInv, Mailbox, NEW p \in Polls, RunPoll(p) \/ PollStep(p)
  PROVE  Handles /\ lost' \subseteq Mails
<1>1. \A q \in Polls \ {p} : poll'[q] = poll[q]
  BY OnlyMoves
<1>2. poll \in [Polls -> PollTypes] /\ fired \in [Mails -> Nat] /\ lost \subseteq Mails
  BY DEF IInv, Types, Mailbox
<1>3. CASE FireEvent(p)
  <2>1. PICK m \in Newest(poll[p].events, 1) :
          /\ poll' = [poll EXCEPT ![p].events = @ \ {m}]
          /\ \/ fired' = [fired EXCEPT ![m] = @ + 1] /\ UNCHANGED lost
             \/ lost' = lost \cup {m} /\ UNCHANGED fired
          /\ UNCHANGED cut
    BY <1>3 DEF FireEvent
  <2>2. m \in Mails /\ poll[p] \in PollTypes
    BY <1>2 DEF PollTypes, Newest
  <2>3. poll'[p].at = poll[p].at /\ poll'[p].events = poll[p].events \ {m}
    BY <1>2, <2>1, <2>2 DEF PollTypes
  <2>4. /\ \A k \in Mails : fired[k] > 0 => fired'[k] > 0
        /\ lost \subseteq lost' /\ (fired'[m] > 0 \/ m \in lost')
    BY <1>2, <2>1, <2>2
  <2>5. lost' \subseteq Mails
    BY <1>2, <2>1, <2>2
  <2>6. ASSUME NEW k \in Mails, BeingFired(k), k # m PROVE BeingFired(k)'
    BY <1>1, <2>3, <2>6 DEF BeingFired
  <2> QED BY <2>1, <2>4, <2>5, <2>6 DEF Handles, Handled
<1>4. CASE ~FireEvent(p)
  <2>1. UNCHANGED <<fired, lost>> /\ cut \subseteq cut'
    BY <1>4 DEF RunPoll, PollStep, LoadRow, ListSince, Fetch, Persist, FinishPoll,
                RecordFailure, AutoDisable, outVars
  <2>2. poll[p].at = "firing" => poll[p].events = {}
    BY <1>4 DEF RunPoll, PollStep, LoadRow, ListSince, Fetch, Persist, FinishPoll,
                RecordFailure, AutoDisable
  <2>3. \A m \in Mails : BeingFired(m) => BeingFired(m)'
    BY <1>1, <2>2 DEF BeingFired
  <2> QED BY <1>2, <2>1, <2>3 DEF Handles, Handled
<1> QED BY <1>3, <1>4

(* A step of a poll that does not save its cursor.                         *)
LEMMA MemoryKept ==
  ASSUME IInv, Memory, Handles, lost' \subseteq Mails, UNCHANGED <<clock, mailbox, cursor>>,
         \A p \in Polls : poll'[p] = poll[p] \/ Carries(p)'
  PROVE  Memory'
<1>1. Mailbox'
  BY DEF Memory, Mailbox
<1>2. Remembers'
  <2> SUFFICES ASSUME cursor # NoCursor
               PROVE  /\ \A m \in cursor.pending : mailbox[m] # "unsent"
                      /\ \A m \in cursor.seen : Handled(m)'
                      /\ \A m \in Mails \ cursor.pending :
                           Coming(m)' => CameAfter(m, cursor.pending)
    BY DEF Remembers, CameAfter
  <2>1. cursor.seen \subseteq Mails
    BY DEF IInv, Types, Cursors
  <2> QED BY <2>1, ComingBefore DEF Memory, Remembers, Handles
<1>3. ASSUME NEW p \in Polls, poll'[p] = poll[p] PROVE Carries(p)'
  <2>1. Held(p)' = Held(p)
    BY <1>3 DEF Held
  <2>2. Carries(p)
    BY DEF Memory
  <2> QED BY <1>3, <2>1, <2>2, ComingBefore DEF Carries, CameAfter
<1> QED BY <1>1, <1>2, <1>3 DEF Memory

(* What a poll takes over, from the queue or from a list, is all that came *)
(* before the rest.                                                        *)
LEMMA SplitsCarries ==
  ASSUME IInv, Handles, UNCHANGED <<mailbox, cursor>>, cursor # NoCursor,
         NEW p \in Polls, NEW cur, NEW ids \in SUBSET Mails, Splits(p, cur, ids),
         \A m \in ids : mailbox[m] # "unsent",
         \A m \in Mails \ ids : Coming(m)' => ~Queued(m) /\ CameAfter(m, ids)
  PROVE  Carries(p)'
<1> DEFINE batch == Newest(ids, MaxPerPoll)
<1>1. batch \subseteq ids
  BY DEF Newest
<1>2. /\ poll'[p].at \in {"saving", "fetching"} /\ poll'[p].toFetch = batch
      /\ poll'[p].pending = ids \ batch /\ poll'[p].events = {}
  BY DEF Splits, IInv, Types
<1> HIDE DEF batch
<1>3. Held(p)' = ids
  BY <1>1, <1>2 DEF Held
<1> QED BY <1>2, <1>3, ComingBefore DEF Carries, CameAfter
-----------------------------------------------------------------------------
LEMMA LoadCarries == ASSUME IInv, Memory, NEW p \in Polls, LoadRow(p) PROVE Memory'
<1>1. UNCHANGED <<clock, mailbox, cursor>> /\ poll[p].at = "loading" /\ PollStep(p)
  BY DEF LoadRow, PollStep, mailVars
<1>2. Handles /\ lost' \subseteq Mails /\ \A q \in Polls \ {p} : poll'[q] = poll[q]
  BY <1>1, PollHandles, OnlyMoves DEF Memory
<1> SUFFICES Carries(p)'
  BY <1>1, <1>2, MemoryKept
<1>3. poll \in [Polls -> PollTypes] /\ Held(p) = {}
  BY <1>1 DEF IInv, Types, Starts, Empty, Held
<1>4. CASE EndsPoll(p)
  BY <1>3, <1>4 DEF EndsPoll, IdlePoll, Carries
<1>5. CASE cursor = NoCursor /\ ~EndsPoll(p)
  <2>1. poll' = [poll EXCEPT ![p].at = "saving", ![p].cur = Baseline]
    BY <1>5 DEF LoadRow
  <2>2. poll'[p].at = "saving" /\ Held(p)' = {}
    BY <1>3, <2>1 DEF PollTypes, Held
  <2> QED BY <1>1, <1>5, <2>2, ComingBefore, <1>2 DEF Carries, Coming, Listable, Queued
<1>6. CASE cursor # NoCursor /\ cursor.pending # {} /\ ~EndsPoll(p)
  <2>1. Splits(p, cursor, cursor.pending)
    BY <1>6 DEF LoadRow
  <2>2. cursor.pending \in SUBSET Mails
    BY <1>6 DEF IInv, Types, Cursors
  <2>3. \A m \in Mails \ cursor.pending : Coming(m)' => ~Queued(m) /\ CameAfter(m, cursor.pending)
    BY <1>1, <1>2, <1>6, ComingBefore DEF Memory, Remembers, Queued
  <2> QED BY <1>1, <1>2, <1>6, <2>1, <2>2, <2>3, SplitsCarries DEF Memory, Remembers
<1>7. CASE cursor # NoCursor /\ cursor.pending = {} /\ ~EndsPoll(p)
  <2>1. poll' = [poll EXCEPT ![p].at = "listing", ![p].cur = cursor]
    BY <1>7 DEF LoadRow
  <2>2. poll'[p].at = "listing"
    BY <1>3, <2>1 DEF PollTypes
  <2> QED BY <1>1, <1>7, <2>2 DEF Carries
<1> QED BY <1>4, <1>5, <1>6, <1>7

LEMMA ListCarries == ASSUME IInv, Memory, NEW p \in Polls, ListSince(p) PROVE Memory'
<1>1. UNCHANGED <<clock, mailbox, cursor>> /\ poll[p].at = "listing" /\ PollStep(p)
  BY DEF ListSince, PollStep, mailVars
<1>2. Handles /\ lost' \subseteq Mails /\ \A q \in Polls \ {p} : poll'[q] = poll[q]
  BY <1>1, PollHandles, OnlyMoves DEF Memory
<1> SUFFICES Carries(p)'
  BY <1>1, <1>2, MemoryKept
<1>3. poll \in [Polls -> PollTypes]
  BY DEF IInv, Types
<1>4. CASE Moves(p, "failing")
  BY <1>3, <1>4 DEF Moves, PollTypes, Carries
<1>5. CASE ~Moves(p, "failing")
  <2> DEFINE ids == Listed(poll[p].cur.wm) \ poll[p].cur.seen
  <2>1. Splits(p, poll[p].cur, ids)
    BY <1>5 DEF ListSince
  <2>2. cursor # NoCursor /\ cursor.pending = {} /\ poll[p].cur = cursor
    BY <1>1 DEF Memory, Carries, IInv, Holds
  <2>3. ids \in SUBSET Mails /\ \A m \in ids : mailbox[m] # "unsent"
    BY DEF Listed, Newest, Since
  <2>4. ASSUME NEW m \in Mails \ ids, Coming(m)' PROVE FALSE
    <3>1. Listable(m) /\ mailbox[m] = "there" /\ m \notin cut'
      BY <1>1, <2>2, <2>4 DEF Coming, Listable, Queued
    <3>2. m \in Since(poll[p].cur.wm) \ poll[p].cur.seen
      BY <2>2, <3>1 DEF Listable, Since
    <3>3. cut' = cut \cup ((Since(poll[p].cur.wm) \ Listed(poll[p].cur.wm)) \ poll[p].cur.seen)
      BY <1>5 DEF ListSince
    <3> QED BY <2>4, <3>1, <3>2, <3>3
  <2> HIDE DEF ids
  <2> QED BY <1>1, <1>2, <2>1, <2>2, <2>3, <2>4, SplitsCarries
<1> QED BY <1>4, <1>5

(* A mail that was deleted is dropped, and nothing else.                   *)
LEMMA FetchCarries == ASSUME IInv, Memory, NEW p \in Polls, Fetch(p) PROVE Memory'
<1>1. UNCHANGED <<clock, mailbox, cursor>> /\ poll[p].at = "fetching" /\ PollStep(p)
  BY DEF Fetch, PollStep, mailVars
<1>2. Handles /\ lost' \subseteq Mails /\ \A q \in Polls \ {p} : poll'[q] = poll[q]
  BY <1>1, PollHandles, OnlyMoves DEF Memory
<1> SUFFICES Carries(p)'
  BY <1>1, <1>2, MemoryKept
<1>3. poll \in [Polls -> PollTypes] /\ poll[p] \in PollTypes /\ Carries(p)
  BY DEF IInv, Types, Memory
<1>4. CASE Moves(p, "failing")
  BY <1>3, <1>4 DEF Moves, PollTypes, Carries
<1>5. ASSUME ~Moves(p, "failing")
      PROVE  /\ poll'[p].at \in {"fetching", "saving"} /\ Held(p)' \subseteq Held(p)
             /\ \A m \in Held(p) \ Held(p)' : mailbox[m] # "there"
  <2>1. CASE poll' = [poll EXCEPT ![p].at = "saving", ![p].toFetch = {},
                                  ![p].pending = @ \cup poll[p].toFetch]
    <3>1. /\ poll'[p].at = "saving" /\ poll'[p].toFetch = {}
          /\ poll'[p].pending = poll[p].pending \cup poll[p].toFetch
          /\ poll'[p].events = poll[p].events
      BY <1>3, <2>1 DEF PollTypes
    <3> QED BY <3>1 DEF Held
  <2>2. ASSUME NEW m \in Newest(poll[p].toFetch, 1),
               poll' = [poll EXCEPT
                 ![p].at = IF @ = "fetching" /\ poll[p].toFetch = {m}
                           THEN "saving" ELSE @,
                 ![p].toFetch = @ \ {m},
                 ![p].events = IF mailbox[m] = "there" THEN @ \cup {m} ELSE @]
        PROVE  /\ poll'[p].at \in {"fetching", "saving"} /\ Held(p)' \subseteq Held(p)
               /\ \A k \in Held(p) \ Held(p)' : mailbox[k] # "there"
    <3>1. m \in poll[p].toFetch
      BY DEF Newest
    <3>2. /\ poll'[p].at \in {"fetching", "saving"}
          /\ poll'[p].toFetch = poll[p].toFetch \ {m}
          /\ poll'[p].pending = poll[p].pending
          /\ poll'[p].events = IF mailbox[m] = "there" THEN poll[p].events \cup {m}
                               ELSE poll[p].events
      BY <1>1, <1>3, <2>2 DEF PollTypes
    <3> QED BY <3>1, <3>2 DEF Held
  <2> QED BY <1>5, <2>1, <2>2 DEF Fetch, FetchFails
<1>6. CASE ~Moves(p, "failing")
  <2>1. poll[p].at \in {"fetching", "saving"}
    BY <1>1
  <2>2. ASSUME NEW m \in Mails \ Held(p)', Coming(m)'
        PROVE  ~Queued(m)' /\ CameAfter(m, Held(p))
    <3>1. Coming(m) /\ (Queued(m)' => Queued(m))
      BY <1>1, <1>2, <2>2, ComingBefore
    <3>2. m \notin Held(p)
      BY <1>5, <1>6, <2>2, <3>1 DEF Coming
    <3> QED BY <1>3, <2>1, <3>1, <3>2 DEF Carries
  <2>3. cursor = NoCursor => Held(p)' = {}
    BY <1>3, <1>5, <1>6, <2>1 DEF Carries
  <2>4. \A m \in Held(p)' : mailbox'[m] # "unsent"
    BY <1>1, <1>3, <1>5, <1>6, <2>1 DEF Carries
  <2>5. \A m \in Mails \ Held(p)' : Coming(m)' => ~Queued(m)' /\ CameAfter(m, Held(p)')
    BY <1>5, <1>6, <2>2 DEF CameAfter
  <2>6. poll'[p].at # "listing"
    BY <1>5, <1>6
  <2> QED BY <1>1, <2>3, <2>4, <2>5, <2>6 DEF Carries, CameAfter
<1> QED BY <1>4, <1>6

LEMMA OutcomeCarries ==
  ASSUME IInv, Memory, NEW p \in Polls,
         RunPoll(p) \/ FireEvent(p) \/ FinishPoll(p) \/ RecordFailure(p) \/ AutoDisable(p)
         \/ (Persist(p) /\ UNCHANGED cursor)
  PROVE  Memory'
<1>1. UNCHANGED <<clock, mailbox, cursor>> /\ (RunPoll(p) \/ PollStep(p))
  BY DEF RunPoll, FireEvent, FinishPoll, RecordFailure, AutoDisable, Persist, PollStep, mailVars
<1>2. Handles /\ lost' \subseteq Mails /\ \A q \in Polls \ {p} : poll'[q] = poll[q]
  BY <1>1, PollHandles, OnlyMoves DEF Memory
<1>3. poll \in [Polls -> PollTypes]
  BY DEF IInv, Types
<1>4. poll'[p].at \in {"idle", "loading", "firing", "failing", "disabling"}
  <2>1. CASE RunPoll(p) \/ FinishPoll(p) \/ RecordFailure(p) \/ AutoDisable(p)
    BY <1>3, <2>1 DEF RunPoll, FinishPoll, RecordFailure, AutoDisable, EndsPoll, Moves,
                      IdlePoll, PollTypes
  <2>2. CASE FireEvent(p)
    BY <1>3, <2>2 DEF FireEvent, PollTypes
  <2>3. CASE Persist(p)
    BY <1>3, <2>3 DEF Persist, Moves, PollTypes
  <2> QED BY <2>1, <2>2, <2>3
<1>5. Carries(p)'
  BY <1>4 DEF Carries
<1> QED BY <1>1, <1>2, <1>5, MemoryKept
-----------------------------------------------------------------------------
(* The new cursor: its watermark is the one before or a time of an event,  *)
(* and what it has seen are events, or was seen before.                    *)
Advances(n, cur, events, pending) ==
  /\ n \in Cursors /\ n.pending = pending
  /\ n.wm \in Nat /\ cur.wm \in Nat /\ cur.wm <= n.wm
  /\ n.wm = cur.wm \/ \E k \in events \cap Dated : n.wm = Second[k]
  /\ n.seen \subseteq cur.seen \cup events

LEMMA NextSees ==
  ASSUME NEW cur \in Cursors, NEW events \in SUBSET Mails, NEW pending \in SUBSET Mails
  PROVE  Advances(NextCursor(cur, events, pending), cur, events, pending)
<1>1. cur.wm \in Nat /\ cur.seen \in SUBSET Mails
  BY DEF Cursors
<1>2. Seen(cur, events) \subseteq cur.seen \cup events
  BY DEF Seen
<1>3. /\ Watermark(cur, events) \in Nat /\ cur.wm <= Watermark(cur, events)
      /\ \/ Watermark(cur, events) = cur.wm
         \/ \E k \in events \cap Dated : Watermark(cur, events) = Second[k]
  BY WatermarkIsMax
<1>4. NextCursor(cur, events, pending) \in Cursors
  BY <1>1, <1>2, <1>3 DEF NextCursor, Cursors
<1> QED BY <1>1, <1>2, <1>3, <1>4 DEF NextCursor, Advances

(* A poll saves its cursor: what it does not hold came after it.           *)
LEMMA SavesKeeps ==
  ASSUME IInv, Memory, NEW p \in Polls, Persist(p), cursor' # cursor
  PROVE  /\ Memory'
         /\ \A m \in Mails :
              Remembered(m) /\ mailbox[m] = "there" => Remembered(m)' \/ m \in cut'
<1>1. UNCHANGED <<clock, mailbox, lost, cut, fired, inFlight>> /\ poll[p].at = "saving"
  BY DEF Persist, mailVars, outVars
<1>2. /\ cursor' = NextCursor(poll[p].cur, poll[p].events, poll[p].pending)
      /\ Moves(p, "firing")
  BY DEF Persist
<1>3. Handles /\ lost' \subseteq Mails /\ \A q \in Polls \ {p} : poll'[q] = poll[q]
  BY PollHandles, OnlyMoves DEF Memory, PollStep
<1>4. /\ poll \in [Polls -> PollTypes] /\ Carries(p) /\ Holds(p) /\ Remembers /\ Mailbox
      /\ \A q \in Polls \ {p} : poll[q].at = "idle"
  BY <1>1 DEF IInv, Types, Memory, OnePoll
<1>5. /\ poll[p].cur \in Cursors /\ poll[p].toFetch = {}
      /\ poll[p].events \in SUBSET Mails /\ poll[p].pending \in SUBSET Mails
      /\ cursor # NoCursor => poll[p].cur = cursor
      /\ cursor = NoCursor => poll[p].cur.seen = {}
  BY <1>1, <1>4 DEF PollTypes, Holds
<1>6. /\ Held(p) = poll[p].events \cup poll[p].pending
      /\ cursor = NoCursor => Held(p) = {}
      /\ \A m \in Held(p) : mailbox[m] # "unsent"
      /\ \A m \in Mails \ Held(p) : Coming(m) => ~Queued(m) /\ CameAfter(m, Held(p))
  BY <1>1, <1>4, <1>5 DEF Held, Carries
<1>7. /\ cursor' \in Cursors
      /\ cursor'.pending = poll[p].pending /\ cursor'.wm \in Nat
      /\ poll[p].cur.wm \in Nat /\ poll[p].cur.wm <= cursor'.wm
      /\ \/ cursor'.wm = poll[p].cur.wm
         \/ \E k \in poll[p].events \cap Dated : cursor'.wm = Second[k]
      /\ cursor'.seen \subseteq poll[p].cur.seen \cup poll[p].events
  <2>1. Advances(cursor', poll[p].cur, poll[p].events, poll[p].pending)
    BY <1>2, <1>5, NextSees, Zenon
  <2> QED BY <2>1 DEF Advances
<1>8. cursor' # NoCursor
  BY <1>7, EmailAssumption DEF Cursors
<1>9. poll'[p].at = "firing" /\ poll'[p].events = poll[p].events
  BY <1>2, <1>4 DEF Moves, PollTypes
<1>10. \A m \in poll[p].events : Handled(m)'
  BY <1>9 DEF Handled, BeingFired
<1>11. \A m \in Mails : Second[m] \in Nat
  BY EmailAssumption
<1>12. ASSUME NEW m \in Mails \ Held(p), Coming(m)
       PROVE  Listable(m)'
  <2>1. /\ Listable(m) /\ CameAfter(m, Held(p)) /\ cursor # NoCursor
        /\ poll[p].cur = cursor
    BY <1>5, <1>6, <1>12 DEF Coming, Listable, Queued
  <2>2. Second[m] >= cursor'.wm
    BY <1>6, <1>7, <1>11, <2>1 DEF Listable, CameAfter
  <2>3. m \notin cursor'.seen
    BY <1>6, <1>7, <2>1 DEF Listable
  <2> QED BY <1>8, <2>2, <2>3 DEF Listable
<1>13. Remembers'
  <2>1. \A m \in cursor'.pending : mailbox'[m] # "unsent"
    BY <1>1, <1>6, <1>7
  <2>2. \A m \in cursor'.seen : Handled(m)'
    BY <1>3, <1>4, <1>5, <1>6, <1>7, <1>10 DEF Remembers, Handles, IInv, Types, Cursors
  <2>3. ASSUME NEW m \in Mails \ cursor'.pending, Coming(m)', cursor # NoCursor
        PROVE  CameAfter(m, Held(p))
    <3>1. ~Handled(m) /\ m \notin Held(p) /\ mailbox[m] = "there" /\ m \notin cut
      BY <1>1, <1>3, <1>6, <1>7, <1>10, <2>3 DEF Handles, Coming
    <3>2. Second[m] >= cursor'.wm
      BY <1>7, <2>3 DEF Coming, Listable, Queued
    <3>3. Second[m] >= cursor.wm /\ m \notin cursor.seen
      BY <1>4, <1>5, <1>7, <1>11, <2>3, <3>1, <3>2 DEF Remembers
    <3>4. Coming(m)
      BY <2>3, <3>1, <3>3 DEF Coming, Listable
    <3> QED BY <1>6, <3>1, <3>4
  <2>4. \A m \in Mails \ cursor'.pending : Coming(m)' => CameAfter(m, cursor'.pending)
    BY <1>6, <1>7, <2>3 DEF CameAfter
  <2> QED BY <2>1, <2>2, <2>4 DEF Remembers, CameAfter
<1>14. \A q \in Polls : Carries(q)'
  BY <1>3, <1>4, <1>9 DEF Carries
<1>15. Memory'
  BY <1>1, <1>3, <1>4, <1>13, <1>14 DEF Memory, Mailbox
<1>16. ASSUME NEW m \in Mails, Remembered(m), mailbox[m] = "there"
       PROVE  Remembered(m)' \/ m \in cut'
  <2>1. CASE Handled(m) \/ m \in poll[p].events
    <3>1. Handled(m)'
      BY <1>3, <1>10, <2>1 DEF Handles
    <3> QED BY <3>1 DEF Handled, Remembered
  <2>2. CASE m \in poll[p].pending
    BY <1>7, <1>8, <2>2 DEF Remembered, Queued
  <2>3. CASE ~Handled(m) /\ m \notin Held(p) /\ m \notin cut
    <3>1. Coming(m)
      BY <1>16, <2>3 DEF Remembered, Coming, Handled
    <3> QED BY <1>12, <2>3, <3>1 DEF Remembered
  <2>4. CASE m \in cut
    BY <1>1, <2>4
  <2> QED BY <1>6, <2>1, <2>2, <2>3, <2>4
<1> QED BY <1>15, <1>16
-----------------------------------------------------------------------------
(* The mailbox: what is received comes after all that was.                 *)
LEMMA MailboxKeeps ==
  ASSUME IInv, Memory, Clock \/ (\E m \in Mails : Receive(m) \/ Delete(m))
  PROVE  Memory' /\ Handles
<1>1. UNCHANGED <<cursor, poll, fired, lost, cut>>
  BY DEF Clock, Receive, Delete, outVars
<1>2. Handles /\ (\A m \in Mails : Handled(m)' = Handled(m))
  BY <1>1 DEF Handles, Handled, BeingFired
<1>3. /\ clock \in Nat /\ \A m \in Mails : Second[m] \in Nat
      /\ mailbox \in [Mails -> {"unsent", "there", "deleted"}]
      /\ \A m \in Mails : mailbox[m] # "unsent" => Second[m] <= clock
  BY EmailAssumption DEF IInv, Types, Memory, Mailbox
<1>4. /\ clock' \in Nat /\ clock <= clock'
      /\ mailbox' \in [Mails -> {"unsent", "there", "deleted"}]
      /\ \A m \in Mails :
           /\ mailbox[m] # "unsent" => mailbox'[m] # "unsent"
           /\ mailbox[m] = "unsent" /\ mailbox'[m] # "unsent" => Second[m] = clock
           /\ mailbox[m] # "unsent" /\ mailbox'[m] = "there" => mailbox[m] = "there"
  BY <1>3 DEF Clock, Receive, Delete
<1>5. Mailbox'
  BY <1>1, <1>3, <1>4 DEF Memory, Mailbox
<1>6. ASSUME NEW S \in SUBSET Mails, \A k \in S : mailbox[k] # "unsent",
             NEW m \in Mails, mailbox[m] = "unsent", Coming(m)'
      PROVE  m \notin S /\ CameAfter(m, S)
  BY <1>3, <1>4, <1>6 DEF Coming, CameAfter, Dated
<1>7. ASSUME NEW m \in Mails, mailbox[m] # "unsent", Coming(m)'
      PROVE  Coming(m)
  BY <1>1, <1>2, <1>4, <1>7 DEF Coming, Listable, Queued
<1>8. Remembers'
  <2> SUFFICES ASSUME cursor # NoCursor
               PROVE  /\ \A m \in cursor.pending : mailbox'[m] # "unsent"
                      /\ \A m \in cursor.seen : Handled(m)'
                      /\ \A m \in Mails \ cursor.pending :
                           Coming(m)' => CameAfter(m, cursor.pending)
    BY <1>1 DEF Remembers, CameAfter
  <2>1. cursor.pending \in SUBSET Mails /\ cursor.seen \in SUBSET Mails
    BY DEF IInv, Types, Cursors
  <2> QED BY <1>2, <1>4, <1>6, <1>7, <2>1 DEF Memory, Remembers
<1>9. ASSUME NEW p \in Polls PROVE Carries(p)'
  <2>1. Held(p)' = Held(p) /\ Held(p) \in SUBSET Mails
    BY <1>1 DEF Held, IInv, Types, PollTypes
  <2>2. Carries(p) /\ Remembers /\ poll'[p] = poll[p]
    BY <1>1 DEF Memory
  <2>3. ASSUME NEW m \in Mails, mailbox[m] = "unsent" PROVE ~Queued(m)
    BY <2>2, <2>3 DEF Remembers, Queued
  <2>4. \A m \in Mails : Queued(m)' = Queued(m)
    BY <1>1 DEF Queued
  <2>5. ASSUME poll[p].at \in {"fetching", "saving"}, NEW m \in Mails \ Held(p), Coming(m)'
        PROVE  ~Queued(m)' /\ CameAfter(m, Held(p))
    <3>1. CASE mailbox[m] = "unsent"
      BY <1>6, <2>1, <2>2, <2>3, <2>4, <2>5, <3>1 DEF Carries
    <3>2. CASE mailbox[m] # "unsent"
      BY <1>7, <2>2, <2>4, <2>5, <3>2 DEF Carries
    <3> QED BY <3>1, <3>2
  <2>6. poll[p].at \in {"fetching", "saving"} => \A m \in Held(p) : mailbox'[m] # "unsent"
    BY <1>4, <2>1, <2>2 DEF Carries
  <2> QED BY <1>1, <2>1, <2>2, <2>5, <2>6 DEF Carries, CameAfter
<1> QED BY <1>2, <1>5, <1>8, <1>9 DEF Memory

LEMMA RestartMemory == ASSUME IInv, Memory, Restart PROVE Memory' /\ Handles
<1>1. /\ UNCHANGED <<clock, mailbox, cursor, fired, cut>>
      /\ \A q \in Polls : poll'[q] = IdlePoll
      /\ lost' = lost \cup UNION {poll[p].events : p \in {q \in Polls : poll[q].at = "firing"}}
  BY DEF Restart, mailVars
<1>2. lost \subseteq lost' /\ \A m \in Mails : BeingFired(m) => m \in lost'
  BY <1>1 DEF BeingFired
<1>3. lost' \subseteq Mails
  BY <1>1 DEF Memory, Mailbox, IInv, Types, PollTypes
<1>4. Handles
  BY <1>1, <1>2 DEF Handles, Handled
<1>5. \A p \in Polls : Carries(p)'
  BY <1>1 DEF Carries, IdlePoll
<1> QED BY <1>1, <1>3, <1>4, <1>5, MemoryKept

LEMMA NextMemory ==
  ASSUME IInv, Memory, [Next]_vars
  PROVE  /\ Memory'
         /\ \A m \in Mails :
              Remembered(m) /\ mailbox[m] = "there" => Remembered(m)' \/ m \in cut'
<1>1. ASSUME UNCHANGED cursor, Handles, NEW m \in Mails, Remembered(m)
      PROVE  Remembered(m)'
  BY <1>1 DEF Handles, Handled, Remembered, Listable, Queued
<1>2. CASE Clock \/ (\E m \in Mails : Receive(m) \/ Delete(m))
  <2>1. UNCHANGED cursor
    BY <1>2 DEF Clock, Receive, Delete
  <2> QED BY <1>1, <1>2, <2>1, MailboxKeeps
<1>3. ASSUME NEW p \in Polls, RunPoll(p) \/ PollStep(p), UNCHANGED cursor
      PROVE  Memory' /\ Handles
  BY <1>3, PollHandles, LoadCarries, ListCarries, FetchCarries, OutcomeCarries
     DEF PollStep, Memory
<1>4. ASSUME NEW p \in Polls, RunPoll(p) \/ PollStep(p), cursor' # cursor
      PROVE  Persist(p)
  BY <1>4 DEF RunPoll, PollStep, LoadRow, ListSince, Fetch, FireEvent, FinishPoll,
              RecordFailure, AutoDisable
<1>5. ASSUME UNCHANGED <<clock, mailbox, cursor, poll, fired, lost, cut>>
      PROVE  Memory' /\ Handles
  <2>1. Handles /\ lost' \subseteq Mails
    BY <1>5 DEF Handles, Handled, BeingFired, Memory, Mailbox
  <2> QED BY <1>5, <2>1, MemoryKept
<1>6. ASSUME NEW e \in Edits, EditBegins(e) \/ Reregister(e) \/ EditStep(e)
      PROVE  UNCHANGED <<clock, mailbox, cursor, poll, fired, lost, cut>>
  BY <1>6 DEF EditBegins, Reregister, EditStep, EditWrites, ScheduleLoads,
              ScheduleActivates, mailVars, outVars
<1>7. CASE Restart
  <2>1. UNCHANGED cursor
    BY <1>7 DEF Restart
  <2> QED BY <1>1, <1>7, <2>1, RestartMemory
<1>8. CASE UNCHANGED vars
  <2>1. UNCHANGED <<clock, mailbox, cursor, poll, fired, lost, cut>>
    BY <1>8 DEF vars, mailVars, outVars
  <2> QED BY <1>1, <1>5, <2>1
<1>9. ASSUME NEW p \in Polls, RunPoll(p) \/ PollStep(p)
      PROVE  /\ Memory'
             /\ \A m \in Mails :
                  Remembered(m) /\ mailbox[m] = "there" => Remembered(m)' \/ m \in cut'
  <2>1. CASE UNCHANGED cursor
    BY <1>1, <1>3, <1>9, <2>1
  <2>2. CASE cursor' # cursor
    BY <1>4, <1>9, <2>2, SavesKeeps
  <2> QED BY <2>1, <2>2
<1>10. ASSUME NEW e \in Edits, EditBegins(e) \/ Reregister(e) \/ EditStep(e)
       PROVE  /\ Memory'
              /\ \A m \in Mails :
                   Remembered(m) /\ mailbox[m] = "there" => Remembered(m)' \/ m \in cut'
  BY <1>1, <1>5, <1>6, <1>10
<1> QED BY <1>2, <1>7, <1>8, <1>9, <1>10 DEF Next

(* emailPolling.ts 15, 164-184: for any mails, batch size, list size,      *)
(* polls, edits, faults and restarts, a mail that is remembered stays so   *)
(* while it is in the mailbox, wherever the watermark goes, unless a list  *)
(* cut at MAX_LIST_IDS left it out.                                        *)
THEOREM NoMailSkipped == Spec => NothingSkipped
<1>1. IInv /\ Memory /\ [Next]_vars => Memory'
  BY NextMemory
<1>2. Init => IInv /\ Memory
  BY InitIInv, InitMemory
<1>3. IInv /\ Memory /\ [Next]_vars
      => [\A m \in Mails :
            Remembered(m) /\ mailbox[m] = "there" /\ mailbox'[m] = "there"
              => Remembered(m)' \/ m \in cut']_vars
  BY NextMemory
<1> QED BY <1>1, <1>2, <1>3, NextIInv, PTL DEF Spec, NothingSkipped
=============================================================================
