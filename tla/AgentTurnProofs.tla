-------------------------- MODULE AgentTurnProofs --------------------------
(***************************************************************************)
(* What holds of the turns of a thread for any number of turns, calls,     *)
(* tools and compactions: what the model no longer gets is in the summary, *)
(* no turn has more tools carried out than it may, one that completed has  *)
(* answered, and one that could not begin was overtaken.                   *)
(***************************************************************************)
EXTENDS AgentTurn, FiniteSetTheorems, SequenceTheorems, TLAPS

Entry == [role : {"user", "assistant", "result"}, by : Nat, says : BOOLEAN]
Mind == [open : Int, tools : Nat, spoke : BOOLEAN, error : BOOLEAN,
         logged : BOOLEAN, forced : BOOLEAN]
Compaction == [at : {"new", "checked", "listed", "over"}, base : Nat,
               known : SUBSET Nat, upto : Nat]

Types ==
  /\ wake \in BOOLEAN
  /\ history \in Seq(Entry)
  /\ boundary \in Nat /\ boundary <= Len(history)
  /\ folded \in SUBSET Nat
  /\ phase \in [Turns -> {"new", "posted"} \cup Live \cup Over]
  /\ mind \in [Turns -> Mind]
  /\ compact \in [Compactions -> Compaction]
  /\ \A c \in Compactions : compact[c].upto <= Len(history)

(* A compaction under way knows what the summary stood for when it began.  *)
KnowsBase ==
  \A c \in Compactions : 1..compact[c].base \subseteq compact[c].known

(* The runtime has counted every tool of its turn that was carried out.    *)
Carried(t) ==
  {i \in DOMAIN history :
    history[i].by = t /\ history[i].role = "result" /\ history[i].says}
Counted(t) ==
  /\ Cardinality(Carried(t)) <= ToolCap
  /\ phase[t] \in {"new", "posted"} => Carried(t) = {}
  /\ phase[t] \in Live => Cardinality(Carried(t)) <= mind[t].tools

IInv ==
  /\ Types
  /\ SummaryCovers /\ KnowsBase
  /\ \A t \in Turns : Counted(t)
-----------------------------------------------------------------------------
LEMMA CarriedFinite ==
  ASSUME history \in Seq(Entry), NEW t
  PROVE  IsFiniteSet(Carried(t)) /\ Cardinality(Carried(t)) \in Nat
<1>1. IsFiniteSet(1..Len(history))
  BY FS_Interval
<1>2. Carried(t) \subseteq 1..Len(history)
  BY DEF Carried
<1> QED BY <1>1, <1>2, FS_Subset, FS_CardinalityType

(* Who appends another's message, a reply or a note carries nothing out.   *)
LEMMA StoreCarries ==
  ASSUME history \in Seq(Entry), NEW m \in Entry, Store(m), NEW t
  PROVE  /\ history' \in Seq(Entry) /\ Len(history') = Len(history) + 1
         /\ Carried(t)' = IF m.by = t /\ m.role = "result" /\ m.says
                          THEN Carried(t) \cup {Len(history) + 1} ELSE Carried(t)
<1>1. /\ history' \in Seq(Entry) /\ Len(history') = Len(history) + 1
      /\ \A i \in 1..Len(history) : history'[i] = history[i]
      /\ history'[Len(history) + 1] = m
  BY DEF Store
<1>2. DOMAIN history = 1..Len(history) /\ DOMAIN history' = 1..(Len(history) + 1)
  BY <1>1
<1> QED BY <1>1, <1>2 DEF Carried

(* A step that carries out no tool and leaves the compactions alone.       *)
LEMMA NothingCarried ==
  ASSUME IInv, Types',
         \A t \in Turns :
           /\ phase'[t] \in {"new", "posted"} => phase[t] \in {"new", "posted"}
           /\ phase'[t] \in Live =>
                \/ phase[t] \in Live /\ mind'[t].tools = mind[t].tools
                \/ phase[t] \in {"new", "posted"},
         \/ history' = history
         \/ \E m \in Entry : m.role # "result" /\ Store(m),
         SummaryCovers', KnowsBase'
  PROVE  IInv'
<1>1. ASSUME NEW t \in Turns PROVE Carried(t)' = Carried(t)
  <2>1. CASE history' = history
    BY <2>1 DEF Carried
  <2>2. CASE \E m \in Entry : m.role # "result" /\ Store(m)
    BY <2>2, StoreCarries DEF IInv, Types
  <2> QED BY <2>1, <2>2
<1>2. ASSUME NEW t \in Turns PROVE Counted(t)'
  <2>1. Counted(t) /\ mind'[t].tools \in Nat
    BY DEF IInv, Types, Mind
  <2>2. Cardinality({}) = 0
    BY FS_EmptySet
  <2> QED BY <1>1, <2>1, <2>2 DEF Counted
<1> QED BY <1>2 DEF IInv
-----------------------------------------------------------------------------
LEMMA InitIInv == Init => IInv
<1> SUFFICES ASSUME Init PROVE IInv
  OBVIOUS
<1>1. Types
  BY Sizes DEF Init, Types, FreshMind, Idle, Mind, Compaction
<1>2. \A t \in Turns : Carried(t) = {} /\ phase[t] = "new"
  BY DEF Init, Carried
<1>3. \A t \in Turns : Counted(t)
  BY <1>2, FS_EmptySet, Sizes DEF Counted, Live
<1> QED BY <1>1, <1>3 DEF IInv, Init, SummaryCovers, KnowsBase, Idle

(* The turns and the title, but for the end of a tool.                     *)
LEMMA TurnsKeep ==
  ASSUME IInv, NEW t \in Turns,
         \/ Post(t) \/ Start(t) \/ Kill(t) \/ Load(t) \/ Call(t) \/ Reply(t)
         \/ CallFails(t) \/ CallTimesOut(t) \/ FailsWithError(t) \/ Forces(t)
         \/ FailsWithNote(t) \/ Completes(t)
  PROVE  IInv'
<1>1. t \in Nat
  BY Sizes DEF Turns
<1>2. \/ history' = history
      \/ \E m \in Entry : m.role # "result" /\ Store(m)
  <2>1. \A s \in BOOLEAN : /\ Message("assistant", t, s) \in Entry
                           /\ Message("assistant", t, s).role # "result"
    BY <1>1 DEF Message, Entry
  <2>2. /\ Message("user", t, TRUE) \in Entry /\ Message("user", t, TRUE).role # "result"
    BY <1>1 DEF Message, Entry
  <2> QED BY <2>1, <2>2 DEF Post, Start, Kill, Load, Call, Reply, CallFails, CallTimesOut,
                            FailsWithError, Forces, FailsWithNote, Completes
<1>3. UNCHANGED <<wake, compactVars>>
  BY DEF Post, Start, Kill, Load, Call, Reply, CallFails, CallTimesOut,
         FailsWithError, Forces, FailsWithNote, Completes
<1>4. history' \in Seq(Entry) /\ Len(history') >= Len(history)
  BY <1>2, StoreCarries DEF IInv, Types
<1>5. /\ phase' \in [Turns -> {"new", "posted"} \cup Live \cup Over]
      /\ \A u \in Turns :
           /\ phase'[u] \in {"new", "posted"} => phase[u] \in {"new", "posted"}
           /\ phase'[u] \in Live => phase[u] \in Live \cup {"new", "posted"}
  <2>1. \/ UNCHANGED phase
        \/ \E from \in {"new"}, to \in {"posted"} : Moves(t, from, to)
        \/ \E from \in Live \cup {"posted"}, to \in Live \cup Over : Moves(t, from, to)
    <3>1. CASE Post(t) \/ Start(t) \/ Kill(t) \/ Load(t) \/ Call(t)
      BY <3>1 DEF Live, Over, Exits, runVars, Post, Start, Kill, Load, Call
    <3>2. CASE Reply(t)
      <4>1. \/ UNCHANGED phase
            \/ phase[t] = "calling" /\ \E to \in {"acting", "idle"} :
                                        phase' = [phase EXCEPT ![t] = to]
        BY <3>2 DEF Reply, Hears
      <4> QED BY <4>1 DEF Moves, Live
    <3>3. CASE CallFails(t) \/ CallTimesOut(t)
      BY <3>3 DEF Live, CallFails, CallTimesOut
    <3>4. CASE FailsWithError(t) \/ Forces(t) \/ FailsWithNote(t) \/ Completes(t)
      BY <3>4 DEF Live, Over, Exits, FailsWithError, Forces, FailsWithNote, Completes
    <3> QED BY <3>1, <3>2, <3>3, <3>4
  <2>2. phase \in [Turns -> {"new", "posted"} \cup Live \cup Over]
    BY DEF IInv, Types
  <2> QED BY <2>1, <2>2 DEF Moves, Live, Over
<1>6. /\ mind' \in [Turns -> Mind]
      /\ \A u \in Turns : phase'[u] \in Live => mind'[u].tools = mind[u].tools
  <2> USE DEF IInv, Types, Mind
  <2>1. CASE \E p \in Live \cup {"idle"}, to \in Over : Exits(t, p, to)
    BY <2>1 DEF Exits, Moves, FreshMind, Live, Over
  <2>2. CASE Reply(t)
    <3>1. PICK text \in BOOLEAN, cut \in BOOLEAN, tools \in {0, PerReply} :
            Hears(t, text, tools, cut)
      BY <2>2 DEF Reply
    <3>2. CASE phase[t] = "calling"
      <4>1. PICK e \in BOOLEAN, o \in Int :
              mind' = [mind EXCEPT ![t].spoke = text, ![t].error = e, ![t].open = o]
        <5>1. (tools > 0 /\ cut) \in BOOLEAN /\ (IF cut THEN 0 ELSE tools) \in Int
          BY Sizes
        <5> QED BY <3>1, <3>2, <5>1 DEF Hears
      <4> DEFINE r == [mind[t] EXCEPT !.spoke = text, !.error = e, !.open = o]
      <4>2. r \in Mind /\ r.tools = mind[t].tools
        BY <3>1, <4>1
      <4>3. mind' = [mind EXCEPT ![t] = r]
        BY <4>1
      <4> HIDE DEF r
      <4> QED BY <4>2, <4>3
    <3>3. CASE UNCHANGED mind
      BY <3>3
    <3> QED BY <3>1, <3>2, <3>3 DEF Hears
  <2>3. CASE Forces(t) \/ CallFails(t) \/ CallTimesOut(t)
    <3>1. CASE mind' = [mind EXCEPT ![t].forced = TRUE]
      BY <3>1
    <3>2. CASE mind' = [mind EXCEPT ![t] = Errs(t)]
      BY <3>2 DEF Errs
    <3>3. CASE UNCHANGED mind
      BY <3>3
    <3> QED BY <2>3, <3>1, <3>2, <3>3 DEF Forces, CallFails, CallTimesOut
  <2>4. CASE UNCHANGED mind
    BY <2>4
  <2> QED BY <2>1, <2>2, <2>3, <2>4
          DEF Post, Start, Kill, Load, Call, FailsWithError, FailsWithNote, Completes,
              Live, Over
<1>7. Types'
  <2>1. boundary \in Nat /\ boundary <= Len(history) /\ Len(history) \in Nat
    BY DEF IInv, Types
  <2>2. \A c \in Compactions : compact[c].upto \in Nat /\ compact[c].upto <= Len(history)
    BY DEF IInv, Types, Compaction
  <2>3. /\ wake' \in BOOLEAN
        /\ boundary' = boundary /\ folded' \in SUBSET Nat
        /\ compact' = compact /\ compact \in [Compactions -> Compaction]
    BY <1>3 DEF IInv, Types, compactVars
  <2>4. Len(history') \in Nat
    BY <1>4
  <2> QED BY <1>4, <1>5, <1>6, <2>1, <2>2, <2>3, <2>4 DEF Types
<1>8. SummaryCovers' /\ KnowsBase'
  BY <1>3 DEF IInv, SummaryCovers, KnowsBase, compactVars
<1> QED BY <1>2, <1>5, <1>6, <1>7, <1>8, NothingCarried

(* The end of a tool: within the cap its result counts, and it is counted. *)
LEMMA ToolKeeps == ASSUME IInv, NEW t \in Turns, ToolEnds(t) PROVE IInv'
<1> DEFINE m == Message("result", t, Allowed(t))
<1>1. m \in Entry /\ m.by = t /\ m.role = "result" /\ m.says = (mind[t].tools < ToolCap)
  BY Sizes DEF Message, Entry, Allowed, Turns
<1>2. Store(m) /\ UNCHANGED <<wake, compactVars>>
  BY DEF ToolEnds
<1> HIDE DEF m
<1>3. history \in Seq(Entry) /\ history' \in Seq(Entry) /\ Len(history') = Len(history) + 1
  BY <1>1, <1>2, StoreCarries DEF IInv, Types
<1>4. /\ phase' \in [Turns -> {"new", "posted"} \cup Live \cup Over]
      /\ phase[t] = "acting" /\ phase'[t] \in {"ready", "acting"}
      /\ \A u \in Turns \ {t} : phase'[u] = phase[u]
  BY DEF IInv, Types, ToolEnds, Live
<1>5. /\ mind' \in [Turns -> Mind]
      /\ mind[t].tools \in Nat /\ mind'[t].tools = mind[t].tools + 1
      /\ \A u \in Turns \ {t} : mind'[u] = mind[u]
  <2>1. PICK log \in {FALSE, Wakes(t)} :
          mind' = [mind EXCEPT ![t].open = @ - 1, ![t].tools = @ + 1, ![t].logged = @ \/ log]
    BY DEF ToolEnds
  <2>2. mind[t] \in Mind
    BY DEF IInv, Types
  <2>3. (mind[t].logged \/ log) \in BOOLEAN
    OBVIOUS
  <2> QED BY <2>1, <2>2, <2>3 DEF IInv, Types, Mind
<1>6. Types'
  <2>1. boundary \in Nat /\ boundary <= Len(history) /\ Len(history) \in Nat
    BY DEF IInv, Types
  <2>2. \A c \in Compactions : compact[c].upto \in Nat /\ compact[c].upto <= Len(history)
    BY DEF IInv, Types, Compaction
  <2>3. /\ wake' \in BOOLEAN
        /\ boundary' = boundary /\ folded' \in SUBSET Nat
        /\ compact' = compact /\ compact \in [Compactions -> Compaction]
    BY <1>2 DEF IInv, Types, compactVars
  <2> QED BY <1>3, <1>4, <1>5, <2>1, <2>2, <2>3 DEF Types
<1>7. \A u \in Turns : Carried(u)' = IF m.by = u /\ m.role = "result" /\ m.says
                          THEN Carried(u) \cup {Len(history) + 1} ELSE Carried(u)
  BY <1>1, <1>2, <1>3, StoreCarries
<1>8. Counted(t)'
  <2>1. Counted(t) /\ phase[t] \in Live
    BY <1>4 DEF IInv, Live
  <2>2. IsFiniteSet(Carried(t)) /\ Cardinality(Carried(t)) \in Nat
    BY <1>3, CarriedFinite
  <2>3. CASE mind[t].tools < ToolCap
    <3>1. Carried(t)' = Carried(t) \cup {Len(history) + 1}
      BY <1>1, <1>7, <2>3
    <3>2. Len(history) + 1 \notin Carried(t)
      BY <1>3 DEF Carried
    <3>3. Cardinality(Carried(t)') = Cardinality(Carried(t)) + 1
      BY <2>2, <3>1, <3>2, FS_AddElement
    <3> QED BY <1>4, <1>5, <2>1, <2>2, <2>3, <3>3, Sizes DEF Counted, Live
  <2>4. CASE ~(mind[t].tools < ToolCap)
    <3>1. Carried(t)' = Carried(t)
      BY <1>1, <1>7, <2>4
    <3> QED BY <1>4, <1>5, <2>1, <2>2, <3>1, Sizes DEF Counted, Live
  <2> QED BY <2>3, <2>4
<1>9. ASSUME NEW u \in Turns, u # t PROVE Counted(u)'
  <2>1. Carried(u)' = Carried(u)
    BY <1>1, <1>7, <1>9
  <2> QED BY <1>4, <1>5, <1>9, <2>1 DEF IInv, Counted
<1>10. SummaryCovers' /\ KnowsBase'
  BY <1>2 DEF IInv, SummaryCovers, KnowsBase, compactVars
<1> QED BY <1>6, <1>8, <1>9, <1>10 DEF IInv

LEMMA TitleKeeps == IInv /\ (StoreTitle \/ TitleFails) => IInv'
<1> SUFFICES ASSUME IInv, StoreTitle \/ TitleFails PROVE IInv'
  OBVIOUS
<1>1. Title \in Entry /\ Title.role # "result"
  BY DEF Title, Message, Entry
<1>2. /\ UNCHANGED <<wake, runVars, compactVars>>
      /\ history' = history \/ Store(Title)
  BY DEF StoreTitle, TitleFails
<1> HIDE DEF Title
<1>3. history' \in Seq(Entry) /\ Len(history') >= Len(history)
  BY <1>1, <1>2, StoreCarries DEF IInv, Types
<1>4. Types'
  <2>1. boundary \in Nat /\ boundary <= Len(history) /\ Len(history) \in Nat
    BY DEF IInv, Types
  <2>2. \A c \in Compactions : compact[c].upto \in Nat /\ compact[c].upto <= Len(history)
    BY DEF IInv, Types, Compaction
  <2> QED BY <1>2, <1>3, <2>1, <2>2 DEF IInv, Types, runVars, compactVars
<1>5. SummaryCovers' /\ KnowsBase'
  BY <1>2 DEF IInv, SummaryCovers, KnowsBase, compactVars
<1>6. phase' = phase /\ mind' = mind
  BY <1>2 DEF runVars
<1> QED BY <1>1, <1>2, <1>4, <1>5, <1>6, NothingCarried
-----------------------------------------------------------------------------
(* The compactions: what is applied is what the base stood for, and all    *)
(* that was listed after it.                                               *)
LEMMA CompactKeeps ==
  ASSUME IInv, NEW c \in Compactions,
         CompactChecks(c) \/ CompactLists(c) \/ CompactApplies(c) \/ CompactFails(c)
  PROVE  IInv'
<1>1. UNCHANGED <<wake, history, phase, mind>>
  BY DEF CompactChecks, CompactLists, CompactApplies, CompactFails, runVars
<1>2. compact[c] \in Compaction /\ Len(history) \in Nat
  BY DEF IInv, Types
<1>3. 1..compact[c].base \subseteq compact[c].known
  BY DEF IInv, KnowsBase
<1>4. boundary \in Nat /\ boundary <= Len(history) /\ 1..boundary \subseteq folded
      /\ folded \in SUBSET Nat
  BY DEF IInv, Types, SummaryCovers
<1>5. /\ boundary' \in Nat /\ boundary' <= Len(history) /\ folded' \in SUBSET Nat
      /\ 1..boundary' \subseteq folded'
  <2>1. CASE CompactApplies(c)
    BY <1>2, <1>3, <2>1 DEF CompactApplies, Transcript, IInv, Types, Compaction
  <2>2. CASE UNCHANGED <<boundary, folded>>
    BY <1>4, <2>2
  <2> QED BY <2>1, <2>2 DEF CompactChecks, CompactLists, CompactFails
<1>6. PICK r \in Compaction :
        /\ compact' = [compact EXCEPT ![c] = r]
        /\ r.upto <= Len(history) /\ 1..r.base \subseteq r.known
  <2>1. Idle("over") \in Compaction /\ Idle("over").upto <= Len(history)
        /\ 1..Idle("over").base \subseteq Idle("over").known
    BY <1>2 DEF Idle, Compaction
  <2>2. CASE CompactChecks(c)
    <3> DEFINE r == [at |-> "checked", base |-> boundary, known |-> folded, upto |-> 0]
    <3>1. r \in Compaction /\ r.upto <= Len(history) /\ 1..r.base \subseteq r.known
      BY <1>2, <1>4 DEF Compaction
    <3>2. compact' = [compact EXCEPT ![c] = r]
      BY <2>2 DEF CompactChecks
    <3> HIDE DEF r
    <3> QED BY <3>1, <3>2
  <2>3. CASE CompactLists(c)
    <3> DEFINE r == [compact[c] EXCEPT !.at = "listed", !.upto = Len(history)]
    <3>1. r \in Compaction /\ r.upto <= Len(history) /\ 1..r.base \subseteq r.known
      <4>1. /\ r \in Compaction
            /\ r.base = compact[c].base /\ r.known = compact[c].known
            /\ r.upto = Len(history)
        BY <1>2 DEF Compaction
      <4> HIDE DEF r
      <4> QED BY <1>2, <1>3, <4>1
    <3>2. \/ compact' = [compact EXCEPT ![c] = r]
          \/ compact' = [compact EXCEPT ![c] = Idle("over")]
      BY <2>3 DEF CompactLists
    <3> HIDE DEF r
    <3> QED BY <2>1, <3>1, <3>2
  <2> QED BY <2>1, <2>2, <2>3 DEF CompactApplies, CompactFails
<1>7. Types'
  BY <1>1, <1>5, <1>6 DEF IInv, Types
<1>8. SummaryCovers' /\ KnowsBase'
  BY <1>5, <1>6 DEF IInv, Types, SummaryCovers, KnowsBase
<1> QED BY <1>1, <1>7, <1>8, NothingCarried
-----------------------------------------------------------------------------
LEMMA NextIInv == IInv /\ [Next]_vars => IInv'
<1> SUFFICES ASSUME IInv, [Next]_vars PROVE IInv'
  OBVIOUS
<1>1. ASSUME NEW t \in Turns, ToolEnds(t) PROVE IInv'
  BY <1>1, ToolKeeps
<1>2. ASSUME NEW t \in Turns,
             \/ Post(t) \/ Start(t) \/ Kill(t) \/ Load(t) \/ Call(t) \/ Reply(t)
             \/ CallFails(t) \/ CallTimesOut(t) \/ FailsWithError(t) \/ Forces(t)
             \/ FailsWithNote(t) \/ Completes(t)
      PROVE  IInv'
  BY <1>2, TurnsKeep
<1>3. CASE StoreTitle \/ TitleFails
  BY <1>3, TitleKeeps
<1>4. ASSUME NEW c \in Compactions,
             CompactChecks(c) \/ CompactLists(c) \/ CompactApplies(c) \/ CompactFails(c)
      PROVE  IInv'
  BY <1>4, CompactKeeps
<1>5. CASE UNCHANGED vars
  <2>1. UNCHANGED <<wake, history, phase, mind, boundary, folded, compact>>
    BY <1>5 DEF vars, runVars, compactVars
  <2> QED BY <2>1, NothingCarried DEF IInv, Types, SummaryCovers, KnowsBase
<1> QED BY <1>1, <1>2, <1>3, <1>4, <1>5 DEF Next

LEMMA Invariance == Spec => []IInv
<1> QED BY InitIInv, NextIInv, PTL DEF Spec
-----------------------------------------------------------------------------
(* AgentLlmProxyService.ts 571-677: for any number of turns and of         *)
(* compactions that overlap, what the summary hides it also contains.      *)
THEOREM SummaryComplete == Spec => []SummaryCovers
<1>1. IInv => SummaryCovers
  BY DEF IInv
<1> QED BY Invariance, <1>1, PTL

(* agent-runner.ts 602-618: for any cap and any number of tool calls in    *)
(* one reply, a turn has no more tools carried out than the cap.           *)
THEOREM CapKept == Spec => []CapHolds
<1>1. IInv => CapHolds
  BY DEF IInv, Counted, Carried, CapHolds
<1> QED BY Invariance, <1>1, PTL
-----------------------------------------------------------------------------
(* What is in the thread of a turn, against where the turn is.             *)
By(t) == {i \in DOMAIN history : history[i].by = t}
Answered(t) ==
  \E i \in By(t) : /\ history[i].role = "assistant" /\ history[i].says
                   /\ \A j \in By(t) : j <= i

(* A reply that comes late is one to a turn that cannot complete any more. *)
Listens(t) ==
  t \in streams =>
    \/ phase[t] \in {"calling", "failed", "killed"}
    \/ phase[t] = "idle" /\ mind[t].error

(* Before its loop, a turn has its user's message in the thread, or none.  *)
Early == {"new", "posted", "loading"}
Begins(t) ==
  /\ phase[t] = "new" => By(t) = {}
  /\ phase[t] \in Early => \A i \in By(t) : history[i].role = "user"
  /\ phase[t] \in {"posted", "loading"} => Wakes(t) \/ By(t) # {}

(* A loop that ended with a text has stored it, after all else it stored.  *)
Heard(t) ==
  /\ phase[t] = "idle" /\ ~mind[t].error /\ mind[t].spoke => Answered(t)
  /\ phase[t] = "completed" => Answered(t)

Mine(t) == Listens(t) /\ Begins(t) /\ Heard(t)

(* Turns follow each other, and nothing comes before the wake of a mission.*)
Serial ==
  \A t \in Turns : phase[t] # "new" => \A u \in 1..(t - 1) : phase[u] \in Over
WakeFirst ==
  /\ wake => titling = "none"
  /\ \A t \in Turns : Wakes(t) /\ phase[t] \in Early => history = <<>>

AInv == Serial /\ WakeFirst /\ \A t \in Turns : Mine(t)

(* A message is stored behind all others.                                  *)
LEMMA Appended ==
  ASSUME history \in Seq(Entry), NEW m \in Entry, Store(m)
  PROVE  /\ DOMAIN history = 1..Len(history) /\ Len(history) \in Nat
         /\ DOMAIN history' = 1..(Len(history) + 1)
         /\ \A i \in DOMAIN history : history'[i] = history[i]
         /\ history'[Len(history) + 1] = m
BY DEF Store

(* What a turn appends is the last of its messages.                        *)
LEMMA AppendsLast ==
  ASSUME history \in Seq(Entry), NEW m \in Entry, Store(m)
  PROVE  /\ By(m.by)' = By(m.by) \cup {Len(history) + 1}
         /\ m.role = "assistant" /\ m.says => Answered(m.by)'
<1>1. By(m.by)' = By(m.by) \cup {Len(history) + 1}
  BY Appended DEF By
<1>2. \A j \in By(m.by)' : j <= Len(history) + 1
  BY Appended DEF By
<1> QED BY <1>1, <1>2, Appended DEF Answered

(* A step of others leaves a turn's own messages as they are.              *)
LEMMA OthersKeep ==
  ASSUME history \in Seq(Entry), NEW t \in Turns, Mine(t),
         UNCHANGED <<phase[t], mind[t], wake>>, t \in streams' => t \in streams,
         history' = history \/ \E m \in Entry : m.by # t /\ Store(m)
  PROVE  Mine(t)'
<1>1. By(t)' = By(t) /\ \A i \in By(t) : history'[i] = history[i]
  <2>1. CASE \E m \in Entry : m.by # t /\ Store(m)
    BY <2>1, Appended DEF By
  <2> QED BY <2>1 DEF By
<1> QED BY <1>1 DEF Mine, Listens, Begins, Heard, Answered, Wakes

(* An assistant's message of a turn is an entry, and so are the others.    *)
LEMMA Entries ==
  ASSUME NEW t \in Turns, NEW s \in BOOLEAN, NEW r \in {"user", "assistant", "result"}
  PROVE  /\ Message(r, t, s) \in Entry
         /\ Message(r, t, s).by = t /\ Message(r, t, s).role = r /\ Message(r, t, s).says = s
BY Sizes DEF Message, Entry, Turns
-----------------------------------------------------------------------------
(* The steps of a turn, for that turn.                                     *)
LEMMA OwnKeeps ==
  ASSUME Types, NEW t \in Turns, Mine(t),
         \/ Post(t) \/ Start(t) \/ Kill(t) \/ Load(t) \/ Call(t) \/ Reply(t)
         \/ CallFails(t) \/ CallTimesOut(t) \/ ToolEnds(t) \/ FailsWithError(t)
         \/ Forces(t) \/ FailsWithNote(t) \/ Completes(t)
  PROVE  Mine(t)'
<1> USE DEF Mine, Types
<1>0. phase[t] \in {"new", "posted"} \cup Live \cup Over /\ mind[t] \in Mind
  OBVIOUS
<1>1. CASE Post(t)
  <2>1. phase[t] = "new" /\ phase'[t] = "posted" /\ UNCHANGED <<wake, streams>>
    BY <1>1 DEF Post, Moves
  <2>2. CASE Wakes(t)
    <3>1. By(t)' = {}
      BY <1>1, <2>1, <2>2 DEF Post, Begins, By
    <3> QED BY <2>1, <2>2, <3>1 DEF Listens, Begins, Heard, Wakes
  <2>3. CASE ~Wakes(t)
    <3> DEFINE m == Message("user", t, TRUE)
    <3>1. m \in Entry /\ m.by = t /\ m.role = "user" /\ Store(m)
      BY <1>1, <2>3, Entries DEF Post
    <3> HIDE DEF m
    <3>2. By(t)' = {Len(history) + 1} /\ history'[Len(history) + 1] = m
      BY <2>1, <3>1, AppendsLast, Appended DEF Begins
    <3> QED BY <2>1, <3>1, <3>2 DEF Listens, Begins, Heard
  <2> QED BY <2>2, <2>3
<1>2. CASE Start(t) \/ Kill(t) \/ Load(t) \/ Call(t)
  <2>1. By(t)' = By(t) /\ UNCHANGED <<wake, history>>
    BY <1>2 DEF Start, Kill, Load, Call, By
  <2>2. CASE Start(t) \/ Load(t)
    BY <2>1, <2>2 DEF Start, Load, Moves, Listens, Begins, Heard, Early, Wakes
  <2>3. CASE Kill(t)
    BY <2>1, <2>3 DEF Kill, Exits, Moves, Listens, Begins, Heard, Early
  <2>4. CASE Call(t)
    BY <2>1, <2>4 DEF Call, Moves, Listens, Begins, Heard, Early
  <2> QED BY <1>2, <2>2, <2>3, <2>4
<1>3. CASE Reply(t)
  <2>1. PICK text \in BOOLEAN, cut \in BOOLEAN, tools \in {0, PerReply} :
          /\ tools > 0 => ~text
          /\ cut => tools > 0
          /\ Store(Message("assistant", t, text))
          /\ Hears(t, text, tools, cut)
    BY <1>3 DEF Reply
  <2>2. text => Answered(t)'
    <3> DEFINE m == Message("assistant", t, text)
    <3>1. /\ m \in Entry /\ m.by = t /\ m.role = "assistant" /\ m.says = text
          /\ Store(m)
      BY <2>1, Entries
    <3> HIDE DEF m
    <3> QED BY <3>1, AppendsLast
  <2>3. t \in streams /\ t \notin streams'
    BY <1>3 DEF Reply
  <2>4. CASE phase[t] = "calling"
    <3>1. phase'[t] \in {"acting", "idle"}
      BY <2>1, <2>4 DEF Hears
    <3>2. mind'[t].spoke = text
      BY <2>1, <2>4, <1>0 DEF Hears, Mind
    <3> QED BY <2>2, <2>3, <3>1, <3>2 DEF Listens, Begins, Heard, Early
  <2>5. CASE phase[t] # "calling"
    <3>1. UNCHANGED <<phase, mind>>
      BY <2>1, <2>5 DEF Hears
    <3> QED BY <2>3, <2>5, <3>1 DEF Listens, Begins, Heard, Early
  <2> QED BY <2>4, <2>5
<1>4. CASE CallFails(t)
  <2>1. t \in streams /\ t \notin streams'
    BY <1>4 DEF CallFails
  <2>2. CASE phase[t] = "calling"
    <3>1. phase'[t] = "idle" /\ mind'[t].error
      BY <1>0, <1>4, <2>2 DEF CallFails, Moves, Errs, Mind
    <3> QED BY <2>1, <3>1 DEF Listens, Begins, Heard, Early
  <2>3. CASE phase[t] # "calling"
    <3>1. UNCHANGED <<phase, mind>>
      BY <1>4, <2>3 DEF CallFails
    <3> QED BY <2>1, <2>3, <3>1 DEF Listens, Begins, Heard, Early
  <2> QED BY <2>2, <2>3
<1>5. CASE CallTimesOut(t)
  <2>1. phase'[t] = "idle" /\ mind'[t].error
    BY <1>0, <1>5 DEF CallTimesOut, Moves, Errs, Mind
  <2> QED BY <2>1 DEF Listens, Begins, Heard, Early
<1>6. CASE ToolEnds(t)
  <2>1. phase[t] = "acting" /\ phase'[t] \in {"ready", "acting"} /\ UNCHANGED streams
    BY <1>6 DEF ToolEnds
  <2> QED BY <2>1 DEF Listens, Begins, Heard, Early
<1>7. CASE FailsWithError(t) \/ FailsWithNote(t)
  <2>1. phase'[t] = "failed"
    BY <1>7 DEF FailsWithError, FailsWithNote, Exits, Moves
  <2> QED BY <2>1 DEF Listens, Begins, Heard, Early
<1>8. CASE Forces(t)
  <2>1. phase[t] = "idle" /\ ~mind[t].error /\ phase'[t] = "ready" /\ UNCHANGED streams
    BY <1>8 DEF Forces, Moves
  <2> QED BY <2>1 DEF Listens, Begins, Heard, Early
<1>9. CASE Completes(t)
  <2>1. /\ phase[t] = "idle" /\ ~mind[t].error /\ mind[t].spoke
        /\ phase'[t] = "completed" /\ UNCHANGED <<streams, history>>
    BY <1>9 DEF Completes, Exits, Moves
  <2>2. Answered(t)'
    BY <2>1 DEF Heard, Answered, By
  <2> QED BY <2>1, <2>2 DEF Listens, Begins, Heard, Early
<1> QED BY <1>1, <1>2, <1>3, <1>4, <1>5, <1>6, <1>7, <1>8, <1>9

(* The steps of a turn, for the others: it appends its own messages only.  *)
LEMMA TurnStores ==
  ASSUME NEW t \in Turns,
         \/ Post(t) \/ Start(t) \/ Kill(t) \/ Load(t) \/ Call(t) \/ Reply(t)
         \/ CallFails(t) \/ CallTimesOut(t) \/ ToolEnds(t) \/ FailsWithError(t)
         \/ Forces(t) \/ FailsWithNote(t) \/ Completes(t)
  PROVE  /\ wake' = wake
         /\ history' = history \/ \E m \in Entry : m.by = t /\ Store(m)
<1>1. CASE Post(t)
  BY <1>1, Entries DEF Post
<1>2. CASE ToolEnds(t)
  <2>1. Allowed(t) \in BOOLEAN
    BY DEF Allowed
  <2>2. Message("result", t, Allowed(t)) \in Entry /\ Message("result", t, Allowed(t)).by = t
    BY <2>1, Entries
  <2> QED BY <1>2, <2>2 DEF ToolEnds
<1>3. CASE Reply(t) \/ CallFails(t) \/ FailsWithNote(t)
  <2>1. \A text \in BOOLEAN : /\ Message("assistant", t, text) \in Entry
                              /\ Message("assistant", t, text).by = t
    BY Entries
  <2> QED BY <1>3, <2>1 DEF Reply, CallFails, FailsWithNote
<1>4. CASE \/ Start(t) \/ Kill(t) \/ Load(t) \/ Call(t) \/ CallTimesOut(t)
           \/ FailsWithError(t) \/ Forces(t) \/ Completes(t)
  BY <1>4 DEF Start, Kill, Load, Call, CallTimesOut, FailsWithError, Forces, Completes
<1> QED BY <1>1, <1>2, <1>3, <1>4

(* It moves itself only; one that is over, or has begun, stays so.         *)
LEMMA TurnMoves ==
  ASSUME Types, NEW t \in Turns,
         \/ Post(t) \/ Start(t) \/ Kill(t) \/ Load(t) \/ Call(t) \/ Reply(t)
         \/ CallFails(t) \/ CallTimesOut(t) \/ ToolEnds(t) \/ FailsWithError(t)
         \/ Forces(t) \/ FailsWithNote(t) \/ Completes(t)
  PROVE  /\ \A u \in Turns \ {t} : UNCHANGED <<phase[u], mind[u]>>
         /\ phase[t] \in Over => phase'[t] = phase[t]
         /\ phase[t] # "new" => phase'[t] # "new"
         /\ phase'[t] \in Early => phase[t] \in Early
         /\ streams' \subseteq streams \cup {t}
<1> USE DEF Types, Early, Live, Over
<1>1. CASE Post(t) \/ Start(t) \/ Load(t) \/ Call(t)
  BY <1>1 DEF Post, Start, Load, Call, Moves
<1>2. CASE Kill(t)
  BY <1>2 DEF Kill, Exits, Moves
<1>3. CASE Reply(t)
  <2>1. \/ UNCHANGED <<phase, mind>>
        \/ /\ phase[t] = "calling" /\ \E to \in {"acting", "idle"} :
                                        phase' = [phase EXCEPT ![t] = to]
           /\ \A u \in Turns \ {t} : mind'[u] = mind[u]
    BY <1>3 DEF Reply, Hears
  <2>2. streams' \subseteq streams
    BY <1>3 DEF Reply
  <2> QED BY <2>1, <2>2
<1>4. CASE CallFails(t) \/ CallTimesOut(t) \/ Forces(t)
  BY <1>4 DEF CallFails, CallTimesOut, Forces, Moves
<1>5. CASE ToolEnds(t)
  BY <1>5 DEF ToolEnds
<1>6. CASE FailsWithError(t) \/ FailsWithNote(t) \/ Completes(t)
  BY <1>6 DEF FailsWithError, FailsWithNote, Completes, Exits, Moves
<1> QED BY <1>1, <1>2, <1>3, <1>4, <1>5, <1>6
-----------------------------------------------------------------------------
(* A turn that begins comes after all others, so that a wake finds nothing.*)
LEMMA TurnKeepsAInv ==
  ASSUME Types, AInv, NEW t \in Turns,
         \/ Post(t) \/ Start(t) \/ Kill(t) \/ Load(t) \/ Call(t) \/ Reply(t)
         \/ CallFails(t) \/ CallTimesOut(t) \/ ToolEnds(t) \/ FailsWithError(t)
         \/ Forces(t) \/ FailsWithNote(t) \/ Completes(t)
  PROVE  AInv'
<1> USE DEF AInv
<1>1. wake' = wake /\ (history' = history \/ \E m \in Entry : m.by = t /\ Store(m))
  BY TurnStores
<1>2. /\ \A u \in Turns \ {t} : UNCHANGED <<phase[u], mind[u]>>
      /\ phase[t] \in Over => phase'[t] = phase[t]
      /\ phase[t] # "new" => phase'[t] # "new"
      /\ phase'[t] \in Early => phase[t] \in Early
      /\ streams' \subseteq streams \cup {t}
  BY TurnMoves
<1>3. phase[t] = "new" => Post(t)
  <2>1. phase[t] = "new" => t \notin streams
    BY DEF Mine, Listens
  <2> QED BY <2>1 DEF Start, Kill, Load, Call, Reply, CallFails, CallTimesOut, ToolEnds,
                      FailsWithError, Forces, FailsWithNote, Completes, Moves, Exits, Live
<1>4. Serial'
  <2>1. phase[t] = "new" => \A u \in 1..(t - 1) : phase[u] \in Over
    BY <1>3 DEF Post
  <2>2. \A u \in Turns : 1..(u - 1) \subseteq Turns /\ u \in Nat
    BY Sizes DEF Turns
  <2> QED BY <1>2, <2>1, <2>2 DEF Serial
<1>5. WakeFirst'
  <2>1. wake' => titling' = "none"
    BY <1>1 DEF WakeFirst, Post, Start, Kill, Load, Call, Reply, CallFails, CallTimesOut,
                ToolEnds, FailsWithError, Forces, FailsWithNote, Completes
  <2>2. ASSUME NEW u \in Turns, Wakes(u)', phase'[u] \in Early PROVE history' = <<>>
    <3>1. /\ Wakes(u) /\ u = 1 /\ phase[u] \in Early /\ history = <<>>
      BY <1>1, <1>2, <2>2 DEF WakeFirst, Wakes
    <3>2. CASE u = t
      <4>1. t \notin streams
        BY <3>1, <3>2 DEF Mine, Listens, Early
      <4> QED BY <3>1, <3>2, <4>1 DEF Post, Start, Kill, Load, Call, Reply, CallFails,
                 CallTimesOut, ToolEnds, FailsWithError, Forces, FailsWithNote, Completes,
                 Moves, Exits, Early
    <3>3. CASE u # t
      <4>1. t \in Nat /\ t > 1 /\ u \in 1..(t - 1)
        BY <3>1, <3>3, Sizes DEF Turns
      <4>2. phase[u] \in Over
        BY <1>3, <4>1 DEF Serial, Post
      <4> QED BY <3>1, <4>2 DEF Early, Over
    <3> QED BY <3>2, <3>3
  <2> QED BY <2>1, <2>2 DEF WakeFirst
<1>6. Mine(t)'
  BY OwnKeeps
<1>7. ASSUME NEW u \in Turns \ {t} PROVE Mine(u)'
  BY <1>1, <1>2, OthersKeep DEF Types
<1> QED BY <1>4, <1>5, <1>6, <1>7

LEMMA NextAInv == Types /\ AInv /\ [Next]_vars => AInv'
<1> SUFFICES ASSUME Types, AInv, [Next]_vars PROVE AInv'
  OBVIOUS
<1>1. ASSUME NEW t \in Turns,
             \/ Post(t) \/ Start(t) \/ Kill(t) \/ Load(t) \/ Call(t) \/ Reply(t)
             \/ CallFails(t) \/ CallTimesOut(t) \/ ToolEnds(t) \/ FailsWithError(t)
             \/ Forces(t) \/ FailsWithNote(t) \/ Completes(t)
      PROVE  AInv'
  BY <1>1, TurnKeepsAInv
<1>2. ASSUME UNCHANGED <<wake, runVars>>,
             \/ history' = history
             \/ titling # "none" /\ Store(Title),
             titling' = "none" \/ titling # "none"
      PROVE  AInv'
  <2>1. Title \in Entry /\ Title.by = 0
    BY DEF Title, Message, Entry
  <2> HIDE DEF Title
  <2>2. \A u \in Turns : 0 # u
    BY Sizes DEF Turns
  <2>3. ASSUME NEW u \in Turns PROVE Mine(u)'
    BY <1>2, <2>1, <2>2, OthersKeep DEF AInv, Types, runVars
  <2>4. Serial' /\ WakeFirst'
    BY <1>2 DEF AInv, Serial, WakeFirst, Wakes, runVars
  <2> QED BY <2>3, <2>4 DEF AInv
<1>3. CASE StoreTitle \/ TitleFails
  BY <1>2, <1>3 DEF StoreTitle, TitleFails
<1>4. CASE \/ UNCHANGED vars
           \/ \E c \in Compactions : \/ CompactChecks(c) \/ CompactLists(c)
                                     \/ CompactApplies(c) \/ CompactFails(c)
  BY <1>2, <1>4 DEF vars, CompactChecks, CompactLists, CompactApplies, CompactFails
<1> QED BY <1>1, <1>3, <1>4 DEF Next

LEMMA InitAInv == Init => AInv
<1> SUFFICES ASSUME Init PROVE AInv
  OBVIOUS
<1>1. history = <<>> /\ \A t \in Turns : By(t) = {} /\ phase[t] = "new" /\ t \notin streams
  BY DEF Init, By
<1> QED BY <1>1 DEF Init, AInv, Serial, WakeFirst, Mine, Listens, Begins, Heard

LEMMA AnswersInvariance == Spec => []AInv
<1>1. IInv => Types
  BY DEF IInv
<1> QED BY InitAInv, NextAInv, Invariance, <1>1, PTL DEF Spec
-----------------------------------------------------------------------------
(* agent-runner.ts 680-758: for any number of calls, however they fail or  *)
(* come late, a turn that is reported as completed has its text in the     *)
(* thread, after the results of all its tools.                             *)
THEOREM CompletedHaveText == Spec => []CompletedAnswers
<1>1. AInv => CompletedAnswers
  BY DEF AInv, Mine, Heard, Answered, By, Said, CompletedAnswers
<1> QED BY AnswersInvariance, <1>1, PTL
-----------------------------------------------------------------------------
(* A thread of one message.                                                *)
LEMMA SingleEntry == ASSUME NEW S, NEW e \in S PROVE <<e>> \in Seq(S)
<1>1. <<e>> = [i \in 1..1 |-> e]
  OBVIOUS
<1> QED BY <1>1

(* What the runtime is given ends with the thread's last message, unless   *)
(* all of them are folded away.                                            *)
LEMMA ViewEnds ==
  ASSUME history \in Seq(Entry), boundary \in Nat, boundary < Len(history)
  PROVE  /\ LeadIn(View) # <<>>
         /\ LeadIn(View)[Len(LeadIn(View))] = history[Len(history)]
<1>1. /\ Since \in Seq(Entry) /\ Len(Since) \in Nat /\ Len(Since) > 0
      /\ Since[Len(Since)] = history[Len(history)]
  <2> DEFINE n == Len(history)
  <2>1. n \in Nat /\ boundary + 1 \in 1..n /\ \A i \in (boundary + 1)..n : history[i] \in Entry
    OBVIOUS
  <2>2. Since = SubSeq(history, boundary + 1, n)
    BY DEF Since
  <2> HIDE DEF n
  <2>3. /\ Since \in Seq(Entry) /\ Len(Since) = n - (boundary + 1) + 1
        /\ \A i \in 1..(n - (boundary + 1) + 1) : Since[i] = history[boundary + 1 + i - 1]
    BY <2>1, <2>2, SubSeqProperties
  <2>4. n - boundary \in 1..(n - (boundary + 1) + 1) /\ n - boundary = n - (boundary + 1) + 1
    BY <2>1
  <2>5. /\ Len(Since) = n - boundary
        /\ Since[n - boundary] = history[boundary + 1 + (n - boundary) - 1]
    BY <2>3, <2>4
  <2>6. boundary + 1 + (n - boundary) - 1 = n
    BY <2>1
  <2> QED BY <2>1, <2>3, <2>5, <2>6 DEF n
<1>2. Summary \in Seq(Entry) /\ Len(Summary) \in Nat
  <2>1. Message("assistant", 0, TRUE) \in Entry
    BY DEF Message, Entry
  <2>2. <<Message("assistant", 0, TRUE)>> \in Seq(Entry)
    BY <2>1, SingleEntry
  <2>3. <<>> \in Seq(Entry)
    OBVIOUS
  <2>4. Summary \in Seq(Entry)
    BY <2>2, <2>3 DEF Summary
  <2> QED BY <2>4
<1> HIDE DEF Since, Summary
<1>3. /\ View \in Seq(Entry) /\ Len(View) \in Nat /\ Len(View) > 0
      /\ View[Len(View)] = history[Len(history)]
  BY <1>1, <1>2 DEF View
<1>4. <<Message("user", 0, TRUE)>> \in Seq(Entry)
  <2>1. Message("user", 0, TRUE) \in Entry
    BY DEF Message, Entry
  <2> QED BY <2>1, SingleEntry
<1> HIDE DEF View
<1>5. CASE LeadIn(View) = View
  BY <1>3, <1>5
<1>6. CASE LeadIn(View) = <<Message("user", 0, TRUE)>> \o View
  BY <1>3, <1>4, <1>6
<1> QED BY <1>5, <1>6 DEF LeadIn

(* agent-runner.ts 133-195: for any number of turns and compactions, a     *)
(* turn that does not come to call the model was overtaken by a message of *)
(* somebody else's, or a compaction folded its own away.                   *)
THEOREM RefusedIfOvertaken == Spec => OvertakenOnly
<1>1. ASSUME Types, AInv, NEW t \in Turns, Load(t), ~Continues(t)
      PROVE  \E i \in Asked(t) :
               boundary >= i \/ \E j \in DOMAIN history : j > i /\ history[j].by # t
  <2>1. phase[t] = "loading" /\ Mine(t)
    BY <1>1 DEF Load, Moves, AInv
  <2>2. ASSUME Wakes(t) PROVE FALSE
    <3>1. history = <<>> /\ boundary = 0
      BY <1>1, <2>1, <2>2 DEF AInv, WakeFirst, Early, Types
    <3>2. View = <<>>
      BY <3>1 DEF View, Summary, Since
    <3> QED BY <1>1, <2>2, <3>2 DEF Continues, LeadIn
  <2>3. /\ By(t) # {}
        /\ \A i \in By(t) : i \in Asked(t)
    BY <2>1, <2>2 DEF Mine, Begins, Early, By, Asked
  <2>4. PICK i \in Asked(t) : TRUE
    BY <2>3
  <2>5. /\ history \in Seq(Entry) /\ boundary \in Nat /\ Len(history) \in Nat
        /\ i \in 1..Len(history)
    BY <1>1, <2>4 DEF Types, Asked
  <2>6. ASSUME boundary < i, \A j \in DOMAIN history : j > i => history[j].by = t
        PROVE  FALSE
    <3>1. Len(history) \in By(t)
      BY <2>4, <2>5, <2>6 DEF By, Asked
    <3>2. history[Len(history)].role = "user"
      BY <2>3, <3>1 DEF Asked
    <3>3. /\ LeadIn(View) # <<>>
          /\ LeadIn(View)[Len(LeadIn(View))] = history[Len(history)]
      BY <2>5, <2>6, ViewEnds
    <3> QED BY <1>1, <3>2, <3>3 DEF Continues
  <2> QED BY <2>5, <2>6
<1>2. Types /\ AInv /\ [Next]_vars =>
        [\A t \in Turns : Load(t) /\ ~Continues(t) =>
           \E i \in Asked(t) :
             boundary >= i \/ \E j \in DOMAIN history : j > i /\ history[j].by # t]_vars
  BY <1>1
<1>3. IInv => Types
  BY DEF IInv
<1> QED BY <1>2, <1>3, Invariance, AnswersInvariance, PTL DEF Spec, OvertakenOnly
=============================================================================
