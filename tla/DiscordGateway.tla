--------------------------- MODULE DiscordGateway ---------------------------
(***************************************************************************)
(* The WebSocket connection of one Discord bot (channels/discord/          *)
(* gateway.ts): its sockets, the timers that reconnect, that send          *)
(* heartbeats and that close after an invalid session, and stop().         *)
(* Nothing cancels the timer of the first heartbeat, so that those of      *)
(* earlier connections may fire into the present one.                      *)
(***************************************************************************)
EXTENDS Naturals, FiniteSets

CONSTANTS MaxConns,      \* bound: the connections of a gateway
          MaxInvalid     \* bound: INVALID_SESSION payloads

ASSUME DiscordBounds == MaxConns \in Nat \ {0} /\ MaxInvalid \in Nat

Conns == 1..MaxConns

VARIABLES
  running,       \* start() was called, and stop() not
  ws,            \* this.ws: the latest connection; 0 for null
  socket,        \* the state of each connection's socket
  greeted,       \* connections whose HELLO was handled
  silent,        \* connections whose other end is gone without a word
  reconnects,    \* pending timers of scheduleReconnect
  jitters,       \* connections whose first heartbeat's timer is pending
  intervals,     \* connections whose heartbeat interval runs
  heartbeatInterval,   \* the one clearHeartbeat knows of; 0 for null
  heartbeatAcked,
  invalidCloses, \* pending timers of INVALID_SESSION
  invalids       \* INVALID_SESSION payloads so far

timers == <<reconnects, jitters, intervals, heartbeatInterval, heartbeatAcked,
            invalidCloses>>
discordVars == <<running, ws, socket, greeted, silent, timers, invalids>>

Quiet ==
  /\ greeted = {} /\ silent = {}
  /\ reconnects = 0 /\ jitters = {} /\ intervals = {}
  /\ heartbeatInterval = 0 /\ heartbeatAcked = TRUE
  /\ invalidCloses = 0 /\ invalids = 0

(* start() has connected.                                                  *)
DiscordInit ==
  /\ running = TRUE
  /\ ws = 1
  /\ socket = [n \in Conns |-> IF n = 1 THEN "up" ELSE "none"]
  /\ Quiet

DiscordIdle ==       \* a gateway that was never started
  /\ running = FALSE
  /\ ws = 0
  /\ socket = [n \in Conns |-> "none"]
  /\ Quiet

Open == {n \in Conns : socket[n] \in {"up", "closing"}}
-----------------------------------------------------------------------------
(* this.ws?.close(...): the close event comes later.                       *)
CloseWs ==
  socket' = [n \in Conns |-> IF n = ws /\ socket[n] = "up" THEN "closing" ELSE socket[n]]

clearHeartbeat ==
  /\ intervals' = intervals \ {heartbeatInterval}
  /\ heartbeatInterval' = 0

(* connect(): while "up" a socket is opening or open.                      *)
Connect ==
  /\ ws + 1 \in Conns
  /\ ws' = ws + 1
  /\ socket' = [socket EXCEPT ![ws + 1] = "up"]

scheduleReconnect == reconnects' = IF running THEN reconnects + 1 ELSE reconnects

ReconnectTimer ==
  /\ reconnects > 0
  /\ reconnects' = reconnects - 1
  /\ IF running THEN Connect ELSE UNCHANGED <<ws, socket>>
  /\ UNCHANGED <<running, greeted, silent, jitters, intervals, heartbeatInterval,
                 heartbeatAcked, invalidCloses, invalids>>

(* The close event: the server or the network closed the socket, or the    *)
(* close that the gateway asked for is through.                            *)
Closed(n) ==
  /\ n \in Open
  /\ n \in silent => socket[n] = "closing"
  /\ socket' = [socket EXCEPT ![n] = "closed"]
  /\ clearHeartbeat
  /\ scheduleReconnect
  /\ UNCHANGED <<running, ws, greeted, silent, jitters, heartbeatAcked, invalidCloses, invalids>>
-----------------------------------------------------------------------------
(* handlePayload; a closing socket delivers what had been sent.            *)
Speaks(n) == n \in Open \ silent

Hello(n) ==
  /\ Speaks(n) /\ n \notin greeted
  /\ greeted' = greeted \cup {n}
  /\ clearHeartbeat
  /\ heartbeatAcked' = TRUE
  /\ jitters' = jitters \cup {n}
  /\ UNCHANGED <<running, ws, socket, silent, reconnects, invalidCloses, invalids>>

HeartbeatAck(n) ==
  /\ Speaks(n) /\ n \in greeted
  /\ heartbeatAcked' = TRUE
  /\ UNCHANGED <<running, ws, socket, greeted, silent, reconnects, jitters, intervals,
                 heartbeatInterval, invalidCloses, invalids>>

HeartbeatAsked(n) ==
  /\ Speaks(n) /\ n \in greeted
  /\ heartbeatAcked' = FALSE
  /\ UNCHANGED <<running, ws, socket, greeted, silent, reconnects, jitters, intervals,
                 heartbeatInterval, invalidCloses, invalids>>

ReconnectsAtOnce(n) ==                        \* mutant of ServerReconnect
  /\ Speaks(n)
  /\ CloseWs
  /\ scheduleReconnect
  /\ UNCHANGED <<running, ws, greeted, silent, jitters, intervals, heartbeatInterval,
                 heartbeatAcked, invalidCloses, invalids>>
ServerReconnect(n) ==
  /\ Speaks(n)
  /\ CloseWs
  /\ UNCHANGED <<running, ws, greeted, silent, timers, invalids>>

InvalidSession(n) ==
  /\ Speaks(n) /\ invalids < MaxInvalid
  /\ invalids' = invalids + 1
  /\ invalidCloses' = invalidCloses + 1
  /\ UNCHANGED <<running, ws, socket, greeted, silent, reconnects, jitters, intervals,
                 heartbeatInterval, heartbeatAcked>>

(* It closes the connection of the time it fires.                          *)
InvalidSessionTimer ==
  /\ invalidCloses > 0
  /\ invalidCloses' = invalidCloses - 1
  /\ IF running THEN CloseWs ELSE UNCHANGED socket
  /\ UNCHANGED <<running, ws, greeted, silent, reconnects, jitters, intervals,
                 heartbeatInterval, heartbeatAcked, invalids>>
-----------------------------------------------------------------------------
(* The first heartbeat, and the interval it sets: the gateway remembers    *)
(* only the interval set last.                                             *)
FirstHeartbeat(n) ==
  /\ n \in jitters
  /\ jitters' = jitters \ {n}
  /\ heartbeatAcked' = FALSE
  /\ intervals' = intervals \cup {n}
  /\ heartbeatInterval' = n
  /\ UNCHANGED <<running, ws, socket, greeted, silent, reconnects, invalidCloses, invalids>>

HeartbeatUnchecked(n) ==                      \* mutant of Heartbeat
  /\ n \in intervals
  /\ heartbeatAcked' = FALSE
  /\ UNCHANGED <<running, ws, socket, greeted, silent, reconnects, jitters, intervals,
                 heartbeatInterval, invalidCloses, invalids>>
Heartbeat(n) ==
  /\ n \in intervals
  /\ IF heartbeatAcked
       THEN heartbeatAcked' = FALSE /\ UNCHANGED socket
       ELSE CloseWs /\ UNCHANGED heartbeatAcked
  /\ UNCHANGED <<running, ws, greeted, silent, reconnects, jitters, intervals,
                 heartbeatInterval, invalidCloses, invalids>>

Stop ==
  /\ running
  /\ running' = FALSE
  /\ clearHeartbeat
  /\ CloseWs
  /\ ws' = 0
  /\ UNCHANGED <<greeted, silent, reconnects, jitters, heartbeatAcked, invalidCloses, invalids>>

(* The other end dies, and no close event tells.                           *)
GoesSilent(n) ==
  /\ Speaks(n)
  /\ silent' = silent \cup {n}
  /\ UNCHANGED <<running, ws, socket, greeted, timers, invalids>>
-----------------------------------------------------------------------------
DiscordNext ==
  \/ ReconnectTimer
  \/ InvalidSessionTimer
  \/ Stop
  \/ \E n \in Conns :
       \/ Closed(n)
       \/ Hello(n)
       \/ HeartbeatAck(n)
       \/ HeartbeatAsked(n)
       \/ ServerReconnect(n)
       \/ InvalidSession(n)
       \/ FirstHeartbeat(n)
       \/ Heartbeat(n)
       \/ GoesSilent(n)

DiscordSpec == DiscordInit /\ [][DiscordNext]_discordVars

(* Timers fire, and a close that was asked for comes through: the          *)
(* WebSocket library destroys a socket whose peer does not answer it.      *)
DiscordFairness ==
  /\ WF_discordVars(ReconnectTimer)
  /\ \A n \in Conns :
       /\ WF_discordVars(FirstHeartbeat(n))
       /\ WF_discordVars(Heartbeat(n))
       /\ WF_discordVars(socket[n] = "closing" /\ Closed(n))

DiscordTypeOK ==
  /\ running \in BOOLEAN /\ ws \in Conns \cup {0}
  /\ socket \in [Conns -> {"none", "up", "closing", "closed"}]
  /\ greeted \subseteq Conns /\ silent \subseteq Conns
  /\ reconnects \in Nat /\ jitters \subseteq greeted /\ intervals \subseteq greeted
  /\ heartbeatInterval \in intervals \cup {0} /\ heartbeatAcked \in BOOLEAN
  /\ invalidCloses \in 0..MaxInvalid /\ invalids \in 0..MaxInvalid

(* A gateway that runs has exactly one connection, or exactly one pending  *)
(* reconnect: no close, timer or request of the server opens a second      *)
(* socket, on which every message would arrive twice, and none leaves the  *)
(* bot without one.  A gateway that was stopped keeps no socket up.        *)
OneConnection ==
  /\ running => Cardinality(Open) + reconnects = 1
  /\ ~running => \A n \in Open : socket[n] = "closing"

(* A connection whose other end dies without a close event does not stay:  *)
(* once it was greeted, its heartbeats find out, although timers and       *)
(* intervals of earlier connections go on firing (handleHello).            *)
ZombieClosed ==
  \A n \in Conns : (n \in silent /\ n \in greeted) ~> socket[n] = "closed"
=============================================================================
