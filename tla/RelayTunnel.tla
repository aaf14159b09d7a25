------------------------------ MODULE RelayTunnel ------------------------------
(***************************************************************************)
(* One WebSocket of the RelayNode from its upgrade to its end              *)
(* (apps/bridge/dist/main.js): the connect message, the search for a TCP   *)
(* target, the tunnel of TunnelPhase while both ends are up, and the ways  *)
(* it ends, which all run closeBoth or the same list of releases in the    *)
(* WebSocket's "close" handler, often more than once.                      *)
(*                                                                         *)
(* After closeBoth the close handshake goes on: messages the browser has   *)
(* sent are still read and handled, and openTcpTunnel may still be         *)
(* resolving names.  The client's handshake is part of the connection,     *)
(* and selects a profile; host, token and target checks of the connect     *)
(* message have one outcome.  Local tunnels are in LocalTunnel.            *)
(***************************************************************************)
EXTENDS TunnelPhase

CONSTANTS
    MaxTargets, \* bound: targets an SRV lookup yields
    Others      \* other tunnels connected to the same target throughout

ASSUME RelayTunnelAssumption == MaxTargets \in Nat \ {0} /\ Others \in Nat

VARIABLES
    ws,      \* "open", "closing" (the relay's close frame is sent), "leaving"
             \* (the browser's is read: no message follows) or "closed"
    paused,  \* webSocket.pause() is in force
    asked,   \* the first message has been read
    setup,   \* openTcpTunnel: "none", "resolving", "dialling" or "settled"
    targets, \* how many of its targets are left
    tcp,     \* the dialled socket or tcpSocket: "none", "dialled", "joined",
             \* "destroyed" (its "close" event is to come)
    route,   \* the target's active connections, and whether releaseTargetRoute
             \* is still "none", "held" or has been called: "released"
    lease,   \* the WebSocket is in activeTunnelLeases
    idle     \* idleTimer

setupVars == <<asked, setup, targets>>
heldVars  == <<route, lease, idle>>
lifeVars  == <<ws, paused, setupVars, tcp, heldVars>>
allVars   == <<vars, lifeVars>>

RelayInit ==
    /\ Init
    /\ ws = "open" /\ paused = FALSE /\ asked = FALSE
    /\ setup = "none" /\ targets = 0 /\ tcp = "none"
    /\ route = [active |-> Others, mine |-> "none"]
    /\ lease = TRUE /\ idle = TRUE

-----------------------------------------------------------------------------
(* The end of a tunnel.                                                    *)

\* Variant: what has been released is released again.
ReleasedMutant ==
    IF route.mine = "none" THEN route
    ELSE [active |-> IF route.active = 0 THEN 0 ELSE route.active - 1,
          mine |-> "released"]

\* releaseTargetRoute.
Released ==
    IF route.mine # "held" THEN route
    ELSE [active |-> IF route.active = 0 THEN 0 ELSE route.active - 1,
          mine |-> "released"]

\* What closeBoth and the "close" handler have in common.  The abort signal
\* destroys a socket that is being dialled and lets openTcpTunnel fail; a name
\* that is being resolved is not interrupted.
Cleanup ==
    /\ IF closed THEN UNCHANGED vars ELSE Close
    /\ lease' = FALSE /\ idle' = FALSE /\ route' = Released
    /\ tcp' = CASE tcp = "dialled" -> "none" [] tcp = "joined" -> "destroyed"
                [] OTHER -> tcp
    /\ setup' = IF setup = "dialling" THEN "settled" ELSE setup

CloseBoth ==
    /\ Cleanup
    /\ ws' = IF ws = "open" THEN "closing" ELSE ws
    /\ UNCHANGED <<paused, asked, targets>>

Reads == ws \in {"open", "closing"} /\ ~paused

IdleTimeout == idle /\ CloseBoth

\* The WebSocket's "error".
WebSocketError ==
    /\ Reads /\ Cleanup /\ ws' = "leaving"
    /\ UNCHANGED <<paused, asked, targets>>

\* The browser's close frame is read; the "close" event comes with the end of
\* the TCP connection, as it does when that is lost or its time is up.
BrowserCloses ==
    /\ Reads /\ ws' = "leaving"
    /\ UNCHANGED <<vars, paused, setupVars, tcp, heldVars>>

WebSocketClose ==
    /\ ws # "closed" /\ Cleanup /\ ws' = "closed"
    /\ UNCHANGED <<paused, asked, targets>>

\* The target's socket fails or ends: its "error" and "close" handlers.
TargetEnds == tcp = "joined" /\ CloseBoth

TargetClose ==
    /\ tcp = "destroyed"
    /\ tcp' = "none" /\ route' = Released
    /\ UNCHANGED <<vars, ws, paused, setupVars, lease, idle>>

-----------------------------------------------------------------------------
(* Connecting.                                                             *)

\* The first message, accepted: openTcpTunnel looks its targets up.  It is
\* accepted also when the tunnel has been closed meanwhile.
ConnectMessage ==
    /\ Reads /\ ~asked /\ UNCHANGED vars
    /\ asked' = TRUE /\ setup' = "resolving"
    /\ UNCHANGED <<ws, paused, targets, tcp, heldVars>>

Connected == route.mine # "none"

\* The first message, refused, or one that came before "connected".
Refused ==
    /\ Reads /\ (asked => ~Connected)
    /\ Cleanup /\ ws' = "closing" /\ asked' = TRUE
    /\ UNCHANGED <<paused, targets>>

\* The targets are known: the first is dialled unless the tunnel was closed.
Resolved ==
    /\ setup = "resolving" /\ UNCHANGED vars
    /\ \/ /\ closed /\ setup' = "settled" /\ UNCHANGED <<targets, tcp>>
       \/ /\ ~closed /\ setup' = "dialling" /\ tcp' = "dialled"
          /\ \E n \in 1 .. MaxTargets : targets' = n - 1
    /\ UNCHANGED <<ws, paused, asked, heldVars>>

\* A target fails or does not answer in time: the next one, or the end.
DialFails ==
    /\ tcp = "dialled"
    /\ \/ /\ targets > 0 /\ targets' = targets - 1 /\ UNCHANGED vars
          /\ UNCHANGED <<ws, paused, asked, setup, tcp, heldVars>>
       \/ targets = 0 /\ CloseBoth

\* A target answers.  If the browser is leaving, or the tunnel was closed, the
\* socket is not taken.
DialSucceeds ==
    /\ tcp = "dialled" /\ UNCHANGED vars /\ setup' = "settled"
    /\ IF closed \/ ws # "open"
       THEN tcp' = "none" /\ UNCHANGED route
       ELSE /\ tcp' = "joined"
            /\ route' = [active |-> route.active + 1, mine |-> "held"]
    /\ UNCHANGED <<ws, paused, asked, targets, lease, idle>>

-----------------------------------------------------------------------------
(* The tunnel.                                                             *)

\* TunnelPhase's steps, while the target's socket is there.  When the browser is
\* leaving, nothing comes from it and nothing is sent to it.
TunnelStep ==
    /\ tcp = "joined"
    /\ \/ ws = "open" /\ (ClientMessage \/ ServerFrame)
       \/ ServerReads \/ InspectionTurn \/ StallTick \/ GraceExpires
    /\ paused' = (paused \/ wsPaused')
    /\ UNCHANGED <<ws, setupVars, tcp, heldVars>>

\* The target's "drain" event; webSocket.resume() only while it is open.
Drain ==
    /\ tcp = "joined" /\ TcpDrain
    /\ paused' = (paused /\ ws # "open")
    /\ UNCHANGED <<ws, setupVars, tcp, heldVars>>

\* A message after closeBoth meets a destroyed socket, which runs it again.
MessageAfterClose ==
    /\ Reads /\ Connected /\ LateMessage
    /\ route' = Released
    /\ UNCHANGED <<ws, paused, setupVars, tcp, lease, idle>>

RelayNext ==
    \/ ConnectMessage \/ Refused \/ Resolved \/ DialFails \/ DialSucceeds
    \/ TunnelStep \/ Drain \/ MessageAfterClose \/ IdleTimeout \/ WebSocketError
    \/ BrowserCloses \/ WebSocketClose \/ TargetEnds \/ TargetClose

RelaySpec == RelayInit /\ [][RelayNext]_allVars
-----------------------------------------------------------------------------
(* Properties.                                                             *)

LifeTypeOK ==
    /\ ws \in {"open", "closing", "leaving", "closed"}
    /\ setup \in {"none", "resolving", "dialling", "settled"}
    /\ tcp \in {"none", "dialled", "joined", "destroyed"}
    /\ {paused, asked, lease, idle} \subseteq BOOLEAN
    /\ route.active \in Nat /\ route.mine \in {"none", "held", "released"}
    /\ targets \in 0 .. MaxTargets

\* A tunnel that has ended holds nothing, however late a lookup, a target's
\* answer or a message of the browser comes: no lease, timer, socket or turn of
\* the ready queue.  One that has not ended has its lease and its idle timer, and
\* the target's connections are counted once each, whichever handlers ended it.
NothingLeft ==
    /\ LifeTypeOK
    /\ closed =>
          /\ ~lease /\ ~idle /\ tcp \notin {"dialled", "joined"}
          /\ ~queued /\ cbuf = <<>> /\ ~stallTimer /\ ~tickPending /\ ~wsPaused
    /\ ~closed => lease /\ idle /\ ws \in {"open", "leaving"}
    /\ route.active = Others + (IF tcp = "joined" THEN 1 ELSE 0)
=============================================================================
