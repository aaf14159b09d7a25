------------------------------ MODULE TunnelPhase ------------------------------
(***************************************************************************)
(* The browser-to-target half of one framed RelayNode tunnel, and what the *)
(* relay writes to the target by itself: answers to keepalives and         *)
(* synthetic PLAY ticks (apps/bridge/dist/main.js).                        *)
(*                                                                         *)
(* Browser bytes are forwarded to the target in the handler that receives  *)
(* them.  Inspection of the same bytes, which tracks the packet phase, is  *)
(* a later turn of a process-wide queue, so the relay's phase lags behind  *)
(* the bytes it has already forwarded.                                     *)
(*                                                                         *)
(* The Minecraft client and server at the ends are environment: cl is the  *)
(* client as its sent bytes define it, which is also how the target will   *)
(* decode what the relay inserts next; server is the target's own view,    *)
(* which lags until it reads the client's last acknowledgement.  Frames of *)
(* the target are handled as they arrive: ServerFramePath has their        *)
(* buffering, which only delays them.                                      *)
(***************************************************************************)
EXTENDS Naturals, Sequences

CONSTANTS
    ParserLimit     \* maximumClientFrameParserBytes, counted in units

ASSUME ParserLimitAssumption == ParserLimit \in Nat \ {0}

Phases == {"login", "configuration", "play"}
Acks == {"loginAck", "finish", "confAck", "encryptionResponse"}

\* A unit is a run of client bytes that no message splits; last marks the end
\* of its packet.
Units == [kind : Acks \cup {"tick", "plain", "cipher"}, last : BOOLEAN]
Whole(k) == [kind |-> k, last |-> TRUE]

VARIABLES
    cl,          \* the client: phase, mid (a packet is half sent), cipher,
                 \* may (the acknowledgement the last server packet allows)
    server,      \* the server's state
    unread,      \* the server has not yet read the client's acknowledgement
    cbuf,        \* clientFrameBuffer
    lag,         \* clientFrameCommittedSequence < clientFrameIngressSequence
    framing,     \* packetFramingEnabled, with a profile selected
    inspectOff,  \* clientFrameInspectionDisabled
    queued,      \* the tunnel is in the client frame ready queue
    phase,       \* protocolPhase
    encPending,  \* encryptionResponsePending
    tickFrame,   \* playTickFrame # undefined
    stallTimer,  \* clientStallTimer # undefined
    tickPending, \* syntheticTickPending, with its drain listener
    quiet,       \* lastClientTrafficAt is older than stalledClientTickGraceMs
    needDrain,   \* tcpSocket.writableNeedDrain
    wsPaused,    \* clientTcpBackpressure, with its drain listener
    injected,    \* what the relay itself wrote to the target in the last step
    closed       \* tunnelCancelled

endVars   == <<cl, server, unread>>
parseVars == <<cbuf, lag, framing, inspectOff, queued, phase, encPending>>
tickVars  == <<tickFrame, stallTimer, tickPending, quiet>>
tcpVars   == <<needDrain, wsPaused>>
vars == <<endVars, parseVars, tickVars, tcpVars, injected, closed>>

TypeOK ==
    /\ cl \in [phase : Phases, mid : BOOLEAN, cipher : BOOLEAN,
               may : Acks \cup {"none"}]
    /\ server \in Phases \cup {"encrypting", "loggedIn", "finishing",
                               "switching", "cipher"}
    /\ unread \in BOOLEAN
    /\ cbuf \in Seq(Units) /\ Len(cbuf) <= ParserLimit
    /\ phase \in Phases \cup {"reconfiguring"}
    /\ {lag, framing, inspectOff, queued, encPending} \subseteq BOOLEAN
    /\ {tickFrame, stallTimer, tickPending, quiet} \subseteq BOOLEAN
    /\ {needDrain, wsPaused, closed} \subseteq BOOLEAN
    /\ injected \in {"none", "tick", "configKeepAlive", "playKeepAlive"}

Init ==
    /\ cl = [phase |-> "login", mid |-> FALSE, cipher |-> FALSE, may |-> "none"]
    /\ server = "login" /\ unread = FALSE
    /\ cbuf = <<>> /\ lag = FALSE /\ framing = TRUE /\ inspectOff = FALSE
    /\ queued = FALSE /\ phase = "login" /\ encPending = FALSE
    /\ tickFrame = FALSE /\ stallTimer = FALSE /\ tickPending = FALSE
    /\ quiet = FALSE /\ needDrain = FALSE /\ wsPaused = FALSE
    /\ injected = "none" /\ closed = FALSE

-----------------------------------------------------------------------------
(* The two ends.                                                           *)

PhaseAfter(k, p) ==
    CASE k = "loginAck" -> "configuration"
      [] k = "finish" -> "play"
      [] k = "confAck" -> "configuration"
      [] OTHER -> p

\* What the client may send next, and the client after it.
Sends(c) ==
    IF c.cipher THEN {Whole("cipher")}
    ELSE IF c.mid THEN {Whole("plain")}
    ELSE {Whole("plain"), [kind |-> "plain", last |-> FALSE]}
            \cup {Whole(k) : k \in {c.may} \ {"none"}}
            \cup {Whole("tick") : p \in {c.phase} \cap {"play"}}

After(c, u) ==
    [phase |-> PhaseAfter(u.kind, c.phase),
     mid |-> ~u.last,
     cipher |-> c.cipher \/ u.kind = "encryptionResponse",
     may |-> IF u.kind = c.may THEN "none" ELSE c.may]

\* The server's packets by state, with the state after each and what the packet
\* lets the client acknowledge.  A packet that ends a phase is the last one of
\* its phase, so no keepalive follows it.
ServerPackets ==
    {[at |-> "login", kind |-> "encryptionRequest", to |-> "encrypting",
      allows |-> "encryptionResponse"],
     [at |-> "login", kind |-> "loginSuccess", to |-> "loggedIn", allows |-> "loginAck"],
     [at |-> "configuration", kind |-> "configKeepAlive", to |-> "configuration",
      allows |-> "none"],
     [at |-> "configuration", kind |-> "finishConfiguration", to |-> "finishing",
      allows |-> "finish"],
     [at |-> "play", kind |-> "playKeepAlive", to |-> "play", allows |-> "none"],
     [at |-> "play", kind |-> "startConfiguration", to |-> "switching",
      allows |-> "confAck"]}

ServerReads ==
    /\ unread /\ unread' = FALSE
    /\ server' = CASE server = "encrypting" -> "cipher"
                   [] server \in {"loggedIn", "switching"} -> "configuration"
                   [] server = "finishing" -> "play"
    /\ injected' = "none"
    /\ UNCHANGED <<cl, parseVars, tickVars, tcpVars, closed>>

-----------------------------------------------------------------------------
(* The relay.                                                              *)

HasFrame(b) == \E i \in 1 .. Len(b) : b[i].last
FrameEnd(b) == CHOOSE i \in 1 .. Len(b) : b[i].last /\ \A j \in 1 .. i - 1 : ~b[j].last

\* Variant: the acknowledgement of a reconfiguration is only looked for in PLAY.
EndsPhaseMutant(k, p) ==
    CASE p \in {"login", "configuration"} -> k \in {"loginAck", "finish"}
      [] p = "play" -> k = "confAck"
      [] OTHER -> FALSE

\* isPayloadlessPacket against the id of the phase.  Login acknowledged and
\* finish configuration have the same id in every profile.
EndsPhase(k, p) ==
    CASE p \in {"login", "configuration"} -> k \in {"loginAck", "finish"}
      [] OTHER -> k = "confAck"

\* isStandaloneClientControlFrame of a message that is one whole frame.
IsStandaloneControl(m) ==
    /\ Len(m) = 1 /\ m[1].last
    /\ \/ EndsPhase(m[1].kind, phase)
       \/ phase \in {"play", "reconfiguring"} /\ m[1].kind = "tick"

\* disableClientFrameParsing without preserveProfile, and clearClientStallTimer.
DisableInspection ==
    /\ framing' = FALSE /\ inspectOff' = TRUE /\ encPending' = FALSE
    /\ cbuf' = <<>> /\ lag' = FALSE
    /\ stallTimer' = FALSE /\ tickPending' = FALSE

\* Variant: an empty parser is taken for one that has seen everything.
WatermarkSettledMutant == cbuf = <<>>

\* clientFramePhaseWatermarkSettled.
WatermarkSettled == ~lag

\* appendClientFrameBuffer: past the parser's high-water mark inspection stops
\* but the profile and the stall timer stay.
AppendClient(m) ==
    /\ lag' = TRUE
    /\ IF Len(cbuf) + Len(m) > ParserLimit
       THEN cbuf' = <<>> /\ inspectOff' = TRUE
       ELSE cbuf' = cbuf \o m /\ inspectOff' = FALSE

\* The inspection part of the message handler.  A turn is queued only for bytes
\* that were kept; a pending encryption response then ends inspection.
InspectLater(m) ==
    LET inspects == framing /\ (~inspectOff \/ IsStandaloneControl(m))
        fits == Len(cbuf) + Len(m) <= ParserLimit
    IN
    /\ queued' = (queued \/ (inspects /\ fits))
    /\ \/ /\ ~encPending /\ inspects
          /\ AppendClient(m)
          /\ UNCHANGED <<framing, encPending, stallTimer, tickPending>>
       \/ /\ ~encPending /\ ~inspects
          /\ UNCHANGED <<cbuf, lag, framing, inspectOff, encPending,
                         stallTimer, tickPending>>
       \/ /\ encPending
          /\ DisableInspection

\* WebSocket "message": inspection is queued, then the raw bytes are written;
\* a write that reports backpressure pauses the WebSocket.
ClientMessage ==
    /\ ~closed /\ ~wsPaused
    /\ \E u \in Sends(cl) : \E v \in {<<>>} \cup {<<w>> : w \in Sends(After(cl, u))} :
          LET m == <<u>> \o v
              afterU == After(cl, u)
          IN
          /\ cl' = IF v = <<>> THEN afterU ELSE After(afterU, v[1])
          /\ unread' = (unread \/ \E i \in 1 .. Len(m) : m[i].kind \in Acks)
          /\ InspectLater(m)
    /\ quiet' = FALSE
    /\ needDrain' \in {needDrain, TRUE}
    /\ wsPaused' = needDrain'
    /\ injected' = "none"
    /\ UNCHANGED <<server, phase, tickFrame, closed>>

\* processClientFrame.
ProcessFrame(k) ==
    \/ /\ EndsPhase(k, phase) /\ phase = "login"
       /\ phase' = "configuration"
       /\ UNCHANGED tickVars
    \/ /\ EndsPhase(k, phase) /\ phase = "configuration"
       /\ phase' = "play"
       /\ tickFrame' = TRUE /\ stallTimer' = TRUE /\ quiet' = FALSE
       /\ UNCHANGED tickPending
    \/ /\ EndsPhase(k, phase) /\ phase \in {"play", "reconfiguring"}
       /\ phase' = "configuration"
       /\ stallTimer' = FALSE /\ tickPending' = FALSE /\ quiet' = FALSE
       /\ UNCHANGED tickFrame
    \/ /\ ~EndsPhase(k, phase)
       /\ tickFrame' = (tickFrame \/ (phase = "play" /\ k = "tick"))
       /\ UNCHANGED <<phase, stallTimer, tickPending, quiet>>

\* Variant: a tunnel whose budget ran out is not queued again.
QueuedAfterTurnMutant(b) == {q \in BOOLEAN : q => b # <<>>}

\* Whether the turn leaves the tunnel queued: certainly while a complete frame
\* remains (hasRunnableWork), and never with an empty buffer.
QueuedAfterTurn(b) == {q \in BOOLEAN : (HasFrame(b) => q) /\ (q => b # <<>>)}

\* A turn of the ready queue, cut at its budget after one frame: the time
\* budget may run out after any frame.
InspectionTurn ==
    /\ queued
    /\ \/ /\ ~framing \/ inspectOff \/ cbuf = <<>>
          /\ queued' = FALSE
          /\ UNCHANGED <<cbuf, lag, framing, inspectOff, phase, encPending, tickVars>>
       \/ /\ framing /\ ~inspectOff /\ cbuf # <<>> /\ encPending
          /\ DisableInspection
          /\ queued' = FALSE
          /\ UNCHANGED <<phase, tickFrame, quiet>>
       \/ /\ framing /\ ~inspectOff /\ ~encPending /\ cbuf # <<>> /\ ~HasFrame(cbuf)
          /\ queued' = FALSE
          /\ UNCHANGED <<cbuf, lag, framing, inspectOff, phase, encPending, tickVars>>
       \/ /\ framing /\ ~inspectOff /\ ~encPending /\ HasFrame(cbuf)
          /\ LET n == FrameEnd(cbuf) IN
             /\ cbuf' = SubSeq(cbuf, n + 1, Len(cbuf))
             /\ ProcessFrame(IF n = 1 THEN cbuf[1].kind ELSE "plain")
          /\ lag' = (cbuf' # <<>>)
          /\ queued' \in QueuedAfterTurn(cbuf')
          /\ UNCHANGED <<framing, inspectOff, encPending>>
    /\ injected' = "none"
    /\ UNCHANGED <<endVars, tcpVars, closed>>

\* proxyVanillaKeepAlive recognises the packet in the phase the relay is in.
IsProxiedKeepAlive(k) ==
    \/ k = "configKeepAlive" /\ phase # "play"
    \/ k = "playKeepAlive" /\ phase = "play"

\* A packet of the server: answered here, or forwarded and tracked.
ServerFrame ==
    /\ ~closed /\ ~unread
    /\ \E p \in ServerPackets :
          /\ p.at = server
          /\ server' = p.to
          /\ \/ /\ framing /\ WatermarkSettled /\ IsProxiedKeepAlive(p.kind)
                /\ injected' = p.kind
                /\ needDrain' \in {needDrain, TRUE}
                /\ UNCHANGED <<cl, phase, encPending, stallTimer, tickPending>>
             \/ /\ ~(framing /\ WatermarkSettled /\ IsProxiedKeepAlive(p.kind))
                /\ cl' = IF p.allows = "none" THEN cl ELSE [cl EXCEPT !.may = p.allows]
                /\ IF framing /\ phase = "play" /\ p.kind = "startConfiguration"
                   THEN /\ phase' = "reconfiguring"
                        /\ stallTimer' = FALSE /\ tickPending' = FALSE
                   ELSE UNCHANGED <<phase, stallTimer, tickPending>>
                /\ encPending' = \/ encPending
                                 \/ /\ framing /\ phase = "login"
                                    /\ p.kind = "encryptionRequest"
                /\ injected' = "none"
                /\ UNCHANGED needDrain
    /\ UNCHANGED <<unread, cbuf, lag, framing, inspectOff, queued, tickFrame,
                   quiet, wsPaused, closed>>

\* writeSyntheticPlayTick: under backpressure at most one tick is kept pending.
WriteTick ==
    \/ /\ tickPending \/ needDrain
       /\ tickPending' = TRUE /\ injected' = "none"
       /\ UNCHANGED <<needDrain, quiet>>
    \/ /\ ~tickPending /\ ~needDrain
       /\ injected' = "tick" /\ quiet' = FALSE
       /\ needDrain' \in BOOLEAN /\ tickPending' = needDrain'

\* The conditions of the interval and of the drain listener.
TickWanted == phase = "play" /\ tickFrame /\ quiet

\* The interval of armClientStallTimer.
StallTick ==
    /\ stallTimer /\ TickWanted
    /\ WriteTick
    /\ UNCHANGED <<endVars, parseVars, tickFrame, stallTimer, wsPaused, closed>>

\* The "drain" event of the TCP socket: the tick's listener may write the
\* pending tick, the client's resumes the WebSocket.
TcpDrain ==
    /\ needDrain /\ ~closed
    /\ wsPaused' = FALSE
    /\ IF tickPending /\ TickWanted
       THEN /\ injected' = "tick" /\ quiet' = FALSE
            /\ needDrain' \in BOOLEAN /\ tickPending' = needDrain'
       ELSE /\ needDrain' = FALSE /\ tickPending' = FALSE /\ injected' = "none"
            /\ UNCHANGED quiet
    /\ UNCHANGED <<endVars, parseVars, tickFrame, stallTimer, closed>>

\* stalledClientTickGraceMs pass without client traffic.
GraceExpires ==
    /\ ~quiet
    /\ quiet' = TRUE /\ injected' = "none"
    /\ UNCHANGED <<endVars, parseVars, tickFrame, stallTimer, tickPending,
                   tcpVars, closed>>

\* closeBoth: clearClientFrameState, the stall timer and both listeners.
Close ==
    /\ ~closed /\ closed' = TRUE
    /\ cbuf' = <<>> /\ lag' = FALSE /\ inspectOff' = TRUE /\ queued' = FALSE
    /\ stallTimer' = FALSE /\ tickPending' = FALSE /\ wsPaused' = FALSE
    /\ injected' = "none"
    /\ UNCHANGED <<endVars, framing, phase, encPending, tickFrame, quiet, needDrain>>

\* A message read after that, while the close handshake goes on: inspection
\* stays cleared and gets no turn, but a pending encryption response ends it.
LateMessage ==
    /\ closed
    /\ framing' = (framing /\ ~encPending) /\ encPending' = FALSE
    /\ quiet' = FALSE /\ injected' = "none"
    /\ UNCHANGED <<endVars, cbuf, lag, inspectOff, queued, phase, tickFrame,
                   stallTimer, tickPending, tcpVars, closed>>

Next ==
    \/ ServerReads \/ ClientMessage \/ InspectionTurn \/ ServerFrame
    \/ StallTick \/ TcpDrain \/ GraceExpires \/ Close \/ LateMessage

Spec == Init /\ [][Next]_vars
-----------------------------------------------------------------------------
(* Properties.                                                             *)

\* Where the target will decode the next byte: at the start of a plain packet.
AtBoundary == ~cl.mid /\ ~cl.cipher

\* The watermark: a keepalive is answered only where the target, which decodes
\* the answer behind every client byte already forwarded, is at the start of a
\* packet of the keepalive's phase, however far inspection lags.
KeepAlivesFit ==
    /\ injected = "configKeepAlive" => AtBoundary /\ cl.phase = "configuration"
    /\ injected = "playKeepAlive" => AtBoundary /\ cl.phase = "play"

\* Whenever the parser has read everything that was forwarded.
Settled == ~closed /\ framing /\ ~inspectOff /\ ~lag

\* Once inspection has caught up, also after the parser overflowed and started
\* again, the phase it tracks is the one the client has reached, through any
\* number of configuration cycles.  A reconfiguration whose start was seen may
\* still be tracked as one when its acknowledgement was dropped, and
\* "configuration" is not claimed: after a drop in login the first packet read
\* again may be the finish packet, which has the id of the login
\* acknowledgement.
PhaseCatchesUp ==
    Settled => \/ phase = cl.phase
               \/ phase = "reconfiguring" /\ cl.phase = "play"
               \/ phase = "configuration" /\ cl.phase = "play"

\* A synthetic tick written while inspection is caught up reaches the target in
\* PLAY and at the start of a packet.
TicksFitWhenSettled ==
    injected = "tick" /\ Settled => cl.phase = "play" /\ AtBoundary

\* Bytes after the encryption response are never kept for the packet parser.
NeverParsesCiphertext ==
    \A i \in 1 .. Len(cbuf) : cbuf[i].kind # "cipher"

\* Whoever waits for the TCP socket to drain waits for an event to come.
BackpressureHasDrain == tickPending \/ wsPaused => needDrain

\* An inspection backlog always has a turn of the ready queue to come.
BacklogHasTurn ==
    framing /\ ~inspectOff /\ HasFrame(cbuf) => queued

\* The two streams stay apart: the parser holds plain packets only, up to its
\* limit, whatever the order of messages, drain turns and the encryption
\* response; and what the relay inserts on its own, an answered keepalive or a
\* synthetic tick, is a packet the target decodes as one, in a phase that has it.
InsertedFits ==
    TypeOK /\ NeverParsesCiphertext /\ KeepAlivesFit /\ TicksFitWhenSettled

\* The tunnel never waits, for the drain event or for a turn, when none will come.
NeverStuck == BackpressureHasDrain /\ BacklogHasTurn
=============================================================================
