---------------------------- MODULE ServerFramePath ----------------------------
(***************************************************************************)
(* The target-to-browser half of one connected RelayNode tunnel            *)
(* (apps/bridge/dist/main.js, the webSocketServer "connection" closure and *)
(* MinecraftFrameAccumulator of framed-stream.js).                         *)
(*                                                                         *)
(* The target's TCP stream is the constant Stream: a sequence of units, a  *)
(* unit being a run of bytes that is never split.  A unit is named by its  *)
(* position in Stream, so the relay's buffer and what it handed to         *)
(* WebSocket.send are sequences of positions.  Packet contents are the     *)
(* kind of frame the relay distinguishes.                                  *)
(*                                                                         *)
(* Node runs one callback at a time.  drainServerFrameBuffer is a loop      *)
(* inside one callback: the variable drain is its program counter, and     *)
(* every other action waits until it is "idle" again.                      *)
(*                                                                         *)
(* The client half is reduced to its interface with this half: the packet  *)
(* phase it tracks, whether its parser is behind (the watermark, a         *)
(* nondeterministic choice here), and the switch to opaque bytes.          *)
(***************************************************************************)
EXTENDS Naturals, Sequences, FiniteSets

CONSTANTS
    Stream,       \* the units of the target's byte stream, in order
    HighWater,    \* maximumWebSocketBufferedBytes, counted in units
    FrameBudget   \* effectiveDrainFrameBudget: frames a drain may forward

Kinds == {"plain", "configKeepAlive", "playKeepAlive", "startConfiguration",
          "encryptionRequest", "malformed"}

ASSUME StreamAssumption == Stream \in Seq([kind : Kinds, last : BOOLEAN])
ASSUME HighWaterAssumption == HighWater \in Nat \ {0}
ASSUME FrameBudgetAssumption == FrameBudget \in Nat \ {0}

Units == 1 .. Len(Stream)
Phases == {"login", "configuration", "play", "reconfiguring"}

VARIABLES
    arrived,      \* units the TCP "data" callback has delivered
    cuts,         \* positions at which a delivered TCP chunk ended
    buf,          \* serverFrameBuffer
    out,          \* units accepted by webSocket.send, in order
    flushed,      \* how many units of out have left the WebSocket's buffer
    proxied,      \* units of the keepalives the relay answered itself
    discarded,    \* units dropped by a teardown
    ws,           \* webSocket.readyState
    reading,      \* the TCP socket is flowing (resume) rather than paused
    cancelled,    \* tunnelCancelled; the TCP socket is destroyed with it
    closedBy,     \* the event whose handler tore the tunnel down
    paused,       \* tcpPausedForWebSocket
    clientPaused, \* tcpPausedForClient
    hold,         \* serverFrameDrainHoldingRead
    scheduled,    \* serverFrameDrainScheduled: a setImmediate is pending
    drain,        \* where drainServerFrameBuffer is
    drainFrames,  \* frames this drain forwarded
    drainHold,    \* drainStartedWithReadHold
    drainYield,   \* drainBudgetYielded
    framing,      \* packetFramingEnabled, with a profile selected
    phase,        \* protocolPhase
    encPending,   \* encryptionResponsePending
    client        \* what the browser's first bytes turn out to be

streamVars == <<arrived, cuts>>
dataVars   == <<buf, out, flushed, proxied, discarded>>
sockVars   == <<ws, reading, cancelled, closedBy>>
flowVars   == <<paused, clientPaused, hold, scheduled>>
drainVars  == <<drain, drainFrames, drainHold, drainYield>>
phaseVars  == <<framing, phase, encPending, client>>
vars == <<streamVars, dataVars, sockVars, flowVars, drainVars, phaseVars>>

TypeOK ==
    /\ arrived \in 0 .. Len(Stream)
    /\ cuts \in SUBSET Units
    /\ buf \in Seq(Units)
    /\ out \in Seq(Units)
    /\ flushed \in 0 .. Len(out)
    /\ proxied \in SUBSET Units
    /\ discarded \in SUBSET Units
    /\ ws \in {"open", "closing", "closed"}
    /\ reading \in BOOLEAN
    /\ cancelled \in BOOLEAN
    /\ closedBy \in {"none", "target", "browser", "failure"}
    /\ paused \in BOOLEAN
    /\ clientPaused \in BOOLEAN
    /\ hold \in BOOLEAN
    /\ scheduled \in BOOLEAN
    /\ drain \in {"idle", "loop", "finally"}
    /\ drainFrames \in 0 .. FrameBudget
    /\ drainHold \in BOOLEAN
    /\ drainYield \in BOOLEAN
    /\ framing \in BOOLEAN
    /\ phase \in Phases
    /\ encPending \in BOOLEAN
    /\ client \in {"raw", "unprobed", "profiled"}

-----------------------------------------------------------------------------
(* What MinecraftFrameAccumulator finds at the head of a buffer.           *)

Kind(p) == Stream[p].kind

\* Lengths of the prefixes of b that are whole frames (peekBatch, peekFrame).
FrameEnds(b) ==
    {j \in 1 .. Len(b) : /\ Stream[b[j]].last
                         /\ \A i \in 1 .. j : Kind(b[i]) # "malformed"}

\* peekFrame: j is the length of the first complete frame of b.
IsHeadFrame(b, j) == j \in FrameEnds(b) /\ \A i \in FrameEnds(b) : j <= i

\* peekFrame returns null: the head is no frame header (or is too long).
HeadIsOpaque(b) == b # <<>> /\ Kind(b[1]) = "malformed"

\* peekChunk: j is what remains of the TCP chunk at the head of b.
IsHeadChunk(b, j) ==
    /\ j \in 1 .. Len(b)
    /\ b[j] \in cuts
    /\ \A i \in 1 .. j - 1 : b[i] \notin cuts

\* proxyVanillaKeepAlive recognises the frame in the phase the relay is in.
IsProxiedKeepAlive(p) ==
    \/ Kind(p) = "configKeepAlive" /\ phase # "play"
    \/ Kind(p) = "playKeepAlive" /\ phase = "play"

\* The packets that peekBatch's caller refuses to put in a batch.
IsBatchable(p) == Kind(p) \notin {"playKeepAlive", "startConfiguration"}

Take(s, n) == SubSeq(s, 1, n)
DropMutant(s, n) == SubSeq(s, n, Len(s))
Drop(s, n) == SubSeq(s, n + 1, Len(s))
Elements(s) == {s[i] : i \in 1 .. Len(s)}

-----------------------------------------------------------------------------
(* Helpers of the tunnel closure.                                          *)

Idle == drain = "idle"
Live == ~cancelled /\ ws = "open"

\* updateTcpReadState, given the next values of the three pause reasons.
UpdateTcpReadState(p, c, h) == reading' = ~(p \/ c \/ h)

\* The guard of scheduleServerFrameDrain outside a drain.
CanSchedule(p, c, b) == Live /\ ~p /\ ~c /\ b # <<>>

\* The guard at the head of drainServerFrameBuffer.
CanDrain == Live /\ ~paused /\ ~clientPaused

StartDrain ==
    /\ drain' = "loop"
    /\ drainFrames' = 0
    /\ drainHold' = hold
    /\ drainYield' = FALSE

\* clearServerFrameState with the rest of closeBoth: the immediate is cleared,
\* retained bytes are dropped and the TCP socket is destroyed.  The WebSocket
\* closing handshake starts if it has not.  The extra units are bytes in hand.
CloseBoth(by, extra) ==
    /\ cancelled' = TRUE
    /\ closedBy' = IF cancelled THEN closedBy ELSE by
    /\ ws' = IF ws = "open" THEN "closing" ELSE ws
    /\ discarded' = discarded \cup Elements(buf) \cup extra
    /\ buf' = <<>>
    /\ scheduled' = FALSE
    /\ paused' = FALSE
    /\ hold' = FALSE
    /\ UNCHANGED <<reading, out, flushed, proxied, clientPaused>>

\* bufferedAmount, in units, against the high-water mark.
AtHighWater(n) == n >= HighWater

\* forwardServerFrame of the units s when send accepts them: the high-water
\* mark pauses the TCP socket (pauseTcpForWebSocket).
Send(s) ==
    LET full == AtHighWater(Len(out) + Len(s) - flushed) IN
    /\ out' = out \o s
    /\ paused' = full
    /\ UpdateTcpReadState(full, clientPaused, hold)
    /\ UNCHANGED <<flushed, discarded, ws, cancelled, closedBy, clientPaused,
                   hold, scheduled>>

Init ==
    /\ arrived = 0 /\ cuts = {}
    /\ buf = <<>> /\ out = <<>> /\ flushed = 0
    /\ proxied = {} /\ discarded = {}
    /\ ws = "open" /\ reading = TRUE /\ cancelled = FALSE /\ closedBy = "none"
    /\ paused = FALSE /\ clientPaused = FALSE /\ hold = FALSE
    /\ scheduled = FALSE
    /\ drain = "idle" /\ drainFrames = 0 /\ drainHold = FALSE
    /\ drainYield = FALSE
    /\ framing = FALSE /\ phase = "login" /\ encPending = FALSE
    /\ client \in {"raw", "unprobed"}
-----------------------------------------------------------------------------
(* TCP "data" callback.                                                    *)

DirectPathMutant == ~framing /\ ~paused /\ ~clientPaused
DirectPath == ~framing /\ buf = <<>> /\ ~paused /\ ~clientPaused

\* Opaque bytes with nothing queued ahead of them go straight to the browser.
\* A profile is never selected while framing is off, so this path's call of
\* proxyVanillaKeepAlive always declines.
ForwardDirect(chunk) ==
    /\ DirectPath
    /\ \/ Live /\ Send(chunk) /\ UNCHANGED <<buf, proxied>>
       \/ Live /\ CloseBoth("failure", Elements(chunk))
       \/ /\ ~Live
          /\ discarded' = discarded \cup Elements(chunk)
          /\ UNCHANGED <<buf, out, flushed, proxied, sockVars, flowVars>>
    /\ UNCHANGED drainVars

AppendAndDrain(chunk) ==
    /\ ~DirectPath
    /\ buf' = buf \o chunk
    /\ IF CanDrain THEN StartDrain ELSE UNCHANGED drainVars
    /\ UNCHANGED <<out, flushed, proxied, discarded, sockVars, flowVars>>

\* The target speaks first only to a client that is not a Minecraft client.
TcpData ==
    /\ Idle /\ ~cancelled /\ reading /\ client # "unprobed"
    /\ \E n \in 1 .. Len(Stream) - arrived :
          LET chunk == [i \in 1 .. n |-> arrived + i] IN
          /\ arrived' = arrived + n
          /\ cuts' = cuts \cup {arrived + n}
          /\ ForwardDirect(chunk) \/ AppendAndDrain(chunk)
    /\ UNCHANGED phaseVars

-----------------------------------------------------------------------------
(* drainServerFrameBuffer, one disjunct of the loop body per action.       *)

LoopCondition == buf # <<>> /\ ~paused /\ ~clientPaused /\ ~cancelled

\* The budget by bytes or by time may run out after any frame.
DrainLoopEnds ==
    /\ drain = "loop"
    /\ \/ ~LoopCondition /\ UNCHANGED drainYield
       \/ LoopCondition /\ drainFrames > 0 /\ drainYield' = TRUE
       \/ /\ LoopCondition /\ framing /\ ~HeadIsOpaque(buf)
          /\ FrameEnds(buf) = {} /\ UNCHANGED drainYield
    /\ drain' = "finally"
    /\ UNCHANGED <<drainFrames, drainHold, streamVars, dataVars, sockVars,
                   flowVars, phaseVars>>

InLoop == drain = "loop" /\ LoopCondition /\ drainFrames < FrameBudget

\* send accepts the first n units: they are consumed, and a send that reached
\* the high-water mark leaves the loop.  A send that throws closes the tunnel.
ForwardPrefix(n, frames) ==
    \/ /\ Send(Take(buf, n))
       /\ buf' = Drop(buf, n)
       /\ drain' = IF paused' THEN "finally" ELSE "loop"
       /\ drainFrames' = drainFrames + frames
       /\ UNCHANGED <<proxied, drainHold, drainYield>>
    \/ /\ CloseBoth("failure", {})
       /\ drain' = "finally"
       /\ UNCHANGED <<drainFrames, drainHold, drainYield>>

DrainOpaqueChunk ==
    /\ InLoop /\ ~framing
    /\ \E n \in 1 .. Len(buf) : IsHeadChunk(buf, n) /\ ForwardPrefix(n, 1)
    /\ UNCHANGED <<streamVars, phaseVars>>

\* disableClientFrameParsing; the retained bytes stay and go out as chunks.
DrainOpaqueHead ==
    /\ InLoop /\ framing /\ HeadIsOpaque(buf)
    /\ framing' = FALSE
    /\ UNCHANGED <<phase, encPending, client, streamVars, dataVars, sockVars,
                   flowVars, drainVars>>

BatchFits(frames) == frames > 1 /\ frames <= FrameBudget - drainFrames

\* Ordinary PLAY packets leave in one WebSocket message.
DrainBatch ==
    /\ InLoop /\ framing /\ phase = "play"
    /\ \E n \in FrameEnds(buf) :
          LET frames == Cardinality({j \in FrameEnds(buf) : j <= n}) IN
          /\ BatchFits(frames)
          /\ \A i \in 1 .. n : IsBatchable(buf[i])
          /\ ForwardPrefix(n, frames)
    /\ UNCHANGED <<streamVars, phaseVars>>

\* Skipped when clientFramePhaseWatermarkSettled is false: see DrainFrame.
DrainKeepAlive ==
    /\ InLoop /\ framing
    /\ \E n \in 1 .. Len(buf) :
          /\ IsHeadFrame(buf, n)
          /\ IsProxiedKeepAlive(buf[1])
          /\ proxied' = proxied \cup Elements(Take(buf, n))
          /\ buf' = Drop(buf, n)
    /\ drainFrames' = drainFrames + 1
    /\ UNCHANGED <<drain, drainHold, drainYield, out, flushed, discarded,
                   streamVars, sockVars, flowVars, phaseVars>>

DrainFrame ==
    /\ InLoop /\ framing
    /\ \E n \in 1 .. Len(buf) : IsHeadFrame(buf, n) /\ ForwardPrefix(n, 1)
    /\ phase' = IF ~cancelled' /\ phase = "play"
                   /\ Kind(buf[1]) = "startConfiguration"
                THEN "reconfiguring" ELSE phase
    /\ encPending' = \/ encPending
                     \/ /\ ~cancelled' /\ phase = "login"
                        /\ Kind(buf[1]) = "encryptionRequest"
    /\ UNCHANGED <<framing, client, streamVars>>

\* The finally block: the read hold this drain began with is released, a yield
\* asks for one more turn, and an emptied buffer releases any other hold.
HoldAfterDrainMutant ==
    hold /\ (paused \/ clientPaused \/ cancelled \/ buf # <<>>)
HoldAfterDrain ==
    hold /\ \/ paused \/ clientPaused \/ cancelled
            \/ ~drainHold /\ buf # <<>>

RescheduleMutant ==
    drainYield /\ ~drainHold /\ CanSchedule(paused, clientPaused, buf)
Reschedule == drainYield /\ CanSchedule(paused, clientPaused, buf)

DrainFinally ==
    /\ drain = "finally"
    /\ drain' = "idle"
    /\ hold' = HoldAfterDrain
    /\ IF hold' # hold THEN UpdateTcpReadState(paused, clientPaused, hold')
                       ELSE UNCHANGED reading
    /\ scheduled' = (scheduled \/ Reschedule)
    /\ UNCHANGED <<drainFrames, drainHold, drainYield, streamVars, dataVars,
                   ws, cancelled, closedBy, paused, clientPaused, phaseVars>>

\* The setImmediate of scheduleServerFrameDrain.
ScheduledDrain ==
    /\ Idle /\ scheduled
    /\ scheduled' = FALSE
    /\ IF CanDrain THEN StartDrain ELSE UNCHANGED drainVars
    /\ UNCHANGED <<streamVars, dataVars, sockVars, paused, clientPaused, hold,
                   phaseVars>>

-----------------------------------------------------------------------------
(* WebSocket and client callbacks.                                         *)

\* A completed send: resumeServerFrameIfLowWater keeps the read hold while
\* parser bytes are retained.
SendCallback ==
    /\ Idle /\ ws # "closed"
    /\ \E n \in flushed + 1 .. Len(out) :
          /\ flushed' = n
          /\ IF paused /\ Live /\ ~AtHighWater(Len(out) - n)
             THEN /\ paused' = FALSE
                  /\ hold' = (buf # <<>>)
                  /\ UpdateTcpReadState(FALSE, clientPaused, hold')
                  /\ scheduled' = (scheduled \/ CanSchedule(FALSE, clientPaused, buf))
             ELSE UNCHANGED <<paused, hold, reading, scheduled>>
    /\ UNCHANGED <<streamVars, buf, out, proxied, discarded, ws, cancelled,
                   closedBy, clientPaused, drainVars, phaseVars>>

\* A socket that is closing because the relay closed it still has messages.
CanReceive == Idle /\ (ws = "open" \/ (ws = "closing" /\ cancelled))

\* {"type": "flow"}: the browser pauses or resumes the stream.
FlowMessage(p) ==
    /\ CanReceive
    /\ clientPaused' = p
    /\ UpdateTcpReadState(paused, p, hold)
    /\ scheduled' = (scheduled \/ (~p /\ CanSchedule(paused, p, buf)))
    /\ UNCHANGED <<streamVars, dataVars, ws, cancelled, closedBy, paused, hold,
                   drainVars, phaseVars>>

\* inspectMinecraftHandshake of the first client bytes selects a profile.
ClientHandshake ==
    /\ CanReceive /\ client = "unprobed"
    /\ client' = "profiled"
    /\ framing' = TRUE
    /\ UNCHANGED <<phase, encPending, streamVars, dataVars, sockVars, flowVars,
                   drainVars>>

\* The first client bytes after an encryption request end all inspection; what
\* the buffer retains is opaque now and gets a turn.
ClientEncryptionResponse ==
    /\ CanReceive /\ encPending
    /\ framing' = FALSE /\ encPending' = FALSE
    /\ scheduled' = (scheduled \/ CanSchedule(paused, clientPaused, buf))
    /\ UNCHANGED <<phase, client, streamVars, dataVars, sockVars, paused,
                   clientPaused, hold, drainVars>>

\* drainClientFrameBuffer of the client half, seen from here.
ClientInspection ==
    /\ Idle /\ ~cancelled /\ framing
    /\ \/ framing' = FALSE /\ encPending' = FALSE /\ UNCHANGED phase
       \/ /\ ~encPending /\ UNCHANGED <<framing, encPending>>
          /\ \/ phase = "login" /\ phase' = "configuration"
             \/ phase = "configuration" /\ phase' = "play"
             \/ phase \in {"play", "reconfiguring"} /\ phase' = "configuration"
    /\ UNCHANGED <<client, streamVars, dataVars, sockVars, flowVars, drainVars>>

-----------------------------------------------------------------------------
(* Teardown.                                                               *)

\* TCP "close" after the target ended its stream and it was all read.
TargetCloses ==
    /\ Idle /\ ~cancelled /\ reading /\ arrived = Len(Stream)
    /\ CloseBoth("target", {})
    /\ UNCHANGED <<streamVars, drainVars, phaseVars>>

\* TCP or WebSocket "error", a failed send callback, a failed client write, the
\* idle timer or an invalid control message.
TunnelFails ==
    /\ Idle /\ ~cancelled
    /\ CloseBoth("failure", {})
    /\ UNCHANGED <<streamVars, drainVars, phaseVars>>

\* The browser's close frame: readyState leaves OPEN before "close" is emitted.
BrowserCloses ==
    /\ Idle /\ ws = "open"
    /\ ws' = "closing"
    /\ UNCHANGED <<streamVars, dataVars, reading, cancelled, closedBy, flowVars,
                   drainVars, phaseVars>>

WebSocketClosed ==
    /\ Idle /\ ws # "closed"
    /\ ws' = "closed"
    /\ cancelled' = TRUE
    /\ closedBy' = IF cancelled THEN closedBy ELSE "browser"
    /\ discarded' = discarded \cup Elements(buf)
    /\ buf' = <<>>
    /\ scheduled' = FALSE /\ paused' = FALSE /\ hold' = FALSE
    /\ UNCHANGED <<streamVars, out, flushed, proxied, reading, clientPaused,
                   drainVars, phaseVars>>

\* The tunnel is over: nothing more happens to it.
Closed == Idle /\ ws = "closed" /\ UNCHANGED vars

DrainStep ==
    \/ DrainLoopEnds \/ DrainOpaqueChunk \/ DrainOpaqueHead \/ DrainBatch
    \/ DrainKeepAlive \/ DrainFrame \/ DrainFinally

Next ==
    \/ TcpData
    \/ DrainStep
    \/ ScheduledDrain
    \/ SendCallback
    \/ \E p \in BOOLEAN : FlowMessage(p)
    \/ ClientHandshake \/ ClientEncryptionResponse \/ ClientInspection
    \/ TargetCloses \/ TunnelFails \/ BrowserCloses \/ WebSocketClosed
    \/ Closed

Spec == Init /\ [][Next]_vars

\* A running loop finishes.  Each turn of the event loop polls every ready
\* descriptor and runs the pending immediates, so a callback that is possible
\* again and again between other callbacks does happen (strong fairness): the
\* browser reads, so sends complete, and the target sends what it has.
Fairness ==
    /\ WF_vars(DrainStep)
    /\ SF_vars(ScheduledDrain)
    /\ SF_vars(SendCallback)
    /\ SF_vars(TcpData)
    /\ WF_vars(ClientHandshake)

FairSpec == Spec /\ Fairness
-----------------------------------------------------------------------------
(* Properties.                                                             *)

Taken == arrived - Len(buf)    \* units that left the relay's buffer

\* Whatever the interleaving of data callbacks, drain turns, completed sends
\* and teardown, a unit the target sent is in exactly one place: handed to the
\* browser in stream order, answered by the relay, retained in stream order
\* behind all of those, or dropped by a teardown; an open tunnel drops nothing.
ExactlyOnceInOrder ==
    /\ \A i \in 1 .. Len(buf) : buf[i] = Taken + i
    /\ \A i, j \in 1 .. Len(out) : i < j => out[i] < out[j]
    /\ Elements(out) \cup proxied \cup discarded = 1 .. Taken
    /\ Elements(out) \cap proxied = {}
    /\ (Elements(out) \cup proxied) \cap discarded = {}
    /\ Live => discarded = {}

\* forwardServerFrame pauses and resumeServerFrameIfLowWater resumes: a paused
\* tunnel has a send whose callback is still to come, so it cannot stay paused
\* for want of a callback; and one that is not paused is below high water.
PauseHasWakeup ==
    Live => IF paused THEN Len(out) - flushed > 0
                      ELSE Len(out) - flushed < HighWater

\* The TCP socket flows exactly when none of the three reasons to pause it
\* holds, although five handlers set or clear them (updateTcpReadState).
ReadGate == Live => reading = ~(paused \/ clientPaused \/ hold)

\* No lost wakeup: complete frames (or a head that is no frame) never sit in
\* the buffer of an unpaused tunnel without a drain turn to come.
Runnable == framing /\ (FrameEnds(buf) # {} \/ HeadIsOpaque(buf))

RunnableHasTurn ==
    Live /\ Idle /\ ~paused /\ ~clientPaused /\ Runnable => scheduled

\* The read hold, which alone can keep the socket paused, always has something
\* to release it: a drain turn, or the browser's flow message that schedules one.
HoldHasRelease ==
    Live /\ Idle /\ hold => paused \/ clientPaused \/ scheduled

\* The socket flows unless there is a reason to pause it, and whatever the tunnel
\* waits for is still to come, so that no interleaving of callbacks leaves it
\* waiting for nothing.
NeverStuck == ReadGate /\ PauseHasWakeup /\ RunnableHasTurn /\ HoldHasRelease

\* The strengthening that makes the invariants above inductive.
DrainInvariant ==
    /\ drain = "loop" => ws = "open"
    /\ drain # "idle" /\ ~cancelled => ~clientPaused
    /\ drain # "idle" /\ hold => drainHold
    /\ drain = "finally" /\ Live /\ ~paused /\ Runnable => drainYield
    /\ Live /\ hold /\ ~paused /\ Idle => buf # <<>> /\ (clientPaused \/ scheduled)
    /\ client = "unprobed" => buf = <<>>
    /\ cancelled => buf = <<>>

IndInv ==
    /\ TypeOK /\ ExactlyOnceInOrder /\ PauseHasWakeup /\ ReadGate
    /\ RunnableHasTurn /\ DrainInvariant

\* Unless the browser keeps pausing the stream or the tunnel goes down, every
\* unit the target sends is delivered or answered.
AllDelivered ==
    \/ []<>clientPaused
    \/ <>~Live
    \/ <>(Elements(out) \cup proxied = Units)

\* The tunnel half implements the abstract relay.
Relay == INSTANCE OrderedRelay WITH
    Length <- Len(Stream), taken <- Taken, delivered <- out,
    answered <- proxied, open <- Live

ImplementsRelay == Relay!Spec
=============================================================================
