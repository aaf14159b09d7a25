------------------------------ MODULE LocalTunnel ------------------------------
(***************************************************************************)
(* The relay's local tunnels (registerLocalTunnel in                       *)
(* apps/bridge/dist/main.js): two browsers that ask for the client and the *)
(* server role of one session are joined, whichever comes first.           *)
(*                                                                         *)
(* The module has one session id, which later pairs may use again while    *)
(* the sockets of an earlier one are still closing.  A WebSocket has at    *)
(* most one endpoint, so a socket names its endpoint.  An action is one    *)
(* callback of the relay, or the browser or network at a socket's other    *)
(* end.  A paused WebSocket is not read at all: neither its frames, nor    *)
(* its flow messages, nor its close frame.  Frames are numbered; the       *)
(* "connected" and skin messages and the acknowledgements of flow messages *)
(* have no size.                                                           *)
(***************************************************************************)
EXTENDS Naturals, Sequences, FiniteSets

CONSTANTS
    Clients, Servers,   \* WebSockets that will ask for each role
    None,
    ClientFrames,       \* bound: frames a client sends
    ServerFrames,       \* bound: frames a server sends
    MaxPending,         \* maximumLocalPrePairFrames, with the bytes' limit
    HighWater           \* maximumWebSocketBufferedBytes, in frames

Sockets == Clients \cup Servers

ASSUME LocalTunnelAssumption ==
    /\ Clients \cap Servers = {} /\ None \notin Sockets
    /\ {ClientFrames, ServerFrames} \subseteq Nat /\ MaxPending \in Nat /\ HighWater \in Nat \ {0}

VARIABLES
    relay,   \* the session of the id and, per socket, its state and endpoint
    failed,  \* sockets whose pending sends have failed, callbacks to come
    sent,    \* frames of each browser that the relay has read
    got,     \* frames given to each WebSocket, in the order of send()
    flushed, \* how many of them have left it
    asks,    \* the flow message a browser sent last
    heard    \* the last one the relay has read

vars == <<relay, failed, sent, got, flushed, asks, heard>>

MaxFrames(w) == IF w \in Clients THEN ClientFrames ELSE ServerFrames

role(w) == IF w \in Clients THEN "client" ELSE "server"

\* An endpoint, with the number of frames that were held for it and, as
\* history, whether one of its own was dropped.
NoEndpoint == [peer |-> None, pending |-> <<>>, held |-> 0, dropped |-> FALSE,
               closed |-> FALSE,
               flowPaused |-> FALSE, backpressurePaused |-> FALSE]

NoSession == [listed |-> FALSE, client |-> None, server |-> None, timer |-> FALSE]

Init ==
    /\ relay = [session |-> NoSession,
                socket |-> [w \in Sockets |-> "none"],
                endpoint |-> [w \in Sockets |-> NoEndpoint]]
    /\ failed = {} /\ sent = [w \in Sockets |-> 0]
    /\ got = [w \in Sockets |-> <<>>] /\ flushed = [w \in Sockets |-> 0]
    /\ asks = [w \in Sockets |-> FALSE] /\ heard = [w \in Sockets |-> FALSE]

-----------------------------------------------------------------------------
(* The relay's helpers, as functions of its state.                         *)

peer(r, w) == r.endpoint[w].peer

\* webSocket.close(): the close frame is sent, the handshake begins.
Shut(r, w) ==
    IF r.socket[w] = "open" THEN [r EXCEPT !.socket[w] = "closing"] ELSE r

\* The endpoint can be sent to.
Reachable(r, w) ==
    /\ peer(r, w) # None
    /\ ~r.endpoint[peer(r, w)].closed /\ r.socket[peer(r, w)] = "open"

\* updateLocalReadState: the WebSocket is read.
Reads(w) ==
    /\ relay.socket[w] \in {"open", "closing"}
    /\ ~relay.endpoint[w].flowPaused /\ ~relay.endpoint[w].backpressurePaused

Unlisted(r) ==
    IF r.session.client = None /\ r.session.server = None
    THEN [r EXCEPT !.session = NoSession] ELSE r

Vacated(r, w) ==
    IF r.session[role(w)] = w
    THEN [r EXCEPT !.session = [@ EXCEPT ![role(w)] = None]] ELSE r

\* Variant: only the endpoint that observed the close gives up its role.
removeEndpointMutant(r, w) ==
    IF r.endpoint[w].closed THEN r
    ELSE LET own == Vacated([r EXCEPT !.endpoint[w].closed = TRUE,
                                      !.endpoint[w].peer = None], w)
             p == peer(r, w)
         IN  Unlisted(IF p = None THEN own
                      ELSE Shut([own EXCEPT !.endpoint[p].peer = None,
                                            !.endpoint[p].closed = TRUE], p))

removeEndpoint(r, w) ==
    IF r.endpoint[w].closed THEN r
    ELSE LET own == Vacated([r EXCEPT !.endpoint[w].closed = TRUE,
                                      !.endpoint[w].peer = None], w)
             p == peer(r, w)
         IN  Unlisted(IF p = None THEN own
                      ELSE Shut(Vacated([own EXCEPT !.endpoint[p].peer = None,
                                                    !.endpoint[p].closed = TRUE], p), p))

\* closeLocalTunnelSession: whatever session has the id now.
closeLocalTunnelSession(r) ==
    LET members == {r.session.client, r.session.server} \ {None}
    IN  [session |-> NoSession,
         socket |-> [w \in Sockets |->
             IF w \in members /\ r.socket[w] = "open" THEN "closing" ELSE r.socket[w]],
         endpoint |-> [w \in Sockets |->
             IF w \in members
             THEN [r.endpoint[w] EXCEPT !.closed = TRUE, !.peer = None]
             ELSE r.endpoint[w]]]

-----------------------------------------------------------------------------
(* Joining.                                                                *)

\* Variant: a peer that joins later gets what is sent from then on.
HandedOverMutant(r, w) == <<>>

\* The frames that were held for the peer of w.
HandedOver(r, w) == IF Reachable(r, w) THEN r.endpoint[w].pending ELSE <<>>

Joined(r, w) ==
    [r EXCEPT !.session = IF @.listed THEN [@ EXCEPT ![role(w)] = w]
                          ELSE [NoSession EXCEPT !.listed = TRUE, !.timer = TRUE,
                                                 ![role(w)] = w]]

\* The second endpoint: both are told, then get what was held for them.
Paired(r) ==
    LET c == r.session.client
        s == r.session.server
    IN  [r EXCEPT !.session.timer = FALSE, !.endpoint[c].peer = s,
                  !.endpoint[s].peer = c]

\* The connect message arrives: registerLocalTunnel.  A role that is taken, also
\* by a socket that is closing, is refused with closeSelf; a WebSocket that was
\* refused has no endpoint, and nothing depends on its end.
Register(w) ==
    /\ relay.socket[w] = "none"
    /\ LET opened == [relay EXCEPT !.socket[w] = "open"]
           joined == Joined(opened, w)
           paired == Paired(joined)
           c == joined.session.client
           s == joined.session.server
       IN  \/ /\ relay.session[role(w)] # None
              /\ relay' = [relay EXCEPT !.socket[w] = "closed",
                                        !.endpoint[w].closed = TRUE]
              /\ UNCHANGED got
           \/ /\ relay.session[role(w)] = None /\ None \in {c, s}
              /\ relay' = joined
              /\ UNCHANGED got
           \/ /\ relay.session[role(w)] = None /\ None \notin {c, s}
              /\ relay' = [paired EXCEPT
                     !.endpoint[c].pending = IF Reachable(paired, c) THEN <<>> ELSE @,
                     !.endpoint[s].pending = IF Reachable(paired, s) THEN <<>> ELSE @,
                     !.endpoint[c].held = Len(HandedOver(paired, s)),
                     !.endpoint[s].held = Len(HandedOver(paired, c))]
              /\ got' = [got EXCEPT ![s] = HandedOver(paired, c),
                                    ![c] = HandedOver(paired, s)]
    /\ UNCHANGED <<failed, sent, flushed, asks, heard>>

-----------------------------------------------------------------------------
(* A joined WebSocket's messages.                                          *)

Buffered(w) == Len(got[w]) - flushed[w]

\* A data frame: held until there is a peer, or sent to it.  A full peer stops
\* the sender's WebSocket.
Frame(w) ==
    /\ Reads(w) /\ sent[w] < MaxFrames(w)
    /\ LET frame == <<w, sent[w] + 1>>
           p == peer(relay, w)
       IN  IF Reachable(relay, w)
           THEN /\ got' = [got EXCEPT ![p] = Append(@, frame)]
                /\ relay' = [relay EXCEPT !.endpoint[w].backpressurePaused =
                                 @ \/ Buffered(p) + 1 >= HighWater]
           ELSE /\ relay' = IF Len(relay.endpoint[w].pending) >= MaxPending
                            THEN Shut([relay EXCEPT !.endpoint[w].dropped = TRUE], w)
                            ELSE [relay EXCEPT !.endpoint[w].pending =
                                      Append(@, frame)]
                /\ UNCHANGED got
    /\ sent' = [sent EXCEPT ![w] = @ + 1]
    /\ UNCHANGED <<failed, flushed, asks, heard>>

\* A flow message: the peer's WebSocket stops or goes on being read.
Flow(w) ==
    /\ Reads(w) /\ asks[w] # heard[w]
    /\ relay' = IF Reachable(relay, w)
                THEN [relay EXCEPT !.endpoint[peer(relay, w)].flowPaused = asks[w]]
                ELSE Shut(relay, w)
    /\ heard' = [heard EXCEPT ![w] = asks[w]]
    /\ UNCHANGED <<failed, sent, got, flushed, asks>>

Sends(w) == relay.socket[w] \in {"open", "closing", "leaving"}

\* Variant: the pause is not lifted.
SendCallbackMutant(w) ==
    /\ Sends(w) /\ Buffered(w) > 0
    /\ flushed' = [flushed EXCEPT ![w] = @ + 1]
    /\ UNCHANGED <<relay, failed, sent, got, asks, heard>>

\* A frame has left the WebSocket of w; unless it was held before the pairing,
\* its sender may be read again.
SendCallback(w) ==
    /\ Sends(w) /\ Buffered(w) > 0
    /\ flushed' = [flushed EXCEPT ![w] = @ + 1]
    /\ LET from == got[w][flushed'[w]][1]
       IN  relay' = IF flushed'[w] <= relay.endpoint[w].held THEN relay
                    ELSE [relay EXCEPT !.endpoint[from].backpressurePaused =
                              @ /\ Buffered(w) - 1 >= HighWater]
    /\ UNCHANGED <<failed, sent, got, asks, heard>>

\* The callback of a send that failed, which may belong to an earlier pair.
SendFailed(w) ==
    /\ w \in failed /\ failed' = failed \ {w}
    /\ relay' = IF relay.session.listed THEN closeLocalTunnelSession(relay) ELSE relay
    /\ UNCHANGED <<sent, got, flushed, asks, heard>>

\* Nobody takes the other role in localTunnelWaitMs.
Timeout ==
    /\ relay.session.timer
    /\ relay' = closeLocalTunnelSession(relay)
    /\ UNCHANGED <<failed, sent, got, flushed, asks, heard>>

-----------------------------------------------------------------------------
(* The sockets' ends.                                                      *)

\* The browser's close frame is read, and nothing after it.
BrowserCloses(w) ==
    /\ Reads(w)
    /\ relay' = [relay EXCEPT !.socket[w] = "leaving"]
    /\ UNCHANGED <<failed, sent, got, flushed, asks, heard>>

\* The WebSocket's "error": a frame that breaks the protocol.
ProtocolError(w) ==
    /\ Reads(w)
    /\ relay' = removeEndpoint([relay EXCEPT !.socket[w] = "leaving"], w)
    /\ UNCHANGED <<failed, sent, got, flushed, asks, heard>>

\* Nothing more is read from the WebSocket or sent to it: the history kept of
\* it has served.
Forget(w) ==
    /\ sent' = [sent EXCEPT ![w] = 0] /\ got' = [got EXCEPT ![w] = <<>>]
    /\ flushed' = [flushed EXCEPT ![w] = 0]
    /\ asks' = [asks EXCEPT ![w] = FALSE] /\ heard' = [heard EXCEPT ![w] = FALSE]

\* The TCP connection is lost; pending sends fail unless the system holds them.
Dies(w) ==
    /\ Sends(w)
    /\ relay' = [relay EXCEPT !.socket[w] = "dead"]
    /\ failed' \in {failed} \cup {failed \cup {v} : v \in {x \in {w} : Buffered(x) > 0}}
    /\ Forget(w)

\* The library gives a close handshake 30 s.
HandshakeTimeout(w) == relay.socket[w] # "open" /\ Dies(w)

\* The "close" event, after the handshake or the loss of the connection.
CloseEvent(w) ==
    /\ \/ relay.socket[w] = "dead" /\ w \notin failed
       \/ relay.socket[w] = "closing" /\ Reads(w) /\ Buffered(w) = 0
       \/ relay.socket[w] = "leaving" /\ Buffered(w) = 0
    /\ relay' = [removeEndpoint(relay, w) EXCEPT
                     !.socket[w] = "closed",
                     !.endpoint[w] = [NoEndpoint EXCEPT !.closed = TRUE,
                                         !.dropped = relay.endpoint[w].dropped]]
    /\ Forget(w)
    /\ UNCHANGED failed

\* What ends a socket that is not open.
Ends(w) == HandshakeTimeout(w) \/ SendFailed(w) \/ CloseEvent(w)

\* A browser that was told it is connected asks for a pause, or for its end.
Asks(w) ==
    /\ relay.socket[w] = "open" /\ (peer(relay, w) # None \/ asks[w])
    /\ asks' = [asks EXCEPT ![w] = ~@]
    /\ UNCHANGED <<relay, failed, sent, got, flushed, heard>>

AsksForMore(w) == asks[w] /\ Asks(w)

Next ==
    \/ Timeout
    \/ \E w \in Sockets :
          \/ Register(w) \/ Frame(w) \/ Flow(w) \/ SendCallback(w) \/ SendFailed(w)
          \/ BrowserCloses(w) \/ ProtocolError(w) \/ Dies(w) \/ CloseEvent(w)
          \/ Asks(w)

Spec == Init /\ [][Next]_vars

\* Callbacks and timers run, sockets that are read deliver what is there, frames
\* leave a WebSocket, and a browser that asked for a pause ends it: it consumes
\* what it has (BrowserInbound).  No browser has to send, or to leave.
FairSpec ==
    /\ Spec /\ WF_vars(Timeout)
    /\ \A w \in Sockets :
          /\ SF_vars(Flow(w)) /\ WF_vars(AsksForMore(w))
          /\ WF_vars(SendCallback(w)) /\ WF_vars(Ends(w))

-----------------------------------------------------------------------------
(* Properties.                                                             *)

TypeOK ==
    /\ relay.session \in [listed : BOOLEAN, client : Clients \cup {None},
                           server : Servers \cup {None}, timer : BOOLEAN]
    /\ relay.socket \in
          [Sockets -> {"none", "open", "closing", "leaving", "dead", "closed"}]
    /\ \A w \in Sockets :
          /\ peer(relay, w) \in Sockets \cup {None}
          /\ Len(relay.endpoint[w].pending) <= MaxPending
          /\ sent[w] \in 0 .. MaxFrames(w) /\ flushed[w] \in 0 .. Len(got[w])
          /\ relay.endpoint[w].held \in 0 .. MaxPending
    /\ failed \subseteq Sockets
    /\ asks \in [Sockets -> BOOLEAN] /\ heard \in [Sockets -> BOOLEAN]

Live(w) == relay.socket[w] \notin {"none", "closed"} /\ ~relay.endpoint[w].closed

\* The session map holds a session exactly while a live endpoint has a role in
\* it, an endpoint has its role exactly while it is live, two endpoints are each
\* other's peers exactly while both roles are taken, and the timer runs exactly
\* while one is: whichever of close, error, failed send and timeout of either
\* socket came first, also when sockets of an earlier pair are still closing.
SessionIsSound ==
    LET session == relay.session
        members == {session.client, session.server} \ {None}
    IN  /\ TypeOK
        /\ members = {w \in Sockets : Live(w)}
        /\ session.listed <=> members # {}
        /\ session.timer <=> Cardinality(members) = 1
        /\ \A w \in Sockets : peer(relay, w) =
              IF w \in members /\ Cardinality(members) = 2
              THEN CHOOSE v \in members : v # w ELSE None

Numbered(w, n) == [i \in 1 .. n |-> <<w, i>>]

\* What a WebSocket is given are the frames of one browser, from its first, in
\* order, those held before the pairing included; none is left out while both
\* ends of the pair are open.  (Excepted is a browser that sent more than may be
\* held: until its close is complete its later frames may still be forwarded.)
PairIsOrdered ==
    /\ \A w \in Sockets : \E v \in Sockets :
          /\ \A i \in 1 .. Len(got[w]) : got[w][i][1] = v
          /\ relay.endpoint[v].dropped \/ got[w] = Numbered(v, Len(got[w]))
    /\ \A w \in Sockets : relay.socket[w] = "open" =>
          IF Reachable(relay, w)
          THEN Len(got[peer(relay, w)]) = sent[w] /\ relay.endpoint[w].pending = <<>>
          ELSE Live(w) /\ peer(relay, w) = None =>
                 relay.endpoint[w].pending = Numbered(w, sent[w])

\* A browser waits for its peer to be found, or for the relay to read it again,
\* or for its close to complete.
Waits(w) ==
    \/ Sends(w) /\ ~Reads(w)
    \/ Live(w) /\ peer(relay, w) = None
    \/ relay.socket[w] \in {"closing", "leaving", "dead"}

\* No browser waits for ever: one that is alone is sent away, one that was
\* stopped is read again or closed.  The browser that stopped the other can
\* always be heard, although the flow messages of a WebSocket that is stopped
\* are not read either.
Progress == \A w \in Sockets : []<>~Waits(w)
=============================================================================
