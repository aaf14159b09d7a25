--------------------------- MODULE LocalTunnel_proofs ---------------------------
(* Proofs about LocalTunnel, for every set of clients and servers and every *)
(* bound on the frames that are sent and held.                              *)
EXTENDS LocalTunnel, FiniteSetTheorems, TLAPS

-----------------------------------------------------------------------------
(* The inductive invariant.                                                *)

\* The parts of the relay's state.
Frames == Sockets \X Nat
SocketStates == {"none", "open", "closing", "leaving", "dead", "closed"}
Session == [listed : BOOLEAN, client : Clients \cup {None},
            server : Servers \cup {None}, timer : BOOLEAN]
Endpoint == [peer : Sockets \cup {None}, pending : Seq(Frames), held : 0 .. MaxPending,
             dropped : BOOLEAN, closed : BOOLEAN,
             flowPaused : BOOLEAN, backpressurePaused : BOOLEAN]
RelayState == [session : Session, socket : [Sockets -> SocketStates],
               endpoint : [Sockets -> Endpoint]]

\* The histories and counters, whatever the relay's state is.
Typed ==
    /\ relay \in RelayState
    /\ \A w \in Sockets : Len(relay.endpoint[w].pending) <= MaxPending
    /\ failed \subseteq Sockets
    /\ sent \in [Sockets -> Nat] /\ flushed \in [Sockets -> Nat]
    /\ \A w \in Sockets : sent[w] <= MaxFrames(w)
    /\ got \in [Sockets -> Seq(Frames)]
    /\ \A w \in Sockets : flushed[w] <= Len(got[w])
    /\ asks \in [Sockets -> BOOLEAN] /\ heard \in [Sockets -> BOOLEAN]

\* Live, the roles and the peers of any state of the relay.
LiveIn(r, w) == r.socket[w] \notin {"none", "closed"} /\ ~r.endpoint[w].closed
Member(r, w) == w = r.session.client \/ w = r.session.server
Partner(r, w) == IF w = r.session.client THEN r.session.server
                 ELSE IF w = r.session.server THEN r.session.client ELSE None

\* The session and the endpoints of a relay state agree.
Agreed(r) ==
    /\ r.session.listed <=> (r.session.client # None \/ r.session.server # None)
    /\ r.session.timer <=> ((r.session.client = None) # (r.session.server = None))
    /\ \A w \in Sockets :
          /\ Member(r, w) <=> LiveIn(r, w)
          /\ peer(r, w) = Partner(r, w)
          /\ r.socket[w] = "none" => r.endpoint[w] = NoEndpoint
          /\ r.socket[w] = "closed" => r.endpoint[w].closed

\* What w was given are frames of v, in order unless v overran its limit.
From(v, w) ==
    /\ \A i \in 1 .. Len(got[w]) : got[w][i][1] = v
    /\ relay.endpoint[v].dropped \/ got[w] = Numbered(v, Len(got[w]))

\* Frames of w may still be read.
Reading(w) == relay.socket[w] \in {"open", "closing"}
\* An endpoint that waits holds all its browser has sent; one with a peer has
\* sent it all, as long as the peer can be sent to.  A browser that overran its
\* limit is being closed and holds as much as it may.
OrderedAt(w) ==
    /\ relay.endpoint[w].dropped => relay.socket[w] # "open"
    /\ relay.socket[w] = "none" => sent[w] = 0 /\ got[w] = <<>>
    /\ \E v \in Sockets : From(v, w)
    /\ LiveIn(relay, w) /\ peer(relay, w) = None =>
         /\ got[w] = <<>>
         /\ relay.endpoint[w].pending = Numbered(w, Len(relay.endpoint[w].pending))
         /\ Reading(w) /\ ~relay.endpoint[w].dropped =>
              Len(relay.endpoint[w].pending) = sent[w]
         /\ relay.endpoint[w].dropped => Len(relay.endpoint[w].pending) >= MaxPending
    /\ \A v \in Sockets : peer(relay, w) = v =>
         /\ From(v, w)
         /\ relay.socket[v] = "open" /\ Reading(w) /\ ~relay.endpoint[w].dropped =>
              Len(got[v]) = sent[w] /\ relay.endpoint[w].pending = <<>>
Ordered == \A w \in Sockets : OrderedAt(w)

Inv == Typed /\ Agreed(relay) /\ Ordered

(* Every operator of the relay's state, as what it does to the parts.      *)

\* A socket has one role, and None is no socket.
LEMMA RolesApart ==
    /\ \A c \in Clients : c \in Sockets /\ c \notin Servers /\ c # None /\ role(c) = "client"
    /\ \A s \in Servers : s \in Sockets /\ s \notin Clients /\ s # None /\ role(s) = "server"
    /\ None \notin Sockets
  BY LocalTunnelAssumption DEF Sockets, role

\* The endpoint of a new socket is well formed.
LEMMA NoEndpointTyped == NoEndpoint \in Endpoint
  <1>1. <<>> \in Seq(Frames)
    OBVIOUS
  <1>2. 0 \in 0 .. MaxPending
    BY LocalTunnelAssumption
  <1> QED  BY <1>1, <1>2 DEF NoEndpoint, Endpoint

\* The absent session is well formed.
LEMMA NoSessionTyped == NoSession \in Session
  BY DEF NoSession, Session

\* Shut closes one open WebSocket.
Halted(r, w, x) == IF x = w /\ r.socket[w] = "open" THEN "closing" ELSE r.socket[x]
\* Shut changes the state of one open WebSocket only.
LEMMA ShutEffect ==
    ASSUME NEW r \in RelayState, NEW w \in Sockets
    PROVE  /\ Shut(r, w) \in RelayState
           /\ Shut(r, w).session = r.session
           /\ Shut(r, w).endpoint = r.endpoint
           /\ \A x \in Sockets : Shut(r, w).socket[x] = Halted(r, w, x)
  BY DEF Shut, RelayState, SocketStates, Halted

\* Replacing one endpoint leaves the others, the sockets and the session.
LEMMA EndpointPut ==
    ASSUME NEW r \in RelayState, NEW w \in Sockets, NEW e \in Endpoint
    PROVE  /\ [r EXCEPT !.endpoint[w] = e] \in RelayState
           /\ [r EXCEPT !.endpoint[w] = e].session = r.session
           /\ [r EXCEPT !.endpoint[w] = e].socket = r.socket
           /\ \A x \in Sockets : [r EXCEPT !.endpoint[w] = e].endpoint[x] =
                                   IF x = w THEN e ELSE r.endpoint[x]
  BY DEF RelayState

\* Replacing one socket's state leaves the others, the endpoints and the session.
LEMMA SocketPut ==
    ASSUME NEW r \in RelayState, NEW w \in Sockets, NEW s \in SocketStates
    PROVE  /\ [r EXCEPT !.socket[w] = s] \in RelayState
           /\ [r EXCEPT !.socket[w] = s].session = r.session
           /\ [r EXCEPT !.socket[w] = s].endpoint = r.endpoint
           /\ \A x \in Sockets : [r EXCEPT !.socket[w] = s].socket[x] =
                                   IF x = w THEN s ELSE r.socket[x]
  BY DEF RelayState

\* closed and peer of one endpoint.
Gone(e) == [e EXCEPT !.closed = TRUE, !.peer = None]
\* An endpoint that is closed keeps its frames and has no peer.
LEMMA GoneTyped ==
    ASSUME NEW e \in Endpoint
    PROVE  /\ Gone(e) \in Endpoint
           /\ Gone(e).closed /\ Gone(e).peer = None
           /\ Gone(e).pending = e.pending /\ Gone(e).dropped = e.dropped
  BY Zenon DEF Gone, Endpoint

\* closeLocalTunnelSession closes both members and drops the session.
LEMMA CloseEffect ==
    ASSUME NEW r \in RelayState
    PROVE  /\ closeLocalTunnelSession(r) \in RelayState
           /\ closeLocalTunnelSession(r).session = NoSession
           /\ \A x \in Sockets :
                /\ closeLocalTunnelSession(r).socket[x] =
                     IF Member(r, x) /\ r.socket[x] = "open" THEN "closing" ELSE r.socket[x]
                /\ closeLocalTunnelSession(r).endpoint[x] =
                     IF Member(r, x) THEN Gone(r.endpoint[x]) ELSE r.endpoint[x]
  <1>1. \A x \in Sockets : x \in {r.session.client, r.session.server} \ {None} <=> Member(r, x)
    BY RolesApart DEF Member
  <1>2. \A x \in Sockets : Gone(r.endpoint[x]) \in Endpoint
    BY GoneTyped DEF RelayState
  <1>3. NoSession \in Session
    BY NoSessionTyped
  <1>4. \A x \in Sockets : Gone(r.endpoint[x]) = [r.endpoint[x] EXCEPT !.closed = TRUE, !.peer = None]
    BY DEF Gone
  <1> DEFINE sockets == [x \in Sockets |->
               IF Member(r, x) /\ r.socket[x] = "open" THEN "closing" ELSE r.socket[x]]
             endpoints == [x \in Sockets |->
               IF Member(r, x) THEN Gone(r.endpoint[x]) ELSE r.endpoint[x]]
  <1>5. closeLocalTunnelSession(r) =
          [session |-> NoSession, socket |-> sockets, endpoint |-> endpoints]
    BY <1>1, <1>4, Zenon DEF closeLocalTunnelSession
  <1>6. sockets \in [Sockets -> SocketStates]
    BY DEF RelayState, SocketStates
  <1>7. endpoints \in [Sockets -> Endpoint]
    BY <1>2 DEF RelayState
  <1> HIDE DEF sockets, endpoints
  <1>8. closeLocalTunnelSession(r) \in RelayState
    BY <1>3, <1>5, <1>6, <1>7 DEF RelayState
  <1> QED  BY <1>5, <1>8 DEF sockets, endpoints

\* Vacated takes the role of one socket.
LEMMA VacatedEffect ==
    ASSUME NEW r \in RelayState, NEW w \in Sockets
    PROVE  /\ Vacated(r, w) \in RelayState
           /\ Vacated(r, w).socket = r.socket
           /\ Vacated(r, w).endpoint = r.endpoint
           /\ Vacated(r, w).session.client =
                IF r.session.client = w THEN None ELSE r.session.client
           /\ Vacated(r, w).session.server =
                IF r.session.server = w THEN None ELSE r.session.server
           /\ Vacated(r, w).session.listed = r.session.listed
           /\ Vacated(r, w).session.timer = r.session.timer
  <1>1. CASE w \in Clients
    <2>1. role(w) = "client" /\ r.session.server # w
      BY <1>1, RolesApart DEF RelayState, Session
    <2> QED  BY <2>1, <1>1 DEF Vacated, RelayState, Session
  <1>2. CASE w \in Servers
    <2>1. role(w) = "server" /\ r.session.client # w
      BY <1>2, RolesApart DEF RelayState, Session
    <2> QED  BY <2>1, <1>2 DEF Vacated, RelayState, Session
  <1> QED  BY <1>1, <1>2 DEF Sockets

\* Unlisted drops a session without members.
LEMMA UnlistedEffect ==
    ASSUME NEW r \in RelayState
    PROVE  /\ Unlisted(r) \in RelayState
           /\ Unlisted(r).socket = r.socket
           /\ Unlisted(r).endpoint = r.endpoint
           /\ Unlisted(r).session =
                IF r.session.client = None /\ r.session.server = None
                THEN NoSession ELSE r.session
  BY NoSessionTyped DEF Unlisted, RelayState

(* What a step that only closes may change, and what it keeps.             *)

WeakerAt(r, q, x) ==
    /\ q.endpoint[x].pending = r.endpoint[x].pending
    /\ q.endpoint[x].dropped = r.endpoint[x].dropped
    /\ q.socket[x] = "none" <=> r.socket[x] = "none"
    /\ q.socket[x] = "open" => r.socket[x] = "open"
    /\ q.socket[x] \in {"open", "closing"} => r.socket[x] \in {"open", "closing"}
    /\ \/ peer(q, x) = peer(r, x) /\ (LiveIn(q, x) => LiveIn(r, x))
       \/ peer(q, x) = None /\ ~LiveIn(q, x)
Weaker(r, q) == \A x \in Sockets : WeakerAt(r, q, x)

\* A session whose two ends are closed with it leaves an agreed state.
LEMMA EndsSession ==
    ASSUME NEW r \in RelayState, Agreed(r), NEW q \in RelayState,
           q.session = NoSession,
           \A x \in Sockets : q.endpoint[x] =
             IF Member(r, x) THEN Gone(r.endpoint[x]) ELSE r.endpoint[x],
           \A x \in Sockets : q.socket[x] = r.socket[x]
                              \/ (r.socket[x] = "open" /\ q.socket[x] = "closing")
    PROVE  Agreed(q) /\ Weaker(r, q)
  <1>1. q.session.client = None /\ q.session.server = None
        /\ ~q.session.listed /\ ~q.session.timer
    BY DEF NoSession
  <1>2. ASSUME NEW x \in Sockets
        PROVE  /\ ~Member(q, x) /\ ~LiveIn(q, x)
               /\ peer(q, x) = None /\ Partner(q, x) = None
               /\ q.socket[x] = "none" => q.endpoint[x] = NoEndpoint
               /\ q.socket[x] = "closed" => q.endpoint[x].closed
    <2>1. ~Member(q, x) /\ Partner(q, x) = None
      BY <1>1, RolesApart DEF Member, Partner
    <2>2. CASE Member(r, x)
      <3>1. q.endpoint[x] = Gone(r.endpoint[x])
        BY <2>2
      <3>2. q.endpoint[x].closed /\ q.endpoint[x].peer = None
        BY <3>1, GoneTyped DEF RelayState
      <3>3. q.socket[x] # "none"
        BY <2>2 DEF Agreed, LiveIn
      <3> QED  BY <2>1, <3>2, <3>3 DEF LiveIn, peer
    <2>3. CASE ~Member(r, x)
      <3>1. q.endpoint[x] = r.endpoint[x] /\ ~LiveIn(r, x)
        BY <2>3 DEF Agreed
      <3>2. peer(r, x) = None
        BY <2>3 DEF Agreed, Partner, Member
      <3>3. /\ r.socket[x] = "none" => r.endpoint[x] = NoEndpoint
            /\ r.socket[x] = "closed" => r.endpoint[x].closed
        BY DEF Agreed
      <3>4. /\ q.socket[x] = "none" => r.socket[x] = "none"
            /\ q.socket[x] = "closed" => r.socket[x] = "closed"
            /\ q.socket[x] \notin {"none", "closed"} => r.socket[x] \notin {"none", "closed"}
        OBVIOUS
      <3>5. ~LiveIn(q, x)
        BY <3>1, <3>4 DEF LiveIn
      <3> QED  BY <2>1, <3>1, <3>2, <3>3, <3>4, <3>5 DEF peer
    <2> QED  BY <2>2, <2>3
  <1>3. Agreed(q)
    BY <1>1, <1>2 DEF Agreed
  <1>4. ASSUME NEW x \in Sockets
        PROVE  /\ q.endpoint[x].pending = r.endpoint[x].pending
               /\ q.endpoint[x].dropped = r.endpoint[x].dropped
    BY GoneTyped DEF RelayState
  <1>5. Weaker(r, q)
    BY <1>2, <1>4, Zenon DEF Weaker, WeakerAt
  <1> QED  BY <1>3, <1>5

\* closeLocalTunnelSession keeps sessions and endpoints agreed, and only closes.
LEMMA ClosedAgrees ==
    ASSUME NEW r \in RelayState, Agreed(r)
    PROVE  /\ closeLocalTunnelSession(r) \in RelayState
           /\ Agreed(closeLocalTunnelSession(r))
           /\ Weaker(r, closeLocalTunnelSession(r))
  BY CloseEffect, EndsSession

\* removeEndpoint does so too, and closes the endpoint it is given.
LEMMA RemoveAgrees ==
    ASSUME NEW r \in RelayState, Agreed(r), NEW w \in Sockets, r.socket[w] # "none"
    PROVE  /\ removeEndpoint(r, w) \in RelayState
           /\ Agreed(removeEndpoint(r, w))
           /\ Weaker(r, removeEndpoint(r, w))
           /\ removeEndpoint(r, w).endpoint[w].closed
           /\ removeEndpoint(r, w).socket[w] = r.socket[w]
  <1> DEFINE q == removeEndpoint(r, w)
             p == peer(r, w)
             one == [r EXCEPT !.endpoint[w] = Gone(r.endpoint[w])]
             own == Vacated(one, w)
             two == [own EXCEPT !.endpoint[p] = Gone(own.endpoint[p])]
             both == Shut(Vacated(two, p), p)
  <1>1. CASE r.endpoint[w].closed
    <2>1. q = r
      BY <1>1 DEF removeEndpoint
    <2>2. Weaker(r, r)
      BY DEF Weaker, WeakerAt
    <2> QED  BY <1>1, <2>1, <2>2
  <1>2. CASE ~r.endpoint[w].closed
    <2>1. LiveIn(r, w) /\ Member(r, w) /\ p = Partner(r, w)
      BY <1>2 DEF LiveIn, Agreed
    <2>2. one = [r EXCEPT !.endpoint[w].closed = TRUE, !.endpoint[w].peer = None]
      BY Zenon DEF Gone, RelayState, Endpoint
    <2>3. q = Unlisted(IF p = None THEN own ELSE both)
      <3>1. q = Unlisted(IF p = None THEN own
                         ELSE Shut(Vacated([own EXCEPT !.endpoint[p].peer = None,
                                              !.endpoint[p].closed = TRUE], p), p))
        <4> DEFINE raw == [r EXCEPT !.endpoint[w].closed = TRUE, !.endpoint[w].peer = None]
                   F(o) == Unlisted(IF p = None THEN o
                             ELSE Shut(Vacated([o EXCEPT !.endpoint[p].peer = None,
                                                         !.endpoint[p].closed = TRUE], p), p))
        <4>1. q = F(Vacated(raw, w))
          BY <1>2, Zenon DEF removeEndpoint
        <4>2. raw = one
          BY <2>2
        <4> HIDE DEF raw, one, F, q
        <4>3. q = F(own)
          BY <4>1, <4>2
        <4> QED  BY <4>3 DEF F
      <3>2. p \in Sockets \cup {None}
        BY DEF RelayState, Endpoint, peer
      <3>3. Gone(r.endpoint[w]) \in Endpoint
        BY GoneTyped DEF RelayState
      <3>4. own \in RelayState
        BY <3>3, EndpointPut, VacatedEffect
      <3> HIDE DEF own
      <3>5. CASE p # None
        <4>1. [own EXCEPT !.endpoint[p].peer = None, !.endpoint[p].closed = TRUE] = two
          BY <3>2, <3>4, <3>5, Zenon DEF Gone, RelayState, Endpoint
        <4> QED  BY <3>1, <4>1, Zenon
      <3> QED  BY <3>1, <3>5, Zenon
    <2>4. Gone(r.endpoint[w]) \in Endpoint
      BY GoneTyped DEF RelayState
    <2>5. /\ one \in RelayState /\ one.session = r.session /\ one.socket = r.socket
          /\ \A x \in Sockets : one.endpoint[x] =
               IF x = w THEN Gone(r.endpoint[w]) ELSE r.endpoint[x]
      BY <2>4, EndpointPut
    <2> HIDE DEF one
    <2>6. /\ own \in RelayState /\ own.socket = r.socket /\ own.endpoint = one.endpoint
          /\ own.session.client = IF r.session.client = w THEN None ELSE r.session.client
          /\ own.session.server = IF r.session.server = w THEN None ELSE r.session.server
      BY <2>5, VacatedEffect
    <2> HIDE DEF own
    <2>7. CASE p = None
      <3>1. own.session.client = None /\ own.session.server = None
        BY <2>1, <2>6, <2>7, RolesApart DEF Member, Partner, RelayState, Session
      <3>2. /\ q \in RelayState /\ q.socket = r.socket /\ q.endpoint = one.endpoint
            /\ q.session = NoSession
        BY <2>3, <2>6, <2>7, <3>1, UnlistedEffect
      <3>3. \A x \in Sockets : x = w <=> Member(r, x)
        BY <2>1, <2>7, RolesApart DEF Member, Partner, RelayState, Session
      <3>4. \A x \in Sockets : q.endpoint[x] =
              IF Member(r, x) THEN Gone(r.endpoint[x]) ELSE r.endpoint[x]
        BY <2>5, <3>2, <3>3
      <3>5. Agreed(q) /\ Weaker(r, q)
        <4> HIDE DEF q
        <4> QED  BY <3>2, <3>4, EndsSession
      <3>6. q.endpoint[w].closed
        BY <2>1, <3>4, GoneTyped DEF RelayState
      <3> QED  BY <3>2, <3>5, <3>6
    <2>8. CASE p # None
      <3>1. p \in Sockets /\ p # w
        BY <2>1, <2>8, RolesApart DEF Partner, Member, RelayState, Session
      <3>2. Gone(own.endpoint[p]) \in Endpoint
        BY <2>6, <3>1, GoneTyped DEF RelayState
      <3>3. /\ two \in RelayState /\ two.session = own.session /\ two.socket = r.socket
            /\ \A x \in Sockets : two.endpoint[x] =
                 IF x = p THEN Gone(own.endpoint[p]) ELSE own.endpoint[x]
        BY <2>6, <3>1, <3>2, EndpointPut
      <3> DEFINE vac == Vacated(two, p)
      <3> HIDE DEF two
      <3>4. /\ vac \in RelayState /\ vac.socket = r.socket /\ vac.endpoint = two.endpoint
            /\ vac.session.client = IF own.session.client = p THEN None ELSE own.session.client
            /\ vac.session.server = IF own.session.server = p THEN None ELSE own.session.server
        BY <3>1, <3>3, VacatedEffect
      <3>5. vac.session.client = None /\ vac.session.server = None
        BY <2>1, <2>6, <2>8, <3>4, RolesApart DEF Member, Partner, RelayState, Session
      <3>6. /\ both \in RelayState /\ both.session = vac.session
            /\ both.endpoint = two.endpoint
            /\ \A x \in Sockets : both.socket[x] = Halted(vac, p, x)
        BY <3>1, <3>4, ShutEffect
      <3> HIDE DEF vac, both
      <3>7. /\ q \in RelayState /\ q.socket = both.socket /\ q.endpoint = two.endpoint
            /\ q.session = NoSession
        BY <2>3, <2>8, <3>5, <3>6, UnlistedEffect
      <3>8. \A x \in Sockets : (x = w \/ x = p) <=> Member(r, x)
        BY <2>1, <2>8, RolesApart DEF Member, Partner, RelayState, Session
      <3>9. \A x \in Sockets : q.endpoint[x] =
              IF Member(r, x) THEN Gone(r.endpoint[x]) ELSE r.endpoint[x]
        BY <2>5, <2>6, <3>1, <3>3, <3>7, <3>8
      <3>10. \A x \in Sockets : q.socket[x] = Halted(r, p, x)
        BY <3>4, <3>6, <3>7 DEF Halted
      <3>11. Agreed(q) /\ Weaker(r, q)
        <4> HIDE DEF q
        <4>1. \A x \in Sockets : q.socket[x] = r.socket[x]
                              \/ (r.socket[x] = "open" /\ q.socket[x] = "closing")
          BY <3>10 DEF Halted
        <4> QED  BY <3>7, <3>9, <4>1, EndsSession
      <3>12. q.endpoint[w].closed
        BY <2>1, <3>9, GoneTyped DEF RelayState
      <3>13. q.socket[w] = r.socket[w]
        BY <3>1, <3>10 DEF Halted
      <3> QED  BY <3>7, <3>11, <3>12, <3>13
    <2> QED  BY <2>7, <2>8
  <1> QED  BY <1>1, <1>2

(* The parts of an endpoint that change alone.                             *)

\* What the session depends on is as before.
SameEnds(r, q) ==
    /\ q.session = r.session
    /\ \A x \in Sockets :
         /\ q.endpoint[x].peer = r.endpoint[x].peer
         /\ q.endpoint[x].closed <=> r.endpoint[x].closed

\* So are the endpoints' frames.
SameFrames(r, q) ==
    \A x \in Sockets :
         /\ q.endpoint[x].pending = r.endpoint[x].pending
         /\ q.endpoint[x].dropped = r.endpoint[x].dropped

\* A flow message of the peer changes one flag.
LEMMA FlowPut ==
    ASSUME NEW r \in RelayState, NEW w \in Sockets, NEW b \in BOOLEAN
    PROVE  LET q == [r EXCEPT !.endpoint[w].flowPaused = b]
           IN  /\ q \in RelayState /\ q.socket = r.socket
               /\ SameEnds(r, q) /\ SameFrames(r, q)
               /\ \A x \in Sockets \ {w} : q.endpoint[x] = r.endpoint[x]
  BY ZenonT(60) DEF RelayState, Endpoint, SameEnds, SameFrames

\* Backpressure changes one flag.
LEMMA BackpressurePut ==
    ASSUME NEW r \in RelayState, NEW w \in Sockets, NEW b \in BOOLEAN
    PROVE  LET q == [r EXCEPT !.endpoint[w].backpressurePaused = b]
           IN  /\ q \in RelayState /\ q.socket = r.socket
               /\ SameEnds(r, q) /\ SameFrames(r, q)
               /\ \A x \in Sockets \ {w} : q.endpoint[x] = r.endpoint[x]
               /\ q.endpoint[w] = [r.endpoint[w] EXCEPT !.backpressurePaused = b]
  BY ZenonT(60) DEF RelayState, Endpoint, SameEnds, SameFrames

\* A refused frame is recorded and nothing else.
LEMMA DroppedPut ==
    ASSUME NEW r \in RelayState, NEW w \in Sockets
    PROVE  LET q == [r EXCEPT !.endpoint[w].dropped = TRUE]
           IN  /\ q \in RelayState /\ q.socket = r.socket
               /\ SameEnds(r, q)
               /\ \A x \in Sockets \ {w} : q.endpoint[x] = r.endpoint[x]
               /\ q.endpoint[w].dropped
               /\ q.endpoint[w].pending = r.endpoint[w].pending
  BY ZenonT(60) DEF RelayState, Endpoint, SameEnds

\* A held frame changes what its endpoint holds and nothing else.
LEMMA PendingPut ==
    ASSUME NEW r \in RelayState, NEW w \in Sockets, NEW s \in Seq(Frames)
    PROVE  LET q == [r EXCEPT !.endpoint[w].pending = s]
           IN  /\ q \in RelayState /\ q.socket = r.socket
               /\ SameEnds(r, q)
               /\ \A x \in Sockets \ {w} : q.endpoint[x] = r.endpoint[x]
               /\ q.endpoint[w].dropped = r.endpoint[w].dropped
               /\ q.endpoint[w].pending = s
  BY ZenonT(60) DEF RelayState, Endpoint, SameEnds

\* A step that leaves the ends alone keeps the session's agreement.
LEMMA KeepsAgreement ==
    ASSUME NEW r \in RelayState, Agreed(r), NEW q \in RelayState, SameEnds(r, q),
           \A x \in Sockets :
             /\ q.socket[x] = "none" <=> r.socket[x] = "none"
             /\ q.socket[x] = "closed" <=> r.socket[x] = "closed"
             /\ r.socket[x] = "none" => q.endpoint[x] = NoEndpoint
    PROVE  Agreed(q)
  <1>1. \A x \in Sockets : LiveIn(q, x) <=> LiveIn(r, x)
    BY DEF LiveIn, SameEnds
  <1>2. \A x \in Sockets : peer(q, x) = peer(r, x)
    BY DEF peer, SameEnds
  <1>3. \A x \in Sockets : (Member(q, x) <=> Member(r, x)) /\ Partner(q, x) = Partner(r, x)
    BY DEF Member, Partner, SameEnds
  <1>4. \A x \in Sockets : q.socket[x] = "closed" => q.endpoint[x].closed
    BY DEF SameEnds, Agreed
  <1>5. q.session = r.session
    BY DEF SameEnds
  <1>6. \A x \in Sockets : q.socket[x] = "none" => q.endpoint[x] = NoEndpoint
    OBVIOUS
  <1> QED  BY <1>1, <1>2, <1>3, <1>4, <1>5, <1>6 DEF Agreed

\* A step that leaves ends and frames alone only closes.
LEMMA KeepsWeaker ==
    ASSUME NEW r \in RelayState, NEW q \in RelayState, SameEnds(r, q), SameFrames(r, q),
           \A x \in Sockets :
             /\ q.socket[x] = "none" <=> r.socket[x] = "none"
             /\ q.socket[x] = "closed" <=> r.socket[x] = "closed"
             /\ q.socket[x] = "open" => r.socket[x] = "open"
             /\ q.socket[x] \in {"open", "closing"} => r.socket[x] \in {"open", "closing"}
    PROVE  Weaker(r, q)
  <1>1. \A x \in Sockets : LiveIn(q, x) <=> LiveIn(r, x)
    BY DEF LiveIn, SameEnds
  <1>2. \A x \in Sockets : peer(q, x) = peer(r, x)
    BY DEF peer, SameEnds
  <1> QED  BY <1>1, <1>2 DEF Weaker, WeakerAt, SameFrames

\* The frames of one endpoint stay in order while it only closes.
LEMMA KeepsOrderAt ==
    ASSUME NEW w \in Sockets, OrderedAt(w), WeakerAt(relay, relay', w),
           sent'[w] = sent[w], got'[w] = got[w],
           \A v \in Sockets : relay.endpoint[v].dropped => relay'.endpoint[v].dropped,
           \A v \in Sockets : relay'.socket[v] = "open" => relay.socket[v] = "open",
           \A v \in Sockets : peer(relay, w) = v /\ relay'.socket[v] = "open" =>
                              got'[v] = got[v]
    PROVE  OrderedAt(w)'
  <1>1. ASSUME NEW v \in Sockets, From(v, w)
        PROVE  From(v, w)'
    BY <1>1 DEF From, Numbered
  <1>2. /\ (relay.endpoint[w].dropped => relay.socket[w] # "open")'
        /\ (relay.socket[w] = "none" => sent[w] = 0 /\ got[w] = <<>>)'
    BY DEF OrderedAt, WeakerAt
  <1>3. (\E v \in Sockets : From(v, w))'
    BY <1>1 DEF OrderedAt
  <1>4. CASE peer(relay', w) = peer(relay, w) /\ (LiveIn(relay', w) => LiveIn(relay, w))
    <2>1. ASSUME LiveIn(relay', w), peer(relay', w) = None
          PROVE  /\ got'[w] = <<>>
                 /\ relay'.endpoint[w].pending = Numbered(w, Len(relay'.endpoint[w].pending))
                 /\ Reading(w)' /\ ~relay'.endpoint[w].dropped =>
                      Len(relay'.endpoint[w].pending) = sent'[w]
                 /\ relay'.endpoint[w].dropped => Len(relay'.endpoint[w].pending) >= MaxPending
      BY <1>4, <2>1 DEF OrderedAt, WeakerAt, Reading
    <2>2. ASSUME NEW v \in Sockets, peer(relay', w) = v
          PROVE  /\ From(v, w)'
                 /\ relay'.socket[v] = "open" /\ Reading(w)' /\ ~relay'.endpoint[w].dropped =>
                      Len(got'[v]) = sent'[w] /\ relay'.endpoint[w].pending = <<>>
      <3>1. peer(relay, w) = v /\ From(v, w)
        BY <1>4, <2>2 DEF OrderedAt
      <3>2. From(v, w)'
        BY <1>1, <3>1
      <3> QED  BY <3>1, <3>2 DEF OrderedAt, WeakerAt, Reading
    <2> QED  BY <1>2, <1>3, <2>1, <2>2, Zenon DEF OrderedAt
  <1>5. CASE peer(relay', w) = None /\ ~LiveIn(relay', w)
    BY <1>2, <1>3, <1>5, RolesApart, Zenon DEF OrderedAt
  <1> QED  BY <1>4, <1>5 DEF WeakerAt

\* So do the frames of all while nothing is sent.
LEMMA QuietStep ==
    ASSUME Inv, relay' \in RelayState, Agreed(relay'), Weaker(relay, relay'),
           UNCHANGED <<sent, got>>, failed' \subseteq Sockets,
           flushed' \in [Sockets -> Nat], \A w \in Sockets : flushed'[w] <= Len(got[w]),
           asks' \in [Sockets -> BOOLEAN], heard' \in [Sockets -> BOOLEAN]
    PROVE  Inv'
  <1>1. Typed'
    BY Zenon DEF Inv, Typed, Weaker, WeakerAt
  <1>2. ASSUME NEW w \in Sockets PROVE OrderedAt(w)'
    <2>1. OrderedAt(w) /\ WeakerAt(relay, relay', w)
      BY DEF Inv, Ordered, Weaker
    <2>2. /\ \A v \in Sockets : relay.endpoint[v].dropped => relay'.endpoint[v].dropped
          /\ \A v \in Sockets : relay'.socket[v] = "open" => relay.socket[v] = "open"
      BY DEF Weaker, WeakerAt
    <2>3. /\ sent'[w] = sent[w] /\ got'[w] = got[w]
          /\ \A v \in Sockets : peer(relay, w) = v /\ relay'.socket[v] = "open" =>
                                got'[v] = got[v]
      OBVIOUS
    <2> QED  BY <2>1, <2>2, <2>3, KeepsOrderAt, Zenon
  <1> QED  BY <1>1, <1>2 DEF Inv, Ordered

\* Peers are each other's peers, and live.
LEMMA Mutual ==
    ASSUME NEW r \in RelayState, Agreed(r), NEW w \in Sockets, NEW v \in Sockets,
           peer(r, w) = v
    PROVE  peer(r, v) = w /\ v # w /\ LiveIn(r, w) /\ LiveIn(r, v)
  BY RolesApart DEF Agreed, Partner, Member, RelayState, Session

\* Numbered is the sequence of the first frames, which Append extends.
LEMMA NumberedMore ==
    ASSUME NEW w \in Sockets, NEW n \in Nat
    PROVE  /\ Numbered(w, n) \in Seq(Frames) /\ Len(Numbered(w, n)) = n
           /\ Append(Numbered(w, n), <<w, n + 1>>) = Numbered(w, n + 1)
           /\ Numbered(w, 0) = <<>>
  <1>1. Numbered(w, n) \in Seq(Frames) /\ Len(Numbered(w, n)) = n
    BY DEF Numbered, Frames
  <1>2. Numbered(w, n + 1) \in Seq(Frames) /\ Len(Numbered(w, n + 1)) = n + 1
    BY DEF Numbered, Frames
  <1>3. Numbered(w, 0) = <<>>
    BY DEF Numbered
  <1>4. \A i \in 1 .. n : Numbered(w, n)[i] = <<w, i>>
    BY DEF Numbered
  <1>5. \A i \in 1 .. n + 1 : Numbered(w, n + 1)[i] = <<w, i>>
    BY DEF Numbered
  <1> DEFINE s == Numbered(w, n)
             t == Numbered(w, n + 1)
             e == <<w, n + 1>>
  <1>6. e \in Frames
    BY DEF Frames
  <1>7. t[n + 1] = e /\ \A i \in 1 .. n : t[i] = s[i]
    BY <1>4, <1>5
  <1> HIDE DEF s, t, e
  <1>8. Append(s, e) = t
    BY <1>1, <1>2, <1>6, <1>7 DEF s, t
  <1> QED  BY <1>1, <1>3, <1>8 DEF s, t, e

(* One lemma per action.                                                   *)

\* Init establishes the invariant.
LEMMA InitInv == Init => Inv
  <1> SUFFICES ASSUME Init PROVE Inv
    OBVIOUS
  <1>1. Typed
    <2>1. relay \in RelayState
      BY NoEndpointTyped, NoSessionTyped DEF Init, RelayState, SocketStates
    <2>2. \A w \in Sockets : Len(relay.endpoint[w].pending) <= MaxPending
      BY LocalTunnelAssumption DEF Init, NoEndpoint
    <2>3. \A w \in Sockets : sent[w] <= MaxFrames(w)
      BY LocalTunnelAssumption DEF Init, MaxFrames
    <2> QED  BY <2>1, <2>2, <2>3 DEF Init, Typed
  <1>2. Agreed(relay)
    BY RolesApart DEF Init, Agreed, LiveIn, Member, Partner, peer, NoSession, NoEndpoint
  <1>3. ASSUME NEW w \in Sockets PROVE OrderedAt(w)
    <2>1. From(w, w)
      BY NumberedMore DEF Init, From
    <2> QED  BY <2>1, RolesApart DEF Init, OrderedAt, LiveIn, peer, NoEndpoint
  <1> QED  BY <1>1, <1>2, <1>3 DEF Inv, Ordered

\* A stuttering step keeps the invariant.
LEMMA StutterStep == ASSUME Inv, UNCHANGED vars PROVE Inv'
  <1>1. relay' = relay /\ Weaker(relay, relay') /\ UNCHANGED <<sent, got>>
    BY DEF vars, Weaker, WeakerAt
  <1> QED  BY <1>1, QuietStep DEF Inv, Typed, vars

\* A browser's flow message on its way keeps the invariant.
LEMMA AsksStep == ASSUME Inv, NEW w \in Sockets, Asks(w) PROVE Inv'
  <1>1. relay' = relay /\ Weaker(relay, relay') /\ UNCHANGED <<sent, got>>
    BY DEF Asks, Weaker, WeakerAt
  <1>2. asks' \in [Sockets -> BOOLEAN]
    BY DEF Inv, Typed, Asks
  <1> QED  BY <1>1, <1>2, QuietStep, Zenon DEF Inv, Typed, Asks

\* The timer's callback keeps the invariant.
LEMMA TimeoutStep == ASSUME Inv, Timeout PROVE Inv'
  <1>1. /\ relay' \in RelayState /\ Agreed(relay') /\ Weaker(relay, relay')
    BY ClosedAgrees DEF Inv, Typed, Timeout
  <1> QED  BY <1>1, QuietStep DEF Inv, Typed, Timeout

\* The callback of a failed send keeps the invariant.
LEMMA SendFailedStep == ASSUME Inv, NEW w \in Sockets, SendFailed(w) PROVE Inv'
  <1>1. /\ relay' \in RelayState /\ Agreed(relay') /\ Weaker(relay, relay')
    <2>1. Weaker(relay, relay)
      BY DEF Weaker, WeakerAt
    <2> QED  BY <2>1, ClosedAgrees DEF Inv, Typed, SendFailed
  <1> QED  BY <1>1, QuietStep DEF Inv, Typed, SendFailed

\* A socket that leaves or dies still has its role until its close event.
LEMMA LeavingPut ==
    ASSUME NEW r \in RelayState, Agreed(r), NEW w \in Sockets, NEW s \in {"leaving", "dead"},
           r.socket[w] \notin {"none", "closed"}
    PROVE  LET q == [r EXCEPT !.socket[w] = s]
           IN  q \in RelayState /\ Agreed(q) /\ Weaker(r, q)
  <1> DEFINE q == [r EXCEPT !.socket[w] = s]
  <1>1. /\ q \in RelayState /\ q.session = r.session /\ q.endpoint = r.endpoint
        /\ \A x \in Sockets : q.socket[x] = IF x = w THEN s ELSE r.socket[x]
    <2>1. s \in SocketStates
      BY DEF SocketStates
    <2> QED  BY <2>1, SocketPut
  <1> HIDE DEF q
  <1>2. SameEnds(r, q) /\ SameFrames(r, q)
    BY <1>1 DEF SameEnds, SameFrames
  <1>3. \A x \in Sockets :
             /\ q.socket[x] = "none" <=> r.socket[x] = "none"
             /\ q.socket[x] = "closed" <=> r.socket[x] = "closed"
             /\ q.socket[x] = "open" => r.socket[x] = "open"
             /\ q.socket[x] \in {"open", "closing"} => r.socket[x] \in {"open", "closing"}
    BY <1>1
  <1>4. \A x \in Sockets : r.socket[x] = "none" => q.endpoint[x] = NoEndpoint
    BY <1>1 DEF Agreed
  <1>5. Agreed(q)
    BY <1>1, <1>2, <1>3, <1>4, KeepsAgreement
  <1>6. Weaker(r, q)
    BY <1>1, <1>2, <1>3, KeepsWeaker
  <1> QED  BY <1>1, <1>5, <1>6 DEF q

\* A close frame keeps the invariant.
LEMMA BrowserClosesStep == ASSUME Inv, NEW w \in Sockets, BrowserCloses(w) PROVE Inv'
  <1>1. relay.socket[w] \notin {"none", "closed"} /\ relay \in RelayState /\ Agreed(relay)
    BY DEF BrowserCloses, Reads, Inv, Typed
  <1>2. /\ relay' \in RelayState /\ Agreed(relay') /\ Weaker(relay, relay')
    BY <1>1, LeavingPut, Zenon DEF BrowserCloses
  <1> QED  BY <1>2, QuietStep DEF Inv, Typed, BrowserCloses

\* Only closing, twice, is only closing.
LEMMA WeakerAgain ==
    ASSUME NEW r, NEW q, NEW t, Weaker(r, q), Weaker(q, t)
    PROVE  Weaker(r, t)
  BY DEF Weaker, WeakerAt

\* A WebSocket error keeps the invariant.
LEMMA ProtocolErrorStep == ASSUME Inv, NEW w \in Sockets, ProtocolError(w) PROVE Inv'
  <1> DEFINE r == [relay EXCEPT !.socket[w] = "leaving"]
  <1>1. relay.socket[w] \notin {"none", "closed"} /\ relay \in RelayState /\ Agreed(relay)
    BY DEF ProtocolError, Reads, Inv, Typed
  <1>2. /\ r \in RelayState /\ Agreed(r) /\ Weaker(relay, r)
    BY <1>1, LeavingPut, Zenon
  <1>3. r.socket[w] # "none"
    BY <1>1 DEF RelayState
  <1>4. relay' = removeEndpoint(r, w)
    BY DEF ProtocolError
  <1> HIDE DEF r
  <1>5. /\ relay' \in RelayState /\ Agreed(relay') /\ Weaker(r, relay')
    BY <1>2, <1>3, <1>4, RemoveAgrees
  <1>6. Weaker(relay, relay')
    BY <1>2, <1>5, WeakerAgain
  <1> QED  BY <1>5, <1>6, QuietStep, Zenon DEF Inv, Typed, ProtocolError

\* webSocket.close() keeps sessions and endpoints agreed, and only closes.
LEMMA ShutWeaker ==
    ASSUME NEW r \in RelayState, Agreed(r), NEW w \in Sockets
    PROVE  Shut(r, w) \in RelayState /\ Agreed(Shut(r, w)) /\ Weaker(r, Shut(r, w))
  <1> DEFINE q == Shut(r, w)
  <1>1. /\ q \in RelayState /\ q.session = r.session /\ q.endpoint = r.endpoint
        /\ \A x \in Sockets : q.socket[x] = Halted(r, w, x)
    BY ShutEffect
  <1> HIDE DEF q
  <1>2. SameEnds(r, q) /\ SameFrames(r, q)
    BY <1>1 DEF SameEnds, SameFrames
  <1>3. \A x \in Sockets :
             /\ q.socket[x] = "none" <=> r.socket[x] = "none"
             /\ q.socket[x] = "closed" <=> r.socket[x] = "closed"
             /\ q.socket[x] = "open" => r.socket[x] = "open"
             /\ q.socket[x] \in {"open", "closing"} => r.socket[x] \in {"open", "closing"}
    BY <1>1 DEF Halted
  <1>4. \A x \in Sockets : r.socket[x] = "none" => q.endpoint[x] = NoEndpoint
    BY <1>1 DEF Agreed
  <1>5. Agreed(q)
    BY <1>1, <1>2, <1>3, <1>4, KeepsAgreement
  <1>6. Weaker(r, q)
    BY <1>1, <1>2, <1>3, KeepsWeaker
  <1> QED  BY <1>1, <1>5, <1>6 DEF q

\* A flow message that is read keeps the invariant.
LEMMA FlowStep == ASSUME Inv, NEW w \in Sockets, Flow(w) PROVE Inv'
  <1>1. relay \in RelayState /\ Agreed(relay)
    BY DEF Inv, Typed
  <1>2. asks' \in [Sockets -> BOOLEAN] /\ heard' \in [Sockets -> BOOLEAN]
    BY DEF Flow, Inv, Typed
  <1>3. /\ relay' \in RelayState /\ Agreed(relay') /\ Weaker(relay, relay')
    <2>1. CASE Reachable(relay, w)
      <3> DEFINE p == peer(relay, w)
                 b == asks[w]
                 q == [relay EXCEPT !.endpoint[p].flowPaused = b]
      <3>1. p \in Sockets /\ relay.socket[p] = "open"
        BY <1>1, <2>1 DEF Reachable, RelayState, Endpoint, peer
      <3>2. b \in BOOLEAN
        BY DEF Inv, Typed
      <3>3. relay' = q
        BY <2>1 DEF Flow
      <3> HIDE DEF p, b
      <3>4. /\ q \in RelayState /\ q.socket = relay.socket
            /\ SameEnds(relay, q) /\ SameFrames(relay, q)
            /\ \A x \in Sockets \ {p} : q.endpoint[x] = relay.endpoint[x]
        BY <1>1, <3>1, <3>2, FlowPut
      <3> HIDE DEF q
      <3>5. \A x \in Sockets : relay.socket[x] = "none" => q.endpoint[x] = NoEndpoint
        BY <1>1, <3>1, <3>4 DEF Agreed
      <3>6. Agreed(q)
        BY <1>1, <3>4, <3>5, KeepsAgreement
      <3>7. Weaker(relay, q)
        BY <1>1, <3>4, KeepsWeaker
      <3> QED  BY <3>3, <3>4, <3>6, <3>7
    <2>2. CASE ~Reachable(relay, w)
      BY <1>1, <2>2, ShutWeaker DEF Flow
    <2> QED  BY <2>1, <2>2
  <1> QED  BY <1>2, <1>3, QuietStep DEF Inv, Typed, Flow

\* The callback of a send keeps the invariant.
LEMMA SendCallbackStep == ASSUME Inv, NEW w \in Sockets, SendCallback(w) PROVE Inv'
  <1>1. relay \in RelayState /\ Agreed(relay)
    BY DEF Inv, Typed
  <1>2. flushed[w] \in Nat /\ got[w] \in Seq(Frames) /\ Len(got[w]) \in Nat
    BY DEF Inv, Typed
  <1>3. flushed[w] < Len(got[w]) /\ flushed' = [flushed EXCEPT ![w] = flushed[w] + 1]
    BY <1>2, SMTT(30) DEF SendCallback, Buffered
  <1>4. /\ flushed' \in [Sockets -> Nat] /\ flushed'[w] = flushed[w] + 1
        /\ \A x \in Sockets : flushed'[x] <= Len(got[x])
    BY <1>2, <1>3 DEF Inv, Typed
  <1>5. /\ relay' \in RelayState /\ Agreed(relay') /\ Weaker(relay, relay')
    <2>1. CASE relay' = relay
      BY <1>1, <2>1 DEF Weaker, WeakerAt
    <2>2. CASE relay' # relay
      <3> DEFINE from == got[w][flushed'[w]][1]
                 b == relay.endpoint[from].backpressurePaused /\ Buffered(w) - 1 >= HighWater
                 q == [relay EXCEPT !.endpoint[from].backpressurePaused = b]
      <3>1. from \in Sockets
        BY <1>2, <1>3, <1>4 DEF Frames
      <3>2. b \in BOOLEAN
        BY Zenon
      <3>3. relay' = q
        BY <2>2, Zenon DEF SendCallback
      <3>4. relay.endpoint[from].backpressurePaused = FALSE => b = FALSE
        OBVIOUS
      <3> HIDE DEF from, b
      <3>5. /\ q \in RelayState /\ q.socket = relay.socket
            /\ SameEnds(relay, q) /\ SameFrames(relay, q)
            /\ \A x \in Sockets \ {from} : q.endpoint[x] = relay.endpoint[x]
            /\ q.endpoint[from] = [relay.endpoint[from] EXCEPT !.backpressurePaused = b]
        BY <1>1, <3>1, <3>2, BackpressurePut
      <3> HIDE DEF q
      <3>6. ASSUME NEW x \in Sockets, relay.socket[x] = "none"
            PROVE  q.endpoint[x] = NoEndpoint
        <4>1. relay.endpoint[x] = NoEndpoint
          BY <1>1, <3>6 DEF Agreed
        <4>2. CASE x = from
          <5>1. b = FALSE
            BY <3>4, <4>1, <4>2 DEF NoEndpoint
          <5>2. NoEndpoint = [NoEndpoint EXCEPT !.backpressurePaused = FALSE]
            <6>1. \A e \in Endpoint :
                    e = [e EXCEPT !.backpressurePaused = e.backpressurePaused]
              BY DEF Endpoint
            <6>2. NoEndpoint.backpressurePaused = FALSE
              BY DEF NoEndpoint
            <6> QED  BY <6>1, <6>2, NoEndpointTyped, Zenon
          <5> QED  BY <3>5, <4>1, <4>2, <5>1, <5>2, Zenon
        <4> QED  BY <3>5, <4>1, <4>2
      <3>7. Agreed(q)
        BY <1>1, <3>5, <3>6, KeepsAgreement
      <3>8. Weaker(relay, q)
        BY <1>1, <3>5, KeepsWeaker
      <3> QED  BY <3>3, <3>5, <3>7, <3>8
    <2> QED  BY <2>1, <2>2
  <1> QED  BY <1>4, <1>5, QuietStep, Zenon DEF Inv, Typed, SendCallback

\* What becomes of a frame of w that cannot be sent on.
Refused(w) ==
    /\ Len(relay.endpoint[w].pending) >= MaxPending
    /\ relay'.endpoint[w].dropped /\ relay'.socket[w] = "closing"
    /\ relay'.endpoint[w].pending = relay.endpoint[w].pending
Kept(w) ==
    /\ relay'.endpoint[w].dropped = relay.endpoint[w].dropped
    /\ relay'.socket[w] = relay.socket[w]
    /\ relay'.endpoint[w].pending = Append(relay.endpoint[w].pending, <<w, sent[w] + 1>>)
    /\ Len(relay'.endpoint[w].pending) <= MaxPending
FrameRead(w) ==
    /\ \A x \in Sockets \ {w} : /\ relay'.endpoint[x] = relay.endpoint[x]
                                /\ relay'.socket[x] = relay.socket[x]
    /\ sent' = [sent EXCEPT ![w] = sent[w] + 1] /\ sent[w] + 1 <= MaxFrames(w)
    /\ got' = got /\ failed' = failed /\ flushed' = flushed
    /\ asks' = asks /\ heard' = heard

\* A frame that cannot be sent on is held, or the browser is refused.
LEMMA HoldsStep ==
    ASSUME Inv, NEW w \in Sockets, relay.socket[w] \in {"open", "closing"},
           ~Reachable(relay, w), relay' \in RelayState, SameEnds(relay, relay'),
           Refused(w) \/ Kept(w), FrameRead(w)
    PROVE  Inv'
  <1> DEFINE n == sent[w]
             held == relay.endpoint[w].pending
  <1>1. /\ relay \in RelayState /\ Agreed(relay) /\ OrderedAt(w)
        /\ n \in Nat /\ sent \in [Sockets -> Nat]
        /\ held \in Seq(Frames) /\ Len(held) \in Nat
    BY DEF Inv, Typed, Ordered, RelayState, Endpoint
  <1>2. /\ sent' \in [Sockets -> Nat] /\ sent'[w] = n + 1
        /\ \A x \in Sockets : sent'[x] <= MaxFrames(x)
        /\ \A x \in Sockets \ {w} : sent'[x] = sent[x]
    BY <1>1 DEF Inv, Typed, FrameRead
  <1>3. \A x \in Sockets : Len(relay'.endpoint[x].pending) <= MaxPending
    BY Zenon DEF Inv, Typed, FrameRead, Refused, Kept
  <1>4. Typed'
    BY <1>2, <1>3 DEF Inv, Typed, FrameRead
  <1>5. /\ relay'.socket[w] \in {"open", "closing"}
        /\ relay'.socket[w] = "open" => relay.socket[w] = "open"
    BY Zenon DEF Refused, Kept
  <1>6. \A x \in Sockets : relay'.socket[x] = "open" => relay.socket[x] = "open"
    BY <1>5 DEF FrameRead
  <1>7. \A x \in Sockets : relay.endpoint[x].dropped => relay'.endpoint[x].dropped
    BY Zenon DEF FrameRead, Refused, Kept
  <1>8. \A x \in Sockets : relay.socket[x] = "none" => relay'.endpoint[x] = NoEndpoint
    BY <1>1 DEF Agreed, FrameRead
  <1>9. Agreed(relay')
    <2>1. \A x \in Sockets :
             /\ relay'.socket[x] = "none" <=> relay.socket[x] = "none"
             /\ relay'.socket[x] = "closed" <=> relay.socket[x] = "closed"
      BY <1>5 DEF FrameRead
    <2> QED  BY <1>1, <1>8, <2>1, KeepsAgreement
  <1>10. \A x \in Sockets : peer(relay', x) = peer(relay, x) /\ (LiveIn(relay', x) <=> LiveIn(relay, x))
    BY <1>5 DEF SameEnds, LiveIn, peer, FrameRead
  <1>11. ASSUME NEW x \in Sockets, x # w PROVE OrderedAt(x)'
    <2>1. /\ OrderedAt(x) /\ sent'[x] = sent[x] /\ got'[x] = got[x]
          /\ relay'.endpoint[x] = relay.endpoint[x] /\ relay'.socket[x] = relay.socket[x]
      BY <1>2, <1>11 DEF Inv, Ordered, FrameRead
    <2>2. WeakerAt(relay, relay', x)
      BY <1>10, <2>1 DEF WeakerAt
    <2>3. \A u \in Sockets : peer(relay, x) = u /\ relay'.socket[u] = "open" => got'[u] = got[u]
      BY DEF FrameRead
    <2> QED  BY <1>6, <1>7, <2>1, <2>2, <2>3, KeepsOrderAt, Zenon
  <1>12. OrderedAt(w)'
    <2>1. /\ relay'.endpoint[w].dropped => relay'.socket[w] # "open"
          /\ relay'.socket[w] # "none" /\ got' = got
      BY <1>1, <1>5, Zenon DEF OrderedAt, Refused, Kept, FrameRead
    <2>2. ASSUME NEW v \in Sockets, From(v, w) PROVE From(v, w)'
      BY <1>7, <2>1, <2>2 DEF From, Numbered
    <2>3. (\E v \in Sockets : From(v, w))'
      BY <1>1, <2>2 DEF OrderedAt
    <2>4. ASSUME LiveIn(relay', w), peer(relay', w) = None
          PROVE  /\ got'[w] = <<>>
                 /\ relay'.endpoint[w].pending = Numbered(w, Len(relay'.endpoint[w].pending))
                 /\ Reading(w)' /\ ~relay'.endpoint[w].dropped =>
                      Len(relay'.endpoint[w].pending) = sent'[w]
                 /\ relay'.endpoint[w].dropped => Len(relay'.endpoint[w].pending) >= MaxPending
      <3>1. /\ got[w] = <<>> /\ held = Numbered(w, Len(held))
            /\ ~relay.endpoint[w].dropped => Len(held) = n
            /\ relay.endpoint[w].dropped => Len(held) >= MaxPending
        BY <1>1, <1>10, <2>4 DEF OrderedAt, Reading
      <3>2. CASE Refused(w)
        BY <2>1, <3>1, <3>2 DEF Refused
      <3>3. CASE Kept(w)
        <4>1. relay'.endpoint[w].pending = Append(held, <<w, n + 1>>)
              /\ Len(relay'.endpoint[w].pending) <= MaxPending
              /\ relay'.endpoint[w].dropped = relay.endpoint[w].dropped
          BY <3>3 DEF Kept
        <4>2. Len(relay'.endpoint[w].pending) = Len(held) + 1
          BY <1>1, <4>1, SMTT(30)
        <4>3. ~relay.endpoint[w].dropped
          BY <1>1, <3>1, <4>1, <4>2, LocalTunnelAssumption, SMTT(30)
        <4>4. relay'.endpoint[w].pending = Numbered(w, n + 1)
          BY <1>1, <3>1, <4>1, <4>3, NumberedMore, Zenon
        <4> QED  BY <1>2, <2>1, <3>1, <4>1, <4>2, <4>3, <4>4, Zenon
      <3> QED  BY <3>2, <3>3
    <2>5. ASSUME NEW v \in Sockets, peer(relay', w) = v
          PROVE  /\ From(v, w)'
                 /\ relay'.socket[v] = "open" /\ Reading(w)' /\ ~relay'.endpoint[w].dropped =>
                      Len(got'[v]) = sent'[w] /\ relay'.endpoint[w].pending = <<>>
      <3>1. peer(relay, w) = v /\ From(v, w)
        BY <1>1, <1>10, <2>5 DEF OrderedAt
      <3>2. LiveIn(relay, v)
        BY <1>1, <3>1, Mutual
      <3>3. relay.socket[v] # "open"
        BY <3>1, <3>2, RolesApart DEF Reachable, LiveIn
      <3> QED  BY <1>6, <2>2, <3>1, <3>3
    <2> QED  BY <2>1, <2>3, <2>4, <2>5, Zenon DEF OrderedAt
  <1> QED  BY <1>4, <1>9, <1>11, <1>12 DEF Inv, Ordered

\* A frame is sent on, held, or refused.
LEMMA FrameStep == ASSUME Inv, NEW w \in Sockets, Frame(w) PROVE Inv'
  <1> DEFINE n == sent[w]
             frame == <<w, n + 1>>
  <1>0. relay \in RelayState /\ Agreed(relay)
    BY DEF Inv, Typed
  <1>1. /\ relay \in RelayState /\ Agreed(relay) /\ OrderedAt(w)
        /\ n \in Nat /\ frame \in Frames /\ got \in [Sockets -> Seq(Frames)]
        /\ sent \in [Sockets -> Nat]
    <2>1. /\ relay \in RelayState /\ Agreed(relay)
          /\ n \in Nat /\ got \in [Sockets -> Seq(Frames)] /\ sent \in [Sockets -> Nat]
      BY DEF Inv, Typed
    <2>2. OrderedAt(w)
      BY DEF Inv, Ordered
    <2>3. frame \in Frames
      BY <2>1 DEF Frames
    <2> QED  BY <2>1, <2>2, <2>3
  <1>2. /\ relay.socket[w] \in {"open", "closing"} /\ n < MaxFrames(w)
    BY <1>1, LocalTunnelAssumption DEF Frame, Reads, MaxFrames
  <1>3. /\ sent' = [sent EXCEPT ![w] = n + 1]
        /\ sent' \in [Sockets -> Nat] /\ sent'[w] = n + 1
        /\ \A x \in Sockets : sent'[x] <= MaxFrames(x)
    BY <1>1, <1>2, LocalTunnelAssumption, SMTT(30) DEF Inv, Typed, Frame, MaxFrames
  <1>4. CASE Reachable(relay, w)
    <2> DEFINE p == peer(relay, w)
               b == relay.endpoint[w].backpressurePaused \/ Buffered(p) + 1 >= HighWater
    <2>1. PICK v \in Sockets : p = v
      BY <1>1, <1>4 DEF Reachable, RelayState, Endpoint, peer
    <2>2. /\ relay.socket[v] = "open" /\ peer(relay, v) = w /\ v # w
          /\ LiveIn(relay, w) /\ LiveIn(relay, v)
      BY <1>1, <1>4, <2>1, Mutual DEF Reachable
    <2>3. relay' = [relay EXCEPT !.endpoint[w].backpressurePaused = b]
      BY <1>4 DEF Frame
    <2>4. got' = [got EXCEPT ![v] = Append(got[v], frame)]
      BY <1>4, <2>1 DEF Frame
    <2>5. b \in BOOLEAN
      BY Zenon
    <2> DEFINE q == [relay EXCEPT !.endpoint[w].backpressurePaused = b]
    <2> HIDE DEF b
    <2>17. /\ q \in RelayState /\ q.socket = relay.socket
          /\ SameEnds(relay, q) /\ SameFrames(relay, q)
          /\ \A x \in Sockets \ {w} : q.endpoint[x] = relay.endpoint[x]
          /\ q.endpoint[w] = [relay.endpoint[w] EXCEPT !.backpressurePaused = b]
      BY <1>0, <2>5, BackpressurePut
    <2> HIDE DEF q
    <2>18. relay' = q
      BY <2>3 DEF q
    <2>6. /\ relay' \in RelayState /\ relay'.socket = relay.socket
          /\ SameEnds(relay, relay') /\ SameFrames(relay, relay')
          /\ \A x \in Sockets \ {w} : relay'.endpoint[x] = relay.endpoint[x]
      BY <2>17, <2>18
    <2>7. Agreed(relay')
      <3>1. \A x \in Sockets : relay.socket[x] = "none" => relay'.endpoint[x] = NoEndpoint
        BY <1>1, <1>2, <2>6, Zenon DEF Agreed
      <3> QED  BY <1>0, <2>6, <3>1, KeepsAgreement
    <2>8. Weaker(relay, relay')
      BY <1>0, <2>6, KeepsWeaker
    <2>9. /\ got' \in [Sockets -> Seq(Frames)]
          /\ \A x \in Sockets \ {v} : got'[x] = got[x]
          /\ got'[v] = Append(got[v], frame) /\ Len(got'[v]) = Len(got[v]) + 1
          /\ got[v] \in Seq(Frames) /\ Len(got[v]) \in Nat
      BY <1>1, <2>4
    <2> HIDE DEF frame
    <2>10. Typed'
      <3>1. \A x \in Sockets : flushed'[x] <= Len(got'[x])
        <4>1. flushed' = flushed /\ \A x \in Sockets : flushed[x] \in Nat /\ flushed[x] <= Len(got[x])
          BY DEF Inv, Typed, Frame
        <4> QED  BY <2>9, <4>1, SMTT(30)
      <3>2. \A x \in Sockets : Len(relay'.endpoint[x].pending) <= MaxPending
        BY <2>6, Zenon DEF Inv, Typed, SameFrames
      <3> QED  BY <1>3, <2>6, <2>9, <3>1, <3>2, Zenon DEF Inv, Typed, Frame
    <2>11. From(w, v)'
      <3>1. From(w, v) /\ OrderedAt(v)
        BY <2>2 DEF Inv, Ordered, OrderedAt
      <3>2. \A i \in 1 .. Len(got'[v]) : got'[v][i][1] = w
        <4>1. \A i \in 1 .. Len(got[v]) : got'[v][i] = got[v][i]
          BY <2>9
        <4>2. got'[v][Len(got[v]) + 1] = frame
          BY <2>9
        <4>3. frame[1] = w
          BY DEF frame
        <4> QED  BY <2>9, <3>1, <4>1, <4>2, <4>3 DEF From
      <3>3. CASE relay.endpoint[w].dropped
        BY <2>8, <3>2, <3>3 DEF From, Weaker, WeakerAt
      <3>4. CASE ~relay.endpoint[w].dropped
        <4>1. got[v] = Numbered(w, Len(got[v]))
          BY <3>1, <3>4 DEF From
        <4>2. Len(got[v]) = n
          BY <1>1, <1>2, <2>1, <2>2, <3>4 DEF OrderedAt, Reading
        <4>3. got'[v] = Numbered(w, n + 1)
          BY <1>1, <2>9, <4>1, <4>2, NumberedMore, Zenon DEF frame
        <4>4. got'[v] = Numbered(w, Len(got'[v]))
          BY <2>9, <4>2, <4>3
        <4>5. Numbered(w, Len(got[v]))' = Numbered(w, Len(got'[v]))
          BY DEF Numbered
        <4> QED  BY <3>2, <4>4, <4>5 DEF From
      <3> QED  BY <3>3, <3>4
    <2>12. \A x \in Sockets : /\ relay.endpoint[x].dropped => relay'.endpoint[x].dropped
                              /\ relay'.socket[x] = "open" => relay.socket[x] = "open"
      BY <2>8 DEF Weaker, WeakerAt
    <2>13. ASSUME NEW x \in Sockets, x # w, x # v PROVE OrderedAt(x)'
      <3>1. OrderedAt(x) /\ WeakerAt(relay, relay', x) /\ sent'[x] = sent[x] /\ got'[x] = got[x]
        BY <1>1, <1>3, <2>8, <2>9, <2>13 DEF Inv, Ordered, Weaker
      <3>2. ASSUME NEW u \in Sockets, peer(relay, x) = u PROVE u # v
        <4>1. peer(relay, u) = x
          BY <1>1, <3>2, Mutual
        <4> QED  BY <2>2, <2>13, <4>1
      <3>3. \A u \in Sockets : peer(relay, x) = u /\ relay'.socket[u] = "open" => got'[u] = got[u]
        BY <2>9, <3>2
      <3>4. /\ \A u \in Sockets : relay.endpoint[u].dropped => relay'.endpoint[u].dropped
            /\ \A u \in Sockets : relay'.socket[u] = "open" => relay.socket[u] = "open"
        BY <2>12
      <3> QED  BY <3>1, <3>3, <3>4, KeepsOrderAt, Zenon
    <2>14. /\ peer(relay', w) = v /\ peer(relay', v) = w
      BY <2>1, <2>2, <2>6 DEF SameEnds, peer
    <2>15. OrderedAt(v)'
      <3>1. OrderedAt(v)
        BY DEF Inv, Ordered
      <3>2. /\ sent'[v] = sent[v] /\ got'[w] = got[w]
            /\ relay'.endpoint[v] = relay.endpoint[v]
        BY <1>1, <1>3, <2>2, <2>6, <2>9
      <3>3. ASSUME NEW u \in Sockets, peer(relay', v) = u
            PROVE  /\ From(u, v)'
                   /\ relay'.socket[u] = "open" /\ Reading(v)' /\ ~relay'.endpoint[v].dropped =>
                        Len(got'[u]) = sent'[v] /\ relay'.endpoint[v].pending = <<>>
        <4>1. u = w /\ peer(relay, v) = w
          BY <2>2, <2>14, <3>3
        <4>2. From(u, v)'
          BY <2>11, <4>1
        <4> QED  BY <2>6, <3>1, <3>2, <4>1, <4>2 DEF OrderedAt, Reading
      <3>4. /\ relay'.endpoint[v].dropped => relay'.socket[v] # "open"
            /\ relay'.socket[v] # "none" /\ peer(relay', v) # None
        BY <2>2, <2>6, <2>14, <3>1, <3>2, RolesApart DEF OrderedAt
      <3> QED  BY <2>11, <3>3, <3>4, Zenon DEF OrderedAt
    <2>16. OrderedAt(w)'
      <3>1. /\ sent'[w] = n + 1 /\ got'[w] = got[w] /\ From(v, w)
        BY <1>1, <1>3, <2>1, <2>2, <2>9 DEF OrderedAt
      <3>2. From(v, w)'
        BY <2>12, <3>1 DEF From, Numbered
      <3>3. ASSUME NEW u \in Sockets, peer(relay', w) = u
            PROVE  /\ From(u, w)'
                   /\ relay'.socket[u] = "open" /\ Reading(w)' /\ ~relay'.endpoint[w].dropped =>
                        Len(got'[u]) = sent'[w] /\ relay'.endpoint[w].pending = <<>>
        <4>1. u = v
          BY <2>14, <3>3
        <4>2. relay'.socket = relay.socket /\ relay'.endpoint[w].dropped = relay.endpoint[w].dropped
              /\ relay'.endpoint[w].pending = relay.endpoint[w].pending
          BY <2>6 DEF SameFrames
        <4> QED  BY <1>1, <2>1, <2>9, <3>1, <3>2, <4>1, <4>2 DEF OrderedAt, Reading
      <3>4. /\ relay'.endpoint[w].dropped => relay'.socket[w] # "open"
            /\ relay'.socket[w] # "none" /\ peer(relay', w) # None
        BY <1>1, <1>2, <2>6, <2>14, RolesApart DEF OrderedAt, SameFrames
      <3> QED  BY <3>2, <3>3, <3>4, Zenon DEF OrderedAt
    <2> QED  BY <2>7, <2>10, <2>13, <2>15, <2>16 DEF Inv, Ordered
  <1>5. CASE ~Reachable(relay, w)
    <2> DEFINE held == relay.endpoint[w].pending
               over == [relay EXCEPT !.endpoint[w].dropped = TRUE]
    <2>1. /\ held \in Seq(Frames) /\ Len(held) \in Nat /\ Len(held) <= MaxPending
          /\ got' = got
      BY <1>1, <1>5 DEF RelayState, Endpoint, Inv, Typed, Frame
    <2>2. CASE Len(held) >= MaxPending
      <3>1. relay' = Shut(over, w)
        BY <1>5, <2>2 DEF Frame
      <3>2. /\ over \in RelayState /\ over.socket = relay.socket
            /\ SameEnds(relay, over)
            /\ \A x \in Sockets \ {w} : over.endpoint[x] = relay.endpoint[x]
            /\ over.endpoint[w].dropped
            /\ over.endpoint[w].pending = relay.endpoint[w].pending
        BY <1>0, DroppedPut
      <3> HIDE DEF over
      <3>3. /\ relay' \in RelayState /\ relay'.session = over.session
            /\ relay'.endpoint = over.endpoint
            /\ \A x \in Sockets : relay'.socket[x] = Halted(over, w, x)
        BY <3>1, <3>2, ShutEffect
      <3>4. SameEnds(relay, relay')
        BY <3>2, <3>3 DEF SameEnds
      <3>5. /\ \A x \in Sockets \ {w} : relay'.endpoint[x] = relay.endpoint[x]
                                       /\ relay'.socket[x] = relay.socket[x]
            /\ relay'.endpoint[w].dropped /\ relay'.endpoint[w].pending = held
            /\ relay'.socket[w] = "closing"
        BY <1>2, <3>2, <3>3 DEF Halted
      <3>6. FrameRead(w)
        BY <1>1, <1>2, <1>3, <2>1, <3>5, LocalTunnelAssumption DEF Frame, FrameRead, MaxFrames
      <3>7. Refused(w)
        BY <2>2, <3>5 DEF Refused
      <3> QED  BY <1>2, <1>5, <3>3, <3>4, <3>6, <3>7, HoldsStep
    <2>3. CASE ~(Len(held) >= MaxPending)
      <3> DEFINE more == Append(held, frame)
      <3>1. relay' = [relay EXCEPT !.endpoint[w].pending = more]
        BY <1>5, <2>3 DEF Frame
      <3>2. more \in Seq(Frames) /\ Len(more) = Len(held) + 1 /\ Len(more) <= MaxPending
        BY <1>1, <2>1, <2>3, LocalTunnelAssumption
      <3>3. /\ relay' \in RelayState /\ relay'.socket = relay.socket
            /\ SameEnds(relay, relay')
            /\ \A x \in Sockets \ {w} : relay'.endpoint[x] = relay.endpoint[x]
            /\ relay'.endpoint[w].dropped = relay.endpoint[w].dropped
            /\ relay'.endpoint[w].pending = more
        <4> DEFINE q == [relay EXCEPT !.endpoint[w].pending = more]
        <4> HIDE DEF more
        <4>1. /\ q \in RelayState /\ q.socket = relay.socket
              /\ SameEnds(relay, q)
              /\ \A x \in Sockets \ {w} : q.endpoint[x] = relay.endpoint[x]
              /\ q.endpoint[w].dropped = relay.endpoint[w].dropped
              /\ q.endpoint[w].pending = more
          BY <1>0, <3>2, PendingPut
        <4> HIDE DEF q
        <4>2. relay' = q
          BY <3>1 DEF q
        <4> QED  BY <4>1, <4>2
      <3>4. FrameRead(w)
        BY <1>1, <1>2, <1>3, <2>1, <3>3, LocalTunnelAssumption, Zenon DEF Frame, FrameRead, MaxFrames
      <3>5. Kept(w)
        BY <3>2, <3>3 DEF Kept
      <3> QED  BY <1>2, <1>5, <3>3, <3>4, <3>5, HoldsStep
    <2> QED  BY <2>2, <2>3
  <1> QED  BY <1>4, <1>5

\* The histories of a socket that is gone.
LEMMA ForgetEffect ==
    ASSUME Inv, NEW w \in Sockets, Forget(w)
    PROVE  /\ sent' \in [Sockets -> Nat] /\ sent'[w] = 0
           /\ got' \in [Sockets -> Seq(Frames)] /\ got'[w] = <<>>
           /\ flushed' \in [Sockets -> Nat]
           /\ asks' \in [Sockets -> BOOLEAN] /\ heard' \in [Sockets -> BOOLEAN]
           /\ \A x \in Sockets \ {w} : /\ sent'[x] = sent[x] /\ got'[x] = got[x]
                                       /\ flushed'[x] = flushed[x]
           /\ \A x \in Sockets : /\ sent'[x] <= MaxFrames(x)
                                 /\ flushed'[x] <= Len(got'[x])
           /\ \A v \in Sockets : From(v, w)'
  <1>1. /\ sent' \in [Sockets -> Nat] /\ sent'[w] = 0
        /\ got' \in [Sockets -> Seq(Frames)] /\ got'[w] = <<>>
        /\ flushed' \in [Sockets -> Nat] /\ flushed'[w] = 0
        /\ asks' \in [Sockets -> BOOLEAN] /\ heard' \in [Sockets -> BOOLEAN]
        /\ \A x \in Sockets \ {w} : /\ sent'[x] = sent[x] /\ got'[x] = got[x]
                                    /\ flushed'[x] = flushed[x]
    BY DEF Inv, Typed, Forget
  <1>2. \A x \in Sockets : 0 <= MaxFrames(x) /\ sent[x] <= MaxFrames(x) /\ flushed[x] <= Len(got[x])
    BY LocalTunnelAssumption DEF MaxFrames, Inv, Typed
  <1>3. \A x \in Sockets : /\ sent'[x] <= MaxFrames(x)
                           /\ flushed'[x] <= Len(got'[x])
    <2>1. Len(<<>>) = 0
      OBVIOUS
    <2>2. /\ sent'[w] <= MaxFrames(w) /\ flushed'[w] <= Len(got'[w])
      BY <1>1, <1>2, <2>1
    <2>3. \A x \in Sockets \ {w} : sent'[x] <= MaxFrames(x) /\ flushed'[x] <= Len(got'[x])
      BY <1>1, <1>2, Zenon
    <2> QED  BY <2>2, <2>3
  <1>4. ASSUME NEW v \in Sockets PROVE From(v, w)'
    BY <1>1 DEF From, Numbered
  <1> QED  BY <1>1, <1>3, <1>4

\* The loss of a connection keeps the invariant.
LEMMA DiesStep == ASSUME Inv, NEW w \in Sockets, Dies(w) PROVE Inv'
  <1> DEFINE r == [relay EXCEPT !.socket[w] = "dead"]
  <1>1. relay.socket[w] \notin {"none", "closed"} /\ relay \in RelayState /\ Agreed(relay)
    BY DEF Dies, Sends, Inv, Typed
  <1>2. /\ r \in RelayState /\ Agreed(r) /\ Weaker(relay, r)
    BY <1>1, LeavingPut, Zenon
  <1>3. r.socket[w] = "dead"
    BY <1>1 DEF RelayState
  <1>4. relay' = r /\ Forget(w) /\ failed' \subseteq Sockets
    BY DEF Dies, Inv, Typed
  <1> HIDE DEF r
  <1>5. /\ relay' \in RelayState /\ Agreed(relay') /\ Weaker(relay, relay')
        /\ relay'.socket[w] = "dead"
    BY <1>2, <1>3, <1>4
  <1>6. Typed'
    <2>1. \A x \in Sockets : Len(relay'.endpoint[x].pending) <= MaxPending
      BY <1>5, Zenon DEF Inv, Typed, Weaker, WeakerAt
    <2> QED  BY <1>4, <1>5, <2>1, ForgetEffect, Zenon DEF Typed
  <1>7. ASSUME NEW x \in Sockets, x # w PROVE OrderedAt(x)'
    <2>1. OrderedAt(x) /\ WeakerAt(relay, relay', x) /\ sent'[x] = sent[x] /\ got'[x] = got[x]
      BY <1>4, <1>5, <1>7, ForgetEffect DEF Inv, Ordered, Weaker
    <2>2. /\ \A u \in Sockets : relay.endpoint[u].dropped => relay'.endpoint[u].dropped
          /\ \A u \in Sockets : relay'.socket[u] = "open" => relay.socket[u] = "open"
      BY <1>5 DEF Weaker, WeakerAt
    <2>3. \A u \in Sockets : peer(relay, x) = u /\ relay'.socket[u] = "open" => got'[u] = got[u]
      BY <1>4, <1>5, ForgetEffect
    <2> QED  BY <2>1, <2>2, <2>3, KeepsOrderAt, Zenon
  <1>8. OrderedAt(w)'
    <2>1. OrderedAt(w) /\ WeakerAt(relay, relay', w)
      BY <1>5 DEF Inv, Ordered, Weaker
    <2>2. got'[w] = <<>> /\ \A v \in Sockets : From(v, w)'
      BY <1>4, ForgetEffect
    <2>3. ~Reading(w)' /\ relay'.socket[w] # "none" /\ relay'.socket[w] # "open"
      BY <1>5 DEF Reading
    <2>4. ASSUME LiveIn(relay', w), peer(relay', w) = None
          PROVE  /\ got'[w] = <<>>
                 /\ relay'.endpoint[w].pending = Numbered(w, Len(relay'.endpoint[w].pending))
                 /\ relay'.endpoint[w].dropped => Len(relay'.endpoint[w].pending) >= MaxPending
      BY <2>1, <2>2, <2>4 DEF OrderedAt, WeakerAt
    <2> QED  BY <2>2, <2>3, <2>4, Zenon DEF OrderedAt
  <1> QED  BY <1>5, <1>6, <1>7, <1>8 DEF Inv, Ordered

\* The close event keeps the invariant.
LEMMA CloseEventStep == ASSUME Inv, NEW w \in Sockets, CloseEvent(w) PROVE Inv'
  <1> DEFINE r == removeEndpoint(relay, w)
             e == [NoEndpoint EXCEPT !.closed = TRUE, !.dropped = relay.endpoint[w].dropped]
             q == [r EXCEPT !.socket[w] = "closed"]
             t == [q EXCEPT !.endpoint[w] = e]
  <1>1. relay.socket[w] \in {"dead", "closing", "leaving"} /\ relay \in RelayState /\ Agreed(relay)
    BY DEF CloseEvent, Inv, Typed
  <1>2. /\ r \in RelayState /\ Agreed(r) /\ Weaker(relay, r)
        /\ r.endpoint[w].closed /\ r.socket[w] = relay.socket[w]
    BY <1>1, RemoveAgrees
  <1>3. e \in Endpoint /\ e.closed /\ e.peer = None /\ e.dropped = relay.endpoint[w].dropped
    BY <1>1, NoEndpointTyped, Zenon DEF NoEndpoint, Endpoint, RelayState
  <1> HIDE DEF e
  <1>4. relay' = t
    <2>1. relay' = [r EXCEPT !.socket[w] = "closed", !.endpoint[w] = e]
      BY DEF CloseEvent, e
    <2> HIDE DEF r
    <2> QED  BY <1>2, <2>1 DEF RelayState
  <1> HIDE DEF r
  <1>5. /\ q \in RelayState /\ q.session = r.session /\ q.endpoint = r.endpoint
        /\ \A x \in Sockets : q.socket[x] = IF x = w THEN "closed" ELSE r.socket[x]
    <2>1. "closed" \in SocketStates
      BY DEF SocketStates
    <2> QED  BY <1>2, <2>1, SocketPut
  <1> HIDE DEF q
  <1>6. /\ t \in RelayState /\ t.session = r.session /\ t.socket = q.socket
        /\ \A x \in Sockets : t.endpoint[x] = IF x = w THEN e ELSE r.endpoint[x]
    BY <1>3, <1>5, EndpointPut
  <1> HIDE DEF t
  <1>7. /\ relay' \in RelayState /\ relay'.session = r.session
        /\ \A x \in Sockets \ {w} : /\ relay'.socket[x] = r.socket[x]
                                    /\ relay'.endpoint[x] = r.endpoint[x]
        /\ relay'.socket[w] = "closed" /\ relay'.endpoint[w] = e
    BY <1>4, <1>5, <1>6
  <1>8. ~LiveIn(r, w) /\ ~Member(r, w) /\ peer(r, w) = None
    <2>1. ~LiveIn(r, w) /\ ~Member(r, w)
      BY <1>2 DEF LiveIn, Agreed
    <2> QED  BY <1>2, <2>1 DEF Agreed, Partner, Member
  <1>9. /\ ~LiveIn(relay', w) /\ peer(relay', w) = None
        /\ \A x \in Sockets \ {w} : /\ LiveIn(relay', x) <=> LiveIn(r, x)
                                    /\ peer(relay', x) = peer(r, x)
    BY <1>3, <1>7 DEF LiveIn, peer
  <1>10. Agreed(relay')
    <2>1. \A x \in Sockets : (Member(relay', x) <=> Member(r, x)) /\ Partner(relay', x) = Partner(r, x)
      BY <1>7 DEF Member, Partner
    <2>2. ASSUME NEW x \in Sockets
          PROVE  /\ Member(relay', x) <=> LiveIn(relay', x)
                 /\ peer(relay', x) = Partner(relay', x)
                 /\ relay'.socket[x] = "none" => relay'.endpoint[x] = NoEndpoint
                 /\ relay'.socket[x] = "closed" => relay'.endpoint[x].closed
      <3>1. CASE x = w
        <4>1. Partner(r, w) = None
          BY <1>2, <1>8 DEF Agreed
        <4> QED  BY <1>3, <1>7, <1>8, <1>9, <2>1, <3>1, <4>1
      <3>2. CASE x # w
        BY <1>2, <1>7, <1>9, <2>1, <3>2 DEF Agreed
      <3> QED  BY <3>1, <3>2
    <2>3. /\ relay'.session.listed <=> (relay'.session.client # None \/ relay'.session.server # None)
          /\ relay'.session.timer <=> ((relay'.session.client = None) # (relay'.session.server = None))
      BY <1>2, <1>7 DEF Agreed
    <2> QED  BY <2>2, <2>3 DEF Agreed
  <1>11. Forget(w) /\ failed' = failed
    BY DEF CloseEvent
  <1>12. Typed'
    <2>1. e.pending = <<>>
      BY <1>1 DEF e, NoEndpoint
    <2>2. ASSUME NEW x \in Sockets PROVE Len(relay'.endpoint[x].pending) <= MaxPending
      <3>1. CASE x = w
        BY <1>7, <2>1, <3>1, LocalTunnelAssumption
      <3>2. CASE x # w
        BY <1>2, <1>7, <3>2, ZenonT(60) DEF Inv, Typed, Weaker, WeakerAt
      <3> QED  BY <3>1, <3>2
    <2> QED  BY <1>7, <1>11, <2>2, ForgetEffect, Zenon DEF Typed, Inv
  <1>13. ASSUME NEW x \in Sockets, x # w PROVE OrderedAt(x)'
    <2>1. OrderedAt(x) /\ WeakerAt(relay, r, x) /\ sent'[x] = sent[x] /\ got'[x] = got[x]
      BY <1>2, <1>11, <1>13, ForgetEffect DEF Inv, Ordered, Weaker
    <2>2. WeakerAt(relay, relay', x)
      BY <1>7, <1>9, <1>13, <2>1 DEF WeakerAt
    <2>3. /\ \A u \in Sockets : relay.endpoint[u].dropped => relay'.endpoint[u].dropped
          /\ \A u \in Sockets : relay'.socket[u] = "open" => relay.socket[u] = "open"
      <3>1. ASSUME NEW u \in Sockets
            PROVE  /\ relay.endpoint[u].dropped => relay'.endpoint[u].dropped
                   /\ relay'.socket[u] = "open" => relay.socket[u] = "open"
        BY <1>2, <1>3, <1>7 DEF Weaker, WeakerAt
      <3> QED  BY <3>1
    <2>4. \A u \in Sockets : peer(relay, x) = u /\ relay'.socket[u] = "open" => got'[u] = got[u]
      BY <1>7, <1>11, ForgetEffect
    <2> QED  BY <2>1, <2>2, <2>3, <2>4, KeepsOrderAt, Zenon
  <1>14. OrderedAt(w)'
    <2>1. \A v \in Sockets : From(v, w)'
      BY <1>11, ForgetEffect
    <2>2. relay'.socket[w] # "none" /\ relay'.socket[w] # "open"
      BY <1>7
    <2> QED  BY <1>9, <2>1, <2>2, RolesApart, Zenon DEF OrderedAt
  <1> QED  BY <1>7, <1>10, <1>12, <1>13, <1>14 DEF Inv, Ordered

(* Registration.                                                           *)

\* What a socket that joins makes of the session.
JoinedAt(r, w, q) ==
    /\ q \in RelayState /\ q.socket = r.socket /\ q.endpoint = r.endpoint
    /\ q.session.listed
    /\ q.session.timer = IF r.session.listed THEN r.session.timer ELSE TRUE
    /\ q.session.client = IF w \in Clients THEN w ELSE r.session.client
    /\ q.session.server = IF w \in Clients THEN r.session.server ELSE w

\* A socket that joins takes its role and, when it is the first, the timer.
LEMMA JoinedEffect ==
    ASSUME NEW r \in RelayState, NEW w \in Sockets,
           r.session.listed <=> (r.session.client # None \/ r.session.server # None)
    PROVE  JoinedAt(r, w, Joined(r, w))
  <1> DEFINE q == Joined(r, w)
             z == IF r.session.listed THEN [r.session EXCEPT ![role(w)] = w]
                  ELSE [NoSession EXCEPT !.listed = TRUE, !.timer = TRUE, ![role(w)] = w]
  <1>1. q = [r EXCEPT !.session = z]
    BY DEF Joined
  <1>2. /\ z \in Session /\ z.listed
        /\ z.timer = IF r.session.listed THEN r.session.timer ELSE TRUE
        /\ z.client = IF w \in Clients THEN w ELSE r.session.client
        /\ z.server = IF w \in Clients THEN r.session.server ELSE w
    <2>1. CASE w \in Clients
      <3>1. role(w) = "client" /\ w \in Clients /\ r.session \in Session
        BY <2>1, RolesApart DEF RelayState
      <3> QED  BY <2>1, <3>1, Zenon DEF Session, NoSession
    <2>2. CASE w \notin Clients
      <3>1. role(w) = "server" /\ w \in Servers /\ r.session \in Session
        BY <2>2, RolesApart DEF RelayState, Sockets
      <3> QED  BY <2>2, <3>1, Zenon DEF Session, NoSession
    <2> QED  BY <2>1, <2>2, Zenon
  <1> HIDE DEF z
  <1>3. /\ q \in RelayState /\ q.session = z /\ q.socket = r.socket /\ q.endpoint = r.endpoint
    BY <1>1, <1>2 DEF RelayState
  <1> QED  BY <1>2, <1>3 DEF JoinedAt

\* What becomes of the two endpoints of a pair.
PairPutAt(r, c, s, k, l, m, n) ==
    LET o == [r EXCEPT !.session.timer = FALSE, !.endpoint[c].peer = s,
                       !.endpoint[s].peer = c]
        q == [o EXCEPT !.endpoint[c].pending = k, !.endpoint[s].pending = l,
                       !.endpoint[c].held = m, !.endpoint[s].held = n]
    IN  /\ o.socket = r.socket
        /\ o.endpoint[c] = [r.endpoint[c] EXCEPT !.peer = s]
        /\ o.endpoint[s] = [r.endpoint[s] EXCEPT !.peer = c]
        /\ q \in RelayState /\ q.socket = r.socket
        /\ q.session = [r.session EXCEPT !.timer = FALSE]
        /\ \A x \in Sockets \ {c, s} : q.endpoint[x] = r.endpoint[x]
        /\ q.endpoint[c] = [r.endpoint[c] EXCEPT !.peer = s, !.pending = k, !.held = m]
        /\ q.endpoint[s] = [r.endpoint[s] EXCEPT !.peer = c, !.pending = l, !.held = n]
\* Paired and the handing over change the two endpoints and the timer.
LEMMA PairPut ==
    ASSUME NEW r \in RelayState, NEW c \in Sockets, NEW s \in Sockets, c # s,
           NEW k \in Seq(Frames), NEW l \in Seq(Frames),
           NEW m \in 0 .. MaxPending, NEW n \in 0 .. MaxPending
    PROVE  PairPutAt(r, c, s, k, l, m, n)
  <1> DEFINE o == [r EXCEPT !.session.timer = FALSE, !.endpoint[c].peer = s,
                            !.endpoint[s].peer = c]
             q == [o EXCEPT !.endpoint[c].pending = k, !.endpoint[s].pending = l,
                            !.endpoint[c].held = m, !.endpoint[s].held = n]
             a == [r.endpoint[c] EXCEPT !.peer = s, !.pending = k, !.held = m]
             b == [r.endpoint[s] EXCEPT !.peer = c, !.pending = l, !.held = n]
             z == [r.session EXCEPT !.timer = FALSE]
  <1>1. a \in Endpoint /\ b \in Endpoint
    BY ZenonT(60) DEF RelayState, Endpoint
  <1>2. z \in Session
    BY Zenon DEF RelayState, Session
  <1> DEFINE a1 == [r.endpoint[c] EXCEPT !.peer = s]
             b1 == [r.endpoint[s] EXCEPT !.peer = c]
             E1 == [r.endpoint EXCEPT ![c] = a1, ![s] = b1]
             E2 == [E1 EXCEPT ![c] = a, ![s] = b]
             r1 == [r EXCEPT !.session = z, !.endpoint = E1]
  <1>3. /\ a1 \in Endpoint /\ b1 \in Endpoint
        /\ [a1 EXCEPT !.pending = k, !.held = m] = a
        /\ [b1 EXCEPT !.pending = l, !.held = n] = b
    BY Zenon DEF RelayState, Endpoint
  <1>4. o = r1
    BY Zenon DEF RelayState
  <1> HIDE DEF a, b, z, a1, b1
  <1>5. /\ E1 \in [Sockets -> Endpoint] /\ E1[c] = a1 /\ E1[s] = b1
        /\ \A x \in Sockets \ {c, s} : E1[x] = r.endpoint[x]
    BY <1>3 DEF RelayState
  <1>6. /\ E2 \in [Sockets -> Endpoint] /\ E2[c] = a /\ E2[s] = b
        /\ \A x \in Sockets \ {c, s} : E2[x] = r.endpoint[x]
    BY <1>1, <1>5
  <1> HIDE DEF E1
  <1>7. /\ r1 \in RelayState /\ r1.socket = r.socket /\ r1.session = z /\ r1.endpoint = E1
    BY <1>2, <1>5, Zenon DEF RelayState
  <1>0. o.socket = r.socket /\ o.endpoint[c] = a1 /\ o.endpoint[s] = b1
    BY <1>4, <1>5, <1>7, Zenon
  <1> HIDE DEF r1, o
  <1>8. q = [r1 EXCEPT !.endpoint = [E1 EXCEPT ![c] = [E1[c] EXCEPT !.pending = k, !.held = m],
                                               ![s] = [E1[s] EXCEPT !.pending = l, !.held = n]]]
    BY <1>4, <1>7, <1>5, ZenonT(60) DEF RelayState
  <1>9. q = [r1 EXCEPT !.endpoint = E2]
    BY <1>3, <1>5, <1>8
  <1> HIDE DEF E2, q
  <1>10. /\ q \in RelayState /\ q.socket = r.socket /\ q.session = z
         /\ \A x \in Sockets \ {c, s} : q.endpoint[x] = r.endpoint[x]
         /\ q.endpoint[c] = a /\ q.endpoint[s] = b
    BY <1>6, <1>7, <1>9, Zenon DEF RelayState
  <1> QED  BY <1>0, <1>10, Zenon DEF a, b, z, q, o, a1, b1, PairPutAt

\* w has come to v, which waited.
Pairs(v, w) ==
    /\ v # w /\ relay.socket[w] = "none"
    /\ Member(relay, v) /\ \A x \in Sockets : Member(relay, x) => x = v
    /\ LiveIn(relay, v) /\ peer(relay, v) = None
    /\ relay' \in RelayState
    /\ {relay'.session.client, relay'.session.server} = {v, w}
    /\ relay'.session.listed /\ ~relay'.session.timer
    /\ relay'.socket = [relay.socket EXCEPT ![w] = "open"]
    /\ \A x \in Sockets \ {v, w} : relay'.endpoint[x] = relay.endpoint[x]
    /\ relay'.endpoint[w].peer = v /\ relay'.endpoint[v].peer = w
    /\ relay'.endpoint[w].pending = <<>> /\ relay'.endpoint[v].pending = <<>>
    /\ ~relay'.endpoint[w].dropped
    /\ relay'.endpoint[v].dropped = relay.endpoint[v].dropped
    /\ ~relay'.endpoint[w].closed /\ ~relay'.endpoint[v].closed
    /\ got' = [got EXCEPT ![v] = <<>>, ![w] = relay.endpoint[v].pending]
    /\ UNCHANGED <<failed, sent, flushed, asks, heard>>

\* A pair is formed with the frames that were held for the second.
LEMMA PairedStep ==
    ASSUME Inv, NEW w \in Sockets, NEW v \in Sockets, Pairs(v, w)
    PROVE  Inv'
  <1> DEFINE held == relay.endpoint[v].pending
  <1>1. /\ relay \in RelayState /\ Agreed(relay) /\ OrderedAt(w) /\ OrderedAt(v)
        /\ held \in Seq(Frames) /\ got \in [Sockets -> Seq(Frames)]
    <2>1. /\ relay \in RelayState /\ Agreed(relay) /\ got \in [Sockets -> Seq(Frames)]
      BY DEF Inv, Typed
    <2>2. OrderedAt(w) /\ OrderedAt(v)
      BY DEF Inv, Ordered
    <2> QED  BY <2>1, <2>2 DEF RelayState, Endpoint
  <1>2. /\ got' \in [Sockets -> Seq(Frames)] /\ got'[v] = <<>> /\ got'[w] = held
        /\ \A x \in Sockets \ {v, w} : got'[x] = got[x]
    <2>1. v # w /\ got' = [got EXCEPT ![v] = <<>>, ![w] = held]
      BY DEF Pairs
    <2>2. got \in [Sockets -> Seq(Frames)] /\ held \in Seq(Frames) /\ <<>> \in Seq(Frames)
      BY <1>1
    <2> HIDE DEF held
    <2> QED  BY <2>1, <2>2, Zenon
  <1>3. got[v] = <<>> /\ got[w] = <<>> /\ sent[w] = 0 /\ flushed[w] = 0 /\ flushed[v] = 0
    <2>1. got[v] = <<>> /\ got[w] = <<>> /\ sent[w] = 0
      BY <1>1 DEF OrderedAt, Pairs
    <2>2. flushed[v] \in Nat /\ flushed[w] \in Nat /\ flushed[v] <= Len(got[v])
          /\ flushed[w] <= Len(got[w]) /\ Len(<<>>) = 0
      BY DEF Inv, Typed
    <2> QED  BY <2>1, <2>2
  <1>4. Typed'
    <2>1. ASSUME NEW x \in Sockets PROVE Len(relay'.endpoint[x].pending) <= MaxPending
      <3>1. Len(<<>>) = 0 /\ Len(relay.endpoint[x].pending) <= MaxPending
        BY DEF Inv, Typed
      <3> QED  BY <3>1, LocalTunnelAssumption DEF Pairs
    <2>2. ASSUME NEW x \in Sockets PROVE flushed'[x] <= Len(got'[x])
      <3>1. Len(<<>>) = 0 /\ flushed[x] <= Len(got[x]) /\ flushed' = flushed
            /\ Len(held) \in Nat
        BY <1>1 DEF Inv, Typed, Pairs
      <3> QED  BY <1>2, <1>3, <3>1
    <2> QED  BY <1>2, <2>1, <2>2, Zenon DEF Inv, Typed, Pairs
  <1>5. \A x \in Sockets : x # w => relay'.socket[x] = relay.socket[x]
    BY <1>1 DEF RelayState, Pairs
  <1>6. relay'.socket[w] = "open"
    BY <1>1 DEF RelayState, Pairs
  <1>7. /\ relay'.session.client # None /\ relay'.session.server # None
        /\ \A x \in Sockets : Member(relay', x) <=> x \in {v, w}
        /\ Partner(relay', v) = w /\ Partner(relay', w) = v
    <2> DEFINE c == relay'.session.client
               s == relay'.session.server
    <2>1. (c = v /\ s = w) \/ (c = w /\ s = v)
      BY Zenon DEF Pairs
    <2>2. v # w
      BY DEF Pairs
    <2> HIDE DEF c, s
    <2>3. /\ c # None /\ s # None
          /\ \A x \in Sockets : (x = c \/ x = s) <=> x \in {v, w}
          /\ (IF v = c THEN s ELSE IF v = s THEN c ELSE None) = w
          /\ (IF w = c THEN s ELSE IF w = s THEN c ELSE None) = v
      BY <2>1, <2>2, RolesApart
    <2> QED  BY <2>3 DEF c, s, Member, Partner
  <1>8. \A x \in Sockets \ {v, w} : ~Member(relay, x) /\ ~LiveIn(relay, x) /\ peer(relay, x) = None
    BY <1>1 DEF Agreed, Partner, Member, Pairs
  <1>9. \A x \in Sockets \ {v, w} : ~LiveIn(relay', x) /\ peer(relay', x) = None
    BY <1>5, <1>8 DEF LiveIn, peer, Pairs
  <1>10. LiveIn(relay', v) /\ LiveIn(relay', w) /\ peer(relay', v) = w /\ peer(relay', w) = v
    BY <1>5, <1>6 DEF LiveIn, peer, Pairs
  <1>11. Agreed(relay')
    <2>1. ASSUME NEW x \in Sockets
          PROVE  /\ Member(relay', x) <=> LiveIn(relay', x)
                 /\ peer(relay', x) = Partner(relay', x)
                 /\ relay'.socket[x] = "none" => relay'.endpoint[x] = NoEndpoint
                 /\ relay'.socket[x] = "closed" => relay'.endpoint[x].closed
      <3>1. CASE x \in {v, w}
        <4>1. relay'.socket[x] # "none" /\ relay'.socket[x] # "closed"
          BY <1>10, <3>1 DEF LiveIn
        <4> QED  BY <1>7, <1>10, <3>1, <4>1
      <3>2. CASE x \notin {v, w}
        <4>1. Partner(relay', x) = None
          BY <1>7, <3>2 DEF Partner, Member
        <4>2. /\ relay'.socket[x] = relay.socket[x] /\ relay'.endpoint[x] = relay.endpoint[x]
          BY <1>5, <3>2 DEF Pairs
        <4> QED  BY <1>1, <1>7, <1>9, <3>2, <4>1, <4>2 DEF Agreed
      <3> QED  BY <3>1, <3>2
    <2> QED  BY <1>7, <2>1 DEF Agreed, Pairs
  <1>12. ASSUME NEW x \in Sockets, x \notin {v, w} PROVE OrderedAt(x)'
    <2>1. /\ OrderedAt(x) /\ sent' = sent /\ got'[x] = got[x]
          /\ relay'.endpoint[x] = relay.endpoint[x] /\ relay'.socket[x] = relay.socket[x]
      BY <1>2, <1>5, <1>12 DEF Inv, Ordered, Pairs
    <2>2. ASSUME NEW u \in Sockets, From(u, x) PROVE From(u, x)'
      <3>1. relay.endpoint[u].dropped => relay'.endpoint[u].dropped
        <4>1. ~relay.endpoint[w].dropped
          BY <1>1 DEF Agreed, NoEndpoint, Pairs
        <4> QED  BY <4>1 DEF Pairs
      <3> QED  BY <2>1, <2>2, <3>1 DEF From, Numbered
    <2>3. (\E u \in Sockets : From(u, x))'
      BY <2>1, <2>2 DEF OrderedAt
    <2>4. ~LiveIn(relay', x) /\ peer(relay', x) = None
      BY <1>9, <1>12
    <2>5. /\ relay'.endpoint[x].dropped => relay'.socket[x] # "open"
          /\ relay'.socket[x] = "none" => sent'[x] = 0 /\ got'[x] = <<>>
      BY <2>1 DEF OrderedAt
    <2> QED  BY <2>3, <2>4, <2>5, RolesApart, Zenon DEF OrderedAt
  <1>13. OrderedAt(v)'
    <2>1. From(w, v)'
      <3>1. got'[v] = <<>>
        BY <1>2
      <3>2. Len(<<>>) = 0 /\ Numbered(w, 0) = <<>>
        BY NumberedMore
      <3>3. /\ \A i \in 1 .. Len(got'[v]) : got'[v][i][1] = w
            /\ got'[v] = Numbered(w, Len(got'[v]))
        BY <3>1, <3>2
      <3>4. Numbered(w, Len(got[v]))' = Numbered(w, Len(got'[v]))
        BY DEF Numbered
      <3> QED  BY <3>3, <3>4 DEF From
    <2>2. relay'.socket[v] = relay.socket[v]
      BY <1>5 DEF Pairs
    <2>3. ~LiveIn(relay', v) \/ peer(relay', v) # None
      BY <1>10, RolesApart
    <2>4. /\ relay'.endpoint[v].dropped => relay'.socket[v] # "open"
          /\ relay'.socket[v] # "none"
      BY <1>1, <1>10, <2>2 DEF OrderedAt, LiveIn, Pairs
    <2>5. ASSUME NEW u \in Sockets, peer(relay', v) = u
          PROVE  /\ From(u, v)'
                 /\ relay'.socket[u] = "open" /\ Reading(v)' /\ ~relay'.endpoint[v].dropped =>
                      Len(got'[u]) = sent'[v] /\ relay'.endpoint[v].pending = <<>>
      <3>1. u = w
        BY <1>10, <2>5
      <3>2. Reading(v)' /\ ~relay'.endpoint[v].dropped => Len(held) = sent[v]
        BY <1>1, <2>2 DEF OrderedAt, Reading, Pairs
      <3> QED  BY <1>2, <2>1, <3>1, <3>2 DEF Pairs
    <2> QED  BY <2>1, <2>3, <2>4, <2>5, Zenon DEF OrderedAt
  <1>14. OrderedAt(w)'
    <2>1. From(v, w)'
      <3>1. held = Numbered(v, Len(held))
        BY <1>1 DEF OrderedAt, Pairs
      <3>2. Len(held) \in Nat
        BY <1>1
      <3>3. \A i \in 1 .. Len(held) : held[i][1] = v
        <4>1. \A i \in 1 .. Len(held) : Numbered(v, Len(held))[i][1] = v
          BY <3>2 DEF Numbered
        <4> HIDE DEF held
        <4> QED  BY <3>1, <4>1, Zenon
      <3> HIDE DEF held
      <3>4. /\ \A i \in 1 .. Len(got'[w]) : got'[w][i][1] = v
            /\ got'[w] = Numbered(v, Len(got'[w]))
        BY <1>2, <3>1, <3>3
      <3> QED  BY <3>4 DEF From, Numbered
    <2>2. peer(relay', w) # None
      BY <1>10, RolesApart
    <2>3. ASSUME NEW u \in Sockets, peer(relay', w) = u
          PROVE  /\ From(u, w)'
                 /\ relay'.socket[u] = "open" /\ Reading(w)' /\ ~relay'.endpoint[w].dropped =>
                      Len(got'[u]) = sent'[w] /\ relay'.endpoint[w].pending = <<>>
      <3>1. u = v
        BY <1>10, <2>3
      <3>2. Len(<<>>) = 0
        OBVIOUS
      <3> QED  BY <1>2, <1>3, <2>1, <3>1, <3>2 DEF Pairs
    <2>4. ~relay'.endpoint[w].dropped
      BY DEF Pairs
    <2> QED  BY <1>6, <2>4, <2>1, <2>2, <2>3, Zenon DEF OrderedAt
  <1>15. ASSUME NEW x \in Sockets PROVE OrderedAt(x)'
    BY <1>12, <1>13, <1>14
  <1> QED  BY <1>4, <1>11, <1>15 DEF Inv, Ordered

\* A registration, refused, alone or second, keeps the invariant.
LEMMA RegisterStep == ASSUME Inv, NEW w \in Sockets, Register(w) PROVE Inv'
  <1> DEFINE opened == [relay EXCEPT !.socket[w] = "open"]
             joined == Joined(opened, w)
             paired == Paired(joined)
             c == joined.session.client
             s == joined.session.server
             refused == [relay EXCEPT !.socket[w] = "closed", !.endpoint[w].closed = TRUE]
  <1>1. /\ relay \in RelayState /\ Agreed(relay)
        /\ relay.socket[w] = "none" /\ UNCHANGED <<failed, sent, flushed, asks, heard>>
    BY Zenon DEF Inv, Typed, Register
  <1>2. /\ relay.endpoint[w] = NoEndpoint /\ ~LiveIn(relay, w) /\ ~Member(relay, w)
        /\ peer(relay, w) = None
    BY <1>1 DEF Agreed, LiveIn, Partner, Member
  <1>3. OrderedAt(w) /\ got[w] = <<>> /\ sent[w] = 0
    BY <1>1 DEF OrderedAt, Inv, Ordered
  <1>4. \/ /\ relay.session[role(w)] # None
           /\ relay' = refused /\ UNCHANGED got
        \/ /\ relay.session[role(w)] = None /\ None \in {c, s}
           /\ relay' = joined /\ UNCHANGED got
        \/ /\ relay.session[role(w)] = None /\ None \notin {c, s}
           /\ relay' = [paired EXCEPT
                     !.endpoint[c].pending = IF Reachable(paired, c) THEN <<>> ELSE @,
                     !.endpoint[s].pending = IF Reachable(paired, s) THEN <<>> ELSE @,
                     !.endpoint[c].held = Len(HandedOver(paired, s)),
                     !.endpoint[s].held = Len(HandedOver(paired, c))]
           /\ got' = [got EXCEPT ![s] = HandedOver(paired, c),
                                 ![c] = HandedOver(paired, s)]
    BY Zenon DEF Register
  <1>5. /\ opened \in RelayState /\ opened.session = relay.session
        /\ opened.endpoint = relay.endpoint
        /\ \A x \in Sockets : opened.socket[x] = IF x = w THEN "open" ELSE relay.socket[x]
        /\ opened.socket = [relay.socket EXCEPT ![w] = "open"]
    <2>1. "open" \in SocketStates
      BY DEF SocketStates
    <2>2. /\ opened \in RelayState /\ opened.session = relay.session
          /\ opened.endpoint = relay.endpoint
          /\ \A x \in Sockets : opened.socket[x] = IF x = w THEN "open" ELSE relay.socket[x]
      BY <1>1, <2>1, SocketPut
    <2>3. opened.socket = [relay.socket EXCEPT ![w] = "open"]
      BY <1>1 DEF RelayState
    <2> QED  BY <2>2, <2>3
  <1> HIDE DEF opened
  <1>6. /\ joined \in RelayState /\ joined.socket = opened.socket
        /\ joined.endpoint = relay.endpoint
        /\ joined.session.listed
        /\ joined.session.timer = IF relay.session.listed THEN relay.session.timer ELSE TRUE
        /\ c = IF w \in Clients THEN w ELSE relay.session.client
        /\ s = IF w \in Clients THEN relay.session.server ELSE w
    <2>1. opened.session.listed <=>
            (opened.session.client # None \/ opened.session.server # None)
      BY <1>1, <1>5 DEF Agreed
    <2>2. opened \in RelayState
      BY <1>5
    <2>3. JoinedAt(opened, w, joined)
      BY <2>1, <2>2, JoinedEffect
    <2> HIDE DEF joined
    <2> QED  BY <1>5, <2>3 DEF JoinedAt
  <1> HIDE DEF joined
  <1>7. CASE relay.session[role(w)] # None /\ relay' = refused /\ UNCHANGED got
    <2> DEFINE e == [NoEndpoint EXCEPT !.closed = TRUE]
               q == [relay EXCEPT !.socket[w] = "closed"]
               t == [q EXCEPT !.endpoint[w] = e]
    <2>1. e \in Endpoint /\ e.closed /\ e.peer = None /\ e.pending = <<>> /\ ~e.dropped
      BY NoEndpointTyped, Zenon DEF NoEndpoint, Endpoint
    <2>2. refused = t
      BY <1>1, <1>2, Zenon DEF RelayState
    <2> HIDE DEF e, refused
    <2>3. /\ q \in RelayState /\ q.session = relay.session /\ q.endpoint = relay.endpoint
          /\ \A x \in Sockets : q.socket[x] = IF x = w THEN "closed" ELSE relay.socket[x]
      <3>1. "closed" \in SocketStates
        BY DEF SocketStates
      <3> QED  BY <1>1, <3>1, SocketPut
    <2> HIDE DEF q
    <2>4. /\ t \in RelayState /\ t.session = q.session /\ t.socket = q.socket
          /\ \A x \in Sockets : t.endpoint[x] = IF x = w THEN e ELSE q.endpoint[x]
      BY <2>1, <2>3, EndpointPut
    <2> HIDE DEF t
    <2>5. /\ relay' \in RelayState /\ relay'.session = relay.session
          /\ relay'.socket[w] = "closed" /\ relay'.endpoint[w] = e
          /\ \A x \in Sockets \ {w} : /\ relay'.socket[x] = relay.socket[x]
                                      /\ relay'.endpoint[x] = relay.endpoint[x]
      BY <1>7, <2>2, <2>3, <2>4
    <2>6. ~LiveIn(relay', w) /\ peer(relay', w) = None
      BY <2>1, <2>5 DEF LiveIn, peer
    <2>7. Agreed(relay')
      <3>1. \A x \in Sockets : (Member(relay', x) <=> Member(relay, x))
                               /\ Partner(relay', x) = Partner(relay, x)
        BY <2>5 DEF Member, Partner
      <3>2. ASSUME NEW x \in Sockets
            PROVE  /\ Member(relay', x) <=> LiveIn(relay', x)
                   /\ peer(relay', x) = Partner(relay', x)
                   /\ relay'.socket[x] = "none" => relay'.endpoint[x] = NoEndpoint
                   /\ relay'.socket[x] = "closed" => relay'.endpoint[x].closed
        <4>1. CASE x = w
          <5>1. Partner(relay, w) = None
            BY <1>2 DEF Partner, Member
          <5> QED  BY <1>2, <2>1, <2>5, <2>6, <3>1, <4>1, <5>1
        <4>2. CASE x # w
          <5>1. (LiveIn(relay', x) <=> LiveIn(relay, x)) /\ peer(relay', x) = peer(relay, x)
            BY <2>5, <4>2 DEF LiveIn, peer
          <5> QED  BY <1>1, <2>5, <3>1, <4>2, <5>1 DEF Agreed
        <4> QED  BY <4>1, <4>2
      <3> QED  BY <1>1, <2>5, <3>2 DEF Agreed
    <2>8. Typed'
      <3>1. ASSUME NEW x \in Sockets PROVE Len(relay'.endpoint[x].pending) <= MaxPending
        <4>1. Len(<<>>) = 0 /\ Len(relay.endpoint[x].pending) <= MaxPending
          BY DEF Inv, Typed
        <4> QED  BY <2>1, <2>5, <4>1, LocalTunnelAssumption
      <3> QED  BY <1>1, <1>7, <2>5, <3>1 DEF Inv, Typed
    <2>9. ASSUME NEW x \in Sockets, x # w PROVE OrderedAt(x)'
      <3>1. OrderedAt(x) /\ sent'[x] = sent[x] /\ got'[x] = got[x]
        BY <1>1, <1>7 DEF Inv, Ordered
      <3>2. WeakerAt(relay, relay', x)
        BY <2>5, <2>9 DEF WeakerAt, LiveIn, peer
      <3>3. /\ \A u \in Sockets : relay.endpoint[u].dropped => relay'.endpoint[u].dropped
            /\ \A u \in Sockets : relay'.socket[u] = "open" => relay.socket[u] = "open"
        <4>1. ~relay.endpoint[w].dropped
          BY <1>2 DEF NoEndpoint
        <4> QED  BY <2>5, <4>1
      <3>4. \A u \in Sockets : peer(relay, x) = u /\ relay'.socket[u] = "open" => got'[u] = got[u]
        BY <1>7
      <3> QED  BY <3>1, <3>2, <3>3, <3>4, KeepsOrderAt, Zenon
    <2>10. OrderedAt(w)'
      <3>1. From(w, w)'
        BY <1>3, <1>7 DEF From, Numbered
      <3>2. relay'.socket[w] # "none" /\ relay'.socket[w] # "open"
        BY <2>5
      <3> QED  BY <2>6, <3>1, <3>2, RolesApart, Zenon DEF OrderedAt
    <2> QED  BY <2>7, <2>8, <2>9, <2>10 DEF Inv, Ordered
  <1>8. CASE relay.session[role(w)] = None /\ None \in {c, s} /\ relay' = joined /\ UNCHANGED got
    <2>1. relay.session.client = None /\ relay.session.server = None
      <3>1. CASE w \in Clients
        BY <1>6, <1>8, <3>1, RolesApart
      <3>2. CASE w \notin Clients
        BY <1>6, <1>8, <3>2, RolesApart DEF Sockets
      <3> QED  BY <3>1, <3>2
    <2>2. /\ relay' \in RelayState /\ relay'.endpoint = relay.endpoint
          /\ relay'.socket[w] = "open"
          /\ \A x \in Sockets \ {w} : relay'.socket[x] = relay.socket[x]
      BY <1>5, <1>6, <1>8, Zenon
    <2>3. /\ relay'.session.listed /\ relay'.session.timer
          /\ \/ relay'.session.client = w /\ relay'.session.server = None
             \/ relay'.session.client = None /\ relay'.session.server = w
      BY <1>1, <1>6, <1>8, <2>1, Zenon DEF Agreed
    <2>4. \A x \in Sockets : (Member(relay', x) <=> x = w) /\ Partner(relay', x) = None
      BY <2>3, RolesApart DEF Member, Partner
    <2>5. \A x \in Sockets \ {w} : ~LiveIn(relay, x) /\ ~LiveIn(relay', x)
      BY <1>1, <2>1, <2>2, RolesApart DEF Agreed, Member, LiveIn
    <2>6. LiveIn(relay', w) /\ \A x \in Sockets : peer(relay', x) = None /\ peer(relay, x) = None
      <3>1. ~relay.endpoint[w].closed
        BY <1>2 DEF NoEndpoint
      <3>2. \A x \in Sockets : peer(relay, x) = None
        BY <1>1, <2>1, RolesApart DEF Agreed, Partner
      <3> QED  BY <2>2, <3>1, <3>2 DEF LiveIn, peer
    <2>7. Agreed(relay')
      <3>1. \A x \in Sockets :
              /\ relay'.socket[x] = "none" => relay'.endpoint[x] = NoEndpoint
              /\ relay'.socket[x] = "closed" => relay'.endpoint[x].closed
        BY <1>1, <2>2 DEF Agreed
      <3> QED  BY <2>3, <2>4, <2>5, <2>6, <3>1, RolesApart DEF Agreed
    <2>8. Typed'
      BY <1>1, <1>8, <2>2 DEF Inv, Typed
    <2>9. ASSUME NEW x \in Sockets, x # w PROVE OrderedAt(x)'
      <3>1. /\ OrderedAt(x) /\ sent' = sent /\ got' = got
            /\ relay'.endpoint = relay.endpoint /\ relay'.socket[x] = relay.socket[x]
        BY <1>1, <1>8, <2>2, <2>9 DEF Inv, Ordered
      <3>2. (\E u \in Sockets : From(u, x))'
        BY <3>1, Zenon DEF OrderedAt, From, Numbered
      <3>3. /\ relay'.endpoint[x].dropped => relay'.socket[x] # "open"
            /\ relay'.socket[x] = "none" => sent'[x] = 0 /\ got'[x] = <<>>
        BY <3>1 DEF OrderedAt
      <3> QED  BY <2>5, <2>6, <2>9, <3>2, <3>3, RolesApart, Zenon DEF OrderedAt
    <2>10. OrderedAt(w)'
      <3>1. got'[w] = <<>> /\ sent'[w] = 0
        BY <1>1, <1>3, <1>8
      <3>2. From(w, w)'
        BY <3>1 DEF From, Numbered
      <3>3. relay'.endpoint[w].pending = <<>> /\ ~relay'.endpoint[w].dropped
        BY <1>2, <2>2 DEF NoEndpoint
      <3>4. Len(<<>>) = 0 /\ Numbered(w, 0) = <<>>
        BY NumberedMore
      <3>5. /\ relay'.endpoint[w].pending = Numbered(w, Len(relay'.endpoint[w].pending))
            /\ Len(relay'.endpoint[w].pending) = sent'[w]
        BY <3>1, <3>3, <3>4
      <3> QED  BY <2>2, <2>6, <3>1, <3>2, <3>3, <3>5, RolesApart, Zenon DEF OrderedAt
    <2> QED  BY <2>7, <2>8, <2>9, <2>10 DEF Inv, Ordered
  <1>9. CASE /\ relay.session[role(w)] = None /\ None \notin {c, s}
             /\ relay' = [paired EXCEPT
                     !.endpoint[c].pending = IF Reachable(paired, c) THEN <<>> ELSE @,
                     !.endpoint[s].pending = IF Reachable(paired, s) THEN <<>> ELSE @,
                     !.endpoint[c].held = Len(HandedOver(paired, s)),
                     !.endpoint[s].held = Len(HandedOver(paired, c))]
             /\ got' = [got EXCEPT ![s] = HandedOver(paired, c),
                                   ![c] = HandedOver(paired, s)]
    <2> DEFINE v == IF w \in Clients THEN relay.session.server ELSE relay.session.client
               k == IF Reachable(paired, c) THEN <<>> ELSE paired.endpoint[c].pending
               l == IF Reachable(paired, s) THEN <<>> ELSE paired.endpoint[s].pending
               m == Len(HandedOver(paired, s))
               n == Len(HandedOver(paired, c))
    <2>1. PICK u \in Sockets : u = v
      <3>1. joined.session \in Session
        BY <1>6 DEF RelayState
      <3> QED  BY <1>6, <1>9, <3>1, RolesApart, Zenon DEF Session
    <2>2. /\ c \in Sockets /\ s \in Sockets /\ c # s /\ u # w
          /\ (c = w /\ s = u) \/ (c = u /\ s = w)
      <3>1. joined.session \in Session
        BY <1>6 DEF RelayState
      <3> QED  BY <1>6, <1>9, <2>1, <3>1, RolesApart, Zenon DEF Session
    <2>3. /\ Member(relay, u) /\ \A x \in Sockets : Member(relay, x) => x = u
          /\ Partner(relay, u) = None
      <3>1. CASE w \in Clients
        <4>1. relay.session.client = None /\ relay.session.server = u
          BY <1>9, <2>1, <3>1, RolesApart, Zenon
        <4> QED  BY <4>1, RolesApart DEF Member, Partner
      <3>2. CASE w \notin Clients
        <4>1. relay.session.server = None /\ relay.session.client = u
          BY <1>9, <2>1, <3>2, RolesApart, Zenon DEF Sockets
        <4> QED  BY <4>1, RolesApart DEF Member, Partner
      <3> QED  BY <3>1, <3>2
    <2>4. LiveIn(relay, u) /\ peer(relay, u) = None /\ ~relay.endpoint[u].closed
      BY <1>1, <2>3 DEF Agreed, LiveIn
    <2>5. OrderedAt(u) /\ relay.endpoint[u].pending \in Seq(Frames)
      BY <1>1 DEF Inv, Ordered, RelayState, Endpoint
    <2>6. /\ relay.endpoint[c] \in Endpoint /\ relay.endpoint[s] \in Endpoint
      BY <1>1, <2>2 DEF RelayState
    <2>7. paired = [joined EXCEPT !.session.timer = FALSE, !.endpoint[c].peer = s,
                                  !.endpoint[s].peer = c]
      BY DEF Paired
    <2> HIDE DEF c, s, paired
    <2>8. /\ paired.socket = joined.socket
          /\ paired.endpoint[c] = [relay.endpoint[c] EXCEPT !.peer = s]
          /\ paired.endpoint[s] = [relay.endpoint[s] EXCEPT !.peer = c]
      <3>1. <<>> \in Seq(Frames) /\ 0 \in 0 .. MaxPending
        BY LocalTunnelAssumption
      <3>2. joined \in RelayState
        BY <1>6
      <3>3. PairPutAt(joined, c, s, <<>>, <<>>, 0, 0)
        BY <2>2, <3>1, <3>2, PairPut, Zenon
      <3> QED  BY <1>6, <2>7, <3>3, Zenon DEF PairPutAt
    <2>9. /\ peer(paired, c) = s /\ peer(paired, s) = c
          /\ paired.endpoint[c].pending = relay.endpoint[c].pending
          /\ paired.endpoint[s].pending = relay.endpoint[s].pending
          /\ paired.endpoint[c].closed = relay.endpoint[c].closed
          /\ paired.endpoint[s].closed = relay.endpoint[s].closed
      BY <2>6, <2>8 DEF peer, Endpoint
    <2>10. relay.endpoint[w].pending = <<>> /\ ~relay.endpoint[w].closed /\ ~relay.endpoint[w].dropped
      BY <1>2 DEF NoEndpoint
    <2>11. peer(paired, u) = w /\ Reachable(paired, u)
      <3>1. peer(paired, u) = w
        BY <2>2, <2>9
      <3>2. paired.socket[w] = "open"
        BY <1>5, <1>6, <2>8
      <3>3. ~paired.endpoint[w].closed
        BY <2>2, <2>9, <2>10
      <3> QED  BY <3>1, <3>2, <3>3, RolesApart DEF Reachable
    <2>12. k = <<>> /\ l = <<>>
      BY <2>2, <2>9, <2>10, <2>11
    <2>13. HandedOver(paired, u) = relay.endpoint[u].pending /\ HandedOver(paired, w) = <<>>
      BY <2>2, <2>9, <2>10, <2>11 DEF HandedOver
    <2>14. m \in 0 .. MaxPending /\ n \in 0 .. MaxPending
      <3>1. Len(relay.endpoint[u].pending) \in 0 .. MaxPending
        BY <2>5, LocalTunnelAssumption DEF Inv, Typed
      <3>2. Len(<<>>) \in 0 .. MaxPending
        BY LocalTunnelAssumption
      <3> QED  BY <2>2, <2>13, <3>1, <3>2
    <2>15. relay' = [paired EXCEPT !.endpoint[c].pending = k, !.endpoint[s].pending = l,
                                   !.endpoint[c].held = m, !.endpoint[s].held = n]
      BY <1>9
    <2>16. got' = [got EXCEPT ![u] = <<>>, ![w] = relay.endpoint[u].pending]
      <3>1. got' = [got EXCEPT ![s] = HandedOver(paired, c), ![c] = HandedOver(paired, s)]
        BY <1>9
      <3> DEFINE h == relay.endpoint[u].pending
      <3>2. HandedOver(paired, u) = h
        BY <2>13
      <3> HIDE DEF h
      <3>3. got \in [Sockets -> Seq(Frames)]
        BY DEF Inv, Typed
      <3>4. CASE c = w /\ s = u
        BY <2>2, <2>13, <3>1, <3>2, <3>3, <3>4
      <3>5. CASE c = u /\ s = w
        BY <2>2, <2>13, <3>1, <3>2, <3>3, <3>5, Zenon
      <3> QED  BY <2>2, <3>4, <3>5 DEF h
    <2> HIDE DEF k, l, m, n
    <2>17. /\ relay' \in RelayState /\ relay'.socket = joined.socket
           /\ relay'.session = [joined.session EXCEPT !.timer = FALSE]
           /\ \A x \in Sockets \ {c, s} : relay'.endpoint[x] = relay.endpoint[x]
           /\ relay'.endpoint[c] = [relay.endpoint[c] EXCEPT !.peer = s, !.pending = k, !.held = m]
           /\ relay'.endpoint[s] = [relay.endpoint[s] EXCEPT !.peer = c, !.pending = l, !.held = n]
      <3> DEFINE o == [joined EXCEPT !.session.timer = FALSE, !.endpoint[c].peer = s,
                                     !.endpoint[s].peer = c]
                 q == [o EXCEPT !.endpoint[c].pending = k, !.endpoint[s].pending = l,
                                !.endpoint[c].held = m, !.endpoint[s].held = n]
      <3>1. k \in Seq(Frames) /\ l \in Seq(Frames)
        BY <2>12
      <3>2. /\ q \in RelayState /\ q.socket = joined.socket
            /\ q.session = [joined.session EXCEPT !.timer = FALSE]
            /\ \A x \in Sockets \ {c, s} : q.endpoint[x] = joined.endpoint[x]
            /\ q.endpoint[c] = [joined.endpoint[c] EXCEPT !.peer = s, !.pending = k, !.held = m]
            /\ q.endpoint[s] = [joined.endpoint[s] EXCEPT !.peer = c, !.pending = l, !.held = n]
        <4>1. joined \in RelayState
          BY <1>6
        <4>2. PairPutAt(joined, c, s, k, l, m, n)
          BY <2>2, <2>14, <3>1, <4>1, PairPut
        <4> QED  BY <4>2, Zenon DEF PairPutAt
      <3>3. relay' = q
        BY <2>7, <2>15
      <3> HIDE DEF q
      <3> QED  BY <1>6, <3>2, <3>3
    <2>18. /\ relay'.endpoint[c].peer = s /\ relay'.endpoint[s].peer = c
           /\ relay'.endpoint[c].pending = <<>> /\ relay'.endpoint[s].pending = <<>>
           /\ relay'.endpoint[c].dropped = relay.endpoint[c].dropped
           /\ relay'.endpoint[s].dropped = relay.endpoint[s].dropped
           /\ relay'.endpoint[c].closed = relay.endpoint[c].closed
           /\ relay'.endpoint[s].closed = relay.endpoint[s].closed
      BY <2>6, <2>12, <2>17 DEF Endpoint
    <2>19. /\ {relay'.session.client, relay'.session.server} = {u, w}
           /\ relay'.session.listed /\ ~relay'.session.timer
      <3>1. joined.session \in Session
        BY <1>6 DEF RelayState
      <3>2. /\ relay'.session.client = joined.session.client
            /\ relay'.session.server = joined.session.server
            /\ relay'.session.listed /\ ~relay'.session.timer
        BY <1>6, <2>17, <3>1 DEF Session
      <3>3. {c, s} = {u, w}
        BY <2>2
      <3> QED  BY <3>2, <3>3 DEF c, s
    <2>20. relay'.socket = [relay.socket EXCEPT ![w] = "open"]
      BY <1>5, <1>6, <2>17
    <2>21. /\ \A x \in Sockets \ {u, w} : relay'.endpoint[x] = relay.endpoint[x]
           /\ relay'.endpoint[w].peer = u /\ relay'.endpoint[u].peer = w
           /\ relay'.endpoint[w].pending = <<>> /\ relay'.endpoint[u].pending = <<>>
           /\ ~relay'.endpoint[w].dropped
           /\ relay'.endpoint[u].dropped = relay.endpoint[u].dropped
           /\ ~relay'.endpoint[w].closed /\ ~relay'.endpoint[u].closed
      BY <2>2, <2>4, <2>10, <2>17, <2>18, Zenon
    <2>22. Pairs(u, w)
      BY <1>1, <2>2, <2>3, <2>4, <2>16, <2>17, <2>19, <2>20, <2>21, Zenon DEF Pairs
    <2> QED  BY <2>22, PairedStep
  <1> QED  BY <1>4, <1>7, <1>8, <1>9, Zenon

-----------------------------------------------------------------------------
\* Every step keeps the invariant.
LEMMA NextStep == ASSUME Inv, [Next]_vars PROVE Inv'
  <1>1. CASE Timeout
    BY <1>1, TimeoutStep
  <1>2. ASSUME NEW w \in Sockets,
               \/ Register(w) \/ Frame(w) \/ Flow(w) \/ SendCallback(w) \/ SendFailed(w)
               \/ BrowserCloses(w) \/ ProtocolError(w) \/ Dies(w) \/ CloseEvent(w)
               \/ Asks(w)
        PROVE  Inv'
    BY <1>2, RegisterStep, FrameStep, FlowStep, SendCallbackStep, SendFailedStep,
       BrowserClosesStep, ProtocolErrorStep, DiesStep, CloseEventStep, AsksStep
  <1>3. CASE UNCHANGED vars
    BY <1>3, StutterStep
  <1> QED  BY <1>1, <1>2, <1>3 DEF Next

\* The session, the endpoints and the frames agree in every reachable state.
THEOREM Invariance == Spec => []Inv
  <1>1. Inv /\ [Next]_vars => Inv'
    BY NextStep
  <1> QED  BY <1>1, InitInv, PTL DEF Spec

\* The invariant gives the property of the session.
LEMMA SoundWhenAgreed == Inv => SessionIsSound
  <1> SUFFICES ASSUME Inv PROVE SessionIsSound
    OBVIOUS
  <1> DEFINE c == relay.session.client
             s == relay.session.server
             members == {c, s} \ {None}
  <1>1. /\ relay \in RelayState /\ Agreed(relay)
        /\ c \in Clients \cup {None} /\ s \in Servers \cup {None}
    BY DEF Inv, Typed, RelayState, Session
  <1>2. \A x \in Sockets : x \in members <=> Member(relay, x)
    BY RolesApart DEF Member
  <1>3. members \subseteq Sockets
    BY <1>1, RolesApart
  <1>4. members = {w \in Sockets : Live(w)}
    <2>1. \A x \in Sockets : Live(x) <=> LiveIn(relay, x)
      BY DEF Live, LiveIn
    <2> HIDE DEF members
    <2> QED  BY <1>1, <1>2, <1>3, <2>1 DEF Agreed
  <1>5. relay.session.listed <=> members # {}
    BY <1>1, RolesApart DEF Agreed
  <1>6. /\ Cardinality(members) = 1 <=> ((c = None) # (s = None))
        /\ Cardinality(members) = 2 <=> (c # None /\ s # None)
    <2>1. CASE c = None /\ s = None
      <3>1. members = {}
        BY <2>1
      <3>2. Cardinality(members) = 0
        BY <3>1, FS_EmptySet
      <3> QED  BY <2>1, <3>2
    <2>2. CASE c = None /\ s # None
      <3>1. members = {s}
        BY <2>2
      <3>2. Cardinality(members) = 1
        BY <3>1, FS_Singleton, Zenon
      <3> QED  BY <2>2, <3>2
    <2>3. CASE c # None /\ s = None
      <3>1. members = {c}
        BY <2>3
      <3>2. Cardinality(members) = 1
        BY <3>1, FS_Singleton, Zenon
      <3> QED  BY <2>3, <3>2
    <2>4. CASE c # None /\ s # None
      <3>1. members = {c} \cup {s} /\ s \notin {c}
        BY <1>1, <2>4, RolesApart
      <3>2. IsFiniteSet({c}) /\ Cardinality({c}) = 1
        BY FS_Singleton, Zenon
      <3>4. Cardinality({c} \cup {s}) = Cardinality({c}) + 1
        <4> HIDE DEF members, c, s
        <4> QED  BY <3>1, <3>2, FS_AddElement
      <3>3. Cardinality(members) = 2
        BY <3>1, <3>2, <3>4
      <3> QED  BY <2>4, <3>3
    <2> QED  BY <2>1, <2>2, <2>3, <2>4
  <1>7. relay.session.timer <=> Cardinality(members) = 1
    BY <1>1, <1>6 DEF Agreed
  <1>8. ASSUME NEW w \in Sockets
        PROVE  peer(relay, w) = IF w \in members /\ Cardinality(members) = 2
                                THEN CHOOSE v \in members : v # w ELSE None
    <2>1. peer(relay, w) = Partner(relay, w)
      BY <1>1 DEF Agreed
    <2>2. CASE w \in members /\ c # None /\ s # None
      <3>1. c # s
        BY <1>1, <2>2, RolesApart
      <3>2. CASE w = c
        <4>1. (CHOOSE v \in members : v # w) = s
          BY <2>2, <3>1, <3>2
        <4> QED  BY <1>6, <2>1, <2>2, <3>2, <4>1, Zenon DEF Partner
      <3>3. CASE w = s
        <4>1. (CHOOSE v \in members : v # w) = c
          BY <2>2, <3>1, <3>3
        <4> QED  BY <1>6, <2>1, <2>2, <3>1, <3>3, <4>1 DEF Partner
      <3> QED  BY <2>2, <3>2, <3>3
    <2>3. CASE ~(w \in members /\ c # None /\ s # None)
      <3>1. Partner(relay, w) = None
        BY <1>2, <2>3, RolesApart DEF Partner, Member
      <3> QED  BY <1>6, <2>1, <2>3, <3>1
    <2> QED  BY <2>2, <2>3
  <1>9. TypeOK
    BY DEF Inv, Typed, TypeOK, RelayState, Session, SocketStates, Endpoint, peer
  <1> QED  BY <1>4, <1>5, <1>7, <1>8, <1>9, Zenon DEF SessionIsSound

\* The invariant gives the order of the frames.
LEMMA OrderedWhenInv == Inv => PairIsOrdered
  <1> SUFFICES ASSUME Inv PROVE PairIsOrdered
    OBVIOUS
  <1>1. relay \in RelayState /\ Agreed(relay)
    BY DEF Inv, Typed
  <1>2. ASSUME NEW w \in Sockets
        PROVE  \E v \in Sockets :
                  /\ \A i \in 1 .. Len(got[w]) : got[w][i][1] = v
                  /\ relay.endpoint[v].dropped \/ got[w] = Numbered(v, Len(got[w]))
    BY DEF Inv, Ordered, OrderedAt, From
  <1>3. ASSUME NEW w \in Sockets, relay.socket[w] = "open"
        PROVE  IF Reachable(relay, w)
               THEN Len(got[peer(relay, w)]) = sent[w] /\ relay.endpoint[w].pending = <<>>
               ELSE Live(w) /\ peer(relay, w) = None =>
                      relay.endpoint[w].pending = Numbered(w, sent[w])
    <2>1. OrderedAt(w) /\ ~relay.endpoint[w].dropped /\ Reading(w)
      BY <1>3 DEF Inv, Ordered, OrderedAt, Reading
    <2>2. CASE Reachable(relay, w)
      <3>1. PICK v \in Sockets : peer(relay, w) = v
        BY <1>1, <2>2 DEF Reachable, RelayState, Endpoint, peer
      <3>2. relay.socket[v] = "open"
        BY <2>2, <3>1 DEF Reachable
      <3>3. Len(got[v]) = sent[w] /\ relay.endpoint[w].pending = <<>>
        BY <2>1, <3>1, <3>2 DEF OrderedAt
      <3> QED  BY <2>2, <3>1, <3>3
    <2>3. CASE ~Reachable(relay, w)
      <3>1. Live(w) => LiveIn(relay, w)
        BY DEF Live, LiveIn
      <3> QED  BY <2>1, <2>3, <3>1 DEF OrderedAt
    <2> QED  BY <2>2, <2>3
  <1> QED  BY <1>2, <1>3, Zenon DEF PairIsOrdered

\* The session map, the roles, the peers and the timer agree with the live
\* endpoints in every reachable state (registerLocalTunnel, removeEndpoint and
\* closeLocalTunnelSession), for every set of clients and servers.
THEOREM SessionSoundness == Spec => []SessionIsSound
  BY Invariance, SoundWhenAgreed, PTL

\* What a WebSocket is given are the frames of one browser from its first, in
\* order, and none is left out while both ends are open, for every bound on the
\* frames that are sent or held.
THEOREM PairOrder == Spec => []PairIsOrdered
  BY Invariance, OrderedWhenInv, PTL
=================
