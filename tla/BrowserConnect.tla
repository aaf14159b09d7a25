----------------------------- MODULE BrowserConnect -----------------------------
(***************************************************************************)
(* How a browser channel finds its tunnel, and what Java writes meanwhile. *)
(*                                                                         *)
(* The channel tries one WebSocket after the other: first the server's own *)
(* plugin, when the page may, then relays.  Relays are looked up beside    *)
(* the first attempt, wait for a selection deadline at most once, and more *)
(* of them may become known until the preflight of all has ended.  An      *)
(* attempt ends by its timeout, by its close event or because the relay    *)
(* attests another target; events of earlier attempts still arrive and are *)
(* recognised by the WebSocket generation.  Java's channel is active from  *)
(* the start: what it writes waits in the entry until a relay has answered *)
(* "connected", and then leaves in bounded turns.                          *)
(*                                                                         *)
(* The page has one thread and an action is one of its callbacks with the  *)
(* microtasks of its promises; the microtask of requestFlush is a step of  *)
(* its own, and no other event comes before it (Quiet).  Candidates are    *)
(* tried once, so a candidate names its socket and its generation.  Ranks  *)
(* are any order, outbound frames are numbered, the outbound controls are  *)
(* the connect message (the flow messages are in BrowserInbound), and      *)
(* local ports are not modelled.                                           *)
(***************************************************************************)
EXTENDS Naturals, Sequences, FiniteSets

CONSTANTS
    Relays,      \* the relays the page may learn of
    Direct,      \* the plugin's endpoint of the target itself
    None,        \* no candidate
    Refusable,   \* candidates for which new WebSocket may throw
    MaxQueue,    \* maximumOutboundQueueFrames
    MaxWrites    \* bound: frames Java writes

Candidates == Relays \cup {Direct}

ASSUME CandidateAssumption ==
    /\ Direct \notin Relays /\ None \notin Candidates
    /\ Refusable \subseteq Candidates
    /\ MaxQueue \in Nat \ {0} /\ MaxWrites \in Nat

VARIABLES
    entry,      \* the channel's entry in the bridge, with its sockets' states and,
                \* as history, the candidates dialled during the exhaustion wait
    written,    \* frames of Java that send() has accepted
    buffered,   \* the tunnel's bufferedAmount is at its limit
    got,        \* external: what each endpoint received, 0 is "connect"
    told,       \* external: the last thing each endpoint said about its target
    heard       \* history: endpoints whose bytes were handed to the decoder

vars == <<entry, written, buffered, got, told, heard>>
net == <<written, buffered, got, told, heard>>

NewEntry(refused) ==
    [refused |-> refused, status |-> "new", error |-> "none", known |-> {}, tried |-> {},
     attempt |-> None, ws |-> None, sock |-> [c \in Candidates |-> "none"],
     timeout |-> None, negotiating |-> FALSE, stage |-> "none",
     selection |-> "none", waits |-> {}, lease |-> None, control |-> None,
     outbound |-> <<>>, flush |-> "none", astray |-> {}]

Init ==
    /\ \E refused \in SUBSET Refusable : entry = NewEntry(refused)
    /\ written = 0 /\ buffered = FALSE
    /\ got = [c \in Candidates |-> <<>>]
    /\ told = [c \in Candidates |-> "nothing"]
    /\ heard = {}

\* No microtask waits for the running callback to end.
Quiet == entry.flush # "microtask"

-----------------------------------------------------------------------------
(* The outbound queue.                                                     *)

\* Variant: the frames do not wait for the tunnel.
SendableMutant(e) == e.status \in {"connecting", "connected"}

\* Frames may leave.
Sendable(e) == e.status = "connected"

Flushable(e) == e.control # None \/ (Sendable(e) /\ e.outbound # <<>>)

\* requestFlush: at most one turn is scheduled.
Requested(e, kind) ==
    IF e.flush = "none" /\ Flushable(e) THEN [e EXCEPT !.flush = kind] ELSE e

\* A control of an earlier socket is dropped.
ControlIsCurrent(e) ==
    /\ e.control = e.ws /\ e.control = e.attempt
    /\ e.sock[e.control] \in {"connecting", "open"}

-----------------------------------------------------------------------------
(* The entry's ends.                                                       *)

\* ws.close() of a socket that is not closed: its close event is still to come.
Shut(e, c) ==
    IF c # None /\ e.sock[c] \in {"connecting", "open"}
    THEN [e EXCEPT !.sock[c] = "closing"] ELSE e

\* A lost tunnel: the lease is released, turns and queues are dropped.
Lost(e) ==
    [e EXCEPT !.status = "closed", !.lease = None, !.timeout = None,
              !.control = None, !.outbound = <<>>, !.flush = "none"]

\* fail and close clear the preparation's timers as well.
Closed(e) ==
    [Lost(e) EXCEPT !.stage = IF @ = "timer" THEN "none" ELSE @,
                    !.selection = IF @ = "timer" THEN "none" ELSE @]

Fail(e, why) == Shut([Closed(e) EXCEPT !.error = why], e.ws)

-----------------------------------------------------------------------------
(* openRemoteCandidate: the entries it may leave behind.                   *)

\* ensureRelayCandidates: the relays the page names itself are known at once.
\* A new preparation forgets an earlier wait for the selection.
Prepared(e) ==
    IF e.stage \notin {"none", "timer"} THEN {e}
    ELSE {[e EXCEPT !.stage = "discovering", !.selection = "timer",
                    !.known = @ \cup named, !.waits = @ \ {"selection"}] :
             named \in SUBSET Relays}

Dialled(e, c) ==
    [e EXCEPT !.tried = @ \cup {c}, !.attempt = c, !.ws = c,
              !.sock[c] = "connecting", !.timeout = c,
              !.astray = IF "exhaustion" \in e.waits THEN @ \cup {c} ELSE @]

\* Candidates that were passed over have used up generations.
Passed(e, over) ==
    [e EXCEPT !.tried = @ \cup over, !.attempt = IF over = {} THEN @ ELSE None]

\* Variant: what is known already decides.
ExhaustedMutant(e) == {Fail(e, "exhausted")}

\* No candidate is left: wait once for the rest of the preflight.
Exhausted(e) ==
    IF e.stage # "ready" /\ "exhaustion" \notin e.waits
    THEN {[e EXCEPT !.waits = @ \cup {"exhaustion"}]}
    ELSE {Fail(e, "exhausted")}

\* The remaining relays in the order of their ranks, which may be any; those
\* the browser refuses are passed over.
OpenRelay(e) ==
    IF e.selection # "ready"
    THEN {[p EXCEPT !.waits = @ \cup {"selection"}] : p \in Prepared(e)}
    ELSE LET left == e.known \ e.tried
         IN  UNION {IF over = left THEN Exhausted(Passed(e, over))
                    ELSE {Dialled(Passed(e, over), c) : c \in left \ e.refused} :
                       over \in SUBSET (left \cap e.refused)}

\* The plugin comes first, unless an earlier channel missed it recently.
OpenRemoteCandidate(e) ==
    IF e.status # "connecting" THEN {e}
    ELSE IF Direct \notin e.known \ e.tried THEN OpenRelay(e)
    ELSE OpenRelay([e EXCEPT !.tried = @ \cup {Direct}])
         \cup IF Direct \in e.refused THEN OpenRelay(Passed(e, {Direct}))
              ELSE {Dialled(e, Direct)}

\* The outcome of a callback that goes on to the next candidate.
GoesOn(e) == entry' \in OpenRemoteCandidate(e)

-----------------------------------------------------------------------------
(* Java.                                                                   *)

\* state.open: with a plugin to try, the relays are prepared by a timer.
Open ==
    /\ entry.status = "new"
    /\ LET e == [entry EXCEPT !.status = "connecting"]
       IN  \/ GoesOn([e EXCEPT !.known = {Direct}, !.stage = "timer"])
           \/ \E p \in Prepared(e) : GoesOn(p)
    /\ UNCHANGED net

\* doWrite: refused frames stay with Java, which tries again.
Write ==
    /\ entry.status \in {"connecting", "connected"} /\ written < MaxWrites
    /\ IF Len(entry.outbound) = MaxQueue
       THEN /\ entry' = Requested(entry, "timer")
            /\ UNCHANGED written
       ELSE /\ entry' = Requested([entry EXCEPT !.outbound = Append(@, written + 1)],
                                  "microtask")
            /\ written' = written + 1
    /\ UNCHANGED <<buffered, got, told, heard>>

\* state.close, by the client or after an error was polled.
JavaClose ==
    /\ entry.status \in {"connecting", "connected"}
    /\ entry' = Shut(Closed(entry), entry.ws)
    /\ UNCHANGED net

-----------------------------------------------------------------------------
(* The preparation of the relays.                                          *)

\* 50 ms after the attempt on the plugin began.
PreparationTimer ==
    /\ Quiet /\ entry.stage = "timer"
    /\ LET e == [entry EXCEPT !.stage = "none"]
       IN  IF e.status # "connecting" \/ e.negotiating THEN entry' = e
           ELSE entry' \in Prepared(e)
    /\ UNCHANGED net

\* The registries have answered or timed out; their relays are probed.
Discovered ==
    /\ Quiet /\ entry.stage = "discovering"
    /\ \E found \in SUBSET Relays :
          entry' = [entry EXCEPT !.stage = "probing", !.known = @ \cup found]
    /\ UNCHANGED net

\* Variant: nobody goes on.
SelectedMutant(e) == entry' = [e EXCEPT !.selection = "ready"]

\* The selection is over, and whoever waited for it goes on.
Selected(e) ==
    LET ready == [e EXCEPT !.selection = "ready"]
    IN  IF e.status = "closed" THEN entry' = [e EXCEPT !.selection = "none"]
        ELSE IF "selection" \in e.waits THEN GoesOn(ready) ELSE entry' = ready

\* 120 ms after the preparation began.
SelectionTimer ==
    /\ Quiet /\ entry.selection = "timer"
    /\ Selected(entry)
    /\ UNCHANGED net

\* Every probe has answered or timed out.
PreflightDone ==
    /\ Quiet /\ entry.stage = "probing"
    /\ LET e == [entry EXCEPT !.stage = "ready"]
       IN  IF e.selection = "timer" THEN Selected(e)
           ELSE IF "exhaustion" \in e.waits /\ e.status = "connecting"
           THEN GoesOn([e EXCEPT !.waits = @ \ {"exhaustion"}])
           ELSE entry' = e
    /\ UNCHANGED net

-----------------------------------------------------------------------------
(* The sockets' events.                                                    *)

\* The event belongs to the attempt that is under way, or to the tunnel.
IsCurrent(c) == c = entry.attempt /\ entry.status # "closed"

\* Variant: the abandoned socket is not closed.
CandidateTimeoutMutant ==
    /\ Quiet /\ entry.timeout # None
    /\ LET e == [entry EXCEPT !.timeout = None]
       IN  IF entry.timeout = entry.attempt /\ entry.status = "connecting"
           THEN GoesOn(e) ELSE entry' = e
    /\ UNCHANGED net

CandidateTimeout ==
    /\ Quiet /\ entry.timeout # None
    /\ LET e == [entry EXCEPT !.timeout = None]
       IN  IF entry.timeout = entry.attempt /\ entry.status = "connecting"
           THEN GoesOn(Shut(e, entry.attempt)) ELSE entry' = e
    /\ UNCHANGED net

\* onopen: the timeout starts again for a relay, and the connect is queued.
OnOpen(c) ==
    /\ Quiet /\ entry.sock[c] = "connecting"
    /\ LET e == [entry EXCEPT !.sock[c] = "open"]
       IN  entry' = IF ~IsCurrent(c) THEN e
                    ELSE Requested([e EXCEPT !.control = c,
                                             !.timeout = IF c = Direct THEN @ ELSE c],
                                   "microtask")
    /\ UNCHANGED net

Says(c, what) ==
    /\ Quiet /\ entry.sock[c] = "open"
    /\ told' = [told EXCEPT ![c] = what]
    /\ UNCHANGED <<written, buffered, got>>

\* onmessage "connecting": the endpoint has accepted the target and dials it,
\* which may take longer; a plugin that does keeps the relays from being asked.
OnConnecting(c) ==
    /\ told[c] = "nothing" /\ got[c] # <<>> /\ Says(c, "connecting")
    /\ entry' = IF ~IsCurrent(c) THEN entry
                ELSE LET e == [entry EXCEPT !.timeout = c]
                     IN  IF c # Direct THEN e
                         ELSE [e EXCEPT !.negotiating = TRUE,
                                        !.stage = IF @ = "timer" THEN "none" ELSE @]
    /\ UNCHANGED heard

\* onmessage "connected" with the target that was asked for.
OnConnected(c) ==
    /\ told[c] \in {"nothing", "connecting"} /\ got[c] # <<>> /\ Says(c, "tunnel")
    /\ entry' = IF ~IsCurrent(c) THEN entry
                ELSE Requested([entry EXCEPT
                         !.status = "connected", !.timeout = None,
                         !.negotiating = FALSE,
                         !.stage = IF @ = "timer" THEN "none" ELSE @,
                         !.lease = IF c = Direct THEN None ELSE c], "microtask")
    /\ UNCHANGED heard

\* onmessage "connected" with another target, or none from a relay.  The next
\* candidate is tried; the code 1008 is one a page may not close with, so that
\* close() throws and the socket stays open.
OnMismatch(c) ==
    /\ told[c] \in {"nothing", "connecting"} /\ got[c] # <<>> /\ Says(c, "wrong")
    /\ IF IsCurrent(c) THEN GoesOn([entry EXCEPT !.timeout = None])
       ELSE entry' = entry
    /\ UNCHANGED heard

\* onmessage with bytes: the generation is looked at, not the state.
OnBytes(c) ==
    /\ told[c] \in {"tunnel", "wrong"} /\ Says(c, told[c])
    /\ heard' = IF IsCurrent(c) THEN heard \cup {c} ELSE heard
    /\ UNCHANGED entry

\* onerror, if it failed, and onclose: the endpoint closed the socket, the
\* connection was lost, or the page's own close is complete.
OnClose(c, failed) ==
    /\ Quiet /\ entry.sock[c] \in {"connecting", "open", "closing"}
    /\ LET e == [entry EXCEPT !.sock[c] = "closed"]
       IN  IF ~IsCurrent(c) THEN entry' = e
           ELSE IF e.status = "connecting"
           THEN GoesOn([e EXCEPT !.timeout = None, !.negotiating = FALSE])
           ELSE entry' = IF failed THEN Fail(e, "transport") ELSE Lost(e)
    /\ UNCHANGED net

-----------------------------------------------------------------------------
(* A turn of flush: the connect message, then frames up to the turn's      *)
(* budget or until the socket's buffer is full.                            *)

Flush ==
    /\ entry.flush # "none"
    /\ LET e == entry
           send == e.control # None /\ ControlIsCurrent(e)
                     /\ e.sock[e.control] = "open"
           kept == IF e.control # None /\ ControlIsCurrent(e) /\ ~send
                   THEN e.control ELSE None
           open == Sendable(e) /\ e.ws # None /\ e.sock[e.ws] = "open"
           Budgets == IF open /\ ~buffered /\ e.outbound # <<>>
                      THEN 1 .. Len(e.outbound) ELSE {0}
       IN  \E n \in Budgets, full \in BOOLEAN :
              LET rest == SubSeq(e.outbound, n + 1, Len(e.outbound))
                  after == [e EXCEPT !.control = kept, !.outbound = rest,
                                     !.flush = "none"]
              IN  /\ n = 0 => full = buffered
                  /\ buffered' = full
                  /\ got' = IF send THEN [got EXCEPT ![e.control] = Append(@, 0)]
                            ELSE IF n = 0 THEN got
                            ELSE [got EXCEPT ![e.ws] = @ \o SubSeq(e.outbound, 1, n)]
                  /\ entry' \in
                       (IF open /\ full THEN {Requested(after, "timer")} ELSE {})
                       \cup (IF n > 0 \/ ~(open /\ full)
                             THEN {Requested(after, "task")} ELSE {})
    /\ UNCHANGED <<written, told, heard>>

\* The browser sends what the socket holds.
SocketDrains ==
    /\ buffered /\ buffered' = FALSE
    /\ UNCHANGED <<entry, written, got, told, heard>>

Next ==
    \/ Open \/ Write \/ JavaClose
    \/ PreparationTimer \/ Discovered \/ SelectionTimer \/ PreflightDone
    \/ CandidateTimeout \/ Flush \/ SocketDrains
    \/ \E c \in Candidates :
          \/ OnOpen(c) \/ OnConnecting(c) \/ OnConnected(c) \/ OnMismatch(c)
          \/ OnBytes(c)
          \/ \E failed \in BOOLEAN : OnClose(c, failed)

Spec == Init /\ [][Next]_vars

\* Timers fire, requests end by their timeouts, turns run and sockets drain.
\* No endpoint has to answer.
FairSpec ==
    /\ Spec
    /\ WF_vars(PreparationTimer) /\ WF_vars(Discovered)
    /\ WF_vars(SelectionTimer) /\ WF_vars(PreflightDone)
    /\ WF_vars(CandidateTimeout) /\ WF_vars(Flush) /\ WF_vars(SocketDrains)

-----------------------------------------------------------------------------
(* Properties.                                                             *)

TypeOK ==
    /\ entry.status \in {"new", "connecting", "connected", "closed"}
    /\ entry.error \in {"none", "exhausted", "transport"}
    /\ entry.tried \subseteq entry.known /\ entry.known \subseteq Candidates
    /\ {entry.attempt, entry.ws, entry.timeout, entry.lease, entry.control}
          \subseteq Candidates \cup {None}
    /\ entry.sock \in
          [Candidates -> {"none", "connecting", "open", "closing", "closed"}]
    /\ entry.stage \in {"none", "timer", "discovering", "probing", "ready"}
    /\ entry.selection \in {"none", "timer", "ready"}
    /\ entry.waits \subseteq {"selection", "exhaustion"}
    /\ entry.flush \in {"none", "microtask", "task", "timer"}
    /\ entry.astray \subseteq entry.tried
    /\ entry.refused \subseteq Refusable
    /\ entry.negotiating \in BOOLEAN /\ buffered \in BOOLEAN
    /\ written \in 0 .. MaxWrites /\ Len(entry.outbound) <= MaxQueue
    /\ told \in [Candidates -> {"nothing", "connecting", "tunnel", "wrong"}]
    /\ heard \subseteq Candidates

Numbers(from, to) == [i \in 1 .. to - from + 1 |-> from + i - 1]

\* The endpoint whose tunnel the channel uses or used.
Tunnels == {c \in Candidates : Len(got[c]) > 1}

\* Java's frames reach one endpoint only, after its connect message and its
\* attestation, in order, and none is dropped while the channel is open,
\* however often the channel failed over before; and what the decoder hears
\* comes from no second tunnel.  (A relay that attested another target may be
\* heard: the bytes it sends while the next candidate is waited for.)
OneTunnel ==
    /\ \A c \in Candidates : got[c] = Numbers(0, Len(got[c]) - 1)
    /\ Cardinality(Tunnels) <= 1 /\ \A c \in Tunnels : told[c] = "tunnel"
    /\ entry.status \in {"connecting", "connected"} =>
          LET sent == IF Tunnels = {} THEN 0
                      ELSE Len(got[CHOOSE c \in Tunnels : TRUE]) - 1
          IN  entry.outbound = Numbers(sent + 1, written)
    /\ \A c \in heard : told[c] = "tunnel" =>
          /\ Tunnels \subseteq {c}
          /\ \A d \in heard : d = c \/ told[d] = "wrong"

\* A socket the page has done with is closed or closing, except one whose
\* target did not match, and one that a late event dialled while the preflight
\* was waited for: the end of the wait dials the next beside it.
Abandoned(c) == c # entry.ws \/ entry.status = "closed"
SocketsAreClosed ==
    \A c \in Candidates :
        Abandoned(c) /\ entry.sock[c] \in {"connecting", "open"} =>
            told[c] = "wrong" \/ c \in entry.astray

\* The lease that makes later channels prefer a relay is held exactly while
\* a tunnel through it is up, and no attempt's or queue's timer outlives it.
LeaseFollowsTunnel ==
    /\ entry.lease = IF entry.status = "connected" /\ entry.ws \in Relays
                     THEN entry.ws ELSE None
    /\ entry.status \in {"connected", "closed"} => entry.timeout = None
    /\ entry.status = "closed" =>
          /\ entry.flush = "none" /\ entry.outbound = <<>>
          /\ entry.stage # "timer"
          /\ entry.error # "none" => entry.selection # "timer"

\* What an attempt or a channel leaves behind, whichever callback ended it.
NothingLeft == TypeOK /\ SocketsAreClosed /\ LeaseFollowsTunnel

\* "No Gaius direct endpoint or relay node could reach the server" (2412): the
\* channel gives up only when every candidate it knows was tried and no more can
\* become known.  The exception is a wait for the preflight that an event of an
\* abandoned socket has interrupted: such a wait is not resumed.
GivesUpLast ==
    [][entry.error = "none" /\ entry'.error = "exhausted" =>
          /\ entry'.known = entry'.tried
          /\ entry'.stage = "ready" \/ "exhaustion" \in entry.waits]_vars

\* A channel connects or closes, whatever its endpoints do not answer.
Settles == (entry.status = "connecting") ~> (entry.status # "connecting")

\* What was written before or after the tunnel came up is sent through it,
\* unless the channel closes.
WritesAreSent ==
    \A i \in 1 .. MaxWrites :
        (entry.status = "connected" /\ written >= i) ~>
            \/ entry.status = "closed"
            \/ \E c \in Tunnels : Len(got[c]) > i

\* Neither a channel nor a frame waits for ever.
Progress == Settles /\ WritesAreSent
=============================================================================
