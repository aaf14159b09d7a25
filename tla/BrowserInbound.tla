---------------------------- MODULE BrowserInbound ----------------------------
(***************************************************************************)
(* The inbound half of one connected browser channel: WebSocket frames are *)
(* queued, cut into slices by callbacks of the page, pulled by the Java    *)
(* pump, decoded into packets, and the packets are handled by the client's *)
(* ticks.  Every queue on the way pushes back on the one before it, the    *)
(* first one on the relay through flow messages, and a remote close races  *)
(* with what is still queued.                                              *)
(*                                                                         *)
(* The page has one thread.  A callback that loops (the slice pump, the    *)
(* Java pump) is a task whose iterations are steps, and nothing else of    *)
(* the page runs until it ends; a microtask runs before the next event.    *)
(* The relay and the two directions of the WebSocket are external.         *)
(*                                                                         *)
(* Sizes are in slices (maximumInboundSliceBytes): a frame of size 0 is an *)
(* empty frame.                                                            *)
(***************************************************************************)
EXTENDS Naturals, Sequences

CONSTANTS
    Sizes,          \* sizes of the frames the relay sends
    FrameBudget,    \* bound: frames sent in a behaviour
    MaxYield,       \* most packets a slice may complete
    SliceHigh, SliceLow,     \* decodedSlice{High,Low}Watermark
    FrameHigh, FrameLow,     \* inboundFrame{High,Low}Watermark
    BytesHigh, BytesLow,     \* inbound{Pause,Resume}Bytes
    MaxFrames, MaxBytes,     \* maximumInboundQueue{Frames,Bytes}
    PacketHigh, PacketLow,   \* PACKET_QUEUE_{HIGH,LOW}_WATERMARK
    GraceRetries    \* bound: retries within remoteCloseRetireGraceMillis

ASSUME WatermarkAssumption ==
    /\ Sizes \subseteq Nat /\ MaxYield \in Nat
    /\ \E widest \in Sizes : \A size \in Sizes : size <= widest
    /\ {FrameBudget, GraceRetries} \subseteq Nat
    /\ \A pair \in {<<SliceLow, SliceHigh>>, <<FrameLow, FrameHigh>>,
                    <<BytesLow, BytesHigh>>, <<PacketLow, PacketHigh>>} :
         pair[1] \in Nat /\ pair[2] \in Nat /\ pair[1] < pair[2]
    /\ {MaxFrames, MaxBytes} \subseteq Nat
    /\ FrameHigh <= MaxFrames /\ BytesHigh <= MaxBytes

VARIABLES
    sent,         \* external: sizes of the frames the relay has sent
    received,     \* how many of them the page was given
    relayPaused,  \* external: the relay has stopped reading for this channel
    flows,        \* external: flow messages on their way to the relay
    remote,       \* external: "open", or the code the relay closed with
    queue,        \* the entry: its queues and flags
    exactPaused,  \* state.exactPacketQueuePaused
    wake,         \* inboundPumpScheduler.pending
    task,         \* the callback that runs, or "none"
    progress,     \* what the running callback has done so far
    packets,      \* packets queued and not handled
    javaOpen,     \* BrowserWebSocketChannel.open
    decoded,      \* history: slices handed to the pipeline
    ended         \* history: why the entry's queues were dropped

relay == <<sent, relayPaused, remote>>
vars == <<sent, received, relayPaused, flows, remote, queue, exactPaused,
          wake, task, progress, packets, javaOpen, decoded, ended>>

Frames == 1 .. FrameBudget
Slices == Frames \X Nat
Codes == {"clean", "abnormal"}

TypeOK ==
    /\ sent \in Seq(Sizes) /\ Len(sent) <= FrameBudget
    /\ received \in 0 .. Len(sent)
    /\ relayPaused \in BOOLEAN /\ flows \in Seq(BOOLEAN)
    /\ remote \in {"open", "gone"} \cup Codes
    /\ queue.pending \in Seq(Slices) /\ queue.inbound \in Seq(Slices)
    /\ queue.decodeFlowPaused \in BOOLEAN /\ queue.flowPaused \in BOOLEAN
    /\ queue.slicing \in {"none", "microtask", "message"}
    /\ queue.status \in {"connected", "closed", "disposed"}
    /\ queue.error \in BOOLEAN
    /\ queue.retiring \in BOOLEAN /\ queue.grace \in 0 .. GraceRetries
    /\ exactPaused \in BOOLEAN /\ wake \in BOOLEAN
    /\ task \in {"none", "slices", "pump", "decode"}
    /\ progress \in {"none", "empty", "moved"} /\ packets \in Nat
    /\ javaOpen \in BOOLEAN /\ decoded \in Seq(Slices)
    /\ ended \in {"no", "failed", "left", "drained", "expired", "error"}

EmptyQueue ==
    [pending |-> <<>>, inbound |-> <<>>, decodeFlowPaused |-> FALSE,
     flowPaused |-> FALSE, slicing |-> "none", status |-> "connected",
     error |-> FALSE, retiring |-> FALSE, grace |-> GraceRetries]

Init ==
    /\ sent = <<>> /\ received = 0
    /\ relayPaused = FALSE /\ flows = <<>> /\ remote = "open"
    /\ queue = EmptyQueue
    /\ exactPaused = FALSE /\ wake = FALSE
    /\ task = "none" /\ progress = "none" /\ packets = 0
    /\ javaOpen = TRUE /\ decoded = <<>> /\ ended = "no"

-----------------------------------------------------------------------------
(* What the entry's queues hold.  pending is a queue of frames, each with  *)
(* the number of slices already cut from it.                               *)

workDepth(q) == Len(q.inbound)
queuedFrameCount(q) == Len(q.inbound) + Len(q.pending)
Left(item) == sent[item[1]] - item[2]
queuedBytes(q) ==
    LET left[i \in 0 .. Len(q.pending)] ==
          IF i = 0 THEN 0 ELSE left[i - 1] + Left(q.pending[i])
    IN  Len(q.inbound) + left[Len(q.pending)]
HasPending(q) == q.inbound /= <<>> \/ q.pending /= <<>>

(* applyFlowControl: the entry after the watermarks were looked at.  The   *)
(* relay is told through Told, which compares the entry before and after.  *)
MustPause(q, exact) ==
    \/ queuedFrameCount(q) >= FrameHigh
    \/ workDepth(q) >= SliceHigh
    \/ queuedBytes(q) >= BytesHigh
    \/ exact
MayResume(q, exact) ==
    /\ q.decodeFlowPaused /\ ~exact
    /\ queuedFrameCount(q) <= FrameLow
    /\ workDepth(q) <= SliceLow
    /\ queuedBytes(q) <= BytesLow
\* setInboundPaused: an entry that is not connected keeps its flag.
setInboundPaused(q, paused) ==
    IF q.status = "connected" THEN [q EXCEPT !.flowPaused = paused] ELSE q
applyFlowControl(q, exact) ==
    IF q.status = "disposed" THEN q
    ELSE IF MustPause(q, exact)
    THEN setInboundPaused([q EXCEPT !.decodeFlowPaused = TRUE], TRUE)
    ELSE IF MayResume(q, exact)
    THEN setInboundPaused([q EXCEPT !.decodeFlowPaused = FALSE], FALSE)
    ELSE q
\* Variant: only the pause is told.
ToldMutant(q) ==
    flows' = IF q.flowPaused /\ ~queue.flowPaused THEN Append(flows, TRUE) ELSE flows

Told(q) ==
    flows' = IF q.flowPaused = queue.flowPaused THEN flows
             ELSE Append(flows, q.flowPaused)

shouldBlockInboundSliceAdmission(q, exact) ==
    q.decodeFlowPaused /\ (exact \/ workDepth(q) > SliceLow)

scheduleSlices(q, exact, how) ==
    IF \/ q.status = "disposed" \/ q.slicing /= "none" \/ q.pending = <<>>
       \/ workDepth(q) >= SliceHigh
       \/ shouldBlockInboundSliceAdmission(q, exact)
    THEN q ELSE [q EXCEPT !.slicing = how]

\* applyFlowControl followed by scheduleSlices, as most callers do.
Settle(q, exact, how) == scheduleSlices(applyFlowControl(q, exact), exact, how)

\* discardInbound: what was queued is dropped and its callback goes stale.
discardInbound(q) ==
    [q EXCEPT !.pending = <<>>, !.inbound = <<>>, !.slicing = "none",
              !.decodeFlowPaused = FALSE, !.flowPaused = FALSE]

\* retireClosedEntry: the first look is a timer of 0 ms away.
retireClosedEntry(q) ==
    [q EXCEPT !.retiring = TRUE]

\* fail: the entry is closed with an error and retired.
fail(q) == retireClosedEntry(
    [discardInbound(q) EXCEPT !.status = "closed", !.error = TRUE])

\* state.close, called by the Java channel: the entry is gone.
closeEntry(q) == [discardInbound(q) EXCEPT !.status = "disposed", !.retiring = FALSE]

\* signalInbound wakes the Java pump, unless the exact queue is paused.
signalInbound(exact) == wake' = (wake \/ ~exact)

\* An event of the page may start: no task runs and no microtask waits.
Quiet == task = "none" /\ queue.slicing /= "microtask"

\* ended is the first reason only.
EndedBy(reason) == ended' = IF ended = "no" THEN reason ELSE ended

-----------------------------------------------------------------------------
(* The relay and the WebSocket. *)

RelaySends ==
    /\ remote = "open" /\ ~relayPaused /\ Len(sent) < FrameBudget
    /\ \E size \in Sizes : sent' = Append(sent, size)
    /\ UNCHANGED <<received, relayPaused, flows, remote, queue, exactPaused,
                   wake, task, progress, packets, javaOpen, decoded, ended>>

RelayTakesFlow ==
    /\ flows /= <<>>
    /\ relayPaused' = Head(flows) /\ flows' = Tail(flows)
    /\ UNCHANGED <<sent, received, remote, queue, exactPaused,
                   wake, task, progress, packets, javaOpen, decoded, ended>>

RelayCloses ==
    /\ remote = "open"
    /\ remote' \in Codes
    /\ UNCHANGED <<sent, received, relayPaused, flows, queue, exactPaused,
                   wake, task, progress, packets, javaOpen, decoded, ended>>

(* onmessage and deliverInbound *)
Overflows(size) ==
    \/ queuedFrameCount(queue) >= MaxFrames
    \/ queuedBytes(queue) + size > MaxBytes
OnMessage ==
    /\ Quiet /\ queue.status = "connected" /\ received < Len(sent)
    /\ received' = received + 1
    /\ IF Overflows(sent[received + 1])
       THEN /\ queue' = fail(queue)
            /\ EndedBy("failed") /\ UNCHANGED flows
       ELSE /\ queue' = Settle(
                  [queue EXCEPT !.pending = Append(@, <<received + 1, 0>>)],
                  exactPaused, "microtask")
            /\ Told(queue') /\ UNCHANGED ended
    /\ UNCHANGED <<relay, exactPaused, wake, task, progress, packets, javaOpen, decoded>>

(* onclose of a connected socket: what is queued stays for a grace period. *)
OnClose ==
    /\ Quiet /\ queue.status = "connected"
    /\ remote \in Codes /\ received = Len(sent)
    /\ queue' = retireClosedEntry(
          [queue EXCEPT !.status = "closed", !.error = (remote = "abnormal")])
    /\ UNCHANGED <<relay, received, flows, exactPaused, wake, task, progress,
                   packets, javaOpen, decoded, ended>>

(* onerror *)
OnError ==
    /\ Quiet /\ queue.status = "connected"
    /\ queue' = fail(queue) /\ EndedBy("failed")
    /\ UNCHANGED <<relay, received, flows, exactPaused, wake, task, progress,
                   packets, javaOpen, decoded>>

-----------------------------------------------------------------------------
(* pumpSlices, scheduled by scheduleSlices. *)

SliceCallback ==
    /\ task = "none" /\ queue.slicing /= "none"
    /\ queue' = applyFlowControl([queue EXCEPT !.slicing = "none"], exactPaused)
    /\ Told(queue')
    /\ task' = IF shouldBlockInboundSliceAdmission(queue', exactPaused)
               THEN "none" ELSE "slices"
    /\ UNCHANGED <<relay, received, exactPaused, wake, progress, packets,
                   javaOpen, decoded, ended>>

CanAdmit == queue.pending /= <<>> /\ workDepth(queue) < SliceHigh

\* Variant: a frame is left one slice early.
AdmitSliceMutant ==
    /\ task = "slices" /\ CanAdmit
    /\ LET frame == Head(queue.pending)
           cut   == <<frame[1], frame[2] + 1>>
       IN  IF Left(frame) = 0
           THEN /\ queue' = [queue EXCEPT !.pending = Tail(@)]
                /\ progress' = IF progress = "none" THEN "empty" ELSE progress
           ELSE /\ queue' = [queue EXCEPT
                       !.inbound = Append(@, cut),
                       !.pending = IF Left(frame) <= 2 THEN Tail(@) ELSE <<cut>> \o Tail(@)]
                /\ progress' = "moved"
    /\ UNCHANGED <<relay, received, flows, exactPaused, wake, task, packets,
                   javaOpen, decoded, ended>>

\* One round of the loop: an empty frame is dropped, or one slice is cut.
AdmitSlice ==
    /\ task = "slices" /\ CanAdmit
    /\ LET frame == Head(queue.pending)
           cut   == <<frame[1], frame[2] + 1>>
       IN  IF Left(frame) = 0
           THEN /\ queue' = [queue EXCEPT !.pending = Tail(@)]
                /\ progress' = IF progress = "none" THEN "empty" ELSE progress
           ELSE /\ queue' = [queue EXCEPT
                       !.inbound = Append(@, cut),
                       !.pending = IF Left(frame) = 1 THEN Tail(@) ELSE <<cut>> \o Tail(@)]
                /\ progress' = "moved"
    /\ UNCHANGED <<relay, received, flows, exactPaused, wake, task, packets,
                   javaOpen, decoded, ended>>

\* The loop ends by its condition, or by its budget after the first round.
SlicesEnd ==
    /\ task = "slices" /\ (CanAdmit => progress /= "none")
    /\ queue' = Settle(queue, exactPaused, "message")
    /\ Told(queue')
    /\ IF progress = "moved" THEN signalInbound(exactPaused) ELSE UNCHANGED wake
    /\ task' = "none" /\ progress' = "none"
    /\ UNCHANGED <<relay, received, exactPaused, packets, javaOpen, decoded, ended>>

-----------------------------------------------------------------------------
(* pumpInbound and BrowserWebSocketChannel.pump. *)

JavaClose(reason) ==
    /\ javaOpen' = FALSE
    /\ queue' = closeEntry(queue)
    /\ EndedBy(reason)

\* pollError reads the entry, which a retired channel no longer has.
HasError == queue.status /= "disposed" /\ queue.error

PumpStarts ==
    /\ IF HasError
       THEN JavaClose("error") /\ UNCHANGED task
       ELSE task' = "pump" /\ UNCHANGED <<queue, javaOpen, ended>>
    /\ UNCHANGED <<relay, received, flows, exactPaused, progress, packets, decoded>>

\* The callback of the wakeup scheduler; a closed channel has left channels[].
WakeCallback ==
    /\ Quiet /\ wake
    /\ wake' = FALSE
    /\ \/ javaOpen /\ PumpStarts
       \/ ~javaOpen /\ UNCHANGED <<relay, received, flows, queue, exactPaused, task,
                                   progress, packets, javaOpen, decoded, ended>>

\* pumpBrowserChannelsAtFrameBoundary
FramePump ==
    /\ Quiet /\ javaOpen
    /\ PumpStarts /\ UNCHANGED wake

\* Variant: the exact queue is not looked at between slices.
CanPollMutant == queue.inbound /= <<>>

CanPoll == queue.inbound /= <<>> /\ ~exactPaused

\* pollInbound hands out the next slice.
Poll ==
    /\ task = "pump" /\ CanPoll
    /\ decoded' = Append(decoded, Head(queue.inbound))
    /\ queue' = Settle([queue EXCEPT !.inbound = Tail(@)], exactPaused, "message")
    /\ Told(queue')
    /\ task' = "decode" /\ progress' = "moved"
    /\ UNCHANGED <<relay, received, exactPaused, wake, packets, javaOpen, ended>>

\* The pipeline queues the packets the slice completes; recordDecodedPacketQueue
\* and finishDecodedSlice look at the watermarks again.
Decode ==
    /\ task = "decode" /\ task' = "pump"
    /\ \E n \in 0 .. MaxYield : packets' = packets + n
    /\ exactPaused' = (exactPaused \/ packets' >= PacketHigh)
    /\ queue' = Settle(queue, exactPaused', "message")
    /\ Told(queue')
    /\ UNCHANGED <<relay, received, wake, progress, javaOpen, decoded, ended>>

\* A handler in the pipeline closes the channel; the loop finds no entry.
DecodeCloses ==
    /\ task = "decode" /\ task' = "pump"
    /\ JavaClose("left")
    /\ UNCHANGED <<relay, received, flows, exactPaused, wake, progress, packets, decoded>>

\* The entry after the loop of pump() has stopped: its budget was spent, or
\* pollInbound returned null.
Stopped ==
    (IF progress /= "none" THEN {queue} ELSE {}) \cup
    (IF queue.inbound = <<>> THEN {scheduleSlices(queue, exactPaused, "microtask")}
     ELSE IF exactPaused THEN {applyFlowControl(queue, exactPaused)} ELSE {})
\* Variant: frames that are not cut yet are forgotten.
DrainedOutMutant(q) == q.status /= "connected" /\ q.inbound = <<>>
DrainedOut(q) == q.status /= "connected" /\ ~HasPending(q)
PumpEnd ==
    /\ task = "pump" /\ task' = "none" /\ progress' = "none"
    /\ \E q \in Stopped :
         IF javaOpen /\ DrainedOut(q)
         THEN JavaClose("drained") /\ UNCHANGED <<wake, flows>>
         ELSE /\ queue' = q /\ Told(q)
              /\ wake' = (wake \/ (progress = "moved" /\ CanPoll))
              /\ UNCHANGED <<javaOpen, ended>>
    /\ UNCHANGED <<relay, received, exactPaused, packets, decoded>>

-----------------------------------------------------------------------------
(* The client. *)

\* Variant: the falling edge wakes without looking at the watermarks.
ClientTickMutant ==
    /\ Quiet /\ packets > 0
    /\ packets' = packets - 1
    /\ exactPaused' = (exactPaused /\ packets' > PacketLow)
    /\ IF exactPaused' = exactPaused
       THEN UNCHANGED <<queue, flows, wake>>
       ELSE /\ signalInbound(exactPaused')
            /\ queue' = scheduleSlices(queue, exactPaused', "message")
            /\ UNCHANGED flows
    /\ UNCHANGED <<relay, received, task, progress, javaOpen, decoded, ended>>

\* A queued packet was handled; the falling edge wakes pump and slices.
ClientTick ==
    /\ Quiet /\ packets > 0
    /\ packets' = packets - 1
    /\ exactPaused' = (exactPaused /\ packets' > PacketLow)
    /\ IF exactPaused' = exactPaused
       THEN UNCHANGED <<queue, flows, wake>>
       ELSE /\ signalInbound(exactPaused')
            /\ queue' = Settle(queue, exactPaused', "message")
            /\ Told(queue')
    /\ UNCHANGED <<relay, received, task, progress, javaOpen, decoded, ended>>

Disconnect ==
    /\ Quiet /\ javaOpen
    /\ JavaClose("left")
    /\ UNCHANGED <<relay, received, flows, exactPaused, wake, task, progress,
                   packets, decoded>>

-----------------------------------------------------------------------------
(* The retirement of a closed entry. *)

hasRemoteCloseRetireWork == HasPending(queue) \/ queue.slicing /= "none"

RetireRetry ==
    /\ Quiet /\ queue.retiring
    /\ hasRemoteCloseRetireWork /\ queue.grace > 0
    /\ queue' = [queue EXCEPT !.grace = @ - 1]
    /\ signalInbound(exactPaused)
    /\ UNCHANGED <<relay, received, flows, exactPaused, task, progress, packets,
                   javaOpen, decoded, ended>>

\* Nothing is left, or the grace period is over; the wakeup ignores the pause.
finalizeRemoteCloseRetire ==
    /\ Quiet /\ queue.retiring
    /\ hasRemoteCloseRetireWork => queue.grace = 0
    /\ queue' = closeEntry(queue)
    /\ wake' = TRUE
    /\ EndedBy(IF queue.grace = 0 THEN "expired" ELSE "drained")
    /\ UNCHANGED <<relay, received, flows, exactPaused, task, progress, packets,
                   javaOpen, decoded>>

-----------------------------------------------------------------------------
Relay == RelaySends \/ RelayTakesFlow \/ RelayCloses
Socket == OnMessage \/ OnClose \/ OnError
SlicePump == SliceCallback \/ AdmitSlice \/ SlicesEnd
PumpLoop == Poll \/ Decode \/ DecodeCloses \/ PumpEnd
JavaPump == WakeCallback \/ FramePump \/ PumpLoop
Client == ClientTick \/ Disconnect
Retire == RetireRetry \/ finalizeRemoteCloseRetire

Next == Relay \/ Socket \/ SlicePump \/ JavaPump \/ Client \/ Retire

Spec == Init /\ [][Next]_vars

(* The page serves its callbacks in order, so one that was posted runs even *)
(* though others keep it waiting while they run; the socket delivers what  *)
(* was sent, and the client keeps handling packets.  Nothing depends on    *)
(* frames: FramePump is not fair (a nested call is skipped).               *)
Fairness ==
    /\ WF_vars(RelayTakesFlow)
    /\ SF_vars(OnMessage)
    /\ SF_vars(SliceCallback) /\ WF_vars(AdmitSlice \/ SlicesEnd)
    /\ SF_vars(WakeCallback) /\ WF_vars(PumpLoop)
    /\ SF_vars(ClientTick)
    /\ SF_vars(Retire)
FairSpec == Spec /\ Fairness

-----------------------------------------------------------------------------
(* Properties *)

\* Position in the stream of a slice: slices of earlier frames, and its own.
Before == [f \in 0 .. Len(sent) |->
             LET sum[i \in 0 .. f] == IF i = 0 THEN 0 ELSE sum[i - 1] + sent[i]
             IN  sum[f]]
Position(slice) == Before[slice[1] - 1] + slice[2]

\* The relay's limit on the size of a frame.
Widest == CHOOSE widest \in Sizes : \A size \in Sizes : size <= widest

(* What was cut into slices, queued, paused and resumed reaches the        *)
(* decoder as one ordered stream: each slice once, none skipped, and none  *)
(* after the channel has ended.                                            *)
Ordered == INSTANCE OrderedRelay WITH
    Length    <- Widest * FrameBudget,
    arrived   <- Before[received],
    taken     <- Len(decoded),
    delivered <- [i \in 1 .. Len(decoded) |-> Position(decoded[i])],
    answered  <- {},
    open      <- ended = "no"
ImplementsRelay == Ordered!Spec

(* A channel that ended because it was drained has decoded everything the  *)
(* relay sent before its close: the retirement and the pump's own close    *)
(* look at all the places where input may still wait.                      *)
DrainedKeepsTail ==
    ended = "drained" =>
      received = Len(sent) /\ Len(decoded) = Before[Len(sent)]

(* The packets waiting for the client are bounded by the exact queue's     *)
(* watermark and one slice, however much input waits behind them: the      *)
(* pause is looked at before every slice, not once per turn.               *)
PacketsBounded == packets < PacketHigh + MaxYield

(* Nothing queued is forgotten: between events, a slice waits for a wakeup *)
(* that is pending, a frame for a slice callback or for the slices before  *)
(* it, and otherwise the exact queue is paused, which a tick will end.     *)
BacklogHasTurn ==
    Quiet /\ queue.status /= "disposed" /\ javaOpen =>
      /\ queue.inbound /= <<>> => wake \/ exactPaused
      /\ queue.pending /= <<>> =>
           queue.slicing /= "none" \/ queue.inbound /= <<>> \/ exactPaused
      /\ exactPaused => packets > PacketLow

(* Every queue keeps its limit, in particular the decoded packets.         *)
InputIsBounded == TypeOK /\ PacketsBounded

(* A channel whose relay was told to pause still holds input or packets of *)
(* its own that will, once drained, resume it.                             *)
PauseHasDrain ==
    Quiet /\ queue.status = "connected" /\ queue.flowPaused =>
      exactPaused \/ HasPending(queue)

(* Neither input nor a pause waits, between events, for nothing.           *)
NeverStuck == BacklogHasTurn /\ PauseHasDrain

(* Every frame the page was given is decoded, unless the channel ends.     *)
FramesAreDecoded ==
    \A f \in Frames :
      (received >= f) ~>
        (ended /= "no" \/ (f <= Len(sent) /\ Len(decoded) >= Before[f]))

(* A relay that was paused is resumed, unless the entry is closed.         *)
PauseIsLifted == relayPaused ~> (~relayPaused \/ queue.status /= "connected")

(* Input flows: what was received is decoded and what was paused resumed.  *)
InputFlows == FramesAreDecoded /\ PauseIsLifted

(* A closed entry is retired and takes its Java channel with it: it leaves *)
(* neither the bridge's map nor channels[] with a dead channel.            *)
ClosedIsRetired ==
    (queue.status = "closed") ~> (queue.status = "disposed" /\ ~javaOpen)

(* The channel makes progress to its end: input flows, and what is closed  *)
(* is retired.                                                             *)
Progress == InputFlows /\ ClosedIsRetired
=============================================================================
