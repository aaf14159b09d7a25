-------------------------- MODULE ClientFrameScheduler --------------------------
(***************************************************************************)
(* The process-wide queue of tunnels whose browser bytes wait for          *)
(* inspection (apps/bridge/dist/main.js, clientFrameReadyQueue and the     *)
(* scheduling of drainClientFrameBuffer).                                  *)
(*                                                                         *)
(* One setImmediate serves all tunnels: a turn takes the first tunnel,     *)
(* drains it within a budget and puts it behind the others if it has work  *)
(* left.  A turn runs inside one callback; it is cut into steps here, and  *)
(* nothing else happens between them, because its own calls reach back     *)
(* into the queue while clientFrameSchedulerRunning is set.                *)
(***************************************************************************)
EXTENDS Naturals, Sequences

CONSTANTS
    Tunnels,    \* the connected tunnels
    Budget,     \* maximumClientFrameDrainFrames
    WorkLimit   \* complete frames a parser may hold before its high-water mark

ASSUME BudgetAssumption == Budget \in Nat \ {0}
ASSUME WorkLimitAssumption == WorkLimit \in Nat \ {0}

VARIABLES
    queue,       \* clientFrameReadyQueue
    ready,       \* clientFrameReadySet
    scheduled,   \* clientFrameSchedulerScheduled: the setImmediate is pending
    step,        \* where the running turn is; "idle" when none runs
    current,     \* the tunnel of the running turn
    work,        \* per tunnel: complete frames in clientFrameBuffer
    partial,     \* tunnels whose buffer ends in an incomplete frame
    inspecting,  \* tunnels with framing enabled and inspection not disabled
    opaque,      \* tunnels with framing disabled for good
    flagged,     \* tunnels with clientFrameDrainScheduled
    retired      \* tunnels whose registration is retired

queueVars  == <<queue, ready, scheduled>>
tunnelVars == <<work, partial, inspecting, opaque, flagged, retired>>
vars == <<queueVars, step, current, tunnelVars>>

TypeOK ==
    /\ queue \in Seq(Tunnels) /\ ready \subseteq Tunnels
    /\ scheduled \in BOOLEAN
    /\ step \in {"idle", "run", "probe", "end"} /\ current \in Tunnels
    /\ work \in [Tunnels -> 0 .. WorkLimit]
    /\ partial \subseteq Tunnels
    /\ inspecting \subseteq Tunnels /\ opaque \subseteq Tunnels
    /\ flagged \subseteq Tunnels /\ retired \subseteq Tunnels

Init ==
    /\ queue = <<>> /\ ready = {} /\ scheduled = FALSE
    /\ step = "idle" /\ current \in Tunnels
    /\ work = [t \in Tunnels |-> 0] /\ partial = {}
    /\ inspecting = Tunnels /\ opaque = {} /\ flagged = {} /\ retired = {}

-----------------------------------------------------------------------------
(* The queue.                                                              *)

\* Variant: a tunnel with work left goes back to the front.
EnqueueMutant(t) ==
    IF t \in retired \/ t \in ready THEN UNCHANGED queueVars
    ELSE /\ ready' = ready \cup {t} /\ queue' = <<t>> \o queue
         /\ scheduled' = (scheduled \/ step = "idle")

\* enqueueClientFrameReady and scheduleClientFrameReadyQueue.
Enqueue(t) ==
    IF t \in retired \/ t \in ready THEN UNCHANGED queueVars
    ELSE /\ ready' = ready \cup {t} /\ queue' = Append(queue, t)
         /\ scheduled' = (scheduled \/ step = "idle")

Without(q, t) ==
    LET At(i) == q[i] = t IN
    IF \E i \in DOMAIN q : At(i)
    THEN LET i == CHOOSE i \in DOMAIN q : At(i)
         IN SubSeq(q, 1, i - 1) \o SubSeq(q, i + 1, Len(q))
    ELSE q

\* removeClientFrameReady: an immediate that has nothing left to do is cleared.
RemoveReady(t) ==
    /\ ready' = ready \ {t} /\ queue' = Without(queue, t)
    /\ scheduled' = (scheduled /\ queue' # <<>>)

\* Variant: the registration is retired where it stands in the queue.
RetireMutant(t) ==
    /\ retired' = retired \cup {t}
    /\ UNCHANGED <<queueVars, opaque>>
    /\ flagged' = flagged \ {t} /\ inspecting' = inspecting \ {t}
    /\ work' = [work EXCEPT ![t] = 0] /\ partial' = partial \ {t}

\* clearClientFrameState, as closeBoth calls it.
Retire(t) ==
    /\ retired' = retired \cup {t}
    /\ RemoveReady(t)
    /\ flagged' = flagged \ {t} /\ inspecting' = inspecting \ {t}
    /\ work' = [work EXCEPT ![t] = 0] /\ partial' = partial \ {t}
    /\ UNCHANGED opaque

\* disableClientFrameParsing: the buffer is dropped, and inspection stops
\* until a recovery or for good.
StopInspecting(t) ==
    /\ inspecting' = inspecting \ {t}
    /\ work' = [work EXCEPT ![t] = 0] /\ partial' = partial \ {t}

\* Variant: the flag is set although the tunnel has nothing to inspect.
ScheduleDrainMutant(t) ==
    IF t \in flagged THEN UNCHANGED <<queueVars, flagged>>
    ELSE /\ flagged' = flagged \cup {t}
         /\ IF t \in inspecting' THEN Enqueue(t) ELSE UNCHANGED queueVars

\* scheduleClientFrameDrain of a live tunnel, over its buffer after the step.
ScheduleDrain(t) ==
    IF t \in flagged \/ t \notin inspecting' \/ (work'[t] = 0 /\ t \notin partial')
    THEN UNCHANGED <<queueVars, flagged>>
    ELSE flagged' = flagged \cup {t} /\ Enqueue(t)

-----------------------------------------------------------------------------
(* Callbacks of a tunnel.                                                  *)

\* nextBytes <= maximumClientFrameParserBytes.
Fits(t, n) == work[t] + n <= WorkLimit

\* The WebSocket message handler of an inspected tunnel: n complete frames
\* arrive and the message may end inside one.  Past the high-water mark the
\* buffer is dropped and inspection stops.
ClientMessage(t) ==
    /\ step = "idle" /\ t \notin retired /\ t \in inspecting
    /\ \E n \in 0 .. WorkLimit, split \in BOOLEAN :
          /\ n > 0 \/ split
          /\ \/ /\ Fits(t, n)
                /\ work' = [work EXCEPT ![t] = @ + n]
                /\ partial' = IF split THEN partial \cup {t} ELSE partial \ {t}
                /\ UNCHANGED inspecting
             \/ /\ work[t] + n >= WorkLimit
                /\ StopInspecting(t)
          /\ ScheduleDrain(t)
    /\ UNCHANGED <<step, current, opaque, retired>>

\* recoverStandaloneClientControlFrame: one whole frame restarts inspection.
RecoverInspection(t) ==
    /\ step = "idle" /\ t \notin retired \cup opaque \cup inspecting
    /\ inspecting' = inspecting \cup {t}
    /\ work' = [work EXCEPT ![t] = 1] /\ partial' = partial \ {t}
    /\ ScheduleDrain(t)
    /\ UNCHANGED <<step, current, opaque, retired>>

\* The message handler or the target's half turns the tunnel opaque.
DisableInspection(t) ==
    /\ step = "idle" /\ t \notin opaque \cup retired
    /\ StopInspecting(t) /\ opaque' = opaque \cup {t}
    /\ UNCHANGED <<queueVars, step, current, flagged, retired>>

\* closeBoth, from any other callback.
Close(t) ==
    /\ step = "idle" /\ t \notin retired
    /\ Retire(t)
    /\ UNCHANGED <<step, current>>

-----------------------------------------------------------------------------
(* One turn: runClientFrameReadyQueue.                                     *)

\* The immediate fires and takes the first tunnel of the queue.
TurnStarts ==
    /\ step = "idle" /\ scheduled
    /\ scheduled' = FALSE
    /\ IF queue = <<>> THEN step' = "end" /\ UNCHANGED <<queue, ready, current>>
       ELSE /\ current' = Head(queue) /\ queue' = Tail(queue)
            /\ ready' = ready \ {current'}
            /\ step' = IF current' \in retired THEN "end" ELSE "run"
    /\ UNCHANGED tunnelVars

\* What is left after draining t: at least one frame is taken if there is one,
\* at most Budget; malformed or encrypted bytes make the tunnel opaque.
Drained(t) ==
    \/ t \notin inspecting /\ UNCHANGED <<work, partial, inspecting, opaque>>
    \/ /\ t \in inspecting
       /\ \E k \in 0 .. Budget :
             /\ k <= work[t] /\ (work[t] > 0 => k > 0)
             /\ work' = [work EXCEPT ![t] = @ - k]
       /\ UNCHANGED <<partial, inspecting, opaque>>
    \/ t \in inspecting /\ StopInspecting(t) /\ opaque' = opaque \cup {t}

\* registration.run: drainClientFrameBuffer within its budget.  A budget that
\* ran out asks for another turn; otherwise the flag stays down.
Run ==
    /\ step = "run" /\ step' = "probe"
    /\ Drained(current)
    /\ \/ /\ current \in inspecting' /\ work[current] > 0
          /\ work'[current] > 0 \/ current \in partial'
          /\ flagged' = flagged \cup {current} /\ Enqueue(current)
       \/ /\ (current \in inspecting') => (work'[current] = 0)
          /\ flagged' = flagged \ {current}
          /\ UNCHANGED queueVars
    /\ UNCHANGED <<current, retired>>

\* hasRunnableWork after the run, and a second enqueue if it holds.
Probe ==
    /\ step = "probe" /\ step' = "end"
    /\ IF current \in inspecting /\ work[current] > 0
       THEN Enqueue(current)
       ELSE UNCHANGED queueVars
    /\ UNCHANGED <<current, tunnelVars>>

\* The run or the probe throws: onError closes the tunnel.
TurnFails ==
    /\ step \in {"run", "probe"} /\ step' = "end"
    /\ Retire(current)
    /\ UNCHANGED current

\* Variant: nothing is scheduled for the tunnels that were queued meanwhile.
TurnEndsMutant ==
    /\ step = "end" /\ step' = "idle"
    /\ UNCHANGED <<queueVars, current, tunnelVars>>

\* The finally block.
TurnEnds ==
    /\ step = "end" /\ step' = "idle"
    /\ scheduled' = (scheduled \/ queue # <<>>)
    /\ UNCHANGED <<queue, ready, current, tunnelVars>>

Turn == TurnStarts \/ Run \/ Probe \/ TurnFails \/ TurnEnds

Next ==
    \/ \E t \in Tunnels : \/ ClientMessage(t) \/ RecoverInspection(t)
                          \/ DisableInspection(t) \/ Close(t)
    \/ Turn

Spec == Init /\ [][Next]_vars

\* Every turn of the event loop runs the pending immediates to completion.
FairSpec == Spec /\ WF_vars(Turn)
-----------------------------------------------------------------------------
(* Properties.                                                             *)

\* The array and the set that makes membership cheap agree, and no tunnel is
\* queued twice (it would get two turns in a rotation).
QueueMatchesSet ==
    /\ ready = {queue[i] : i \in DOMAIN queue}
    /\ \A i, j \in DOMAIN queue : queue[i] = queue[j] => i = j

\* A queued tunnel always has a turn to come, and no immediate fires for an
\* empty queue, however enqueues, removals and turns interleave.
QueueHasTurn ==
    /\ queue # <<>> /\ step = "idle" => scheduled
    /\ scheduled => queue # <<>>

InTurn(t, where) == current = t /\ step \in where

\* No lost wakeup: complete frames always have a queued or running turn.
RunnableIsQueued ==
    \A t \in inspecting : work[t] > 0 => t \in ready \/ InTurn(t, {"run", "probe"})

\* clientFrameDrainScheduled is never left standing without a queued turn: it
\* makes every later message skip the queue.
FlagMeansQueued == \A t \in flagged : t \in ready \/ InTurn(t, {"run"})

\* A closed tunnel is never in the queue again, even when it closes inside its
\* own turn.
RetiredNotQueued == ready \cap retired = {}

\* Array, set and immediate stay one queue of open tunnels through every
\* interleaving of enqueues, turns and closes.
QueueIsSound == QueueMatchesSet /\ QueueHasTurn /\ RetiredNotQueued

\* Work always has a turn to come, and a message that skips the queue because
\* one is flagged is right to.
NoLostWakeup == RunnableIsQueued /\ FlagMeansQueued

Position(q, t) == CHOOSE i \in DOMAIN q : q[i] = t

\* The scheduler's comment on fairness: one burst cannot refresh a tunnel's
\* budget.  A waiting tunnel is never overtaken.
NeverOvertaken ==
    [][\A t \in ready \cap ready' : Position(queue', t) <= Position(queue, t)]_queue

\* A tunnel with complete frames gets a turn, or is closed or made opaque,
\* whatever the other tunnels send.
RunnableGetsTurn ==
    \A t \in Tunnels :
        (t \in inspecting /\ work[t] > 0)
            ~> (InTurn(t, {"run"}) \/ t \notin inspecting)
=============================================================================
