------------------------------ MODULE PaperGateway ------------------------------
(***************************************************************************)
(* GaiusWebSocketGateway and the plugin that owns it: the start and the    *)
(* shutdown of the gateway on the server's main thread, the callbacks of   *)
(* the WebSocket library, and one relay thread per session, which opens    *)
(* the TCP socket to the Minecraft server and copies it to the browser.    *)
(*                                                                         *)
(* Threads: the main thread (onEnable, onDisable, shutdown), the library's *)
(* selector, for each connection a worker that runs its message callbacks  *)
(* one after the other and whichever thread notices its end (onClose,      *)
(* onError), and the session's relay thread.  The library delivers the end *)
(* of a connection after its onOpen has returned, and at any time during a *)
(* message callback.                                                       *)
(*                                                                         *)
(* The field Session.socket is neither volatile nor guarded: the relay     *)
(* thread's store may become visible only after its next read of `closed`. *)
(***************************************************************************)
EXTENDS Naturals, FiniteSets

CONSTANTS
    Conns,            \* WebSocket connections, each used once
    MaxConnections    \* maximumConnections

ASSUME BoundsAssumption ==
    IsFiniteSet(Conns) /\ MaxConnections \in Nat \ {0}

VARIABLES
    \* the gateway
    main,         \* where the main thread is
    then,         \* what the main thread does after shutdown
    selector,     \* the library's thread
    started, latch, failure, requested, complete,
    libClosed,    \* the library's stop has been called
    sessions,     \* keys of the map of sessions
    toClose,      \* shutdown's copy of it
    \* one connection and its session
    ws,           \* "none" (not yet) | "open" | "closing" | "closed"
    handler,      \* onClose or onError has removed the session and will close it
    job,          \* the callback the worker is in
    connected, closed, paused,
    relay,        \* where the relay thread is
    socket,       \* "none" | "open" | "closed"
    published,    \* the field socket is visible to other threads
    output,       \* the field output is set
    lock,         \* holder of outputLock
    closing,      \* progress of close(): "no" | "begun" | "yes"
    closer,       \* the thread that runs close()
    missed,       \* close() read the field before the store was visible
    extra,        \* chunks sent since the browser asked for a pause
    buffered      \* the WebSocket has unsent bytes

gatewayVars == <<main, then, selector, started, latch, failure, requested,
                 complete, libClosed, toClose>>
closeVars == <<closed, closing, closer, missed>>
relayVars == <<relay, socket, published, output, lock, extra, buffered>>
workerVars == <<job, connected, paused>>
connVars == <<ws, handler, sessions>>
vars == <<gatewayVars, closeVars, relayVars, workerVars, connVars>>

Init ==
    /\ main = "enabling" /\ then = "none" /\ selector = "off"
    /\ started = FALSE /\ latch = FALSE /\ failure = FALSE
    /\ requested = FALSE /\ complete = FALSE /\ libClosed = FALSE
    /\ sessions = {} /\ toClose = {}
    /\ ws = [c \in Conns |-> "none"]
    /\ job = [c \in Conns |-> "none"]
    /\ relay = [c \in Conns |-> "none"]
    /\ socket = [c \in Conns |-> "none"]
    /\ closing = [c \in Conns |-> "no"]
    /\ closer = [c \in Conns |-> "none"]
    /\ lock = [c \in Conns |-> "free"]
    /\ extra = [c \in Conns |-> 0]
    /\ handler = [c \in Conns |-> FALSE]
    /\ connected = [c \in Conns |-> FALSE]
    /\ closed = [c \in Conns |-> FALSE]
    /\ paused = [c \in Conns |-> FALSE]
    /\ published = [c \in Conns |-> FALSE]
    /\ output = [c \in Conns |-> FALSE]
    /\ missed = [c \in Conns |-> FALSE]
    /\ buffered = [c \in Conns |-> FALSE]

Set(f, c, v) == [f EXCEPT ![c] = v]

\* WebSocket.close: an open connection starts the closing handshake.
WsClosed(c) ==
    [ws EXCEPT ![c] = IF @ = "open" THEN "closing" ELSE @]

---------------------------------------------------------------------------
\* Session.close

\* The thread that wins the compareAndSet closes the session.
TryClose(c, who) ==
    IF closed[c] THEN UNCHANGED closeVars
    ELSE /\ closed' = Set(closed, c, TRUE)
         /\ closing' = Set(closing, c, "begun")
         /\ closer' = Set(closer, c, who)
         /\ UNCHANGED missed

\* It wakes the paused relay thread, reads the field socket and closes what it
\* finds there, and the WebSocket.
CloseTargetMutant(c) ==   \* Variant: waits for a write that blocks.
    /\ closing[c] = "begun" /\ lock[c] = "free"
    /\ closing' = Set(closing, c, "yes")
    /\ socket' = IF published[c] THEN Set(socket, c, "closed") ELSE socket
    /\ missed' = Set(missed, c, socket[c] = "open" /\ ~published[c])
    /\ ws' = WsClosed(c)
    /\ UNCHANGED <<closed, closer, relay, published, output, lock, extra, buffered,
                   gatewayVars, workerVars, sessions, handler>>
CloseTarget(c) ==
    /\ closing[c] = "begun"
    /\ closing' = Set(closing, c, "yes")
    /\ socket' = IF published[c] THEN Set(socket, c, "closed") ELSE socket
    /\ missed' = Set(missed, c, socket[c] = "open" /\ ~published[c])
    /\ ws' = WsClosed(c)
    /\ UNCHANGED <<closed, closer, relay, published, output, lock, extra, buffered,
                   gatewayVars, workerVars, sessions, handler>>

---------------------------------------------------------------------------
\* Start and readiness

Start ==
    /\ main = "enabling"
    /\ main' = "await" /\ selector' = "setup"
    /\ UNCHANGED <<then, started, latch, failure, requested, complete, libClosed,
                   toClose, closeVars, relayVars,
                   workerVars, connVars>>

SelectorStep(next) ==
    /\ selector' = next
    /\ UNCHANGED <<main, then, requested, complete, libClosed,
                   toClose, closeVars, relayVars, workerVars, connVars>>

\* onStart sets started and then releases the latch.
OnStart ==
    \/ /\ selector = "setup" /\ ~libClosed /\ SelectorStep("starting")
       /\ started' = TRUE /\ UNCHANGED <<latch, failure>>
    \/ /\ selector = "starting" /\ SelectorStep("running")
       /\ latch' = TRUE /\ UNCHANGED <<started, failure>>

\* onError without a connection: the port cannot be bound.
OnStartupError ==
    /\ selector = "setup" /\ ~libClosed
    /\ SelectorStep("ended")
    /\ IF ~started THEN failure' = TRUE /\ latch' = TRUE
       ELSE UNCHANGED <<failure, latch>>
    /\ UNCHANGED started

\* The library's loop ends after stop, and does not begin after it.
SelectorEnds ==
    /\ libClosed /\ selector \in {"setup", "running"}
    /\ SelectorStep("ended")
    /\ UNCHANGED <<started, latch, failure>>

MainStep(pc, next) ==
    /\ main' = pc /\ then' = next
    /\ UNCHANGED <<selector, started, closeVars, relayVars,
                   workerVars>>

CallShutdown(next) == MainStep("flag", next)

\* awaitReady: the latch ends the wait, or its timeout, or an interrupt of the
\* main thread.
AwaitReady ==
    /\ main = "await"
    /\ \/ latch /\ MainStep("check", then)
       \/ CallShutdown("throw")
    /\ UNCHANGED <<latch, failure, requested, complete, libClosed, toClose, connVars>>

CheckReady ==
    /\ main = "check"
    /\ \/ failure /\ CallShutdown("throw")
       \/ ~failure /\ requested /\ MainStep("throw", "none")
       \/ ~failure /\ ~requested /\ ~started /\ CallShutdown("throw")
       \/ ~failure /\ ~requested /\ started /\ MainStep("enabled", "none")
    /\ UNCHANGED <<latch, failure, requested, complete, libClosed,
                   toClose, connVars>>

\* onEnable's catch block, and onDisable.
Disable ==
    /\ \/ main = "throw" /\ CallShutdown("failed")
       \/ main = "enabled" /\ CallShutdown("disabled")
    /\ UNCHANGED <<latch, failure, requested, complete, libClosed,
                   toClose, connVars>>

---------------------------------------------------------------------------
\* shutdown

\* A start that is still awaited is told.
RequestShutdown ==
    /\ main = "flag"
    /\ requested' = TRUE
    /\ MainStep("snapshot", then)
    /\ IF ~started /\ ~latch THEN failure' = TRUE /\ latch' = TRUE
       ELSE UNCHANGED <<failure, latch>>
    /\ UNCHANGED <<complete, libClosed, toClose, connVars>>

\* Under lifecycleLock.
SnapshotSessions ==
    /\ main = "snapshot"
    /\ toClose' = sessions /\ sessions' = {}
    /\ MainStep("closeEach", then)
    /\ UNCHANGED <<latch, failure, requested, complete, libClosed,
                   ws, handler>>

\* One session after the other; the next one when close() has returned.
MainCloses ==
    /\ main = "closeEach"
    /\ \A c \in Conns : closer[c] = "main" => closing[c] = "yes"
    /\ \E c \in toClose :
          /\ toClose' = toClose \ {c}
          /\ TryClose(c, "main")
    /\ UNCHANGED <<main, then, selector, started, latch, failure, requested, complete,
                   libClosed, relayVars, workerVars, connVars>>

ShutdownReturns == MainStep(then, "none")

\* stop(5000): the first call closes what is connected and waits for the
\* selector, a later one returns at once.
StopLibrary ==
    /\ main = "closeEach" /\ toClose = {}
    /\ \A c \in Conns : closer[c] = "main" => closing[c] = "yes"
    /\ IF complete \/ libClosed
       THEN /\ complete' = TRUE /\ ShutdownReturns
            /\ UNCHANGED <<libClosed, ws>>
       ELSE /\ libClosed' = TRUE
            /\ ws' = [c \in Conns |-> WsClosed(c)[c]]
            /\ MainStep("join", then) /\ UNCHANGED complete
    /\ UNCHANGED <<latch, failure, requested, toClose, sessions, handler>>

\* The wait ends with the selector or its timeout; an interrupt ends it without
\* completing the shutdown.
Join ==
    /\ main = "join"
    /\ complete' \in BOOLEAN
    /\ ShutdownReturns
    /\ UNCHANGED <<latch, failure, requested, libClosed, toClose, connVars>>

---------------------------------------------------------------------------
\* Callbacks of the library

\* The handshake is complete and a worker has entered onOpen.
Accept(c) ==
    /\ ws[c] = "none" /\ selector = "running"
    /\ ws' = Set(ws, c, "open") /\ job' = Set(job, c, "open")
    /\ UNCHANGED <<connected, paused, handler, sessions, gatewayVars,
                   closeVars, relayVars>>

\* The part of onOpen under lifecycleLock; an endpoint or an origin that is not
\* allowed is refused like a gateway that is full or shuts down.
MayOpen == ~requested /\ Cardinality(sessions) < MaxConnections

OnOpen(c) ==
    /\ job[c] = "open"
    /\ job' = Set(job, c, "none")
    /\ \/ /\ MayOpen
          /\ sessions' = sessions \cup {c} /\ UNCHANGED ws
       \/ ws' = WsClosed(c) /\ UNCHANGED sessions
    /\ UNCHANGED <<connected, paused, handler, gatewayVars, closeVars,
                   relayVars>>

\* onMessage looks its session up; a text that is no control message, a binary
\* message too large or one before connect closes the WebSocket.
OnMessage(c, kind) ==
    /\ ws[c] = "open" /\ job[c] = "none"
    /\ closer[c] = "worker" => closing[c] = "yes"
    /\ \/ /\ c \in sessions
          /\ kind = "write" => connected[c]
          /\ job' = Set(job, c, kind) /\ UNCHANGED ws
       \/ ws' = WsClosed(c) /\ UNCHANGED job
    /\ UNCHANGED <<connected, paused, handler, sessions, gatewayVars,
                   closeVars, relayVars>>

\* Session.connect: a second connect, a wrong token or target closes the
\* WebSocket; otherwise "connecting" is sent and the relay thread started.
WorkerConnects(c) ==
    /\ job[c] = "connect"
    /\ job' = Set(job, c, "none")
    /\ connected' = Set(connected, c, TRUE)
    /\ \/ ~connected[c] /\ ws[c] = "open"
          /\ relay' = Set(relay, c, "new") /\ UNCHANGED ws
       \/ ws' = WsClosed(c) /\ UNCHANGED relay
    /\ UNCHANGED <<paused, handler, sessions, socket, published, output,
                   lock, extra, buffered, gatewayVars, closeVars>>

WorkerSetsFlow(c) ==
    /\ job[c] = "flow"
    /\ job' = Set(job, c, "none")
    /\ \E wanted \in BOOLEAN :
          /\ paused' = Set(paused, c, wanted)
          /\ extra' = IF wanted = paused[c] THEN extra ELSE Set(extra, c, 0)
    /\ UNCHANGED <<connected, relay, socket, published, output, lock, buffered,
                   gatewayVars, closeVars, connVars>>

\* Session.write on the worker: it takes outputLock, and may block in it as
\* long as the server does not read.
WorkerLocks(c) ==
    /\ job[c] = "write" /\ lock[c] = "free" /\ output[c]
    /\ lock' = Set(lock, c, "worker")
    /\ job' = Set(job, c, "writing")
    /\ UNCHANGED <<connected, paused, relay, socket, published, output, extra,
                   buffered, gatewayVars, closeVars, connVars>>

WorkerWrites(c) ==
    /\ job[c] = "writing" /\ socket[c] = "open"
    /\ lock' = Set(lock, c, "free")
    /\ job' = Set(job, c, "none")
    /\ UNCHANGED <<connected, paused, relay, socket, published, output, extra,
                   buffered, gatewayVars, closeVars, connVars>>

\* The write throws, or finds no output: the session is closed.
WriteThrows(c) ==
    /\ \/ job[c] = "writing" /\ lock' = Set(lock, c, "free")
       \/ job[c] = "write" /\ lock[c] = "free" /\ ~output[c] /\ UNCHANGED lock
    /\ job' = Set(job, c, "none")
    /\ ws' = WsClosed(c)
    /\ TryClose(c, "worker")
    /\ UNCHANGED <<connected, paused, handler, sessions, gatewayVars, relay,
                   socket, published, output, extra, buffered>>

Remove(c) ==
    /\ sessions' = sessions \ {c}
    /\ handler' = Set(handler, c, handler[c] \/ c \in sessions)
    /\ UNCHANGED <<gatewayVars, closeVars, relayVars, workerVars>>

\* The connection is over and onClose takes its session out of the map.
ConnectionEnds(c) ==
    /\ ws[c] \in {"open", "closing"} /\ job[c] # "open"
    /\ ws' = Set(ws, c, "closed")
    /\ Remove(c)

\* onError for a connection that is still there.
OnError(c) ==
    /\ ws[c] \in {"open", "closing"} /\ c \in sessions
    /\ UNCHANGED ws
    /\ Remove(c)

HandlerCloses(c) ==
    /\ handler[c]
    /\ handler' = Set(handler, c, FALSE)
    /\ TryClose(c, "handler")
    /\ UNCHANGED <<ws, sessions, gatewayVars, relayVars, workerVars>>

---------------------------------------------------------------------------
\* The relay thread

RelayGoes(c, from, to) ==
    /\ relay[c] = from /\ relay' = Set(relay, c, to)
    /\ UNCHANGED <<gatewayVars, workerVars>>

\* An exception the thread catches; the WebSocket is closed unless the session
\* is closed already.
Throws(c, from) ==
    /\ RelayGoes(c, from, "finally")
    /\ ws' = IF closed[c] THEN ws ELSE WsClosed(c)
    /\ UNCHANGED <<socket, published, output, lock, extra, buffered, closeVars,
                   sessions, handler>>

Goes(c, from, to) ==
    /\ RelayGoes(c, from, to)
    /\ UNCHANGED <<socket, published, output, lock, extra, buffered, closeVars,
                   connVars>>

RelayCreates(c) ==
    /\ RelayGoes(c, "new", "created")
    /\ socket' = Set(socket, c, "open")
    /\ UNCHANGED <<published, output, lock, extra, buffered, closeVars, connVars>>

\* The store to the field socket becomes visible.
Publish(c) ==
    /\ socket[c] # "none" /\ ~published[c]
    /\ published' = Set(published, c, TRUE)
    /\ UNCHANGED <<gatewayVars, closeVars, workerVars, connVars, relay, socket,
                   output, lock, extra, buffered>>

\* Closed before there was a socket to close: the thread closes it itself.
CheckCreatedMutant(c) == Goes(c, "created", "connect")   \* Variant: no check.
CheckCreated(c) ==
    \/ ~closed[c] /\ Goes(c, "created", "connect")
    \/ /\ closed[c] /\ RelayGoes(c, "created", "finally")
       /\ socket' = Set(socket, c, "closed")
       /\ UNCHANGED <<published, output, lock, extra, buffered, closeVars, connVars>>

\* Socket.connect fails, runs into its timeout or succeeds; setting the socket's
\* options before it orders the store to the field.
RelayConnects(c) ==
    /\ published[c]
    /\ \/ socket[c] = "open" /\ Goes(c, "connect", "output")
       \/ Throws(c, "connect")

\* closed is tested again, before and under outputLock.
RelaySetsOutput(c) ==
    /\ lock[c] = "free"
    /\ \/ closed[c] /\ Goes(c, "output", "finally")
       \/ ~closed[c] /\ socket[c] = "closed" /\ Throws(c, "output")
       \/ /\ ~closed[c] /\ socket[c] = "open"
          /\ RelayGoes(c, "output", "announce")
          /\ output' = Set(output, c, TRUE)
          /\ UNCHANGED <<socket, published, lock, extra, buffered, closeVars, connVars>>

\* "connected" is sent; a WebSocket that is not open any more throws.
RelayAnnounces(c) ==
    Goes(c, "announce",
         IF ws[c] = "open" /\ socket[c] = "open" THEN "loop" ELSE "finally")

\* copyServerToBrowser: a failed answer has closed the session before the loop
\* is tested again.
RelayLoops(c) ==
    /\ closer[c] = "relay" => closing[c] = "yes"
    /\ Goes(c, "loop", IF closed[c] THEN "finally" ELSE "await")

\* The wait is woken by setPaused and close and looks again every second.
MayReadMutant(c) == TRUE   \* Variant: awaitReadable is not called.
MayRead(c) == ~paused[c] \/ closed[c]

RelayAwaits(c) == MayRead(c) /\ Goes(c, "await", "read")

\* A read returns a chunk, a keepalive frame on its own, or the end; it throws
\* when the socket is closed under it.
RelayReads(c) ==
    /\ socket[c] = "open"
    /\ \E next \in {"send", "answer", "finally"} : Goes(c, "read", next)
ReadThrows(c) == Throws(c, "read")

\* The chunk waits until the WebSocket has sent the one before it.
RelaySends(c) ==
    \/ /\ ~buffered[c] /\ ~closed[c] /\ ws[c] = "open"
       /\ RelayGoes(c, "send", "loop")
       /\ buffered' = Set(buffered, c, TRUE)
       /\ extra' = IF paused[c] /\ extra[c] < 2 THEN Set(extra, c, extra[c] + 1)
                   ELSE extra
       /\ UNCHANGED <<socket, published, output, lock, closeVars, connVars>>
    \/ /\ closed[c] \/ (~buffered[c] /\ ws[c] # "open")
       /\ Goes(c, "send", "finally")

BufferDrains(c) ==
    /\ buffered[c] /\ ws[c] # "closed"
    /\ buffered' = Set(buffered, c, FALSE)
    /\ UNCHANGED <<gatewayVars, closeVars, workerVars, connVars, relay, socket,
                   published, output, lock, extra>>

\* The keepalive is written back under outputLock.
RelayLocks(c) ==
    /\ lock[c] = "free" /\ RelayGoes(c, "answer", "answering")
    /\ lock' = Set(lock, c, "relay")
    /\ UNCHANGED <<socket, published, output, extra, buffered, closeVars, connVars>>

RelayAnswers(c) ==
    /\ socket[c] = "open" /\ RelayGoes(c, "answering", "loop")
    /\ lock' = Set(lock, c, "free")
    /\ UNCHANGED <<socket, published, output, extra, buffered, closeVars, connVars>>

AnswerThrows(c) ==
    /\ RelayGoes(c, "answering", "loop")
    /\ lock' = Set(lock, c, "free")
    /\ ws' = WsClosed(c) /\ TryClose(c, "relay")
    /\ UNCHANGED <<socket, published, output, extra, buffered, sessions, handler>>

\* The finally block closes the session, unless another thread has begun to.
RelayFinally(c) ==
    /\ RelayGoes(c, "finally", "ending")
    /\ TryClose(c, "relay")
    /\ UNCHANGED <<socket, published, output, lock, extra, buffered, connVars>>

RelayEnds(c) ==
    /\ closer[c] = "relay" => closing[c] = "yes"
    /\ Goes(c, "ending", "done")

---------------------------------------------------------------------------
Main ==
    \/ Start \/ AwaitReady \/ CheckReady \/ RequestShutdown
    \/ SnapshotSessions \/ MainCloses \/ StopLibrary \/ Join

Worker(c) ==
    \/ OnOpen(c) \/ WorkerConnects(c) \/ WorkerLocks(c)
    \/ (job[c] = "write" /\ WriteThrows(c))

Relay(c) ==
    \/ RelayCreates(c) \/ Publish(c) \/ CheckCreated(c) \/ RelayConnects(c)
    \/ RelaySetsOutput(c) \/ RelayAnnounces(c)
    \/ RelayLoops(c) \/ RelayAwaits(c)
    \/ RelaySends(c) \/ RelayLocks(c) \/ RelayFinally(c) \/ RelayEnds(c)

Environment(c) ==
    \/ Accept(c) \/ ConnectionEnds(c) \/ OnError(c)
    \/ \E kind \in {"connect", "flow", "write"} : OnMessage(c, kind)
    \/ WorkerSetsFlow(c) \/ WorkerWrites(c) \/ WriteThrows(c)
    \/ RelayReads(c) \/ ReadThrows(c) \/ RelayAnswers(c) \/ AnswerThrows(c)
    \/ BufferDrains(c)

Next ==
    \/ Main \/ Disable \/ OnStart \/ OnStartupError \/ SelectorEnds
    \/ \E c \in Conns : \/ CloseTarget(c) \/ Worker(c) \/ HandlerCloses(c) \/ Relay(c)
                        \/ Environment(c)

Spec == Init /\ [][Next]_vars

\* Threads that are not blocked run.  A read or a write may block for ever, but
\* not on a closed socket; a closing handshake ends by the library's timeout.
FairSpec ==
    /\ Spec
    /\ WF_vars(Main \/ (main = "throw" /\ Disable))
    /\ WF_vars(OnStart \/ SelectorEnds)
    /\ \A c \in Conns :
          /\ WF_vars(CloseTarget(c))
          /\ WF_vars(Worker(c) \/ (socket[c] = "closed" /\ WriteThrows(c)))
          /\ WF_vars(\/ Relay(c)
                     \/ socket[c] = "closed" /\ (ReadThrows(c) \/ AnswerThrows(c)))
          /\ WF_vars(HandlerCloses(c) \/ (ws[c] = "closing" /\ ConnectionEnds(c)))

---------------------------------------------------------------------------
\* Every variable keeps its type, the map its capacity, and the bytes of a
\* message and of an answered keepalive are written by one thread at a time.
TypeOK ==
    /\ main \in {"enabling", "await", "check", "enabled", "throw", "failed",
                 "disabled", "flag", "snapshot", "closeEach", "join"}
    /\ then \in {"none", "throw", "failed", "disabled"}
    /\ selector \in {"off", "setup", "starting", "running", "ended"}
    /\ {started, latch, failure, requested, complete, libClosed}
          \subseteq BOOLEAN
    /\ sessions \subseteq Conns /\ toClose \subseteq Conns
    /\ Cardinality(sessions) <= MaxConnections
    /\ ws \in [Conns -> {"none", "open", "closing", "closed"}]
    /\ job \in [Conns -> {"none", "open", "connect", "flow", "write", "writing"}]
    /\ relay \in [Conns -> {"none", "new", "created", "connect", "output", "announce", "loop", "await", "read",
                            "send", "answer", "answering", "finally",
                            "ending", "done"}]
    /\ socket \in [Conns -> {"none", "open", "closed"}]
    /\ lock \in [Conns -> {"free", "worker", "relay"}]
    /\ closing \in [Conns -> {"no", "begun", "yes"}]
    /\ closer \in [Conns -> {"none", "relay", "worker", "handler", "main"}]
    /\ extra \in [Conns -> 0 .. 2]
    /\ \A c \in Conns : lock[c] = "worker" <=> job[c] = "writing"
    /\ \A c \in Conns : lock[c] = "relay" <=> relay[c] = "answering"
    /\ \A f \in {handler, connected, closed, paused, published, output, missed,
                 buffered} : f \in [Conns -> BOOLEAN]

\* Neither the thread that opened it nor the one that closed the session leaves
\* a TCP socket behind (README.md: closing the WebSocket also closes a socket
\* that is still connecting), except when close() read the unguarded field
\* before the store of a socket that was just created became visible.
NoSocketLeft ==
    \A c \in Conns :
        relay[c] = "done" /\ closing[c] = "yes" => socket[c] # "open" \/ missed[c]

\* Once shutdown has returned no session is left, none comes back, and every
\* relay thread that still runs works for a session closed or about to be.
ShutdownClosesAll ==
    complete \/ main \in {"failed", "disabled"} =>
        /\ sessions = {}
        /\ \A c \in Conns :
              relay[c] \in {"none", "done"} \/ closed[c] \/ handler[c]

\* Neither a session nor the gateway leaves anything behind.
NothingLeft == NoSocketLeft /\ ShutdownClosesAll

\* After the browser's request to pause, the relay sends at most the one chunk
\* it was about to read.
PauseBounds == \A c \in Conns : extra[c] <= 1

\* Once close() is done no thread of the session blocks: the socket under one that
\* reads or writes is closed, so that the call throws (Session.close wakes the
\* relay thread, and a write that another thread waits for).
NobodyBlocks ==
    \A c \in Conns :
        closing[c] = "yes" /\ (job[c] = "writing" \/ relay[c] \in {"read", "answering"})
            => socket[c] = "closed"

\* A session's two threads keep to its locks, its pause takes effect, and its end
\* reaches them.
SessionIsSound == TypeOK /\ PauseBounds /\ NobodyBlocks

\* A closed session's thread ends, also when the browser has paused it, when a
\* write on another thread blocks or when the browser does not read.
ThreadEnds ==
    \A c \in Conns :
        closed[c] /\ relay[c] # "none" ~> relay[c] = "done"

\* A session whose relay is over does not keep its slot.
SlotIsFreed ==
    \A c \in Conns : relay[c] = "done" ~> c \notin sessions

\* A gateway that failed to start, or was too slow, leaves no listening thread.
FailedStartStops == main = "failed" ~> selector \in {"off", "ended"}

\* No thread outlives what it works for, and none keeps a slot of the map.
ThreadsEnd == ThreadEnds /\ SlotIsFreed /\ FailedStartStops

=============================================================================
